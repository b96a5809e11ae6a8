--------------------------- MODULE GatewayWatcher ---------------------------
(***************************************************************************)
(* How a change of an auth reaches the requests: the watcher (events.go,   *)
(* clients.go, config_reload.go, dispatcher.go) with one auth file, the    *)
(* callbacks of the websocket relay with one runtime auth, and the service *)
(* (service.go) that applies the updates to the auth manager and to the    *)
(* model registry (GatewayRegistry, which this module extends).            *)
(*                                                                         *)
(* Four goroutines find out what has changed: the one that handles file    *)
(* events, the one that loads everything at the start and after a change   *)
(* of the configuration, and the relay's two callbacks.  Each compares     *)
(* under clientsMutex what it has read before, and queues the differences  *)
(* under dispatchMu after it.  Two more carry them on: the dispatch loop,  *)
(* which takes everything that is queued as a batch and puts it into a     *)
(* bounded channel, and the service's consumer.  Requests that end late    *)
(* set marks in the registry.                                              *)
(***************************************************************************)
EXTENDS GatewayRegistry, SequencesExt

CONSTANTS
  File, Relay,       \* the auth of the file and the runtime auth
  Contents,          \* what the file may say
  InitialFiles,      \* what it says at the start, None if it is missing
  RelayAuth,         \* what the runtime auth says
  ProviderOf, ModelsOf,   \* what each of them means to the registry
  QueueSize,         \* capacity of the channel to the service
  MaxActs            \* bound of the model: how often the environment acts

Auths == Contents \cup {RelayAuth}

ASSUME WatcherConstants ==
  /\ File # Relay /\ {File, Relay} = Clients
  /\ RelayAuth \notin Contents /\ None \notin Auths /\ InitialFiles \subseteq Contents \cup {None}
  /\ ProviderOf \in [Auths -> Providers] /\ ModelsOf \in [Auths -> Seq(Models)]
  /\ \A a \in Auths : ModelsOf[a] # <<>>
  /\ QueueSize \in Nat \ {0}

VARIABLES
  file,         \* the content of the auth file
  events,       \* file events that were not handled yet
  hashes,       \* Watcher.lastAuthHashes and fileAuthsByPath: the content they stand for
  known,        \* Watcher.currentAuths
  runtime,      \* Watcher.runtimeAuths
  debouncing,   \* a removal was handled within the last second
  connected,    \* the relay has a session
  at,           \* where each goroutine is, the content it has read, the updates it holds
  pending,      \* Watcher.pendingOrder and pendingUpdates
  batch,        \* what the dispatch loop still has to deliver
  queue,        \* the channel to the service
  job,          \* the update the service applies
  managed,      \* the manager's auths
  late,         \* a request under way: its answer, then the calls to the registry MarkResult has to make
  done,         \* how often the environment has acted
  last,         \* history: the last update queued for each auth
  raced         \* history: one of the races has occurred that can lose a change

watcherVars == <<file, events, hashes, known, runtime, debouncing, connected, at>>
serviceVars == <<pending, batch, queue, job, managed, late>>
vars == <<watcherVars, serviceVars, registryVars, done, last, raced>>

Goroutines == {"events", "reload", "connect", "disconnect"}

\* An update for each auth that has changed: what it says now, None if it is gone
NoUpdates == [c \in {} |-> None]
Resting == [step |-> "idle", read |-> None, force |-> FALSE, updates |-> NoUpdates]
Idle(g) == at[g].step = "idle"

Init ==
  /\ RegistryInit
  /\ file \in InitialFiles
  /\ events = <<>> /\ hashes = None /\ debouncing = FALSE
  /\ known = [c \in Clients |-> None] /\ runtime = None /\ connected = FALSE
  /\ at = [g \in Goroutines |-> IF g = "reload" THEN [Resting EXCEPT !.step = "rescan"] ELSE Resting]
  /\ pending = [order |-> <<>>, updates |-> NoUpdates]
  /\ batch = <<>> /\ queue = <<>>
  /\ job = [step |-> "idle", id |-> None, auth |-> None]
  /\ managed = [c \in Clients |-> [auth |-> None, on |-> FALSE]]
  /\ late = <<>>
  /\ done = 0
  /\ last = [c \in Clients |-> None]
  /\ raced = FALSE

Go(g, step) == at' = [at EXCEPT ![g].step = step]
Read(g, step) == at' = [at EXCEPT ![g].step = step, ![g].read = file]
Rest(g) == at' = [at EXCEPT ![g] = Resting]

\* dispatchAuthUpdates does nothing without updates
Hold(g, updates) ==
  at' = [at EXCEPT ![g] = IF DOMAIN updates = {} THEN Resting
                          ELSE [Resting EXCEPT !.step = "dispatch", !.updates = updates]]

\* A change of the file, a reload, a session or a request
Act == done < MaxActs /\ done' = done + 1

-----------------------------------------------------------------------------
(* The file                                                                *)

WriteFile(content) ==
  /\ Act
  /\ file' = content
  /\ events' = Append(events, "write")
  /\ UNCHANGED <<hashes, known, runtime, debouncing, connected, at, serviceVars, registryVars, last, raced>>

RemoveFile ==
  /\ Act /\ file # None
  /\ file' = None
  /\ events' = Append(events, "remove")
  /\ UNCHANGED <<hashes, known, runtime, debouncing, connected, at, serviceVars, registryVars, last, raced>>

-----------------------------------------------------------------------------
(* handleEvent                                                             *)

\* authFileUnchanged reads the file before it looks up the hash
TakeWrite ==
  /\ Idle("events") /\ events # <<>> /\ Head(events) = "write"
  /\ events' = Tail(events)
  /\ Read("events", "compare")
  /\ UNCHANGED <<file, hashes, known, runtime, debouncing, connected, serviceVars, registryVars, done, last, raced>>

\* A removal waits a moment before it looks; one within a second of another is dropped
TakeRemove ==
  /\ Idle("events") /\ events # <<>> /\ Head(events) = "remove"
  /\ events' = Tail(events)
  /\ debouncing' = TRUE
  /\ IF debouncing THEN UNCHANGED at ELSE Go("events", "stat")
  /\ raced' = (raced \/ debouncing)
  /\ UNCHANGED <<file, hashes, known, runtime, connected, serviceVars, registryVars, done, last>>

WindowEnds ==
  /\ debouncing
  /\ debouncing' = FALSE
  /\ UNCHANGED <<file, events, hashes, known, runtime, connected, at, serviceVars, registryVars, done, last, raced>>

\* If the file is there again, the event was one of a replacement
Stat ==
  /\ at["events"].step = "stat"
  /\ IF file = None THEN Go("events", "forget") ELSE Read("events", "compare")
  /\ UNCHANGED <<file, events, hashes, known, runtime, debouncing, connected, serviceVars, registryVars, done, last, raced>>

Unchanged == at["events"].read # None /\ at["events"].read = hashes

Compare ==
  /\ at["events"].step = "compare"
  /\ IF Unchanged THEN Rest("events") ELSE Go("events", "reopen")
  /\ raced' = (raced \/ (Unchanged /\ known[File] # hashes))
  /\ UNCHANGED <<file, events, hashes, known, runtime, debouncing, connected, serviceVars, registryVars, done, last>>

\* addOrUpdateClient reads it again
Reopen ==
  /\ at["events"].step = "reopen"
  /\ IF file = None THEN Rest("events") ELSE Read("events", "apply")
  /\ UNCHANGED <<file, events, hashes, known, runtime, debouncing, connected, serviceVars, registryVars, done, last, raced>>

Changed(c, auth) == IF known[c] = auth THEN NoUpdates ELSE [d \in {c} |-> auth]

Apply ==
  /\ at["events"].step = "apply"
  /\ IF Unchanged THEN Rest("events") /\ UNCHANGED <<hashes, known>>
     ELSE /\ hashes' = at["events"].read
          /\ known' = [known EXCEPT ![File] = at["events"].read]
          /\ Hold("events", Changed(File, at["events"].read))
  /\ raced' = (raced \/ (Unchanged /\ known[File] # hashes))
  /\ UNCHANGED <<file, events, runtime, debouncing, connected, serviceVars, registryVars, done, last>>

\* Mutant: the hash of a removed file is kept.
ForgetAuthOnly ==
  /\ at["events"].step = "forget"
  /\ IF hashes = None THEN Rest("events") /\ UNCHANGED known
     ELSE /\ known' = [known EXCEPT ![File] = None]
          /\ Hold("events", [c \in {File} |-> None])
  /\ UNCHANGED <<file, events, hashes, runtime, debouncing, connected, serviceVars, registryVars, done, last, raced>>

\* removeClient, for a file that is known
Forget ==
  /\ at["events"].step = "forget"
  /\ IF hashes = None THEN Rest("events") /\ UNCHANGED <<hashes, known>>
     ELSE /\ hashes' = None
          /\ known' = [known EXCEPT ![File] = None]
          /\ Hold("events", [c \in {File} |-> None])
  /\ raced' = (raced \/ (hashes = None /\ {known[File], last[File]} # {None}))
  /\ UNCHANGED <<file, events, runtime, debouncing, connected, serviceVars, registryVars, done, last>>

-----------------------------------------------------------------------------
(* reloadClients                                                           *)

\* At the start the hashes are computed under the mutex
Rescan ==
  /\ at["reload"].step = "rescan"
  /\ hashes' = file
  /\ Go("reload", "snapshot")
  /\ UNCHANGED <<file, events, known, runtime, debouncing, connected, serviceVars, registryVars, done, last, raced>>

\* A changed configuration may force updates, or make those of the file's provider due
ReloadConfig(force, affected) ==
  /\ Idle("reload") /\ Act
  /\ known' = IF affected THEN [known EXCEPT ![File] = None] ELSE known
  /\ at' = [at EXCEPT !["reload"] = [Resting EXCEPT !.step = "snapshot", !.force = force]]
  /\ UNCHANGED <<file, events, hashes, runtime, debouncing, connected, serviceVars, registryVars, last, raced>>

\* refreshAuthState reads the directory without a lock
Snapshot ==
  /\ at["reload"].step = "snapshot"
  /\ Read("reload", "merge")
  /\ UNCHANGED <<file, events, hashes, known, runtime, debouncing, connected, serviceVars, registryVars, done, last, raced>>

Seen(c) == IF c = File THEN at["reload"].read ELSE runtime

\* prepareAuthUpdatesLocked.  If the event for a later change has been handled already,
\* nothing will correct what the snapshot overwrites.
Merge ==
  /\ at["reload"].step = "merge"
  /\ LET due == {c \in Clients : Seen(c) # known[c] \/ (at["reload"].force /\ Seen(c) # None)}
     IN Hold("reload", [c \in due |-> Seen(c)])
  /\ known' = [c \in Clients |-> Seen(c)]
  /\ raced' = (raced \/ (at["reload"].read # file /\ hashes = file))
  /\ UNCHANGED <<file, events, hashes, runtime, debouncing, connected, serviceVars, registryVars, done, last>>

-----------------------------------------------------------------------------
(* The relay's callbacks                                                   *)

Connect ==
  /\ ~connected /\ Idle("connect") /\ Act
  /\ connected' = TRUE
  /\ Go("connect", "check")
  /\ UNCHANGED <<file, events, hashes, known, runtime, debouncing, serviceVars, registryVars, last, raced>>

\* wsOnConnected does nothing if the manager has the auth enabled
Check ==
  /\ at["connect"].step = "check"
  /\ IF managed[Relay].on THEN Rest("connect") ELSE Go("connect", "register")
  /\ UNCHANGED <<file, events, hashes, known, runtime, debouncing, connected, serviceVars, registryVars, done, last, raced>>

\* The session ends: its callback runs after the callback for its beginning
Disconnect ==
  /\ connected /\ Idle("connect") /\ Idle("disconnect")
  /\ connected' = FALSE
  /\ Go("disconnect", "unregister")
  /\ UNCHANGED <<file, events, hashes, known, runtime, debouncing, serviceVars, registryVars, done, last, raced>>

\* dispatchRuntimeAuthUpdate
Announce(g, step, auth) ==
  /\ at[g].step = step
  /\ runtime' = auth
  /\ known' = [known EXCEPT ![Relay] = auth]
  /\ Hold(g, [c \in {Relay} |-> auth])
  /\ UNCHANGED <<file, events, hashes, debouncing, connected, serviceVars, registryVars, done, last, raced>>

-----------------------------------------------------------------------------
(* From the watcher to the service                                         *)

\* Mutant: the update that was queued first is kept.
FirstQueued(old, new) == [c \in DOMAIN old \cup DOMAIN new |-> IF c \in DOMAIN old THEN old[c] ELSE new[c]]

\* A later update replaces the one that waits
Coalesced(old, new) == [c \in DOMAIN old \cup DOMAIN new |-> IF c \in DOMAIN new THEN new[c] ELSE old[c]]

\* dispatchAuthUpdates, under dispatchMu; the order of one call's updates is arbitrary.
\* What it queues is out of date if somebody else has changed it since and queued that.
Dispatch(g) ==
  /\ at[g].step = "dispatch"
  /\ \E fresh \in SetToSeqs(DOMAIN at[g].updates \ DOMAIN pending.updates) :
       pending' = [order |-> pending.order \o fresh,
                   updates |-> Coalesced(pending.updates, at[g].updates)]
  /\ last' = [c \in Clients |-> IF c \in DOMAIN at[g].updates THEN at[g].updates[c] ELSE last[c]]
  /\ raced' = (raced \/ /\ File \in DOMAIN at[g].updates
                        /\ at[g].updates[File] # known[File]
                        /\ \A h \in Goroutines \ {g} : File \notin DOMAIN at[h].updates)
  /\ Rest(g)
  /\ UNCHANGED <<file, events, hashes, known, runtime, debouncing, connected,
                 batch, queue, job, managed, late, registryVars, done>>

\* nextPendingBatch
NextBatch ==
  /\ batch = <<>> /\ pending.order # <<>>
  /\ batch' = [i \in DOMAIN pending.order |->
                 [id |-> pending.order[i], auth |-> pending.updates[pending.order[i]]]]
  /\ pending' = [order |-> <<>>, updates |-> NoUpdates]
  /\ UNCHANGED <<watcherVars, queue, job, managed, late, registryVars, done, last, raced>>

Deliver ==
  /\ batch # <<>> /\ Len(queue) < QueueSize
  /\ queue' = Append(queue, Head(batch))
  /\ batch' = Tail(batch)
  /\ UNCHANGED <<watcherVars, pending, job, managed, late, registryVars, done, last, raced>>

\* consumeAuthUpdates applies an update before it takes the next
Take(step) ==
  /\ job.step = "idle" /\ queue # <<>>
  /\ queue' = Tail(queue)
  /\ job' = [step |-> step, id |-> Head(queue).id, auth |-> Head(queue).auth]

JobDone == job' = [step |-> "idle", id |-> None, auth |-> None]

\* applyCoreAuthAddOrUpdate: the manager first, then the registry
AddOrUpdate ==
  /\ Take("models") /\ Head(queue).auth # None
  /\ managed' = [managed EXCEPT ![Head(queue).id] = [auth |-> Head(queue).auth, on |-> TRUE]]
  /\ UNCHANGED <<watcherVars, pending, batch, late, registryVars, done, last, raced>>

RegisterModels ==
  /\ job.step = "models"
  /\ RegisterClient(job.id, ProviderOf[job.auth], ModelsOf[job.auth])
  /\ JobDone
  /\ UNCHANGED <<watcherVars, pending, batch, queue, managed, late, done, last, raced>>

\* applyCoreAuthRemoval: the registry first, then the manager
Removal ==
  /\ Take("disable") /\ Head(queue).auth = None
  /\ UnregisterClient(Head(queue).id)
  /\ UNCHANGED <<watcherVars, pending, batch, managed, late, done, last, raced>>

Disable ==
  /\ job.step = "disable"
  /\ managed' = [managed EXCEPT ![job.id].on = FALSE]
  /\ JobDone
  /\ UNCHANGED <<watcherVars, pending, batch, queue, late, registryVars, done, last, raced>>

-----------------------------------------------------------------------------
(* Results and readers                                                     *)

\* The calls MarkResult makes after it has released its mutex
CallsFor(outcome) ==
  CASE outcome = "ok"      -> <<"clear", "resume">>
    [] outcome = "quota"   -> <<"exceed", "pause">>
    [] outcome = "refused" -> <<"suspend">>

Calls(c, m, list) == [i \in DOMAIN list |-> [call |-> list[i], client |-> c, model |-> m]]

\* A request is sent with an auth that provides its model
Send(c, m) ==
  /\ late = <<>> /\ Act
  /\ managed[c].on /\ Occurrences(clientModels[c], m) > 0
  /\ late' = Calls(c, m, <<"answer">>)
  /\ UNCHANGED <<watcherVars, pending, batch, queue, job, managed, registryVars, last, raced>>

\* It ends, however long after that
Answer(outcome) ==
  /\ late # <<>> /\ Head(late).call = "answer"
  /\ late' = Calls(Head(late).client, Head(late).model, CallsFor(outcome))
  /\ UNCHANGED <<watcherVars, pending, batch, queue, job, managed, registryVars, done, last, raced>>

MarkLate ==
  /\ late # <<>> /\ Head(late).call # "answer"
  /\ Mark(Head(late).client, Head(late).model, Head(late).call)
  /\ late' = Tail(late)
  /\ UNCHANGED <<watcherVars, pending, batch, queue, job, managed, done, last, raced>>

ListModels == GetAvailableModels /\ UNCHANGED <<watcherVars, serviceVars, done, last, raced>>
TimePasses == Tick /\ UNCHANGED <<watcherVars, serviceVars, done, last, raced>>

-----------------------------------------------------------------------------
EventStep == TakeWrite \/ TakeRemove \/ Stat \/ Compare \/ Reopen \/ Apply \/ Forget
ReloadStep == Rescan \/ Snapshot \/ Merge
RelayStep == Check \/ Announce("connect", "register", RelayAuth) \/ Announce("disconnect", "unregister", None)
Carry == NextBatch \/ Deliver
Serve == AddOrUpdate \/ RegisterModels \/ Removal \/ Disable

Next ==
  \/ \E content \in Contents : WriteFile(content)
  \/ RemoveFile \/ WindowEnds \/ Connect \/ Disconnect
  \/ \E force, affected \in BOOLEAN : ReloadConfig(force, affected)
  \/ EventStep \/ ReloadStep \/ RelayStep
  \/ \E g \in Goroutines : Dispatch(g)
  \/ Carry \/ Serve
  \/ \E c \in Clients, m \in Models : Send(c, m)
  \/ \E outcome \in {"ok", "quota", "refused"} : Answer(outcome)
  \/ MarkLate \/ ListModels \/ TimePasses

Spec == Init /\ [][Next]_vars

-----------------------------------------------------------------------------
\* Nothing for the auth is on its way
Delivered(c) ==
  /\ c \notin DOMAIN pending.updates /\ job.id # c
  /\ \A i \in DOMAIN batch : batch[i].id # c
  /\ \A i \in DOMAIN queue : queue[i].id # c

\* The service uses the auth as it says, or does not use it if there is none
Serves(c, auth) ==
  IF auth = None THEN ~managed[c].on /\ clientModels[c] = <<>>
  ELSE /\ managed[c] = [auth |-> auth, on |-> TRUE]
       /\ clientModels[c] = ModelsOf[auth] /\ clientProvider[c] = ProviderOf[auth]

\* Updates are replaced while they wait, taken in batches, and delivered through a bounded
\* channel; when none is left for an auth, manager and registry serve what was queued last.
LastQueuedWins == \A c \in Clients : Delivered(c) => Serves(c, last[c])

Settled ==
  /\ events = <<>> /\ \A g \in Goroutines : Idle(g)
  /\ Delivered(File)

\* When everything has settled, the service uses the auth as the file says, however file
\* events, loading at the start and reloads overlap, unless one of four races occurred: a
\* removal dropped by the debounce, a snapshot that overwrites what was found after it, a
\* difference queued after a newer one, a hash that knows nothing of what a reload delivered.
FileIsServed == Settled /\ ~raced => Serves(File, file)
=============================================================================
