------------------------------- MODULE WsRelay -------------------------------
(***************************************************************************)
(* The websocket relay of the gateway (internal/wsrelay): a manager with   *)
(* one session per provider, and requests that wait on a bounded channel   *)
(* for what the session's peer answers.  Goroutines: one per request, one  *)
(* that watches its context, one per session that reads and dispatches,    *)
(* and whoever runs a session's cleanup (the reader, the heartbeat, a      *)
(* connection that replaces it, or Stop).                                  *)
(***************************************************************************)
EXTENDS Naturals, Sequences, FiniteSets

CONSTANTS
    Session,     \* connections, each accepted at most once
    Provider,    \* what sessions are registered under
    ProviderOf,  \* the provider each connection turns out to be
    None,        \* no session
    Request,     \* requests, each with an id of its own (uuid)
    Cap,         \* capacity of a request's channel (8 in the code)
    MaxParts,    \* bound: parts of a stream the peer sends for one request
    MaxStops     \* bound: calls of Stop

ASSUME SessionAssumption ==
    /\ None \notin Session /\ Provider # {}
    /\ ProviderOf \in [Session -> Provider]
ASSUME BoundAssumption ==
    /\ Cap \in Nat \ {0} /\ MaxParts \in Nat /\ MaxStops \in Nat

\* "part" is stream_start or stream_chunk, "final" http_response or stream_end.
Kinds == {"part", "final", "error"}

\* Types after which dispatch forgets the request.
Terminal == {"final", "error"}

Causes == {"none", "read", "heartbeat", "replaced", "stopped"}

VARIABLES
    sessions,   \* Manager.sessions: provider -> session
    conn,       \* per session: how far its connection has come
    replaced,   \* per session: the one it found registered
    closed,     \* per session: the channel `closed` is closed
    pending,    \* per session: the requests in its pending map
    reader,     \* per session: where run/dispatch stands, with the message
    cleaner,    \* per session: where cleanup stands
    toStop,     \* sessions Stop took out of the manager
    stops,      \* calls of Stop so far
    ch,         \* per request: its channel
    req,        \* per request: where its caller stands
    watching,   \* requests whose context is being watched
    cancelled,  \* requests whose context is done
    peer,       \* per request: what the peer has sent of the answer
    missed,     \* requests for which a full channel dropped a message
    crashed     \* "none", or what the goroutine was doing whose panic ended
                \* the process: "dispatch", or the cause of its cleanup

links == <<sessions, conn, replaced, toStop, stops>>
life == <<closed, reader, cleaner>>
calls == <<req, watching, cancelled, peer>>
chans == <<ch, missed, crashed>>
vars == <<links, life, calls, chans, pending>>

NoMessage == [r |-> None, kind |-> "none"]

Init ==
    /\ sessions = [p \in Provider |-> None]
    /\ conn = [s \in Session |-> "absent"]
    /\ replaced = [s \in Session |-> None]
    /\ closed = [s \in Session |-> FALSE]
    /\ pending = [s \in Session |-> {}]
    /\ reader = [s \in Session |-> [at |-> "off", msg |-> NoMessage]]
    /\ cleaner = [s \in Session |->
                    [at |-> "off", cause |-> "none", due |-> {}, r |-> None]]
    /\ toStop = {} /\ stops = 0
    /\ ch = [r \in Request |-> [buf |-> <<>>, closed |-> FALSE]]
    /\ req = [r \in Request |-> [at |-> "idle", s |-> None, mode |-> "NonStream",
                                 streaming |-> FALSE, last |-> "none",
                                 result |-> "none"]]
    /\ watching = {} /\ cancelled = {}
    /\ peer = [r \in Request |-> [asked |-> FALSE, parts |-> 0]]
    /\ missed = {}
    /\ crashed = "none"

Running == crashed = "none"

-----------------------------------------------------------------------------
(* Channels.                                                                *)

Room(r) == Len(ch[r].buf) < Cap

\* select { case req.ch <- msg: default: }: queue it, drop it if the channel
\* is full, panic if it is closed; then close the channel if the caller does.
Offer(r, kind, andClose, culprit) ==
    IF ch[r].closed
    THEN crashed' = culprit /\ UNCHANGED <<ch, missed>>
    ELSE /\ ch' = [ch EXCEPT ![r] =
              [buf |-> IF Room(r) THEN Append(@.buf, kind) ELSE @.buf,
               closed |-> andClose]]
         /\ missed' = IF Room(r) THEN missed ELSE missed \cup {r}
         /\ UNCHANGED crashed

\* Mutant: Load instead of LoadAndDelete.
CloseOnly(s, r) ==
    /\ UNCHANGED pending
    /\ ch' = IF r \in pending[s] THEN [ch EXCEPT ![r].closed = TRUE] ELSE ch

\* LoadAndDelete followed by close, by whoever still finds the entry.
Forget(s, r) ==
    /\ pending' = [pending EXCEPT ![s] = @ \ {r}]
    /\ ch' = IF r \in pending[s] THEN [ch EXCEPT ![r].closed = TRUE] ELSE ch

-----------------------------------------------------------------------------
(* Connections: handleWebsocket, and the manager's Stop.                    *)

\* The new session takes its provider's place under sessMutex.  Two sessions have the
\* same provider only under a ProviderFactory, which a user of Manager may supply and
\* the service does not.
Register(s) ==
    /\ Running /\ conn[s] = "absent"
    /\ conn' = [conn EXCEPT ![s] = "registered"]
    /\ replaced' = [replaced EXCEPT ![s] = sessions[ProviderOf[s]]]
    /\ sessions' = [sessions EXCEPT ![ProviderOf[s]] = s]
    /\ UNCHANGED <<life, calls, chans, toStop, stops, pending>>

\* The session it replaced has been cleaned up: start reading.
Connected(s) ==
    /\ Running /\ conn[s] = "registered"
    /\ replaced[s] # None => cleaner[replaced[s]].at = "done"
    /\ conn' = [conn EXCEPT ![s] = "connected"]
    /\ reader' = [reader EXCEPT ![s].at = "read"]
    /\ UNCHANGED <<calls, chans, sessions, replaced, closed, cleaner, toStop,
                   stops, pending>>

Stop ==
    /\ Running /\ stops < MaxStops /\ toStop = {}
    /\ stops' = stops + 1
    /\ toStop' = {sessions[p] : p \in Provider} \ {None}
    /\ sessions' = [p \in Provider |-> None]
    /\ UNCHANGED <<life, calls, chans, conn, replaced, pending>>

-----------------------------------------------------------------------------
(* cleanup, guarded by closeOnce.                                           *)

Cleaner(at, cause, due, r) ==
    [at |-> at, cause |-> cause, due |-> due, r |-> r]

\* Who calls cleanup of s, and why.
Calls(s, cause) ==
    \/ cause = "read" /\ reader[s].at = "read"
    \/ cause = "heartbeat" /\ conn[s] = "connected"
    \/ cause = "replaced" /\ \E u \in Session :
          conn[u] = "registered" /\ replaced[u] = s
    \/ cause = "stopped" /\ s \in toStop

\* close(s.closed); Range will visit what is pending now.
CloseSession(s, cause) ==
    /\ Running /\ cleaner[s].at = "off" /\ Calls(s, cause)
    /\ closed' = [closed EXCEPT ![s] = TRUE]
    /\ cleaner' = [cleaner EXCEPT ![s] = Cleaner("range", cause, pending[s], None)]
    /\ UNCHANGED <<links, calls, chans, reader, pending>>

\* Range comes to the entry of r.  An entry stored after Range began may be
\* visited too; none is visited twice.
Visit(s, r) ==
    /\ Running /\ cleaner[s].at = "range" /\ r \in pending[s]
    /\ r \in cleaner[s].due \/ ~ch[r].closed
    /\ cleaner' = [cleaner EXCEPT ![s].at = "tell", ![s].r = r,
                                  ![s].due = @ \ {r}]
    /\ UNCHANGED <<links, calls, chans, closed, reader, pending>>

\* Mutants: the request is not told why its channel closes; it is told, but
\* its channel stays open.
JustClose(r, cause) ==
    ch' = [ch EXCEPT ![r].closed = TRUE] /\ UNCHANGED <<missed, crashed>>

JustTell(r, cause) == Offer(r, "error", FALSE, cause)

\* The request is told that the session is gone, and its channel closed.
Notify(r, cause) == Offer(r, "error", TRUE, cause)

Tell(s) ==
    /\ Running /\ cleaner[s].at = "tell"
    /\ Notify(cleaner[s].r, cleaner[s].cause)
    /\ cleaner' = [cleaner EXCEPT ![s].at = "range", ![s].r = None]
    /\ UNCHANGED <<links, calls, closed, reader, pending>>

\* Every entry Range owed a visit was visited or deleted: s.pending =
\* sync.Map{}, and the connection is closed.
Sweep(s) ==
    /\ Running /\ cleaner[s].at = "range"
    /\ cleaner[s].due \cap pending[s] = {}
    /\ pending' = [pending EXCEPT ![s] = {}]
    /\ cleaner' = [cleaner EXCEPT ![s].at = "swept", ![s].due = {}]
    /\ UNCHANGED <<links, calls, chans, closed, reader>>

\* Mutant: whoever is registered is taken out.
WithoutAny(s) == [sessions EXCEPT ![ProviderOf[s]] = None]

\* The manager without session s, if it is still there.
Without(s) ==
    [p \in Provider |-> IF sessions[p] = s THEN None ELSE sessions[p]]

\* handleSessionClosed, and whoever waited for this cleanup.
Unregister(s) ==
    /\ Running /\ cleaner[s].at = "swept"
    /\ cleaner' = [cleaner EXCEPT ![s].at = "done"]
    /\ sessions' = Without(s)
    /\ toStop' = toStop \ {s}
    /\ UNCHANGED <<calls, chans, conn, replaced, stops, closed, reader, pending>>

Cleanup(s) ==
    \/ \E cause \in {"replaced", "stopped"} : CloseSession(s, cause)
    \/ \E r \in Request : Visit(s, r)
    \/ Tell(s) \/ Sweep(s) \/ Unregister(s)

-----------------------------------------------------------------------------
(* The reader: run and dispatch.                                            *)

\* What a peer that was asked may send next.
MaySend(r, kind) ==
    /\ peer[r].asked
    /\ kind = "part" => peer[r].parts < MaxParts

\* A message arrives and dispatch looks its request up; one for a request
\* that is no longer pending is dropped.
Read(s, r, kind) ==
    /\ Running /\ reader[s].at = "read"
    /\ cleaner[s].at \notin {"swept", "done"} /\ cleaner[s].cause # "read"
    /\ req[r].s = s /\ MaySend(r, kind)
    /\ peer' = [peer EXCEPT ![r] =
         [asked |-> kind \notin Terminal,
          parts |-> IF kind = "part" THEN @.parts + 1 ELSE @.parts]]
    /\ reader' = [reader EXCEPT ![s] =
         IF r \in pending[s] THEN [at |-> "found", msg |-> [r |-> r, kind |-> kind]]
                             ELSE @]
    /\ UNCHANGED <<links, chans, closed, cleaner, pending, req, watching,
                   cancelled>>

\* The message goes into the channel dispatch looked up before.
Dispatch(s) ==
    LET m == reader[s].msg
    IN  /\ Running /\ reader[s].at = "found"
        /\ Offer(m.r, m.kind, FALSE, "dispatch")
        /\ reader' = [reader EXCEPT ![s] =
             IF m.kind \in Terminal THEN [at |-> "answered", msg |-> m]
                                    ELSE [at |-> "read", msg |-> NoMessage]]
        /\ UNCHANGED <<links, calls, closed, cleaner, pending>>

\* After a terminal message the request is forgotten, its channel closed.
Answered(s) ==
    /\ Running /\ reader[s].at = "answered"
    /\ Forget(s, reader[s].msg.r)
    /\ reader' = [reader EXCEPT ![s] = [at |-> "read", msg |-> NoMessage]]
    /\ UNCHANGED <<links, calls, closed, cleaner, missed, crashed>>

-----------------------------------------------------------------------------
(* Requests: Manager.Send, session.request, NonStream and Stream.           *)

Finish(r, result) == req' = [req EXCEPT ![r].at = "done", ![r].result = result]

Call(r, p, mode) ==
    /\ Running /\ req[r].at = "idle"
    /\ req' = [req EXCEPT ![r] =
         IF sessions[p] = None THEN [@ EXCEPT !.at = "done", !.result = "err"]
         ELSE [@ EXCEPT !.at = "store", !.s = sessions[p], !.mode = mode]]
    /\ UNCHANGED <<links, life, chans, pending, watching, cancelled, peer>>

Store(r) ==
    /\ Running /\ req[r].at = "store"
    /\ pending' = [pending EXCEPT ![req[r].s] = @ \cup {r}]
    /\ req' = [req EXCEPT ![r].at = "load"]
    /\ UNCHANGED <<links, life, chans, watching, cancelled, peer>>

\* The entry is read back; if a cleanup has swept it away meanwhile, the type
\* assertion panics, which the HTTP server recovers from.
Load(r) ==
    /\ Running /\ req[r].at = "load"
    /\ IF r \in pending[req[r].s] THEN req' = [req EXCEPT ![r].at = "send"]
                                  ELSE Finish(r, "err")
    /\ UNCHANGED <<links, life, chans, pending, watching, cancelled, peer>>

SendFails(r) ==
    /\ Running /\ req[r].at = "send"
    /\ Forget(req[r].s, r)
    /\ Finish(r, "err")
    /\ UNCHANGED <<links, life, watching, cancelled, peer, missed, crashed>>

\* Mutant: nobody asks whether the session is closed, and the write succeeds
\* as long as the connection is there.
StillThere(s) == cleaner[s].at \notin {"swept", "done"}

StillOpen(s) == ~closed[s]

\* The request goes out and its context is watched from now on.
SendSucceeds(r) ==
    /\ Running /\ req[r].at = "send" /\ StillOpen(req[r].s)
    /\ peer' = [peer EXCEPT ![r].asked = TRUE]
    /\ watching' = watching \cup {r}
    /\ req' = [req EXCEPT ![r].at = "wait"]
    /\ UNCHANGED <<links, life, chans, pending, cancelled>>

\* The watcher of a request: its context is done, or its session closed.
ContextDone(r) ==
    /\ Running /\ r \in watching \cap cancelled
    /\ watching' = watching \ {r}
    /\ Forget(req[r].s, r)
    /\ UNCHANGED <<links, life, req, cancelled, peer, missed, crashed>>

SessionDone(r) ==
    /\ Running /\ r \in watching /\ closed[req[r].s]
    /\ watching' = watching \ {r}
    /\ UNCHANGED <<links, life, chans, pending, req, cancelled, peer>>

\* The caller receives a message.
Receive(r) ==
    /\ Running /\ req[r].at = "wait" /\ ch[r].buf # <<>>
    /\ ch' = [ch EXCEPT ![r].buf = Tail(@)]
    /\ LET kind == Head(ch[r].buf)
       IN  req' = [req EXCEPT ![r] =
             IF kind \in Terminal
             THEN [@ EXCEPT !.last = kind, !.at = "done",
                            !.result = IF kind = "error" THEN "err" ELSE "ok"]
             ELSE [@ EXCEPT !.last = kind, !.streaming = TRUE]]
    /\ UNCHANGED <<links, life, pending, watching, cancelled, peer, missed,
                   crashed>>

\* The channel is closed and empty.  A non-streaming request that had begun
\* to collect a stream returns what it has, the others return an error.
ReceiveClosed(r) ==
    /\ Running /\ req[r].at = "wait" /\ ch[r].buf = <<>> /\ ch[r].closed
    /\ Finish(r, IF req[r].mode = "NonStream" /\ req[r].streaming
                 THEN "ok" ELSE "err")
    /\ UNCHANGED <<links, life, chans, pending, watching, cancelled, peer>>

GiveUp(r) ==
    /\ Running /\ req[r].at = "wait" /\ r \in cancelled
    /\ Finish(r, "err")
    /\ UNCHANGED <<links, life, chans, pending, watching, cancelled, peer>>

\* The client goes away, or the handler has returned.
Cancel(r) ==
    /\ Running /\ r \notin cancelled
    /\ req[r].at \notin {"idle", "done"} \/ r \in watching
    /\ cancelled' = cancelled \cup {r}
    /\ UNCHANGED <<links, life, chans, pending, req, watching, peer>>

-----------------------------------------------------------------------------

RequestStep(r) ==
    \/ Store(r) \/ Load(r) \/ SendFails(r) \/ SendSucceeds(r)
    \/ ContextDone(r) \/ SessionDone(r)
    \/ Receive(r) \/ ReceiveClosed(r) \/ GiveUp(r)

Environment ==
    \/ \E r \in Request :
         \/ \E p \in Provider, mode \in {"NonStream", "Stream"} : Call(r, p, mode)
         \/ Cancel(r)
         \/ \E s \in Session, kind \in Kinds : Read(s, r, kind)
    \/ \E s \in Session :
         \/ Register(s)
         \/ \E cause \in {"read", "heartbeat"} : CloseSession(s, cause)
    \/ Stop

SessionStep(s) == Connected(s) \/ Dispatch(s) \/ Answered(s) \/ Cleanup(s)

\* Nothing is under way, or the process is gone: it may stay so.
Rest ==
    /\ \/ ~Running
       \/ /\ \A r \in Request : req[r].at \in {"idle", "done"}
          /\ \A s \in Session : cleaner[s].at \in {"off", "done"}
          /\ toStop = {}
    /\ UNCHANGED vars

Next ==
    \/ Environment
    \/ \E r \in Request : RequestStep(r)
    \/ \E s \in Session : SessionStep(s)
    \/ Rest

Spec == Init /\ [][Next]_vars

\* Goroutines are scheduled; a write has a deadline of ten seconds.
FairSpec ==
    /\ Spec
    /\ \A r \in Request : WF_vars(RequestStep(r))
    /\ \A s \in Session : WF_vars(SessionStep(s))
-----------------------------------------------------------------------------
(* Properties.                                                              *)

Messages == [r : Request, kind : Kinds]
Readers == [at : {"off", "read", "found", "answered"}, msg : Messages \cup {NoMessage}]
Cleaners == [at : {"off", "range", "tell", "swept", "done"}, cause : Causes,
             due : SUBSET Request, r : Request \cup {None}]
Channels == [buf : Seq(Kinds), closed : BOOLEAN]
Callers == [at : {"idle", "store", "load", "send", "wait", "done"}, s : Session \cup {None},
            mode : {"NonStream", "Stream"}, streaming : BOOLEAN,
            last : Kinds \cup {"none"}, result : {"none", "ok", "err"}]

LinksOK ==
    /\ sessions \in [Provider -> Session \cup {None}]
    /\ conn \in [Session -> {"absent", "registered", "connected"}]
    /\ replaced \in [Session -> Session \cup {None}]
    /\ toStop \subseteq Session

LifeOK ==
    /\ closed \in [Session -> BOOLEAN]
    /\ reader \in [Session -> Readers] /\ cleaner \in [Session -> Cleaners]
    /\ \A s \in Session : reader[s].at \in {"found", "answered"} => reader[s].msg \in Messages
    /\ \A s \in Session : cleaner[s].at = "tell" => cleaner[s].r \in Request

CallsOK ==
    /\ req \in [Request -> Callers]
    /\ watching \subseteq Request /\ cancelled \subseteq Request
    /\ \A r \in Request :
         req[r].at \in {"store", "load", "send", "wait"} \/ r \in watching => req[r].s \in Session

ChannelsOK ==
    /\ ch \in [Request -> Channels] /\ missed \subseteq Request
    /\ \A r \in Request : Len(ch[r].buf) <= Cap

\* The goroutines' local state stays well formed and no channel ever holds
\* more than its capacity, whoever fills it.
TypeOK ==
    LinksOK /\ LifeOK /\ CallsOK /\ ChannelsOK /\ pending \in [Session -> SUBSET Request]

\* A request whose session has been cleaned up is not left waiting on a
\* channel nobody will close: a request that came too late for the cleanup's
\* Range finds the session closed before it sends.
NoneLeftBehind ==
    \A r \in Request :
        req[r].at = "wait" /\ cleaner[req[r].s].at \in {"swept", "done"}
            => ch[r].closed

\* A live connection can be found by its provider, unless it is about to be
\* closed: the end of a replaced connection does not take out its successor.
ConnectedIsRegistered ==
    \A s \in Session :
        conn[s] = "connected" /\ ~closed[s] =>
            \/ sessions[ProviderOf[s]] = s
            \/ s \in toStop
            \/ \E u \in Session : conn[u] = "registered" /\ replaced[u] = s

\* A non-streaming request reports a truncated stream as a success only if
\* the full channel dropped a message or its own context is done: when the
\* connection breaks in the middle of a stream, it reports an error.
TruncatedOnlyIfFull ==
    \A r \in Request :
        req[r].result = "ok" /\ req[r].last \notin Terminal
            => r \in missed \cup cancelled

\* A request returns once its session is closed or its context is done.
EveryRequestReturns ==
    \A r \in Request :
        (req[r].at = "wait" /\ (closed[req[r].s] \/ r \in cancelled))
            ~> (req[r].at = "done" \/ ~Running)

\* The channel of a pending request is open, unless the session's cleanup is at
\* work: whoever closes it takes the entry out first.  So a send panics only on
\* a channel that was looked up before the request was forgotten, or during a
\* cleanup; Stop, dispatch and a cancelled context have that window.
OpenWhilePending ==
    \A s \in Session, r \in Request :
        r \in pending[s] /\ ch[r].closed => cleaner[s].at \in {"range", "tell"}
=============================================================================
