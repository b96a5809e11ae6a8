------------------------------ MODULE GatewayAuth ------------------------------
(***************************************************************************)
(* The gateway's auth manager (conductor.go), its scheduler (scheduler.go) *)
(* and the service's handlers that add and remove auths (service.go), for  *)
(* one model.  The state of an auth is kept three times: in the manager's  *)
(* map under m.mu, in the scheduler's shards under s.mu, and in the model  *)
(* registry under a lock of its own.  Whoever changes the map takes a copy *)
(* under m.mu and hands it to the scheduler after unlocking: copies can    *)
(* arrive late and out of order.                                           *)
(*                                                                         *)
(* Each process has the steps it has left to do in todo, and in held the   *)
(* auth it works on with its copy.  Register and Update hand over the very *)
(* object they put into the map: while it is there and not yet handed over *)
(* (shared), a change in place shows in the copy.                          *)
(*                                                                         *)
(* Times are ticks until an instant, zero when it is past or not set.      *)
(***************************************************************************)
EXTENDS Integers, Sequences, FiniteSets, FiniteSetsExt

CONSTANTS
  Auths,            \* auth ids
  Requests,         \* client requests
  Legacy,           \* the requests whose route needs an alias: picked without the scheduler
  Services,         \* the goroutine that applies auth updates
  Catalogs,         \* the callback for changed model definitions
  Writers,          \* refresh workers and management handlers, which read, wait and update
  Outcomes,         \* what upstreams answer
  Retries,          \* request-retry of each auth
  MaxCredentials,   \* max-retry-credentials, 0 for no limit
  MaxWait,          \* max-retry-interval
  Short, Long,      \* cooldowns after a server error, after a refusal
  RetryAfter,       \* what an upstream asks for that limits requests
  QuotaBase, QuotaMax,   \* quotaBackoffBase, quotaBackoffMax
  None              \* no auth

ASSUME AuthConstants ==
  /\ None \notin Auths /\ Legacy \subseteq Requests
  /\ Outcomes \subseteq {"ok", "refused", "limited", "quota", "server", "other", "invalid", "scoped"}
  /\ Retries \in [Auths -> Nat] /\ MaxCredentials \in Nat /\ MaxWait \in Nat
  /\ Short \in Nat \ {0} /\ Long \in Nat \ {0} /\ RetryAfter \in Nat \ {0}
  /\ QuotaBase \in Nat \ {0} /\ QuotaMax \in Nat \ {0}
  /\ Requests \cap (Services \cup Catalogs \cup Writers) = {}
  /\ Services \cap Catalogs = {} /\ (Services \cup Catalogs) \cap Writers = {}

VARIABLES
  auths,       \* Manager.auths
  sched,       \* authScheduler: the entry of each auth in the shard of the model, once it was built
  registered,  \* the auths the registry knows the model for
  todo,        \* the steps each process has left
  held,        \* what each process holds
  req,         \* the locals of each request
  listed,      \* the copies a request took to rebuild the scheduler
  doubt        \* history: auths a request may rightly have missed since then

vars == <<auths, sched, registered, todo, held, req, listed, doubt>>

Processes == Requests \cup Services \cup Catalogs \cup Writers

\* An auth: unknown, enabled or disabled; whether it has a ModelState, a clean one or one
\* with an error; NextRetryAfter; Quota.NextRecoverAt; for Quota.BackoffLevel the cooldown it stands for,
\* quotaBackoffBase doubled that often
Fresh(status) == [status |-> status, state |-> "none", wait |-> 0, recover |-> 0, backoff |-> QuotaBase]
Unknown == Fresh("unknown")

Missing == [in |-> FALSE, wait |-> 0]
Nothing == [auth |-> None, copy |-> Unknown, shared |-> FALSE]
NoList == [a \in {} |-> Unknown]

-----------------------------------------------------------------------------
(* What the scheduler makes of a copy, and what a result makes of an auth  *)

Largest(m, n) == IF m > n THEN m ELSE n

\* isAuthBlockedForModel says until when: the quota's time if there is one.  The shard
\* looks again then, and finds the auth blocked still if the other time is later.
BlockedFor(auth) == IF auth.wait = 0 THEN 0 ELSE Largest(auth.wait, auth.recover)

Entry(a, auth) ==
  IF auth.status = "on" /\ a \in registered THEN [in |-> TRUE, wait |-> BlockedFor(auth)] ELSE Missing

\* Mutant: the quota is not reset with the rest.
QuotaLeft(auth) == [auth EXCEPT !.state = "clean", !.wait = 0]

\* resetModelState
Cleaned(auth) == [auth EXCEPT !.state = "clean", !.wait = 0, !.recover = 0, !.backoff = QuotaBase]

\* nextQuotaCooldown
QuotaCooldown(backoff) == IF backoff >= QuotaMax THEN QuotaMax ELSE backoff
NextBackoff(backoff) == IF backoff >= QuotaMax THEN backoff ELSE 2 * backoff

Failed(auth, wait) == [auth EXCEPT !.state = "error", !.wait = wait]
OverQuota(auth, wait, backoff) == [Failed(auth, wait) EXCEPT !.recover = wait, !.backoff = backoff]

\* MarkResult, for the result of a request for the model
AfterResult(auth, outcome) ==
  CASE outcome = "ok"      -> Cleaned(auth)
    [] outcome = "refused" -> Failed(auth, Long)
    [] outcome = "limited" -> OverQuota(auth, RetryAfter, auth.backoff)
    [] outcome = "quota"   -> OverQuota(auth, QuotaCooldown(auth.backoff), NextBackoff(auth.backoff))
    [] outcome = "server"  -> Failed(auth, Short)
    [] outcome \in {"other", "invalid"} -> Failed(auth, 0)
    [] outcome = "scoped"  -> auth

-----------------------------------------------------------------------------
(* Steps                                                                   *)

Doing(p, step) == todo[p] # <<>> /\ Head(todo[p]) = step
Idle(p) == todo[p] = <<>>

Become(p, steps) == todo' = [todo EXCEPT ![p] = steps]
Proceed(p) == Become(p, Tail(todo[p]))

Holding(a, copy) == [auth |-> a, copy |-> copy, shared |-> FALSE]
Keep(p, holding) == held' = [held EXCEPT ![p] = holding]

\* A copy of which only the status is looked at
Owner(a, copy) == Holding(a, Fresh(copy.status))

\* An entry changed in place: whoever shares the object sees it
ChangeInPlace(p, a, auth) ==
  /\ auths' = [auths EXCEPT ![a] = auth]
  /\ held' = [q \in Processes |->
                IF q = p THEN Holding(a, auth)
                ELSE IF held[q].auth = a /\ held[q].shared THEN [held[q] EXCEPT !.copy = auth]
                ELSE held[q]]

\* Register or Update.  An auth without states keeps those of the enabled entry it
\* replaces; the object put into the map is the one handed to the scheduler next.
Merged(new, old) ==
  IF new.status = "on" /\ old.status = "on" /\ new.state = "none" THEN old ELSE new

Store(p, a, new) ==
  LET auth == Merged(new, auths[a])
  IN /\ auths' = [auths EXCEPT ![a] = auth]
     /\ held' = [q \in Processes |->
                   IF q = p THEN [auth |-> a, copy |-> auth, shared |-> TRUE]
                   ELSE IF held[q].auth = a THEN [held[q] EXCEPT !.shared = FALSE]
                   ELSE held[q]]

\* scheduler.upsertAuth, with the copy taken before
Post(p) ==
  /\ Doing(p, "post")
  /\ sched' = [sched EXCEPT ![held[p].auth] = Entry(held[p].auth, held[p].copy)]
  /\ Proceed(p)
  /\ Keep(p, IF Len(todo[p]) = 1 \/ p \in Requests THEN Nothing ELSE Owner(held[p].auth, held[p].copy))
  /\ UNCHANGED <<auths, registered, req, listed>>

-----------------------------------------------------------------------------
(* Requests: Execute and executeMixedOnce                                  *)

Selectable(a) == auths[a].status = "on" /\ a \in registered /\ auths[a].wait = 0

Available(r) ==
  {a \in Auths \ req[r].tried :
     IF r \in Legacy THEN Selectable(a) ELSE sched[a].in /\ sched[a].wait = 0}

Exhausted(r) == MaxCredentials > 0 /\ Cardinality(req[r].tried) >= MaxCredentials

Pick(r, a) ==
  /\ (Doing(r, "pick") /\ ~Exhausted(r)) \/ Doing(r, "repick")
  /\ a \in Available(r)
  /\ req' = [req EXCEPT ![r].tried = @ \cup {a}]
  /\ Become(r, <<"answer">>)
  /\ Keep(r, Holding(a, Unknown))
  /\ UNCHANGED <<auths, sched, registered, listed>>

EndOfCredentials(r) ==
  /\ Doing(r, "pick") /\ Exhausted(r)
  /\ Become(r, <<"decide">>)
  /\ UNCHANGED <<auths, sched, registered, held, req, listed>>

\* Mutant: the scheduler's refusal is taken for an answer.
NoResync(r) ==
  /\ Doing(r, "pick") /\ ~Exhausted(r) /\ Available(r) = {}
  /\ Become(r, IF r \in Legacy THEN <<"decide">> ELSE <<"repick">>)
  /\ UNCHANGED <<auths, sched, registered, held, req, listed>>

\* The scheduler has no auth: it is rebuilt from the manager's map and asked again
PickFails(r) ==
  /\ Doing(r, "pick") /\ ~Exhausted(r) /\ Available(r) = {}
  /\ Become(r, IF r \in Legacy THEN <<"decide">> ELSE <<"list", "rebuild", "repick">>)
  /\ UNCHANGED <<auths, sched, registered, held, req, listed>>

\* snapshotAuths, under m.mu
List(r) ==
  /\ Doing(r, "list")
  /\ listed' = [listed EXCEPT ![r] = [a \in {b \in Auths : auths[b].status # "unknown"} |-> auths[a]]]
  /\ Proceed(r)
  /\ UNCHANGED <<auths, sched, registered, held, req>>

\* scheduler.rebuild, under s.mu
Rebuild(r) ==
  /\ Doing(r, "rebuild")
  /\ sched' = [a \in Auths |-> IF a \in DOMAIN listed[r] THEN Entry(a, listed[r][a]) ELSE Missing]
  /\ listed' = [listed EXCEPT ![r] = NoList]
  /\ Proceed(r)
  /\ UNCHANGED <<auths, registered, held, req>>

RepickFails(r) ==
  /\ Doing(r, "repick") /\ Available(r) = {}
  /\ Become(r, <<"decide">>)
  /\ UNCHANGED <<auths, sched, registered, held, req, listed>>

\* The upstream answers; MarkResult changes the entry and takes a copy, under m.mu
Answer(r, outcome) ==
  /\ Doing(r, "answer")
  /\ ChangeInPlace(r, held[r].auth, AfterResult(auths[held[r].auth], outcome))
  /\ req' = [req EXCEPT ![r].err = IF outcome = "limited" THEN "limited" ELSE "failed"]
  /\ Become(r, IF outcome \in {"ok", "invalid", "scoped"} THEN <<"post">> ELSE <<"post", "pick">>)
  /\ UNCHANGED <<sched, registered, listed>>

\* shouldRetryAfterError: when the first auth that cools down can be used again, if that is
\* soon enough; if none does, when the upstream said
Cooling(r) == {a \in Auths : auths[a].status = "on" /\ auths[a].wait > 0 /\ req[r].attempt < Retries[a]}
NextTry(auth) == IF auth.recover > 0 THEN auth.recover ELSE auth.wait

RetryAllowed(r) == \E a \in Auths : auths[a].status # "unknown" /\ req[r].attempt < Retries[a]

RetryIn(r) ==
  IF Cooling(r) # {} THEN {Min({NextTry(auths[a]) : a \in Cooling(r)})}
  ELSE IF req[r].err = "limited" /\ RetryAllowed(r) THEN {RetryAfter}
  ELSE {}

Wait(r) ==
  /\ Doing(r, "decide") /\ MaxWait > 0
  /\ \E ticks \in RetryIn(r) :
       /\ ticks <= MaxWait
       /\ req' = [req EXCEPT ![r].timer = ticks]
  /\ Become(r, <<"wait">>)
  /\ UNCHANGED <<auths, sched, registered, held, listed>>

GiveUp(r) ==
  /\ Doing(r, "decide")
  /\ MaxWait = 0 \/ \A ticks \in RetryIn(r) : ticks > MaxWait
  /\ Become(r, <<>>)
  /\ UNCHANGED <<auths, sched, registered, held, req, listed>>

\* Mutant: a retry does not count.
SameAttempt(r) ==
  /\ Doing(r, "wait") /\ req[r].timer = 0
  /\ req' = [req EXCEPT ![r].tried = {}, ![r].err = "none"]
  /\ Become(r, <<"pick">>)
  /\ UNCHANGED <<auths, sched, registered, held, listed>>

Wake(r) ==
  /\ Doing(r, "wait") /\ req[r].timer = 0
  /\ req' = [req EXCEPT ![r].tried = {}, ![r].attempt = @ + 1, ![r].err = "none"]
  /\ Become(r, <<"pick">>)
  /\ UNCHANGED <<auths, sched, registered, held, listed>>

\* The client goes away: nothing is recorded of the attempt
Abandon(r) ==
  /\ Doing(r, "answer") \/ Doing(r, "wait")
  /\ Become(r, <<>>)
  /\ Keep(r, Nothing)
  /\ UNCHANGED <<auths, sched, registered, req, listed>>

-----------------------------------------------------------------------------
(* The service's handlers, one update after another                        *)

Reapply == <<"models", "reconcile", "snapshot", "post">>
AddAndApply == <<"store", "post", "models", "reconcile", "snapshot", "post">>

\* applyCoreAuthAddOrUpdate: an enabled auth takes over the states it finds
StartAdd(s, a, status) ==
  /\ Idle(s)
  /\ Keep(s, Holding(a, IF status = "on" /\ auths[a].status = "on" THEN auths[a] ELSE Fresh(status)))
  /\ Become(s, AddAndApply)
  /\ UNCHANGED <<auths, sched, registered, req, listed>>

StoreStep(s) ==
  /\ Doing(s, "store")
  /\ Store(s, held[s].auth, held[s].copy)
  /\ Proceed(s)
  /\ UNCHANGED <<sched, registered, req, listed>>

\* registerModelsForAuth, for the auth read before
RegisterModels(s) ==
  /\ Doing(s, "models")
  /\ registered' = IF held[s].copy.status = "on" THEN registered \cup {held[s].auth}
                   ELSE registered \ {held[s].auth}
  /\ Proceed(s)
  /\ UNCHANGED <<auths, sched, held, req, listed>>

\* ReconcileRegistryModelStates: a state that is not clean is reset, or dropped if the
\* model is not registered; the scheduler is told if there was one
Reconcile(s) ==
  /\ Doing(s, "reconcile")
  /\ LET a == held[s].auth
         auth == auths[a]
         changed == auth.state = "error" \/ (auth.state = "clean" /\ a \notin registered)
     IN IF changed
        THEN /\ auths' = [auths EXCEPT ![a] = IF a \in registered THEN Cleaned(auth) ELSE Fresh(auth.status)]
             /\ held' = [q \in Processes |->
                           IF held[q].auth = a /\ (q = s \/ held[q].shared)
                           THEN [held[q] EXCEPT !.copy = auths'[a], !.shared = q # s] ELSE held[q]]
             /\ Become(s, <<"post">> \o Tail(todo[s]))
        ELSE Proceed(s) /\ UNCHANGED <<auths, held>>
  /\ UNCHANGED <<sched, registered, req, listed>>

\* RefreshSchedulerEntry takes the copy it hands over
Snapshot(s) ==
  /\ Doing(s, "snapshot")
  /\ Keep(s, Holding(held[s].auth, auths[held[s].auth]))
  /\ Proceed(s)
  /\ UNCHANGED <<auths, sched, registered, req, listed>>

\* Mutant: the models are unregistered last.
DisableFirst(s, a) ==
  /\ Idle(s)
  /\ Keep(s, Holding(a, Unknown))
  /\ Become(s, <<"disable", "unregister">>)
  /\ UNCHANGED <<auths, sched, registered, req, listed>>

\* applyCoreAuthRemoval
StartRemoval(s, a) ==
  /\ Idle(s)
  /\ Keep(s, Holding(a, Unknown))
  /\ Become(s, <<"unregister", "disable">>)
  /\ UNCHANGED <<auths, sched, registered, req, listed>>

Unregister(s) ==
  /\ Doing(s, "unregister")
  /\ registered' = registered \ {held[s].auth}
  /\ Proceed(s)
  /\ Keep(s, IF Len(todo[s]) = 1 THEN Nothing ELSE held[s])
  /\ UNCHANGED <<auths, sched, req, listed>>

\* GetByID; what it returns is disabled and stored, if there is such an auth
ReadToDisable(s) ==
  /\ Doing(s, "disable")
  /\ LET auth == auths[held[s].auth]
     IN IF auth.status = "unknown"
        THEN Proceed(s) /\ Keep(s, IF Len(todo[s]) = 1 THEN Nothing ELSE held[s])
        ELSE /\ Become(s, <<"store", "post">> \o Tail(todo[s]))
             /\ Keep(s, Holding(held[s].auth, [auth EXCEPT !.status = "off"]))
  /\ UNCHANGED <<auths, sched, registered, req, listed>>

-----------------------------------------------------------------------------
(* The callback for changed model definitions: each enabled auth is        *)
(* registered again, and once more as it is found afterwards               *)

StartReregister(c, a) ==
  /\ Idle(c) /\ auths[a].status = "on"
  /\ Keep(c, Owner(a, auths[a]))
  /\ Become(c, <<"models", "reconcile", "latest">>)
  /\ UNCHANGED <<auths, sched, registered, req, listed>>

ReadLatest(c) ==
  /\ Doing(c, "latest")
  /\ Become(c, IF auths[held[c].auth].status = "on" THEN Reapply ELSE <<"unregister", "snapshot", "post">>)
  /\ Keep(c, Owner(held[c].auth, auths[held[c].auth]))
  /\ UNCHANGED <<auths, sched, registered, req, listed>>

-----------------------------------------------------------------------------
(* Writers read a copy, do something that takes time, and update           *)

ReadCopy(w, a) ==
  /\ Idle(w) /\ auths[a].status # "unknown"
  /\ Keep(w, Holding(a, auths[a]))
  /\ Become(w, <<"update">>)
  /\ UNCHANGED <<auths, sched, registered, req, listed>>

\* A refresh keeps the copy's status, a management handler sets it
WriteBack(w, status) ==
  /\ Doing(w, "update")
  /\ Store(w, held[w].auth, [held[w].copy EXCEPT !.status = status])
  /\ Become(w, <<"post">>)
  /\ UNCHANGED <<sched, registered, req, listed>>

\* A refresh that fails tells the scheduler while it holds m.mu
RefreshFails(w) ==
  /\ Doing(w, "update")
  /\ sched' = [sched EXCEPT ![held[w].auth] = Entry(held[w].auth, auths[held[w].auth])]
  /\ Become(w, <<>>)
  /\ Keep(w, Nothing)
  /\ UNCHANGED <<auths, registered, req, listed>>

-----------------------------------------------------------------------------
Init ==
  /\ \E known \in SUBSET Auths :
       /\ auths = [a \in Auths |-> IF a \in known THEN Fresh("on") ELSE Unknown]
       /\ sched = [a \in Auths |-> IF a \in known THEN [in |-> TRUE, wait |-> 0] ELSE Missing]
       /\ registered = known
  /\ todo = [p \in Processes |-> IF p \in Requests THEN <<"pick">> ELSE <<>>]
  /\ held = [p \in Processes |-> Nothing]
  /\ req = [r \in Requests |-> [tried |-> {}, attempt |-> 0, err |-> "none", timer |-> 0]]
  /\ listed = [r \in Requests |-> NoList]
  /\ doubt = [r \in Requests |-> {}]

Down(n) == IF n > 0 THEN n - 1 ELSE 0
Later(auth) == [auth EXCEPT !.wait = Down(@), !.recover = Down(@)]

Tick ==
  /\ auths' = [a \in Auths |-> Later(auths[a])]
  /\ sched' = [a \in Auths |-> [sched[a] EXCEPT !.wait = Down(@)]]
  /\ held' = [p \in Processes |-> [held[p] EXCEPT !.copy = Later(@)]]
  /\ listed' = [r \in Requests |-> [a \in DOMAIN listed[r] |-> Later(listed[r][a])]]
  /\ req' = [r \in Requests |-> [req[r] EXCEPT !.timer = Down(@)]]
  /\ UNCHANGED <<registered, todo>>

RequestStep(r) ==
  \/ EndOfCredentials(r) \/ PickFails(r) \/ List(r) \/ Rebuild(r) \/ RepickFails(r)
  \/ Wait(r) \/ GiveUp(r) \/ Wake(r)
  \/ \E a \in Auths : Pick(r, a)
  \/ \E outcome \in Outcomes : Answer(r, outcome)
  \/ Doing(r, "post") /\ Post(r)

ServiceStep(s) ==
  \/ \E a \in Auths : StartRemoval(s, a) \/ \E status \in {"on", "off"} : StartAdd(s, a, status)
  \/ StoreStep(s) \/ ReadToDisable(s)
CatalogStep(c) == ReadLatest(c) \/ \E a \in Auths : StartReregister(c, a)
ApplyStep(p) == RegisterModels(p) \/ Reconcile(p) \/ Snapshot(p) \/ Unregister(p) \/ Post(p)
WriterStep(w) ==
  \/ RefreshFails(w) \/ Post(w)
  \/ \E a \in Auths : ReadCopy(w, a)
  \/ \E status \in {"on", "off"} : WriteBack(w, status)

Step ==
  \/ Tick
  \/ \E r \in Requests : RequestStep(r) \/ Abandon(r)
  \/ \E s \in Services : ServiceStep(s) \/ ApplyStep(s)
  \/ \E c \in Catalogs : CatalogStep(c) \/ ApplyStep(c)
  \/ \E w \in Writers : WriterStep(w)

\* An auth cannot be used, or somebody is about to tell the scheduler so
Doubtful(a) ==
  \/ ~Selectable(a)
  \/ \E p \in Processes : Doing(p, "post") /\ held[p].auth = a /\ Entry(a, held[p].copy) # [in |-> TRUE, wait |-> 0]
  \/ \E q \in Requests :
       /\ Doing(q, "rebuild")
       /\ a \notin DOMAIN listed[q] \/ Entry(a, listed[q][a]) # [in |-> TRUE, wait |-> 0]

Resyncing(r) == Doing(r, "rebuild") \/ Doing(r, "repick")

Observe ==
  doubt' = [r \in Requests |->
              IF Resyncing(r)' THEN doubt[r] \cup {a \in Auths : Doubtful(a)'} ELSE {}]

Next == Step /\ Observe

\* Requests run, upstreams answer, timers fire; nothing is assumed of the others.
Spec ==
  /\ Init /\ [][Next]_vars
  /\ WF_vars(Tick /\ Observe)
  /\ \A r \in Requests : WF_vars(RequestStep(r) /\ Observe)

-----------------------------------------------------------------------------
\* Without an error on record there is no cooldown, and the next one for the quota is the first
AuthRecord ==
  {auth \in [status : {"unknown", "on", "off"}, state : {"none", "clean", "error"},
             wait : Nat, recover : Nat, backoff : Nat] :
     auth.state # "error" => auth.wait = 0 /\ auth.recover = 0 /\ auth.backoff = QuotaBase}

Steps ==
  {"pick", "list", "rebuild", "repick", "answer", "decide", "wait", "store", "post", "models",
   "reconcile", "snapshot", "latest", "unregister", "disable", "update"}

\* Every step that names an auth is taken by a process that holds one.  An auth, and every
\* copy of it on its way, is used without delay and with no quota on record once a success
\* has cleared its error, however late the failures of other requests arrived.
TypeOK ==
  /\ auths \in [Auths -> AuthRecord]
  /\ sched \in [Auths -> [in : BOOLEAN, wait : Nat]]
  /\ registered \subseteq Auths
  /\ todo \in [Processes -> Seq(Steps)]
  /\ held \in [Processes -> [auth : Auths \cup {None}, copy : AuthRecord, shared : BOOLEAN]]
  /\ \A p \in Processes :
       Doing(p, "answer") \/ Doing(p, "post") \/ (p \notin Requests /\ ~Idle(p)) => held[p].auth \in Auths
  /\ \A r \in Requests : \E known \in SUBSET Auths : listed[r] \in [known -> AuthRecord]

\* A request is turned away only for a reason: when the scheduler has no auth for it after
\* it was rebuilt, every auth it has not tried was unavailable, or somebody held an older
\* copy of it that says so, at some time since the rebuild began.
RefusedForAReason ==
  [][\A r \in Requests : RepickFails(r) => Auths \ req[r].tried \subseteq doubt[r]]_vars

\* An auth whose models are not registered cannot be selected, whatever copies of it are
\* still on their way to the scheduler, unless its removal is not over.
Removing(a) ==
  \E s \in Services \cup Catalogs : held[s].auth = a /\ ~Idle(s)
RemovedStaysOut == \A a \in Auths : sched[a].in => a \in registered \/ Removing(a)

\* Every request ends: it answers, or runs out of credentials and retries, however the
\* other requests change the cooldowns it waits for.
EveryRequestEnds == \A r \in Requests : <>[]Idle(r)

\* The registry agrees with the manager whenever nobody is at work on an auth.  Violated:
\* the callback registers what it read before a removal, or unregisters what was added since.
RegistryAgrees ==
  \A a \in Auths : Removing(a) \/ (a \in registered <=> auths[a].status = "on")
=============================================================================
