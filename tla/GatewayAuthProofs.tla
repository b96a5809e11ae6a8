--------------------------- MODULE GatewayAuthProofs ---------------------------
(***************************************************************************)
(* The inductive invariant of the auth manager, the scheduler and the      *)
(* service, for any number of auths, requests, handlers and writers, and   *)
(* what follows from it: an auth whose models are gone is not selected.    *)
(*                                                                         *)
(* A step moves one process and perhaps one map.  WellFormed says what a   *)
(* process may have left to do and hold; it is shown for the process that  *)
(* moves by a lemma for each step, and for the others by Steady.           *)
(***************************************************************************)
EXTENDS GatewayAuth, SequenceTheorems, TLAPS

Handlers == Services \cup Catalogs
Held == [auth : Auths \cup {None}, copy : AuthRecord, shared : BOOLEAN]
Known(a) == auths[a].status # "unknown"

\* What a handler ends with: it tells the scheduler, or finds that there is no such auth,
\* or reads it again and starts over.
Final == {"post", "disable", "latest"}
EndOf(steps) == steps[Len(steps)]
Finishes(steps) == steps # <<>> => EndOf(steps) \in Final

\* Steps that only come first
Opening(p) == IF p \in Requests THEN {"store", "answer", "post"} ELSE {"store"}
Orderly(p, steps) == \A i \in 2 .. Len(steps) : steps[i] \notin Opening(p)

\* The steps a process has left fit what it holds: an auth if they name one, and, once it
\* is stored, only a copy of an auth that the manager knows.
Fits(p, step, h) ==
  /\ step \in {"answer", "post"} \/ p \notin Requests => h.auth \in Auths
  /\ step = "store" => h.copy.status # "unknown" /\ ~h.shared
  /\ step # "store" /\ h.copy.status # "unknown" => h.auth \in Auths /\ Known(h.auth)

WellFormed(p, steps, h) ==
  /\ steps \in Seq(Steps) /\ h \in Held
  /\ Orderly(p, steps)
  /\ p \in Handlers => Finishes(steps)
  /\ steps # <<>> => Fits(p, Head(steps), h)

Maps ==
  /\ auths \in [Auths -> AuthRecord]
  /\ sched \in [Auths -> [in : BOOLEAN, wait : Nat]]
  /\ registered \subseteq Auths

\* Copies to rebuild from
ListOf(list) ==
  \E known \in SUBSET Auths : list \in [known -> AuthRecord] /\ \A a \in known : Known(a)

IInv ==
  /\ Maps
  /\ todo \in [Processes -> Seq(Steps)] /\ held \in [Processes -> Held]
  /\ \A p \in Processes : WellFormed(p, todo[p], held[p])
  /\ listed = [r \in Requests |-> listed[r]]
  /\ \A r \in Requests : ListOf(listed[r])
  /\ \A a \in Auths : sched[a].in => Known(a)
  /\ RemovedStaysOut

-----------------------------------------------------------------------------
(* Lists of steps                                                          *)

\* What is left after a step is as orderly, does not open with a step that only comes
\* first, and ends the same, so a handler does not end before a final step.
LEMMA RestOf ==
  ASSUME NEW p, NEW steps \in Seq(Steps), steps # <<>>, Orderly(p, steps)
  PROVE  /\ Tail(steps) \in Seq(Steps) /\ Orderly(p, Tail(steps))
         /\ Tail(steps) # <<>> => Head(Tail(steps)) \notin Opening(p)
         /\ Finishes(steps) => Finishes(Tail(steps))
         /\ Finishes(steps) /\ Head(steps) \notin Final => Tail(steps) # <<>>
<1>1. Tail(steps) \in Seq(Steps) /\ Len(Tail(steps)) = Len(steps) - 1
      /\ \A i \in 1 .. Len(Tail(steps)) : Tail(steps)[i] = steps[i + 1]
  OBVIOUS
<1>2. Tail(steps) # <<>> => Len(steps) > 1 /\ Head(Tail(steps)) = steps[2]
  OBVIOUS
<1>3. Orderly(p, Tail(steps))
  BY <1>1 DEF Orderly
<1>4. Tail(steps) # <<>> => Head(Tail(steps)) \notin Opening(p)
  BY <1>2 DEF Orderly
<1>5. Finishes(steps) => Finishes(Tail(steps))
  BY <1>1 DEF Finishes, EndOf
<1>6. Finishes(steps) /\ Head(steps) \notin Final => Tail(steps) # <<>>
  <2> SUFFICES ASSUME Tail(steps) = <<>> PROVE Finishes(steps) => Head(steps) \in Final
    OBVIOUS
  <2>1. Len(Tail(steps)) = 0
    BY <1>1, EmptySeq
  <2>2. Len(steps) = 1
    BY <1>1, <2>1
  <2> QED BY <2>2 DEF Finishes, EndOf
<1> QED BY <1>1, <1>3, <1>4, <1>5, <1>6

\* Telling the scheduler may be put before a handler's steps.
LEMMA PostBefore ==
  ASSUME NEW p \in Handlers, NEW steps \in Seq(Steps), Finishes(steps),
         Orderly(p, steps), steps # <<>> => Head(steps) \notin Opening(p)
  PROVE  /\ <<"post">> \o steps \in Seq(Steps) /\ <<"post">> \o steps # <<>>
         /\ Head(<<"post">> \o steps) = "post"
         /\ Finishes(<<"post">> \o steps) /\ Orderly(p, <<"post">> \o steps)
<1> DEFINE all == <<"post">> \o steps
<1>1. all \in Seq(Steps) /\ Len(all) = Len(steps) + 1 /\ all[1] = "post"
      /\ \A i \in 1 .. Len(steps) : all[i + 1] = steps[i]
  BY DEF Steps
<1>2. all # <<>> /\ Head(all) = "post"
  BY <1>1
<1>3. Finishes(all)
  <2>1. CASE steps = <<>>
    BY <1>1, <2>1 DEF Finishes, EndOf, Final
  <2>2. CASE steps # <<>>
    <3>1. Len(steps) \in 1 .. Len(steps)
      BY <2>2
    <3> QED BY <1>1, <3>1, <2>2 DEF Finishes, EndOf
  <2> QED BY <2>1, <2>2
<1>4. Orderly(p, all)
  <2> SUFFICES ASSUME NEW i \in 2 .. Len(all) PROVE all[i] \notin Opening(p)
    BY DEF Orderly
  <2>1. all[i] = steps[i - 1] /\ i - 1 \in 1 .. Len(steps)
    BY <1>1
  <2>2. CASE i = 2
    BY <2>1, <2>2
  <2>3. CASE i # 2
    BY <2>1, <2>3 DEF Orderly
  <2> QED BY <2>2, <2>3
<1> QED BY <1>1, <1>2, <1>3, <1>4

\* The lists of steps that handlers and writers start with.
LEMMA ListsOfSteps ==
  ASSUME NEW p \in Processes
  PROVE  /\ \A steps \in {AddAndApply, Reapply, <<"unregister", "disable">>,
                         <<"models", "reconcile", "latest">>, <<"unregister", "snapshot", "post">>} :
              /\ steps \in Seq(Steps) /\ Finishes(steps) /\ steps # <<>>
         /\ p \notin Requests =>
              \A steps \in {AddAndApply, Reapply, <<"unregister", "disable">>,
                            <<"models", "reconcile", "latest">>, <<"unregister", "snapshot", "post">>} :
                Orderly(p, steps)
         /\ Head(AddAndApply) = "store"
BY DEF AddAndApply, Reapply, Finishes, EndOf, Final, Orderly, Opening, Steps

-----------------------------------------------------------------------------
(* What every step keeps                                                   *)

\* A process that does not move stays well formed while others change auths in place.
LEMMA Steady ==
  ASSUME NEW q \in Processes, WellFormed(q, todo[q], held[q]), UNCHANGED todo[q],
         held'[q] \in Held, UNCHANGED held[q].auth, held'[q].shared => held[q].shared,
         \A a \in Auths : Known(a) => Known(a)',
         \/ UNCHANGED held[q].copy.status
         \/ /\ held[q].shared /\ held[q].auth \in Auths
            /\ held'[q].copy.status = auths'[held[q].auth].status
  PROVE  WellFormed(q, todo[q], held[q])'
<1>1. /\ todo'[q] \in Seq(Steps) /\ Orderly(q, todo'[q])
      /\ q \in Handlers => Finishes(todo'[q])
  BY DEF WellFormed
<1>2. ASSUME todo'[q] # <<>>
      PROVE  Fits(q, Head(todo[q]), held[q])'
  BY <1>2 DEF WellFormed, Fits, Known
<1> QED BY <1>1, <1>2 DEF WellFormed, Orderly, Opening, Finishes, EndOf, Fits

\* A removal under way stays under way while every handler at work goes on with its auth.
LEMMA RemovingStays ==
  ASSUME NEW a, Removing(a),
         \A s \in Handlers : held[s].auth = a /\ ~Idle(s) => held'[s].auth = a /\ todo'[s] # <<>>
  PROVE  Removing(a)'
BY DEF Removing, Idle, Handlers

\* The process that moves is well formed afterwards if what it then has fits what is known
\* before, because auths only become known.
LEMMA StaysWell ==
  ASSUME NEW p, NEW steps, NEW h, WellFormed(p, steps, h), todo'[p] = steps, held'[p] = h,
         \A a \in Auths : Known(a) => Known(a)'
  PROVE  WellFormed(p, todo[p], held[p])'
BY DEF WellFormed, Orderly, Opening, Finishes, EndOf, Fits, Known

\* One process moves; the others hold what they held, or see an auth changed in place.
LEMMA StepKeeps ==
  ASSUME IInv, NEW p \in Processes, NEW steps, Become(p, steps), steps \in Seq(Steps),
         held' \in [Processes -> Held], WellFormed(p, todo[p], held[p])',
         Maps', \A a \in Auths : Known(a) => Known(a)',
         \A q \in Processes \ {p} :
           /\ UNCHANGED held[q].auth /\ (held'[q].shared => held[q].shared)
           /\ \/ UNCHANGED held[q].copy.status
              \/ /\ held[q].shared /\ held[q].auth \in Auths
                 /\ held'[q].copy.status = auths'[held[q].auth].status,
         listed' = [r \in Requests |-> listed'[r]],
         \A r \in Requests : ListOf(listed[r])',
         \A a \in Auths : sched'[a].in => Known(a)' /\ (a \in registered' \/ Removing(a)')
  PROVE  IInv'
<1>1. todo' \in [Processes -> Seq(Steps)] /\ \A q \in Processes \ {p} : UNCHANGED todo[q]
  BY DEF IInv, Become
<1>2. \A q \in Processes \ {p} : WellFormed(q, todo[q], held[q])'
  <2> SUFFICES ASSUME NEW q \in Processes \ {p} PROVE WellFormed(q, todo[q], held[q])'
    OBVIOUS
  <2>1. WellFormed(q, todo[q], held[q]) /\ held'[q] \in Held
    BY DEF IInv
  <2> QED BY <1>1, <2>1, Steady
<1> QED BY <1>1, <1>2 DEF IInv, RemovedStaysOut

\* A handler at work that goes on with its auth, or any other process, keeps removals
\* under way.
LEMMA WorkGoesOn ==
  ASSUME IInv, NEW p \in Processes, NEW steps, Become(p, steps),
         \A q \in Processes \ {p} : UNCHANGED held[q].auth,
         p \in Handlers /\ ~Idle(p) => steps # <<>> /\ UNCHANGED held[p].auth,
         NEW a, Removing(a)
  PROVE  Removing(a)'
<1>1. \A q \in Processes : todo'[q] = IF q = p THEN steps ELSE todo[q]
  BY DEF IInv, Become
<1>2. Handlers \subseteq Processes
  BY DEF Handlers, Processes
<1> QED BY <1>1, <1>2, RemovingStays DEF Idle

\* A step that changes no map.
LEMMA Moves ==
  ASSUME IInv, NEW p \in Processes, NEW steps, NEW h, Become(p, steps), Keep(p, h),
         WellFormed(p, steps, h),
         p \in Handlers /\ ~Idle(p) =>
           (steps # <<>> /\ h.auth = held[p].auth) \/ ~sched[held[p].auth].in,
         UNCHANGED <<auths, sched, registered, listed>>
  PROVE  IInv'
<1>1. /\ held' \in [Processes -> Held] /\ held'[p] = h
      /\ \A q \in Processes \ {p} : held'[q] = held[q]
  BY DEF IInv, Keep, WellFormed
<1>2. Maps' /\ \A a \in Auths : Known(a)' <=> Known(a)
  BY DEF IInv, Maps, Known
<1>5. WellFormed(p, todo[p], held[p])' /\ steps \in Seq(Steps)
  BY <1>1, <1>2, StaysWell DEF IInv, Become, WellFormed
<1>3. listed' = [r \in Requests |-> listed'[r]] /\ \A r \in Requests : ListOf(listed[r])'
  BY DEF IInv, ListOf, Known
<1>4. ASSUME NEW a \in Auths, sched'[a].in
      PROVE  Known(a)' /\ (a \in registered' \/ Removing(a)')
  <2>1. Known(a)' /\ (a \in registered \/ Removing(a))
    BY <1>4, <1>2 DEF IInv, RemovedStaysOut
  <2>2. CASE p \in Handlers /\ ~Idle(p) => steps # <<>> /\ h.auth = held[p].auth
    BY <2>1, <2>2, <1>1, WorkGoesOn
  <2>3. CASE p \in Handlers /\ ~Idle(p) /\ ~sched[held[p].auth].in
    <3>1. \A s \in Handlers : held[s].auth = a /\ ~Idle(s) => held'[s].auth = a /\ todo'[s] # <<>>
      BY <1>1, <1>4, <2>3 DEF IInv, Become, Handlers, Processes, Idle
    <3> QED BY <2>1, <3>1, RemovingStays
  <2> QED BY <2>2, <2>3
<1> QED BY <1>1, <1>2, <1>3, <1>4, <1>5, StepKeeps

\* The same for a process that keeps what it holds.
LEMMA MovesHolding ==
  ASSUME IInv, NEW p \in Processes, NEW steps, Become(p, steps), UNCHANGED held,
         WellFormed(p, steps, held[p]), p \in Handlers /\ ~Idle(p) => steps # <<>>,
         UNCHANGED <<auths, sched, registered, listed>>
  PROVE  IInv'
<1>1. Keep(p, held[p])
  BY DEF IInv, Keep
<1> QED BY <1>1, Moves

-----------------------------------------------------------------------------
(* Records                                                                 *)

\* Fresh auths and what is held of an auth are typed.
LEMMA FreshTyped ==
  ASSUME NEW status \in {"unknown", "on", "off"}
  PROVE  Fresh(status) \in AuthRecord /\ Fresh(status).status = status
BY AuthConstants DEF Fresh, AuthRecord

LEMMA HoldingTyped ==
  ASSUME NEW a \in Auths \cup {None}, NEW copy \in AuthRecord
  PROVE  /\ Holding(a, copy) \in Held /\ Holding(a, copy).auth = a
         /\ Holding(a, copy).copy = copy /\ ~Holding(a, copy).shared
         /\ Owner(a, copy) \in Held /\ Owner(a, copy).auth = a
         /\ Owner(a, copy).copy.status = copy.status /\ ~Owner(a, copy).shared
<1>1. copy.status \in {"unknown", "on", "off"}
  BY DEF AuthRecord
<1> QED BY <1>1, FreshTyped DEF Holding, Owner, Held

LEMMA CopyTyped ==
  ASSUME NEW h \in Held, NEW copy \in AuthRecord
  PROVE  [h EXCEPT !.copy = copy] \in Held /\ [h EXCEPT !.copy = copy].copy = copy
BY DEF Held

LEMMA NothingTyped ==
  Nothing \in Held /\ Nothing.copy.status = "unknown" /\ Nothing.auth = None
BY FreshTyped DEF Nothing, Unknown, Held

\* What a result, a reconciliation or time makes of an auth is an auth of the same status.
LEMMA ChangedTyped ==
  ASSUME NEW auth \in AuthRecord
  PROVE  /\ Cleaned(auth) \in AuthRecord /\ Cleaned(auth).status = auth.status
         /\ Later(auth) \in AuthRecord /\ Later(auth).status = auth.status
         /\ Fresh(auth.status) \in AuthRecord /\ Fresh(auth.status).status = auth.status
         /\ \A outcome \in Outcomes :
              AfterResult(auth, outcome) \in AuthRecord /\ AfterResult(auth, outcome).status = auth.status
<1>1. Cleaned(auth) \in AuthRecord /\ Cleaned(auth).status = auth.status
  BY AuthConstants DEF Cleaned, AuthRecord
<1>2. Later(auth) \in AuthRecord /\ Later(auth).status = auth.status
  <2>1. /\ Down(auth.wait) \in Nat /\ Down(auth.recover) \in Nat
        /\ auth.state # "error" => Down(auth.wait) = 0 /\ Down(auth.recover) = 0
    BY DEF Down, AuthRecord
  <2> HIDE DEF Down
  <2>2. /\ Later(auth).wait = Down(auth.wait) /\ Later(auth).recover = Down(auth.recover)
        /\ Later(auth).state = auth.state /\ Later(auth).backoff = auth.backoff
        /\ Later(auth).status = auth.status
        /\ Later(auth) \in [status : {"unknown", "on", "off"}, state : {"none", "clean", "error"},
                             wait : Nat, recover : Nat, backoff : Nat]
    BY <2>1 DEF Later, AuthRecord
  <2> QED BY <2>1, <2>2 DEF AuthRecord
<1>3. Fresh(auth.status) \in AuthRecord /\ Fresh(auth.status).status = auth.status
  BY FreshTyped DEF AuthRecord
<1>4. ASSUME NEW wait \in Nat, NEW backoff \in Nat
      PROVE  /\ Failed(auth, wait) \in AuthRecord /\ Failed(auth, wait).status = auth.status
             /\ OverQuota(auth, wait, backoff) \in AuthRecord
             /\ OverQuota(auth, wait, backoff).status = auth.status
  BY DEF Failed, OverQuota, AuthRecord
<1>5. /\ auth.backoff \in Nat /\ QuotaCooldown(auth.backoff) \in Nat
      /\ NextBackoff(auth.backoff) \in Nat
  BY AuthConstants DEF AuthRecord, QuotaCooldown, NextBackoff
<1>6. ASSUME NEW outcome \in Outcomes
      PROVE  AfterResult(auth, outcome) \in AuthRecord /\ AfterResult(auth, outcome).status = auth.status
  <2>1. outcome \in {"ok", "refused", "limited", "quota", "server", "other", "invalid", "scoped"}
    BY AuthConstants
  <2> QED BY <1>1, <1>4, <1>5, <2>1, AuthConstants DEF AfterResult
<1> QED BY <1>1, <1>2, <1>3, <1>6

\* The scheduler's entry of a copy.
LEMMA EntryTyped ==
  ASSUME NEW a, NEW auth \in AuthRecord
  PROVE  /\ Entry(a, auth) \in [in : BOOLEAN, wait : Nat]
         /\ Entry(a, auth).in => auth.status = "on" /\ a \in registered
<1>1. BlockedFor(auth) \in Nat
  BY DEF BlockedFor, Largest, AuthRecord
<1> QED BY <1>1 DEF Entry, Missing

-----------------------------------------------------------------------------
(* The steps of a request                                                  *)

\* The lists of steps of a request are in order.
LEMMA RequestSteps ==
  ASSUME NEW r \in Requests
  PROVE  \A steps \in {<<>>, <<"answer">>, <<"decide">>, <<"wait">>, <<"pick">>, <<"post">>,
                       <<"post", "pick">>, <<"list", "rebuild", "repick">>} :
           steps \in Seq(Steps) /\ Orderly(r, steps) /\ r \notin Handlers
<1>1. r \notin Handlers
  BY AuthConstants DEF Handlers
<1>2. /\ <<>> \in Seq(Steps) /\ Orderly(r, <<>>)
      /\ \A step \in Steps : <<step>> \in Seq(Steps) /\ Orderly(r, <<step>>)
  BY DEF Orderly
<1>3. /\ <<"post", "pick">> \in Seq(Steps) /\ Orderly(r, <<"post", "pick">>)
      /\ <<"list", "rebuild", "repick">> \in Seq(Steps)
      /\ Orderly(r, <<"list", "rebuild", "repick">>)
  BY DEF Orderly, Opening, Steps
<1> QED BY <1>1, <1>2, <1>3 DEF Steps

LEMMA PickKeeps ==
  ASSUME IInv, NEW r \in Requests, NEW a \in Auths, Pick(r, a)
  PROVE  IInv'
<1>1. r \in Processes /\ WellFormed(r, <<"answer">>, Holding(a, Unknown)) /\ r \notin Handlers
  BY RequestSteps, HoldingTyped, FreshTyped DEF WellFormed, Processes, Fits, Unknown
<1> QED BY <1>1, Moves DEF Pick

\* A step that only leads to other steps which need no auth.
LEMMA LeadsOn ==
  ASSUME IInv, NEW r \in Requests, ~Idle(r), ~Doing(r, "store"), NEW steps,
         Become(r, steps), UNCHANGED <<auths, sched, registered, held, listed>>,
         steps \in {<<>>, <<"decide">>, <<"wait">>, <<"pick">>, <<"list", "rebuild", "repick">>}
  PROVE  IInv'
<1>1. r \in Processes /\ steps \in Seq(Steps) /\ Orderly(r, steps) /\ r \notin Handlers
  BY RequestSteps DEF Processes
<1>2. WellFormed(r, todo[r], held[r])
  BY <1>1 DEF IInv
<1>3. steps # <<>> => Head(steps) \in {"decide", "wait", "pick", "list"}
  OBVIOUS
<1>4. WellFormed(r, steps, held[r])
  BY <1>1, <1>2, <1>3 DEF WellFormed, Fits, Idle, Doing
<1> QED BY <1>1, <1>4, MovesHolding

LEMMA AbandonKeeps ==
  ASSUME IInv, NEW r \in Requests, Abandon(r)
  PROVE  IInv'
<1>1. r \in Processes /\ WellFormed(r, <<>>, Nothing) /\ r \notin Handlers
  BY RequestSteps, NothingTyped DEF WellFormed, Processes
<1> QED BY <1>1, Moves DEF Abandon

\* A request that takes a step off its list, other than telling the scheduler, goes on with
\* a list of steps that needs no auth.
LEMMA RequestProceeds ==
  ASSUME IInv, NEW r \in Requests, ~Idle(r), ~Doing(r, "store")
  PROVE  WellFormed(r, Tail(todo[r]), held[r])
<1>1. r \in Processes /\ r \notin Handlers
  BY RequestSteps DEF Processes
<1>2. WellFormed(r, todo[r], held[r]) /\ todo[r] \in Seq(Steps)
  BY <1>1 DEF IInv
<1>3. /\ Tail(todo[r]) \in Seq(Steps) /\ Orderly(r, Tail(todo[r]))
      /\ Tail(todo[r]) # <<>> => Head(Tail(todo[r])) \notin Opening(r)
  BY <1>2, RestOf DEF WellFormed, Idle
<1> QED BY <1>1, <1>2, <1>3 DEF WellFormed, Fits, Idle, Doing, Opening

LEMMA ListKeeps ==
  ASSUME IInv, NEW r \in Requests, List(r)
  PROVE  IInv'
<1>1. r \in Processes /\ r \notin Handlers /\ WellFormed(r, Tail(todo[r]), held[r])
  BY RequestSteps, RequestProceeds DEF Processes, List, Doing, Idle
<1>2. Maps' /\ \A a \in Auths : Known(a)' <=> Known(a)
  BY DEF IInv, Maps, Known, List
<1>3. WellFormed(r, todo[r], held[r])'
  BY <1>1, <1>2, StaysWell DEF IInv, List, Proceed, Become
<1>4. listed' = [q \in Requests |-> listed'[q]] /\ \A q \in Requests : ListOf(listed[q])'
  <2> DEFINE known == {b \in Auths : auths[b].status # "unknown"}
             list == [a \in known |-> auths[a]]
  <2>1. listed' = [q \in Requests |-> IF q = r THEN list ELSE listed[q]]
    BY DEF IInv, List
  <2>2. \E names \in SUBSET Auths : list \in [names -> AuthRecord] /\ \A a \in names : Known(a)'
    <3>1. known \in SUBSET Auths /\ list \in [known -> AuthRecord] /\ \A a \in known : Known(a)
      BY DEF IInv, Maps, Known
    <3> QED BY <3>1, <1>2
  <2>3. \A q \in Requests \ {r} :
          \E names \in SUBSET Auths : listed[q] \in [names -> AuthRecord] /\ \A a \in names : Known(a)'
    BY <1>2 DEF IInv, ListOf
  <2> HIDE DEF list
  <2> QED BY <2>1, <2>2, <2>3 DEF ListOf
<1>5. \A a : Removing(a) => Removing(a)'
  BY <1>1, WorkGoesOn DEF List, Proceed
<1>6. \A a \in Auths : sched'[a].in => Known(a)' /\ (a \in registered' \/ Removing(a)')
  BY <1>2, <1>5 DEF List, IInv, RemovedStaysOut
<1>7. held' \in [Processes -> Held] /\ UNCHANGED held /\ Become(r, Tail(todo[r]))
      /\ Tail(todo[r]) \in Seq(Steps)
  BY <1>1 DEF List, IInv, Proceed, WellFormed
<1> QED BY <1>1, <1>2, <1>3, <1>4, <1>6, <1>7, StepKeeps

\* Copies that were taken of known auths stay so when the list is given up.
LEMMA EmptyList == ListOf(NoList)'
<1>1. NoList \in [{} -> AuthRecord]
  BY DEF NoList
<1> QED BY <1>1 DEF ListOf, NoList

LEMMA RebuildKeeps ==
  ASSUME IInv, NEW r \in Requests, Rebuild(r)
  PROVE  IInv'
<1>1. r \in Processes /\ r \notin Handlers /\ WellFormed(r, Tail(todo[r]), held[r])
  BY RequestSteps, RequestProceeds DEF Processes, Rebuild, Doing, Idle
<1>2. \A a \in Auths : Known(a)' <=> Known(a)
  BY DEF Known, Rebuild
<1>3. WellFormed(r, todo[r], held[r])'
  BY <1>1, <1>2, StaysWell DEF IInv, Rebuild, Proceed, Become
<1>4. ASSUME NEW a \in Auths
      PROVE  /\ sched'[a] \in [in : BOOLEAN, wait : Nat]
             /\ sched'[a].in => Known(a) /\ a \in registered
  <2>1. PICK known \in SUBSET Auths :
          listed[r] \in [known -> AuthRecord] /\ \A b \in known : Known(b)
    BY DEF IInv, ListOf
  <2>2. CASE a \in known
    <3>1. listed[r][a] \in AuthRecord /\ sched'[a] = Entry(a, listed[r][a])
      BY <2>1, <2>2 DEF Rebuild
    <3> QED BY <2>1, <2>2, <3>1, EntryTyped
  <2>3. CASE a \notin known
    BY <2>1, <2>3 DEF Rebuild, Missing
  <2> QED BY <2>2, <2>3
<1>5. Maps'
  <2>1. sched' = [a \in Auths |-> sched'[a]]
    BY DEF Rebuild
  <2> QED BY <1>4, <2>1 DEF IInv, Maps, Rebuild
<1>6. listed' = [q \in Requests |-> listed'[q]] /\ \A q \in Requests : ListOf(listed[q])'
  <2>1. listed' = [q \in Requests |-> IF q = r THEN NoList ELSE listed[q]]
    BY DEF IInv, Rebuild
  <2> QED BY <2>1, <1>2, EmptyList DEF IInv, ListOf, NoList
<1>7. held' \in [Processes -> Held] /\ UNCHANGED held /\ Become(r, Tail(todo[r]))
      /\ Tail(todo[r]) \in Seq(Steps)
  BY <1>1 DEF Rebuild, IInv, Proceed, WellFormed
<1>8. \A a \in Auths : sched'[a].in => Known(a)' /\ (a \in registered' \/ Removing(a)')
  BY <1>2, <1>4 DEF Rebuild
<1> QED BY <1>1, <1>2, <1>3, <1>5, <1>6, <1>7, <1>8, StepKeeps

LEMMA AnswerKeeps ==
  ASSUME IInv, NEW r \in Requests, NEW outcome \in Outcomes, Answer(r, outcome)
  PROVE  IInv'
<1> DEFINE a == held[r].auth
           auth == AfterResult(auths[a], outcome)
           steps == IF outcome \in {"ok", "invalid", "scoped"} THEN <<"post">> ELSE <<"post", "pick">>
<1>1. r \in Processes /\ r \notin Handlers /\ steps \in Seq(Steps) /\ Orderly(r, steps)
      /\ steps # <<>> /\ Head(steps) = "post"
  BY RequestSteps DEF Processes
<1>2. a \in Auths
  BY <1>1 DEF IInv, WellFormed, Fits, Answer, Doing
<1>3. auth \in AuthRecord /\ auth.status = auths[a].status
  BY <1>2, ChangedTyped DEF IInv, Maps
<1>4. /\ auths' = [auths EXCEPT ![a] = auth] /\ Become(r, steps)
      /\ held' = [q \in Processes |->
                   IF q = r THEN Holding(a, auth)
                   ELSE IF held[q].auth = a /\ held[q].shared THEN [held[q] EXCEPT !.copy = auth]
                   ELSE held[q]]
      /\ UNCHANGED <<sched, registered, listed>>
  BY DEF Answer, ChangeInPlace
<1>5. Maps' /\ \A b \in Auths : Known(b)' <=> Known(b)
  BY <1>2, <1>3, <1>4 DEF IInv, Maps, Known
<1> HIDE DEF auth, steps
<1>6. held' \in [Processes -> Held]
  BY <1>2, <1>3, <1>4, HoldingTyped, CopyTyped DEF IInv
<1>7. WellFormed(r, steps, Holding(a, auth))
  BY <1>1, <1>2, <1>3, HoldingTyped DEF WellFormed, Fits, Known
<1>8. WellFormed(r, todo[r], held[r])'
  BY <1>1, <1>4, <1>5, <1>7, StaysWell DEF IInv, Become
<1>9. \A q \in Processes \ {r} :
        /\ UNCHANGED held[q].auth /\ (held'[q].shared => held[q].shared)
        /\ \/ UNCHANGED held[q].copy.status
           \/ /\ held[q].shared /\ held[q].auth \in Auths
              /\ held'[q].copy.status = auths'[held[q].auth].status
  BY <1>2, <1>4 DEF IInv, Maps, Held
<1>10. \A q \in Requests : ListOf(listed[q])'
  BY <1>4, <1>5 DEF IInv, ListOf
<1>11. \A b \in Auths : sched'[b].in => Known(b)' /\ (b \in registered' \/ Removing(b)')
  BY <1>1, <1>4, <1>5, <1>9, WorkGoesOn DEF IInv, RemovedStaysOut
<1> QED BY <1>1, <1>4, <1>5, <1>6, <1>8, <1>9, <1>10, <1>11, StepKeeps DEF IInv

-----------------------------------------------------------------------------
(* Telling the scheduler                                                   *)

\* What the scheduler makes of a copy on its way is of a known auth whose models are
\* registered, if it is there at all; the entries of other auths and removals of them stay.
LEMMA PostKeeps ==
  ASSUME IInv, NEW p \in Processes, Post(p)
  PROVE  IInv'
<1> DEFINE a == held[p].auth
           copy == held[p].copy
           h == IF Len(todo[p]) = 1 \/ p \in Requests THEN Nothing ELSE Owner(a, copy)
           rest == Tail(todo[p])
<1>1. /\ todo[p] \in Seq(Steps) /\ todo[p] # <<>> /\ Head(todo[p]) = "post"
      /\ WellFormed(p, todo[p], held[p]) /\ held[p] \in Held
  BY DEF IInv, Post, Doing
<1>2. /\ a \in Auths /\ copy \in AuthRecord /\ (copy.status # "unknown" => Known(a))
  BY <1>1 DEF WellFormed, Fits, Held
<1>3. /\ rest \in Seq(Steps) /\ Orderly(p, rest) /\ (p \in Handlers => Finishes(rest))
      /\ rest # <<>> => Head(rest) \notin Opening(p)
      /\ Len(todo[p]) = 1 => rest = <<>>
  <2>1. Len(todo[p]) = 1 => rest = <<>>
    <3>1. rest \in Seq(Steps) /\ Len(rest) = Len(todo[p]) - 1
      BY <1>1
    <3>2. rest # <<>> => Len(rest) \in Nat \ {0}
      BY <3>1, EmptySeq, Zenon
    <3> QED BY <3>1, <3>2
  <2> QED BY <1>1, <2>1, RestOf DEF WellFormed
<1>4. /\ sched' = [sched EXCEPT ![a] = Entry(a, copy)] /\ Become(p, rest) /\ Keep(p, h)
      /\ UNCHANGED <<auths, registered, listed>>
  BY DEF Post, Proceed
<1>5. WellFormed(p, rest, h)
  <2>1. CASE Len(todo[p]) = 1 \/ p \in Requests
    BY <1>3, <2>1, NothingTyped DEF WellFormed, Fits, Opening
  <2>2. CASE ~(Len(todo[p]) = 1 \/ p \in Requests)
    BY <1>2, <1>3, <2>2, HoldingTyped DEF WellFormed, Fits, Opening
  <2> QED BY <2>1, <2>2
<1> HIDE DEF h, rest
<1>6. \A b \in Auths : Known(b)' <=> Known(b)
  BY <1>4 DEF Known
<1>7. /\ held' \in [Processes -> Held] /\ \A q \in Processes \ {p} : held'[q] = held[q]
      /\ WellFormed(p, todo[p], held[p])'
  <2>1. /\ held' \in [Processes -> Held] /\ held'[p] = h
        /\ \A q \in Processes \ {p} : held'[q] = held[q]
    BY <1>4, <1>5 DEF IInv, Keep, WellFormed
  <2> QED BY <1>4, <1>5, <1>6, <2>1, StaysWell DEF IInv, Become
<1>8. Maps' /\ (sched'[a].in => Known(a) /\ a \in registered)
      /\ \A b \in Auths \ {a} : sched'[b] = sched[b]
  BY <1>2, <1>4, EntryTyped DEF IInv, Maps
<1>9. \A q \in Requests : ListOf(listed[q])'
  BY <1>4, <1>6 DEF IInv, ListOf
<1>10. ASSUME NEW b \in Auths \ {a}, Removing(b)
       PROVE  Removing(b)'
  <2>1. \A s \in Handlers : held[s].auth = b /\ ~Idle(s) => held'[s].auth = b /\ todo'[s] # <<>>
    BY <1>4, <1>7, <1>10 DEF IInv, Become, Handlers, Processes, Idle
  <2> QED BY <1>10, <2>1, RemovingStays
<1>11. \A b \in Auths : sched'[b].in => Known(b)' /\ (b \in registered' \/ Removing(b)')
  BY <1>4, <1>6, <1>8, <1>10 DEF IInv, RemovedStaysOut
<1> QED BY <1>3, <1>4, <1>6, <1>7, <1>8, <1>9, <1>11, StepKeeps DEF IInv

\* A refresh that fails hands over the entry itself, under the manager's mutex.
LEMMA RefreshFailsKeeps ==
  ASSUME IInv, NEW w \in Writers, RefreshFails(w)
  PROVE  IInv'
<1> DEFINE a == held[w].auth
<1>1. w \in Processes /\ w \notin Handlers /\ w \notin Requests
  BY AuthConstants DEF Processes, Handlers
<1>2. a \in Auths /\ auths[a] \in AuthRecord
  BY <1>1 DEF IInv, Maps, WellFormed, Fits, RefreshFails, Doing
<1>3. WellFormed(w, <<>>, Nothing) /\ <<>> \in Seq(Steps)
  BY <1>1, NothingTyped DEF WellFormed, Orderly
<1>4. /\ sched' = [sched EXCEPT ![a] = Entry(a, auths[a])] /\ Become(w, <<>>) /\ Keep(w, Nothing)
      /\ UNCHANGED <<auths, registered, listed>>
  BY DEF RefreshFails
<1>5. \A b \in Auths : Known(b)' <=> Known(b)
  BY <1>4 DEF Known
<1>6. /\ held' \in [Processes -> Held] /\ held'[w] = Nothing
      /\ \A q \in Processes \ {w} : held'[q] = held[q]
  BY <1>1, <1>4, NothingTyped DEF IInv, Keep
<1>7. WellFormed(w, todo[w], held[w])'
  BY <1>1, <1>3, <1>4, <1>5, <1>6, StaysWell DEF IInv, Become
<1>8. Maps' /\ (sched'[a].in => Known(a) /\ a \in registered)
      /\ \A b \in Auths \ {a} : sched'[b] = sched[b]
  BY <1>2, <1>4, EntryTyped DEF IInv, Maps, Known
<1>9. \A q \in Requests : ListOf(listed[q])'
  BY <1>4, <1>5 DEF IInv, ListOf
<1>10. \A b \in Auths : sched'[b].in => Known(b)' /\ (b \in registered' \/ Removing(b)')
  BY <1>1, <1>4, <1>5, <1>6, <1>8, WorkGoesOn DEF IInv, RemovedStaysOut
<1> QED BY <1>1, <1>3, <1>4, <1>5, <1>6, <1>7, <1>8, <1>9, <1>10, StepKeeps DEF IInv

-----------------------------------------------------------------------------
(* Storing an auth                                                         *)

\* Register and Update: the map has a known auth afterwards, and others that held the
\* object it replaces keep a copy of their own.
LEMMA StoreKeeps ==
  ASSUME IInv, NEW p \in Processes, NEW a \in Auths, NEW new \in AuthRecord,
         new.status # "unknown", Store(p, a, new), NEW steps \in Seq(Steps), Become(p, steps),
         Orderly(p, steps), p \in Handlers => Finishes(steps) /\ steps # <<>>,
         steps # <<>> => Head(steps) \notin {"store"}, held[p].auth = a,
         UNCHANGED <<sched, registered, listed>>
  PROVE  IInv'
<1> DEFINE auth == Merged(new, auths[a])
           h == [auth |-> a, copy |-> auth, shared |-> TRUE]
<1>1. auth \in AuthRecord /\ auth.status # "unknown"
  BY DEF Merged, IInv, Maps
<1> HIDE DEF auth
<1>2. /\ auths' = [auths EXCEPT ![a] = auth]
      /\ held' = [q \in Processes |->
                   IF q = p THEN h
                   ELSE IF held[q].auth = a THEN [held[q] EXCEPT !.shared = FALSE]
                   ELSE held[q]]
  BY DEF Store, auth
<1>3. Maps' /\ Known(a)' /\ \A b \in Auths : Known(b) => Known(b)'
  BY <1>1, <1>2 DEF IInv, Maps, Known
<1>4. held' \in [Processes -> Held] /\ held'[p] = h
  BY <1>1, <1>2 DEF IInv, Held
<1>5. WellFormed(p, todo[p], held[p])'
  <2>1. todo'[p] = steps /\ h \in Held /\ h.auth = a
    BY <1>4 DEF IInv, Become
  <2> QED BY <1>3, <1>4, <2>1 DEF WellFormed, Orderly, Opening, Finishes, EndOf, Fits, Known
<1>6. \A q \in Processes \ {p} :
        /\ UNCHANGED held[q].auth /\ (held'[q].shared => held[q].shared)
        /\ UNCHANGED held[q].copy.status
  BY <1>2 DEF IInv, Held
<1>7. \A q \in Requests : ListOf(listed[q])'
  BY <1>3 DEF IInv, ListOf
<1>8. ASSUME NEW b, Removing(b)
      PROVE  Removing(b)'
  <2>1. UNCHANGED held[p].auth /\ \A q \in Processes \ {p} : UNCHANGED held[q].auth
    BY <1>4, <1>6
  <2> QED BY <1>8, <2>1, WorkGoesOn
<1>9. \A b \in Auths : sched'[b].in => Known(b)' /\ (b \in registered' \/ Removing(b)')
  BY <1>3, <1>8 DEF IInv, RemovedStaysOut
<1> QED BY <1>3, <1>4, <1>5, <1>6, <1>7, <1>9, StepKeeps DEF IInv

-----------------------------------------------------------------------------
(* The steps of handlers and writers                                       *)

\* A handler at work holds an auth; when it goes on with the auth and a copy of it, the
\* rest of its steps fit, and there are some unless the step was a final one.
LEMMA HandlerProceeds ==
  ASSUME IInv, NEW s \in Handlers, ~Idle(s),
         NEW h \in Held, h.auth = held[s].auth, h.copy.status # "unknown" => Known(h.auth)
  PROVE  /\ s \in Processes /\ s \notin Requests
         /\ held[s].auth \in Auths /\ WellFormed(s, Tail(todo[s]), h)
         /\ Head(todo[s]) \notin Final => Tail(todo[s]) # <<>>
<1>1. s \in Processes /\ s \notin Requests
  BY AuthConstants DEF Handlers, Processes
<1>2. /\ todo[s] \in Seq(Steps) /\ todo[s] # <<>> /\ WellFormed(s, todo[s], held[s])
  BY <1>1 DEF IInv, Idle
<1>3. held[s].auth \in Auths
  BY <1>1, <1>2 DEF WellFormed, Fits
<1>4. /\ Tail(todo[s]) \in Seq(Steps) /\ Orderly(s, Tail(todo[s]))
      /\ Tail(todo[s]) # <<>> => Head(Tail(todo[s])) \notin Opening(s)
      /\ Finishes(Tail(todo[s]))
      /\ Head(todo[s]) \notin Final => Tail(todo[s]) # <<>>
  BY <1>2, RestOf DEF WellFormed
<1> QED BY <1>1, <1>3, <1>4 DEF WellFormed, Fits, Opening

\* A handler or writer that is idle takes up an auth, with a copy to store or one that is
\* of a known auth.
LEMMA StartKeeps ==
  ASSUME IInv, NEW p \in Processes \ Requests, Idle(p), NEW a \in Auths, NEW h \in Held,
         h.auth = a, NEW steps \in Seq(Steps), Become(p, steps), Keep(p, h), steps # <<>>,
         Orderly(p, steps), Finishes(steps) \/ p \notin Handlers,
         Head(steps) = "store" => h.copy.status # "unknown" /\ ~h.shared,
         Head(steps) # "store" /\ h.copy.status # "unknown" => Known(a),
         UNCHANGED <<auths, sched, registered, listed>>
  PROVE  IInv'
<1>1. WellFormed(p, steps, h)
  BY DEF WellFormed, Fits
<1> QED BY <1>1, Moves

LEMMA StartAddKeeps ==
  ASSUME IInv, NEW s \in Services, NEW a \in Auths, NEW status \in {"on", "off"}, StartAdd(s, a, status)
  PROVE  IInv'
<1> DEFINE copy == IF status = "on" /\ auths[a].status = "on" THEN auths[a] ELSE Fresh(status)
<1>1. s \in Processes \ Requests
  BY AuthConstants DEF Processes
<1>2. copy \in AuthRecord /\ copy.status # "unknown"
  BY FreshTyped DEF IInv, Maps
<1> HIDE DEF copy
<1>3. /\ AddAndApply \in Seq(Steps) /\ Finishes(AddAndApply) /\ AddAndApply # <<>>
      /\ Orderly(s, AddAndApply) /\ Head(AddAndApply) = "store"
  BY <1>1, ListsOfSteps
<1>4. /\ Idle(s) /\ Become(s, AddAndApply) /\ Keep(s, Holding(a, copy))
      /\ UNCHANGED <<auths, sched, registered, listed>>
  BY DEF StartAdd, copy
<1> QED BY <1>1, <1>2, <1>3, <1>4, HoldingTyped, StartKeeps

LEMMA StartRemovalKeeps ==
  ASSUME IInv, NEW s \in Services, NEW a \in Auths, StartRemoval(s, a)
  PROVE  IInv'
<1> DEFINE steps == <<"unregister", "disable">>
<1>1. s \in Processes \ Requests
  BY AuthConstants DEF Processes
<1>2. steps \in Seq(Steps) /\ Finishes(steps) /\ Orderly(s, steps) /\ steps # <<>> /\ Head(steps) = "unregister"
  BY <1>1, ListsOfSteps
<1>3. /\ Holding(a, Unknown) \in Held /\ Holding(a, Unknown).auth = a
      /\ Holding(a, Unknown).copy.status = "unknown"
  BY HoldingTyped, FreshTyped DEF Unknown
<1>4. /\ Idle(s) /\ Become(s, steps) /\ Keep(s, Holding(a, Unknown))
      /\ UNCHANGED <<auths, sched, registered, listed>>
  BY DEF StartRemoval
<1> HIDE DEF steps
<1> QED BY <1>1, <1>2, <1>3, <1>4, StartKeeps

LEMMA StartReregisterKeeps ==
  ASSUME IInv, NEW c \in Catalogs, NEW a \in Auths, StartReregister(c, a)
  PROVE  IInv'
<1> DEFINE steps == <<"models", "reconcile", "latest">>
<1>1. c \in Processes \ Requests
  BY AuthConstants DEF Processes
<1>2. steps \in Seq(Steps) /\ Finishes(steps) /\ Orderly(c, steps) /\ steps # <<>> /\ Head(steps) = "models"
  BY <1>1, ListsOfSteps
<1>3. /\ Idle(c) /\ Become(c, steps) /\ Keep(c, Owner(a, auths[a])) /\ Known(a)
      /\ auths[a] \in AuthRecord /\ UNCHANGED <<auths, sched, registered, listed>>
  BY DEF StartReregister, Known, IInv, Maps
<1> HIDE DEF steps
<1> QED BY <1>1, <1>2, <1>3, HoldingTyped, StartKeeps

LEMMA ReadCopyKeeps ==
  ASSUME IInv, NEW w \in Writers, NEW a \in Auths, ReadCopy(w, a)
  PROVE  IInv'
<1> DEFINE steps == <<"update">>
<1>1. w \in Processes \ Requests /\ w \notin Handlers
  BY AuthConstants DEF Processes, Handlers
<1>2. steps \in Seq(Steps) /\ Orderly(w, steps) /\ steps # <<>> /\ Head(steps) = "update"
  BY DEF Steps, Orderly
<1>3. /\ Idle(w) /\ Become(w, steps) /\ Keep(w, Holding(a, auths[a])) /\ Known(a)
      /\ auths[a] \in AuthRecord /\ UNCHANGED <<auths, sched, registered, listed>>
  BY DEF ReadCopy, Known, IInv, Maps
<1> HIDE DEF steps
<1> QED BY <1>1, <1>2, <1>3, HoldingTyped, StartKeeps

LEMMA SnapshotKeeps ==
  ASSUME IInv, NEW s \in Handlers, Snapshot(s)
  PROVE  IInv'
<1> DEFINE a == held[s].auth
           h == Holding(a, auths[a])
           rest == Tail(todo[s])
<1>1. ~Idle(s) /\ Head(todo[s]) = "snapshot" /\ held[s] \in Held /\ s \in Processes
  BY DEF Snapshot, Doing, Idle, IInv, Handlers, Processes
<1>2. a \in Auths
  BY <1>1, AuthConstants DEF IInv, WellFormed, Fits, Idle, Handlers
<1>3. h \in Held /\ h.auth = a /\ (h.copy.status # "unknown" => Known(a))
  BY <1>2, HoldingTyped DEF IInv, Maps, Known
<1> HIDE DEF h
<1>4. WellFormed(s, rest, h) /\ rest # <<>>
  BY <1>1, <1>3, HandlerProceeds DEF Final
<1>5. /\ Become(s, rest) /\ Keep(s, h) /\ UNCHANGED <<auths, sched, registered, listed>>
  BY DEF Snapshot, Proceed, h
<1> HIDE DEF rest
<1> QED BY <1>1, <1>3, <1>4, <1>5, Moves

LEMMA StoreStepKeeps ==
  ASSUME IInv, NEW s \in Services, StoreStep(s)
  PROVE  IInv'
<1> DEFINE a == held[s].auth
           copy == held[s].copy
           rest == Tail(todo[s])
<1>1. ~Idle(s) /\ Head(todo[s]) = "store" /\ s \in Handlers /\ s \in Processes
  BY DEF StoreStep, Doing, Idle, Handlers, Processes
<1>2. /\ todo[s] \in Seq(Steps) /\ todo[s] # <<>> /\ WellFormed(s, todo[s], held[s])
  BY <1>1 DEF IInv, Idle
<1>3. a \in Auths /\ copy \in AuthRecord /\ copy.status # "unknown"
  BY <1>1, <1>2, AuthConstants DEF WellFormed, Fits, Held
<1>4. /\ rest \in Seq(Steps) /\ Orderly(s, rest) /\ Finishes(rest) /\ rest # <<>>
      /\ Head(rest) # "store"
  BY <1>1, <1>2, RestOf DEF WellFormed, Opening, Final
<1>5. Store(s, a, copy) /\ Become(s, rest) /\ UNCHANGED <<sched, registered, listed>>
  BY DEF StoreStep, Proceed
<1> HIDE DEF rest
<1> QED BY <1>1, <1>3, <1>4, <1>5, StoreKeeps

LEMMA WriteBackKeeps ==
  ASSUME IInv, NEW w \in Writers, NEW status \in {"on", "off"}, WriteBack(w, status)
  PROVE  IInv'
<1> DEFINE a == held[w].auth
           copy == [held[w].copy EXCEPT !.status = status]
           steps == <<"post">>
<1>1. w \in Processes /\ w \notin Requests /\ w \notin Handlers
  BY AuthConstants DEF Processes, Handlers
<1>2. /\ todo[w] # <<>> /\ WellFormed(w, todo[w], held[w])
  BY <1>1 DEF IInv, WriteBack, Doing
<1>3. a \in Auths /\ held[w].copy \in AuthRecord
  BY <1>1, <1>2 DEF WellFormed, Fits, Held
<1>4. copy \in AuthRecord /\ copy.status # "unknown"
  BY <1>3 DEF AuthRecord
<1>5. steps \in Seq(Steps) /\ Orderly(w, steps) /\ steps # <<>> /\ Head(steps) # "store"
  BY DEF Steps, Orderly
<1>6. Store(w, a, copy) /\ Become(w, steps) /\ UNCHANGED <<sched, registered, listed>>
  BY DEF WriteBack
<1> HIDE DEF steps, copy
<1> QED BY <1>1, <1>3, <1>4, <1>5, <1>6, StoreKeeps

\* The registry changes for the handler's auth, whose removal is not over.
LEMMA RegistryKeeps ==
  ASSUME IInv, NEW s \in Handlers, ~Idle(s), Head(todo[s]) \notin Final \cup {"store"},
         Proceed(s), UNCHANGED held, registered' \subseteq Auths,
         \A a \in registered \ registered' : a = held[s].auth,
         UNCHANGED <<auths, sched, listed>>
  PROVE  IInv'
<1> DEFINE rest == Tail(todo[s])
<1>1. s \in Processes /\ held[s] \in Held /\ (held[s].copy.status # "unknown" => Known(held[s].auth))
  BY DEF IInv, WellFormed, Fits, Idle, Handlers, Processes
<1>2. WellFormed(s, rest, held[s]) /\ rest # <<>>
  BY <1>1, HandlerProceeds
<1> HIDE DEF rest
<1>3. Become(s, rest) /\ rest \in Seq(Steps)
  BY <1>2 DEF Proceed, rest, WellFormed
<1>4. Maps' /\ held' \in [Processes -> Held] /\ \A a \in Auths : Known(a)' <=> Known(a)
  BY DEF IInv, Maps, Known
<1>5. WellFormed(s, todo[s], held[s])'
  BY <1>1, <1>2, <1>3, <1>4, StaysWell DEF IInv, Become
<1>6. \A r \in Requests : ListOf(listed[r])'
  BY <1>4 DEF IInv, ListOf
<1>7. ASSUME NEW a \in Auths, sched'[a].in
      PROVE  Known(a)' /\ (a \in registered' \/ Removing(a)')
  <2>1. Known(a) /\ (a \in registered' \/ Removing(a) \/ a = held[s].auth)
    BY <1>7 DEF IInv, RemovedStaysOut
  <2>2. a = held[s].auth => Removing(a)
    BY DEF Removing, Handlers
  <2> QED BY <1>1, <1>2, <1>3, <1>4, <2>1, <2>2, WorkGoesOn
<1> QED BY <1>1, <1>3, <1>4, <1>5, <1>6, <1>7, StepKeeps DEF IInv

LEMMA RegisterModelsKeeps ==
  ASSUME IInv, NEW s \in Handlers, RegisterModels(s)
  PROVE  IInv'
<1>1. ~Idle(s) /\ Head(todo[s]) \notin Final \cup {"store"} /\ s \in Processes /\ s \notin Requests
  BY AuthConstants DEF RegisterModels, Doing, Idle, Final, Handlers, Processes
<1>2. held[s].auth \in Auths
  BY <1>1 DEF IInv, WellFormed, Fits, Idle
<1> QED BY <1>1, <1>2, RegistryKeeps DEF RegisterModels, IInv, Maps

LEMMA UnregisterKeeps ==
  ASSUME IInv, NEW s \in Handlers, Unregister(s)
  PROVE  IInv'
<1>1. ~Idle(s) /\ Head(todo[s]) = "unregister" /\ s \in Processes
  BY DEF Unregister, Doing, Idle, Handlers, Processes
<1>2. todo[s] \in Seq(Steps) /\ todo[s] # <<>> /\ Finishes(todo[s])
  BY <1>1 DEF IInv, WellFormed, Idle
<1>3. Len(todo[s]) # 1
  BY <1>1, <1>2 DEF Finishes, EndOf, Final
<1>4. UNCHANGED held
  BY <1>1, <1>3 DEF Unregister, Keep, IInv
<1> QED BY <1>1, <1>4, RegistryKeeps DEF Unregister, IInv, Maps, Final

LEMMA ReconcileKeeps ==
  ASSUME IInv, NEW s \in Handlers, Reconcile(s)
  PROVE  IInv'
<1> DEFINE a == held[s].auth
           auth == auths[a]
           changed == auth.state = "error" \/ (auth.state = "clean" /\ a \notin registered)
           new == IF a \in registered THEN Cleaned(auth) ELSE Fresh(auth.status)
           rest == Tail(todo[s])
           steps == <<"post">> \o rest
<1>1. /\ ~Idle(s) /\ Head(todo[s]) = "reconcile" /\ s \in Processes /\ s \notin Requests
      /\ held[s] \in Held /\ (held[s].copy.status # "unknown" => Known(a))
  BY AuthConstants DEF Reconcile, Doing, Idle, IInv, WellFormed, Fits, Handlers, Processes
<1>2. WellFormed(s, rest, held[s]) /\ rest # <<>> /\ a \in Auths
  BY <1>1, HandlerProceeds DEF Final
<1>3. CASE changed
  <2>1. new \in AuthRecord /\ new.status = auth.status
    BY <1>2, ChangedTyped DEF IInv, Maps
  <2>2. todo[s] \in Seq(Steps) /\ todo[s] # <<>> /\ WellFormed(s, todo[s], held[s])
    BY <1>1 DEF IInv, Idle
  <2>3. /\ rest \in Seq(Steps) /\ Finishes(rest) /\ Orderly(s, rest)
        /\ rest # <<>> => Head(rest) \notin Opening(s)
    BY <2>2, RestOf DEF WellFormed
  <2> HIDE DEF rest
  <2>4. /\ steps \in Seq(Steps) /\ steps # <<>> /\ Head(steps) = "post"
        /\ Finishes(steps) /\ Orderly(s, steps)
    BY <2>3, PostBefore
  <2> HIDE DEF steps
  <2>5. /\ auths' = [auths EXCEPT ![a] = new] /\ Become(s, steps)
        /\ held' = [q \in Processes |->
                     IF held[q].auth = a /\ (q = s \/ held[q].shared)
                     THEN [held[q] EXCEPT !.copy = auths'[a], !.shared = q # s] ELSE held[q]]
        /\ UNCHANGED <<sched, registered, listed>>
    BY <1>3 DEF Reconcile, rest, steps
  <2> HIDE DEF new
  <2>6. auths'[a] = new /\ Maps' /\ \A b \in Auths : Known(b)' <=> Known(b)
    BY <1>2, <2>1, <2>5 DEF IInv, Maps, Known
  <2>7. \A q \in Processes :
          /\ held'[q] \in Held /\ UNCHANGED held[q].auth
          /\ (q # s /\ held'[q].shared => held[q].shared)
          /\ \/ q # s /\ UNCHANGED held[q].copy.status
             \/ /\ held'[q].copy = new /\ held[q].auth = a
                /\ q # s => held[q].shared
    BY <1>1, <2>1, <2>5, <2>6 DEF IInv, Held
  <2>8. held' \in [Processes -> Held]
    BY <2>5, <2>7
  <2>9. WellFormed(s, steps, held'[s])
    BY <1>1, <1>2, <2>1, <2>4, <2>7 DEF WellFormed, Fits, Known
  <2>10. WellFormed(s, todo[s], held[s])'
    <3>1. todo'[s] = steps
      BY <1>1, <2>5 DEF IInv, Become
    <3> DEFINE h == held'[s]
    <3>2. WellFormed(s, steps, h) /\ held'[s] = h
      BY <2>9
    <3> QED BY <1>1, <2>6, <3>1, <3>2, <2>1, <2>7 DEF WellFormed, Orderly, Opening, Finishes, EndOf, Fits, Known
  <2>11. \A q \in Processes \ {s} :
          /\ UNCHANGED held[q].auth /\ (held'[q].shared => held[q].shared)
          /\ \/ UNCHANGED held[q].copy.status
             \/ /\ held[q].shared /\ held[q].auth \in Auths
                /\ held'[q].copy.status = auths'[held[q].auth].status
    BY <1>2, <2>6, <2>7
  <2>12. \A r \in Requests : ListOf(listed[r])'
    BY <2>5, <2>6 DEF IInv, ListOf
  <2>13. \A b \in Auths : sched'[b].in => Known(b)' /\ (b \in registered' \/ Removing(b)')
    BY <1>1, <2>4, <2>5, <2>6, <2>7, WorkGoesOn DEF IInv, RemovedStaysOut
  <2> QED BY <1>1, <2>4, <2>5, <2>6, <2>8, <2>10, <2>11, <2>12, <2>13, StepKeeps DEF IInv
<1>4. CASE ~changed
  <2>1. Become(s, rest) /\ UNCHANGED <<auths, held, sched, registered, listed>>
    BY <1>4 DEF Reconcile, Proceed
  <2> HIDE DEF rest
  <2> QED BY <1>1, <1>2, <2>1, MovesHolding
<1> QED BY <1>3, <1>4

LEMMA ReadToDisableKeeps ==
  ASSUME IInv, NEW s \in Services, ReadToDisable(s)
  PROVE  IInv'
<1> DEFINE a == held[s].auth
           auth == auths[a]
           rest == Tail(todo[s])
<1>1. /\ ~Idle(s) /\ Head(todo[s]) = "disable" /\ s \in Processes /\ s \notin Requests
      /\ s \in Handlers /\ held[s] \in Held /\ (held[s].copy.status # "unknown" => Known(a))
      /\ todo[s] \in Seq(Steps) /\ todo[s] # <<>>
      /\ WellFormed(s, todo[s], held[s])
  BY AuthConstants DEF ReadToDisable, Doing, Idle, IInv, WellFormed, Fits, Handlers, Processes
<1>2. a \in Auths /\ WellFormed(s, rest, held[s]) /\ rest \in Seq(Steps)
  BY <1>1, HandlerProceeds DEF WellFormed
<1>3. CASE auth.status = "unknown"
  <2>1. ~sched[a].in
    BY <1>2, <1>3 DEF IInv, Known
  <2> DEFINE h == IF Len(todo[s]) = 1 THEN Nothing ELSE held[s]
  <2>2. Become(s, rest) /\ Keep(s, h) /\ UNCHANGED <<auths, sched, registered, listed>>
    BY <1>3 DEF ReadToDisable, Proceed
  <2>3. Len(todo[s]) = 1 => rest = <<>>
    <3>1. rest \in Seq(Steps) /\ Len(rest) = Len(todo[s]) - 1
      BY <1>1
    <3>2. rest # <<>> => Len(rest) \in Nat \ {0}
      BY <3>1, EmptySeq, Zenon
    <3> QED BY <3>1, <3>2
  <2> HIDE DEF rest
  <2>4. WellFormed(s, rest, h)
    <3>1. CASE Len(todo[s]) = 1
      BY <1>2, <2>3, <3>1, NothingTyped DEF WellFormed
    <3>2. CASE Len(todo[s]) # 1
      BY <1>2, <3>2
    <3> QED BY <3>1, <3>2
  <2> HIDE DEF h
  <2> QED BY <1>1, <2>1, <2>2, <2>4, Moves
<1>4. CASE auth.status # "unknown"
  <2> DEFINE steps == <<"store", "post">> \o rest
             copy == [auth EXCEPT !.status = "off"]
  <2>1. copy \in AuthRecord /\ copy.status = "off"
    <3>1. auth \in AuthRecord
      BY <1>2 DEF IInv, Maps
    <3> QED BY <3>1 DEF AuthRecord
  <2>2. /\ Become(s, steps) /\ Keep(s, Holding(a, copy)) /\ UNCHANGED <<auths, sched, registered, listed>>
    BY <1>4 DEF ReadToDisable
  <2>3. /\ Finishes(rest) /\ Orderly(s, rest) /\ (rest # <<>> => Head(rest) \notin Opening(s))
    BY <1>1, RestOf DEF WellFormed
  <2> HIDE DEF rest, copy
  <2>4. /\ steps \in Seq(Steps) /\ steps # <<>> /\ Head(steps) = "store"
        /\ Finishes(steps) /\ Orderly(s, steps)
    <3> DEFINE all == steps
    <3>1. all \in Seq(Steps) /\ Len(all) = Len(rest) + 2 /\ all[1] = "store" /\ all[2] = "post"
          /\ \A i \in 1 .. Len(rest) : all[i + 2] = rest[i]
      BY <1>2 DEF Steps
    <3> HIDE DEF steps
    <3>2. all # <<>> /\ Head(all) = "store"
      BY <3>1
    <3>3. Finishes(all)
      <4>1. CASE rest = <<>>
        BY <3>1, <4>1 DEF Finishes, EndOf, Final
      <4>2. CASE rest # <<>>
        <5>1. Len(rest) \in 1 .. Len(rest)
          BY <1>2, <4>2
        <5> QED BY <2>3, <3>1, <5>1, <4>2 DEF Finishes, EndOf
      <4> QED BY <4>1, <4>2
    <3>4. Orderly(s, all)
      <4> SUFFICES ASSUME NEW i \in 2 .. Len(all) PROVE all[i] \notin Opening(s)
        BY DEF Orderly
      <4>1. CASE i = 2
        BY <1>1, <3>1, <4>1 DEF Opening
      <4>2. CASE i # 2
        <5>1. all[i] = rest[i - 2] /\ i - 2 \in 1 .. Len(rest)
          BY <1>2, <3>1, <4>2
        <5>2. CASE i = 3
          BY <1>2, <2>3, <5>1, <5>2
        <5>3. CASE i # 3
          BY <1>2, <2>3, <5>1, <5>3, <4>2 DEF Orderly
        <5> QED BY <5>2, <5>3
      <4> QED BY <4>1, <4>2
    <3> QED BY <3>1, <3>2, <3>3, <3>4
  <2> HIDE DEF steps
  <2>5. /\ Holding(a, copy) \in Held /\ Holding(a, copy).auth = a /\ ~Holding(a, copy).shared
        /\ Holding(a, copy).copy = copy
    BY <1>2, <2>1, HoldingTyped
  <2>6. WellFormed(s, steps, Holding(a, copy))
    BY <1>1, <1>2, <2>1, <2>4, <2>5 DEF WellFormed, Fits
  <2> QED BY <1>1, <2>2, <2>4, <2>5, <2>6, Moves
<1> QED BY <1>3, <1>4

LEMMA ReadLatestKeeps ==
  ASSUME IInv, NEW c \in Catalogs, ReadLatest(c)
  PROVE  IInv'
<1> DEFINE a == held[c].auth
           steps == IF auths[a].status = "on" THEN Reapply ELSE <<"unregister", "snapshot", "post">>
           h == Owner(a, auths[a])
<1>1. /\ c \in Processes /\ c \notin Requests /\ a \in Auths /\ auths[a] \in AuthRecord
  BY AuthConstants DEF IInv, Maps, WellFormed, Fits, ReadLatest, Doing, Processes
<1>2. /\ steps \in Seq(Steps) /\ steps # <<>> /\ Finishes(steps) /\ Orderly(c, steps)
  BY <1>1, ListsOfSteps
<1>3. Head(steps) # "store"
  BY DEF Reapply
<1>4. Become(c, steps) /\ Keep(c, h) /\ UNCHANGED <<auths, sched, registered, listed>>
  BY DEF ReadLatest
<1>5. h \in Held /\ h.auth = a /\ h.copy.status = auths[a].status
  BY <1>1, HoldingTyped
<1> HIDE DEF steps, h
<1>6. WellFormed(c, steps, h)
  BY <1>1, <1>2, <1>3, <1>5 DEF WellFormed, Fits, Known
<1> QED BY <1>1, <1>2, <1>4, <1>5, <1>6, Moves

-----------------------------------------------------------------------------
(* Time, and everything together                                           *)

\* Time passes for every copy at once and changes no status.
LEMMA TickKeeps ==
  ASSUME IInv, Tick
  PROVE  IInv'
<1>1. \A a \in Auths : auths'[a] = Later(auths[a]) /\ auths'[a] \in AuthRecord
                       /\ auths'[a].status = auths[a].status
  BY ChangedTyped DEF Tick, IInv, Maps
<1>2. Maps' /\ (\A a \in Auths : sched'[a].in = sched[a].in) /\ \A a \in Auths : Known(a)' <=> Known(a)
  <2>1. \A a \in Auths : sched'[a] \in [in : BOOLEAN, wait : Nat] /\ sched'[a].in = sched[a].in
    BY DEF Tick, IInv, Maps, Down
  <2> QED BY <1>1, <2>1 DEF Tick, IInv, Maps, Known
<1>3. /\ held' \in [Processes -> Held]
      /\ \A p \in Processes :
           /\ UNCHANGED held[p].auth /\ UNCHANGED held[p].shared /\ UNCHANGED held[p].copy.status
  <2>1. \A p \in Processes : held[p] \in Held /\ held'[p] = [held[p] EXCEPT !.copy = Later(@)]
    BY DEF Tick, IInv
  <2>2. \A p \in Processes : Later(held[p].copy) \in AuthRecord
                             /\ Later(held[p].copy).status = held[p].copy.status
    BY <2>1, ChangedTyped DEF Held
  <2>3. \A p \in Processes : held'[p] \in Held /\ UNCHANGED held[p].auth
          /\ UNCHANGED held[p].shared /\ UNCHANGED held[p].copy.status
    BY <2>1, <2>2 DEF Held
  <2> QED BY <2>3 DEF Tick
<1>4. \A p \in Processes : WellFormed(p, todo[p], held[p])'
  <2> SUFFICES ASSUME NEW p \in Processes PROVE WellFormed(p, todo[p], held[p])'
    OBVIOUS
  <2>1. WellFormed(p, todo[p], held[p]) /\ UNCHANGED todo[p] /\ held'[p] \in Held
    BY <1>3 DEF IInv, Tick
  <2> QED BY <1>2, <1>3, <2>1, Steady
<1>5. listed' = [r \in Requests |-> listed'[r]] /\ \A r \in Requests : ListOf(listed[r])'
  <2> SUFFICES ASSUME NEW r \in Requests PROVE ListOf(listed[r])'
    BY DEF Tick
  <2>1. PICK known \in SUBSET Auths : listed[r] \in [known -> AuthRecord] /\ \A a \in known : Known(a)
    BY DEF IInv, ListOf
  <2>2. listed'[r] = [a \in known |-> Later(listed[r][a])]
    BY <2>1 DEF Tick
  <2>3. listed'[r] \in [known -> AuthRecord]
    BY <2>1, <2>2, ChangedTyped
  <2> QED BY <1>2, <2>1, <2>3 DEF ListOf
<1>6. \A a \in Auths : Removing(a) => Removing(a)'
  BY <1>3 DEF Tick, Removing, Idle, Processes
<1>7. /\ todo' \in [Processes -> Seq(Steps)]
      /\ \A a \in Auths : sched'[a].in => Known(a)' /\ (a \in registered' \/ Removing(a)')
  BY <1>2, <1>6 DEF Tick, IInv, RemovedStaysOut
<1> QED BY <1>2, <1>3, <1>4, <1>5, <1>7 DEF IInv, RemovedStaysOut

LEMMA InitKeeps == Init => IInv
<1> SUFFICES ASSUME Init PROVE IInv
  OBVIOUS
<1>1. PICK known \in SUBSET Auths :
        /\ auths = [a \in Auths |-> IF a \in known THEN Fresh("on") ELSE Unknown]
        /\ sched = [a \in Auths |-> IF a \in known THEN [in |-> TRUE, wait |-> 0] ELSE Missing]
        /\ registered = known
  BY DEF Init
<1>2. /\ \A a \in known : auths[a] = Fresh("on") /\ Known(a)
      /\ \A a \in Auths : auths[a] \in AuthRecord
  BY <1>1, FreshTyped DEF Unknown, Known
<1>3. Maps /\ \A a \in Auths : sched[a].in => Known(a) /\ a \in registered
  BY <1>1, <1>2 DEF Maps, Missing
<1>4. /\ todo = [p \in Processes |-> IF p \in Requests THEN <<"pick">> ELSE <<>>]
      /\ held = [p \in Processes |-> Nothing]
      /\ listed = [r \in Requests |-> NoList]
  BY DEF Init
<1>5. \A p \in Processes : WellFormed(p, todo[p], held[p])
  <2> SUFFICES ASSUME NEW p \in Processes PROVE WellFormed(p, todo[p], held[p])
    OBVIOUS
  <2>1. CASE p \in Requests
    <3>1. todo[p] = <<"pick">> /\ p \notin Handlers /\ <<"pick">> \in Seq(Steps) /\ Orderly(p, <<"pick">>)
      BY <1>4, <2>1, AuthConstants DEF Handlers, Steps, Orderly
    <3> QED BY <1>4, <2>1, <3>1, NothingTyped DEF WellFormed, Fits
  <2>2. CASE p \notin Requests
    BY <1>4, <2>2, NothingTyped DEF WellFormed, Orderly, Finishes
  <2> QED BY <2>1, <2>2
<1>6. todo \in [Processes -> Seq(Steps)] /\ held \in [Processes -> Held]
  <2>1. <<"pick">> \in Seq(Steps) /\ <<>> \in Seq(Steps)
    BY DEF Steps
  <2> QED BY <1>4, <2>1, NothingTyped
<1>7. \A r \in Requests : ListOf(listed[r])
  <2>1. \A r \in Requests : listed[r] = NoList
    BY <1>4
  <2>2. NoList \in [{} -> AuthRecord]
    BY DEF NoList
  <2> QED BY <2>1, <2>2 DEF ListOf
<1> QED BY <1>3, <1>4, <1>5, <1>6, <1>7 DEF IInv, RemovedStaysOut

\* Every step of every process.
LEMMA NextKeeps ==
  ASSUME IInv, [Next]_vars
  PROVE  IInv'
<1>1. CASE UNCHANGED vars
  <2>1. UNCHANGED <<auths, sched, registered, todo, held, listed>>
    BY <1>1 DEF vars
  <2>2. Maps' /\ \A a \in Auths : Known(a)' <=> Known(a)
    BY <2>1 DEF IInv, Maps, Known
  <2>3. \A p \in Processes : WellFormed(p, todo[p], held[p])'
    BY <2>1, <2>2 DEF IInv, WellFormed, Orderly, Opening, Finishes, EndOf, Fits, Known
  <2>4. \A r \in Requests : ListOf(listed[r])'
    BY <2>1, <2>2 DEF IInv, ListOf
  <2>5. RemovedStaysOut'
    BY <2>1 DEF IInv, RemovedStaysOut, Removing, Idle
  <2> QED BY <2>1, <2>2, <2>3, <2>4, <2>5 DEF IInv
<1>2. CASE Tick
  BY <1>2, TickKeeps
<1>3. ASSUME NEW r \in Requests, RequestStep(r) \/ Abandon(r)
      PROVE  IInv'
  <2>1. CASE EndOfCredentials(r) \/ PickFails(r) \/ RepickFails(r) \/ Wait(r) \/ GiveUp(r) \/ Wake(r)
    <3>1. \E steps \in {<<>>, <<"decide">>, <<"wait">>, <<"pick">>, <<"list", "rebuild", "repick">>} :
            Become(r, steps)
      BY <2>1 DEF EndOfCredentials, PickFails, RepickFails, Wait, GiveUp, Wake
    <3>2. /\ ~Idle(r) /\ ~Doing(r, "store")
          /\ UNCHANGED <<auths, sched, registered, held, listed>>
      BY <2>1 DEF EndOfCredentials, PickFails, RepickFails, Wait, GiveUp, Wake, Idle, Doing
    <3> QED BY <3>1, <3>2, LeadsOn
  <2>2. CASE \E a \in Auths : Pick(r, a)
    BY <2>2, PickKeeps
  <2>3. CASE \E outcome \in Outcomes : Answer(r, outcome)
    BY <2>3, AnswerKeeps
  <2>4. CASE Post(r)
    BY <2>4, PostKeeps DEF Processes
  <2>5. CASE List(r) \/ Rebuild(r) \/ Abandon(r)
    BY <2>5, ListKeeps, RebuildKeeps, AbandonKeeps
  <2> QED BY <1>3, <2>1, <2>2, <2>3, <2>4, <2>5 DEF RequestStep
<1>4. ASSUME NEW p \in Handlers, ApplyStep(p)
      PROVE  IInv'
  BY <1>4, RegisterModelsKeeps, ReconcileKeeps, SnapshotKeeps, UnregisterKeeps, PostKeeps
     DEF ApplyStep, Handlers, Processes
<1>5. ASSUME NEW s \in Services, ServiceStep(s)
      PROVE  IInv'
  BY <1>5, StartRemovalKeeps, StartAddKeeps, StoreStepKeeps, ReadToDisableKeeps DEF ServiceStep
<1>6. ASSUME NEW c \in Catalogs, CatalogStep(c)
      PROVE  IInv'
  BY <1>6, ReadLatestKeeps, StartReregisterKeeps DEF CatalogStep
<1>7. ASSUME NEW w \in Writers, WriterStep(w)
      PROVE  IInv'
  BY <1>7, RefreshFailsKeeps, ReadCopyKeeps, WriteBackKeeps, PostKeeps DEF WriterStep, Processes
<1> QED BY <1>1, <1>2, <1>3, <1>4, <1>5, <1>6, <1>7 DEF Next, Step, Handlers

LEMMA Inductive == Spec => []IInv
<1>1. Init => IInv
  BY InitKeeps
<1>2. IInv /\ [Next]_vars => IInv'
  BY NextKeeps
<1> QED BY <1>1, <1>2, PTL DEF Spec

\* Every copy on its way is a copy of an auth, and whoever is to answer for an auth, tell
\* the scheduler of it or apply an update holds one.
THEOREM TypeCorrect == Spec => []TypeOK
<1>1. IInv => TypeOK
  <2> SUFFICES ASSUME IInv PROVE TypeOK
    OBVIOUS
  <2>1. \A p \in Processes :
          Doing(p, "answer") \/ Doing(p, "post") \/ (p \notin Requests /\ ~Idle(p)) => held[p].auth \in Auths
    BY DEF IInv, WellFormed, Fits, Doing, Idle
  <2>2. \A r \in Requests : \E known \in SUBSET Auths : listed[r] \in [known -> AuthRecord]
    BY DEF IInv, ListOf
  <2> QED BY <2>1, <2>2 DEF IInv, Maps, Held, TypeOK
<1> QED BY <1>1, Inductive, PTL

\* However late and in whatever order copies reach the scheduler (post, rebuild, a refresh
\* that fails), an auth whose models are gone from the registry cannot be selected once its
\* removal is over.
THEOREM RemovedIsNotSelected == Spec => []RemovedStaysOut
<1>1. IInv => RemovedStaysOut
  BY DEF IInv
<1> QED BY <1>1, Inductive, PTL

-----------------------------------------------------------------------------
(* Why a request is turned away                                            *)

Ready == [in |-> TRUE, wait |-> 0]

\* The scheduler is only asked again after it was rebuilt.
Resyncs(steps) == \A i \in 2 .. Len(steps) : steps[i] = "repick" => steps[i - 1] = "rebuild"

\* What a request was told of since its rebuild began covers every auth that cannot be used
\* now, and once the scheduler is rebuilt every auth it does not offer.
Reasons ==
  /\ \A r \in Requests : Resyncs(todo[r])
  /\ \A r \in Requests : Resyncing(r) => \A a \in Auths : Doubtful(a) => a \in doubt[r]
  /\ \A r \in Requests : Doing(r, "repick") => \A a \in Auths : a \in doubt[r] \/ sched[a] = Ready

LEMMA ResyncsRest ==
  ASSUME NEW steps \in Seq(Steps), steps # <<>>, Resyncs(steps)
  PROVE  /\ Resyncs(Tail(steps))
         /\ Tail(steps) # <<>> /\ Head(Tail(steps)) = "repick" => Head(steps) = "rebuild"
<1> DEFINE rest == Tail(steps)
<1>1. Len(rest) = Len(steps) - 1 /\ Len(steps) \in Nat /\ \A i \in 1 .. Len(rest) : rest[i] = steps[i + 1]
  OBVIOUS
<1>2. Head(steps) = steps[1] /\ (rest # <<>> => 2 \in 2 .. Len(steps) /\ Head(rest) = steps[2])
  OBVIOUS
<1> HIDE DEF rest
<1>3. ASSUME NEW i \in 2 .. Len(rest), rest[i] = "repick"
      PROVE  rest[i - 1] = "rebuild"
  <2>1. rest[i] = steps[i + 1] /\ rest[i - 1] = steps[(i - 1) + 1] /\ (i - 1) + 1 = i /\ i + 1 \in 2 .. Len(steps)
    BY <1>1
  <2>2. steps[(i + 1) - 1] = "rebuild" /\ (i + 1) - 1 = i
    BY <1>3, <2>1 DEF Resyncs
  <2> QED BY <2>1, <2>2
<1>4. rest # <<>> /\ Head(rest) = "repick" => Head(steps) = "rebuild"
  <2> SUFFICES ASSUME rest # <<>>, steps[2] = "repick" PROVE steps[1] = "rebuild"
    BY <1>2
  <2>1. 2 - 1 = 1
    OBVIOUS
  <2> QED BY <1>2, <2>1 DEF Resyncs
<1> QED BY <1>3, <1>4 DEF Resyncs, rest

LEMMA ResyncsLists ==
  \A steps \in {<<>>, <<"answer">>, <<"decide">>, <<"wait">>, <<"pick">>, <<"post">>,
                <<"post", "pick">>, <<"list", "rebuild", "repick">>} :
    Resyncs(steps) /\ (steps # <<>> => Head(steps) \notin {"rebuild", "repick"})
BY DEF Resyncs

\* What a step does to the list of a request.
ListStep(r) ==
  \/ UNCHANGED todo[r]
  \/ \E steps \in {<<>>, <<"answer">>, <<"decide">>, <<"wait">>, <<"pick">>, <<"post">>,
                   <<"post", "pick">>, <<"list", "rebuild", "repick">>} : todo'[r] = steps
  \/ todo[r] # <<>> /\ todo'[r] = Tail(todo[r]) /\ (Head(todo[r]) = "rebuild" => Rebuild(r))

LEMMA OnlyOneMoves ==
  ASSUME IInv, NEW p \in Processes, NEW r \in Requests, p # r, NEW steps, Become(p, steps)
  PROVE  ListStep(r)
BY DEF IInv, Become, ListStep, Processes

LEMMA OwnList ==
  ASSUME IInv, NEW r \in Requests, RequestStep(r) \/ Abandon(r)
  PROVE  ListStep(r) /\ \E steps : Become(r, steps)
<1>1. ASSUME NEW steps, Become(r, steps)
      PROVE  todo'[r] = steps
  BY <1>1 DEF IInv, Become, Processes
<1>2. CASE EndOfCredentials(r) \/ PickFails(r) \/ RepickFails(r) \/ Wait(r) \/ GiveUp(r) \/ Wake(r) \/ Abandon(r)
           \/ (\E a \in Auths : Pick(r, a)) \/ \E outcome \in Outcomes : Answer(r, outcome)
  <2>1. \E steps \in {<<>>, <<"answer">>, <<"decide">>, <<"wait">>, <<"pick">>, <<"post">>,
                      <<"post", "pick">>, <<"list", "rebuild", "repick">>} : Become(r, steps)
    BY <1>2 DEF EndOfCredentials, PickFails, RepickFails, Wait, GiveUp, Wake, Abandon, Pick, Answer
  <2> QED BY <1>1, <2>1 DEF ListStep
<1>3. CASE List(r) \/ Rebuild(r) \/ Post(r)
  <2>1. todo[r] # <<>> /\ Become(r, Tail(todo[r])) /\ (Head(todo[r]) = "rebuild" => Rebuild(r))
    BY <1>3 DEF List, Rebuild, Post, Doing, Proceed
  <2> QED BY <1>1, <2>1 DEF ListStep
<1> QED BY <1>2, <1>3 DEF RequestStep

\* Every step moves one process.
LEMMA OneMoves ==
  ASSUME IInv, Step, NEW r \in Requests
  PROVE  ListStep(r)
<1>1. CASE Tick
  BY <1>1 DEF Tick, ListStep
<1>2. ASSUME NEW q \in Requests, RequestStep(q) \/ Abandon(q)
      PROVE  ListStep(r)
  BY <1>2, OwnList, OnlyOneMoves DEF Processes
<1>3. ASSUME NEW p \in Services \cup Catalogs \cup Writers, NEW steps, Become(p, steps)
      PROVE  ListStep(r)
  BY <1>3, OnlyOneMoves, AuthConstants DEF Processes
<1>4. ASSUME NEW p, ApplyStep(p)
      PROVE  \E steps : Become(p, steps)
  BY <1>4 DEF ApplyStep, RegisterModels, Reconcile, Snapshot, Unregister, Post, Proceed
<1>5. ASSUME NEW s \in Services, ServiceStep(s)
      PROVE  \E steps : Become(s, steps)
  BY <1>5 DEF ServiceStep, StartRemoval, StartAdd, StoreStep, ReadToDisable, Proceed
<1>6. ASSUME NEW c \in Catalogs, CatalogStep(c)
      PROVE  \E steps : Become(c, steps)
  BY <1>6 DEF CatalogStep, ReadLatest, StartReregister
<1>7. ASSUME NEW w \in Writers, WriterStep(w)
      PROVE  \E steps : Become(w, steps)
  BY <1>7 DEF WriterStep, RefreshFails, Post, Proceed, ReadCopy, WriteBack
<1> QED BY <1>1, <1>2, <1>3, <1>4, <1>5, <1>6, <1>7 DEF Step

\* The scheduler stops offering an auth only where somebody was about to tell it so, or the
\* auth cannot be used.
LEMMA NotWithoutReason ==
  ASSUME IInv, Step, NEW a \in Auths, ~Doubtful(a)
  PROVE  /\ sched[a] = Ready => sched'[a] = Ready
         /\ \A r \in Requests : Rebuild(r) => sched'[a] = Ready
<1>0. auths[a].status = "on" /\ a \in registered /\ auths[a].wait = 0
  BY DEF Doubtful, Selectable
<1>1. ASSUME NEW p \in Processes, Post(p), sched[a] = Ready
      PROVE  sched'[a] = Ready
  <2>1. held[p].auth = a => Entry(a, held[p].copy) = Ready
    BY <1>1 DEF Post, Doubtful, Ready
  <2> QED BY <1>1, <2>1 DEF Post, IInv, Maps
<1>2. ASSUME NEW r \in Requests, Rebuild(r)
      PROVE  sched'[a] = Ready
  <2>1. a \in DOMAIN listed[r] /\ Entry(a, listed[r][a]) = Ready
    BY <1>2 DEF Rebuild, Doubtful, Ready
  <2> QED BY <1>2, <2>1 DEF Rebuild
<1>3. ASSUME NEW w \in Writers, RefreshFails(w), sched[a] = Ready
      PROVE  sched'[a] = Ready
  <2>1. Entry(a, auths[a]) = Ready
    BY <1>0 DEF Entry, BlockedFor, Ready
  <2> QED BY <1>3, <2>1 DEF RefreshFails, IInv, Maps
<1>4. ASSUME Tick, sched[a] = Ready
      PROVE  sched'[a] = Ready
  BY <1>4 DEF Tick, Ready, Down
<1>5. ASSUME sched[a] = Ready,
             ~Tick, ~\E p \in Processes : Post(p), ~\E r \in Requests : Rebuild(r), ~\E w \in Writers : RefreshFails(w)
      PROVE  UNCHANGED sched
  <2>1. ASSUME NEW r \in Requests, RequestStep(r) \/ Abandon(r)
        PROVE  UNCHANGED sched
    BY <1>5, <2>1 DEF RequestStep, Abandon, EndOfCredentials, PickFails, List, RepickFails, Wait, GiveUp,
       Wake, Pick, Answer, Processes
  <2>2. ASSUME NEW p \in Services \cup Catalogs, ApplyStep(p)
        PROVE  UNCHANGED sched
    BY <1>5, <2>2 DEF ApplyStep, RegisterModels, Reconcile, Snapshot, Unregister, Processes
  <2>3. ASSUME NEW s \in Services, ServiceStep(s)
        PROVE  UNCHANGED sched
    BY <2>3 DEF ServiceStep, StartRemoval, StartAdd, StoreStep, ReadToDisable
  <2>4. ASSUME NEW c \in Catalogs, CatalogStep(c)
        PROVE  UNCHANGED sched
    BY <2>4 DEF CatalogStep, ReadLatest, StartReregister
  <2>5. ASSUME NEW w \in Writers, WriterStep(w)
        PROVE  UNCHANGED sched
    BY <1>5, <2>5 DEF WriterStep, ReadCopy, WriteBack, Processes
  <2> QED BY <1>5, <2>1, <2>2, <2>3, <2>4, <2>5 DEF Step
<1> QED BY <1>1, <1>2, <1>3, <1>4, <1>5

LEMMA ReasonsKept ==
  ASSUME IInv, Reasons, [Next]_vars
  PROVE  Reasons'
<1>1. CASE UNCHANGED vars
  BY <1>1 DEF vars, Reasons, Doubtful, Selectable, Entry, Resyncing, Doing, Missing
<1>2. CASE Next
  <2>1. Step /\ doubt' = [r \in Requests |->
                  IF Resyncing(r)' THEN doubt[r] \cup {a \in Auths : Doubtful(a)'} ELSE {}]
    BY <1>2 DEF Next, Observe
  <2>2. \A r \in Requests : ListStep(r) /\ todo[r] \in Seq(Steps) /\ Resyncs(todo[r])
    BY <2>1, OneMoves DEF IInv, Reasons, Processes
  <2>3. \A r \in Requests : Resyncs(todo[r])'
    <3> SUFFICES ASSUME NEW r \in Requests PROVE Resyncs(todo'[r])
      BY DEF Resyncs
    <3>1. CASE UNCHANGED todo[r]
      BY <2>2, <3>1
    <3>2. CASE todo[r] # <<>> /\ todo'[r] = Tail(todo[r])
      BY <2>2, <3>2, ResyncsRest
    <3> QED BY <2>2, <3>1, <3>2, ResyncsLists DEF ListStep
  <2>4. \A r \in Requests : Resyncing(r)' => \A a \in Auths : Doubtful(a)' => a \in doubt'[r]
    BY <2>1
  <2>5. ASSUME NEW r \in Requests, Doing(r, "repick")', NEW a \in Auths, a \notin doubt'[r]
        PROVE  sched'[a] = Ready
    <3>1. Resyncing(r)' /\ a \notin doubt[r]
      BY <2>1, <2>5 DEF Resyncing
    <3>2. (Doing(r, "repick") /\ UNCHANGED todo[r]) \/ (Doing(r, "rebuild") /\ Rebuild(r))
      <4>1. CASE UNCHANGED todo[r]
        BY <2>5, <4>1 DEF Doing
      <4>2. CASE todo[r] # <<>> /\ todo'[r] = Tail(todo[r]) /\ (Head(todo[r]) = "rebuild" => Rebuild(r))
        BY <2>2, <2>5, <4>2, ResyncsRest DEF Doing
      <4> QED BY <2>2, <2>5, <4>1, <4>2, ResyncsLists DEF ListStep, Doing
    <3>3. Resyncing(r)
      BY <3>2 DEF Resyncing
    <3>4. ~Doubtful(a)
      BY <3>1, <3>3 DEF Reasons
    <3> QED BY <2>1, <3>1, <3>2, <3>4, NotWithoutReason DEF Reasons
  <2> QED BY <2>3, <2>4, <2>5 DEF Reasons
<1> QED BY <1>1, <1>2

\* PickFails rebuilds the scheduler from the manager's map before the request is turned
\* away, and posts of other processes overtake the rebuild: still every auth the request
\* has not tried was unusable, or an older copy that says so was on its way, at some time
\* since the rebuild began.
THEOREM NoRefusalWithoutReason == Spec => RefusedForAReason
<1>1. Init => Reasons
  <2> SUFFICES ASSUME Init PROVE Reasons
    OBVIOUS
  <2>1. \A r \in Requests : todo[r] = <<"pick">>
    BY DEF Init, Processes
  <2> QED BY <2>1, ResyncsLists DEF Reasons, Resyncing, Doing
<1>2. ASSUME IInv, Reasons, NEW r \in Requests, RepickFails(r)
      PROVE  Auths \ req[r].tried \subseteq doubt[r]
  <2> SUFFICES ASSUME NEW a \in Auths \ req[r].tried PROVE a \in doubt[r]
    OBVIOUS
  <2>1. Doing(r, "repick") /\ Resyncing(r) /\ a \notin Available(r)
    BY <1>2 DEF RepickFails, Resyncing
  <2>2. CASE r \in Legacy
    BY <1>2, <2>1, <2>2 DEF Available, Doubtful, Reasons
  <2>3. CASE r \notin Legacy
    <3>1. sched[a] # Ready
      BY <2>1, <2>3 DEF Available, Ready
    <3> QED BY <1>2, <2>1, <3>1 DEF Reasons
  <2> QED BY <2>2, <2>3
<1>3. IInv /\ Reasons => [\A r \in Requests : RepickFails(r) => Auths \ req[r].tried \subseteq doubt[r]]_vars
  BY <1>2
<1>4. Reasons /\ IInv /\ [Next]_vars => Reasons'
  BY ReasonsKept
<1> QED BY <1>1, <1>3, <1>4, Inductive, PTL DEF Spec, RefusedForAReason
=============================================================================
