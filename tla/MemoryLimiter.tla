---------------------------- MODULE MemoryLimiter ----------------------------
(***************************************************************************)
(* The gateway's limiter of concurrent requests                            *)
(* (internal/api/memory_concurrency.go).  A request that finds the limit   *)
(* reached waits on the limiter's current channel; whoever changes         *)
(* anything closes that channel and makes a new one, and the waiters try   *)
(* again.  A monitor moves the limit with the process's memory, a reload   *)
(* replaces the configuration.                                             *)
(***************************************************************************)
EXTENDS Naturals, FiniteSets

CONSTANTS
    Request,   \* slots of concurrent requests; each serves one after another
    Configs,   \* configurations a (re)load may yield
    NoConfig   \* the monitor has not sampled one

\* What LoadConfig makes of a memory-concurrency section.
Config == [on : BOOLEAN, min : Nat \ {0}, max : Nat \ {0}, initial : Nat \ {0},
           patient : BOOLEAN]

ASSUME RequestAssumption == IsFiniteSet(Request)
ASSUME ConfigAssumption ==
    /\ Configs \subseteq Config /\ NoConfig \notin Configs
    /\ \A c \in Configs : c.min <= c.initial /\ c.initial <= c.max

VARIABLES
    cfg,       \* the configuration in force
    limit,     \* the current limit, 0 while the limiter is off
    inflight,  \* requests counted against it
    at,        \* per request: where acquire and its release stand
    deadline,  \* per request: its deadline is "unset", "ahead" or "past"
    seen,      \* the configuration the monitor sampled before reading RSS
    stopped    \* stopCh is closed

requests == <<inflight, at, deadline>>
vars == <<cfg, limit, requests, seen, stopped>>

\* "blocked" waits on the current channel, "woken" on one that is closed,
\* "counted" and "free" are served, with and without a slot of the limiter.
Places == {"idle", "blocked", "woken", "counted", "free"}
Waiting(r) == at[r] \in {"blocked", "woken"}

\* applyConfig: the old limit moved into the bounds, or a first one.
LimitFor(c, old) ==
    LET wanted == IF old > 0 THEN old ELSE c.initial
    IN  IF ~c.on THEN 0
        ELSE IF wanted < c.min THEN c.min
        ELSE IF wanted > c.max THEN c.max ELSE wanted

Init ==
    /\ cfg \in Configs
    /\ limit = LimitFor(cfg, 0)
    /\ inflight = 0
    /\ at = [r \in Request |-> "idle"]
    /\ deadline = [r \in Request |-> "unset"]
    /\ seen = NoConfig /\ stopped = FALSE

\* notifyWaitersLocked: whoever waits on the channel is woken.
Notify(places) ==
    [r \in Request |-> IF places[r] = "blocked" THEN "woken" ELSE places[r]]

\* A request moves and, if it no longer waits, forgets its deadline.
Goes(r, place, d) ==
    /\ at' = [at EXCEPT ![r] = place]
    /\ deadline' = [deadline EXCEPT ![r] = d]
    /\ UNCHANGED <<cfg, limit, seen, stopped>>

Governs == cfg.on /\ limit > 0
Full == Governs /\ inflight >= limit
-----------------------------------------------------------------------------
(* acquire, from its lock to its unlock.                                    *)

Attempts(r) == at[r] \in {"idle", "woken"}

Ungoverned(r) ==
    /\ Attempts(r) /\ ~Governs
    /\ Goes(r, "free", "unset") /\ UNCHANGED inflight

Admit(r) ==
    /\ Attempts(r) /\ Governs /\ ~Full
    /\ inflight' = inflight + 1
    /\ Goes(r, "counted", "unset")

\* Mutant: each attempt waits its full time again.
FreshDeadline(r) == IF cfg.patient THEN "ahead" ELSE "past"

\* The deadline is set by the first attempt and kept by the others.
DeadlineOf(r) ==
    IF deadline[r] # "unset" THEN deadline[r]
    ELSE IF cfg.patient THEN "ahead" ELSE "past"

Block(r) ==
    /\ Attempts(r) /\ Full /\ DeadlineOf(r) = "ahead"
    /\ Goes(r, "blocked", "ahead") /\ UNCHANGED inflight

Reject(r) ==
    /\ Attempts(r) /\ Full /\ DeadlineOf(r) = "past"
    /\ Goes(r, "idle", "unset") /\ UNCHANGED inflight

Attempt(r) == Ungoverned(r) \/ Admit(r) \/ Block(r) \/ Reject(r)

(* acquire, while it waits: the cases of its select.                        *)

TimesOut(r) ==
    /\ Waiting(r) /\ deadline[r] = "past"
    /\ Goes(r, "idle", "unset") /\ UNCHANGED inflight

ClientLeaves(r) ==
    /\ Waiting(r)
    /\ Goes(r, "idle", "unset") /\ UNCHANGED inflight

StopFrees(r) ==
    /\ Waiting(r) /\ stopped
    /\ Goes(r, "free", "unset") /\ UNCHANGED inflight

\* Time passes the deadline of a waiting request.
Expire(r) ==
    /\ deadline[r] = "ahead"
    /\ deadline' = [deadline EXCEPT ![r] = "past"]
    /\ UNCHANGED <<cfg, limit, inflight, at, seen, stopped>>
-----------------------------------------------------------------------------
(* The release that acquire returned.                                       *)

\* Mutant: every release gives a slot back.
AnyoneHolds(r) == at[r] \in {"counted", "free"}

HoldsSlot(r) == at[r] = "counted"

\* Mutant: nobody is told of the free slot.
ReleaseSilently(r) ==
    /\ HoldsSlot(r)
    /\ inflight' = IF inflight > 0 THEN inflight - 1 ELSE inflight
    /\ at' = [at EXCEPT ![r] = "idle"]
    /\ UNCHANGED <<cfg, limit, deadline, seen, stopped>>

Release(r) ==
    /\ HoldsSlot(r)
    /\ inflight' = IF inflight > 0 THEN inflight - 1 ELSE inflight
    /\ at' = Notify([at EXCEPT ![r] = "idle"])
    /\ UNCHANGED <<cfg, limit, deadline, seen, stopped>>

\* The release of a request that holds no slot does nothing.
ReleaseFree(r) ==
    /\ at[r] = "free" /\ ~HoldsSlot(r)
    /\ Goes(r, "idle", "unset") /\ UNCHANGED inflight
-----------------------------------------------------------------------------
(* The configuration, the monitor and the end.                              *)

ApplyConfig(c) ==
    /\ cfg' = c
    /\ limit' = LimitFor(c, limit)
    /\ at' = Notify(at)
    /\ UNCHANGED <<inflight, deadline, seen, stopped>>

\* monitorLoop reads the configuration, and then the memory in use.  Its
\* timer may still win the select after stopCh is closed.
Sample ==
    /\ seen = NoConfig /\ cfg.on
    /\ seen' = cfg
    /\ UNCHANGED <<cfg, limit, requests, stopped>>

\* Mutant: the bounds are those of the configuration sampled before.
SampledBounds == seen

\* adjustLimit reads the configuration again, under the mutex.
Bounds == cfg

\* The memory is above its target, below it, or neither.
Adjust ==
    /\ seen # NoConfig
    /\ seen' = NoConfig
    /\ \/ UNCHANGED <<limit, at>>
       \/ /\ cfg.on
          /\ \/ limit > Bounds.min /\ limit' = limit - 1
             \/ limit < Bounds.max /\ limit' = limit + 1
          /\ at' = Notify(at)
    /\ UNCHANGED <<cfg, inflight, deadline, stopped>>

Close ==
    /\ stopped' = TRUE
    /\ at' = Notify(at)
    /\ UNCHANGED <<cfg, limit, inflight, deadline, seen>>

-----------------------------------------------------------------------------

RequestStep(r) ==
    \/ Attempt(r) \/ TimesOut(r) \/ ClientLeaves(r) \/ StopFrees(r) \/ Expire(r)
    \/ Release(r) \/ ReleaseFree(r)

Next ==
    \/ \E r \in Request : RequestStep(r)
    \/ \E c \in Configs : ApplyConfig(c)
    \/ Sample \/ Adjust \/ Close

Spec == Init /\ [][Next]_vars

\* Time passes, timers fire, and a request that was woken gets the mutex.
FairSpec ==
    /\ Spec
    /\ \A r \in Request :
         /\ WF_vars(Expire(r))
         /\ WF_vars(Waiting(r) /\ (Attempt(r) \/ TimesOut(r)))
-----------------------------------------------------------------------------
(* Properties.                                                              *)

Counted == {r \in Request : at[r] = "counted"}

\* Every variable has its type.
TypeOK ==
    /\ cfg \in Configs /\ limit \in Nat /\ inflight \in Nat
    /\ at \in [Request -> Places]
    /\ deadline \in [Request -> {"unset", "ahead", "past"}]
    /\ seen \in Configs \cup {NoConfig} /\ stopped \in BOOLEAN

\* A request that waits on the channel nobody has closed yet waits for a
\* reason: the limiter is on and all its slots are taken.  No free slot, raised
\* limit or disabled limiter leaves a waiter asleep.
NoLostWakeup == \A r \in Request : at[r] = "blocked" => Full

\* The count is the number of requests served with a slot: one that timed out,
\* left, or was let through while the limiter was off or stopping neither
\* takes a slot with it nor gives one back.
CountIsExact == inflight = Cardinality(Counted)

\* The limit stays within the bounds of the configuration in force, whichever
\* configuration the monitor sampled before it was replaced.
LimitWithinBounds ==
    IF cfg.on THEN cfg.min <= limit /\ limit <= cfg.max ELSE limit = 0

\* A waiting request is admitted, let through or rejected, however often it
\* is woken and finds that others were faster: its deadline does not move.
EveryWaiterIsAnswered ==
    \A r \in Request : Waiting(r) ~> ~Waiting(r)
=============================================================================
