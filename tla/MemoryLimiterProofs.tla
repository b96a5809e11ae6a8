------------------------- MODULE MemoryLimiterProofs -------------------------
(***************************************************************************)
(* What the limiter promises for every number of requests and every set of *)
(* configurations.  The inductive invariant joins the four safety          *)
(* invariants: an exact count never goes below zero, which is what lets    *)
(* the guard of the release be left out of account, and the bounds keep    *)
(* the limit positive while the limiter is on.                             *)
(***************************************************************************)
EXTENDS MemoryLimiter, FiniteSetTheorems, TLAPS

IInv == TypeOK /\ NoLostWakeup /\ CountIsExact /\ LimitWithinBounds

-----------------------------------------------------------------------------
(* The helpers.                                                             *)

\* A limit fitted to a configuration is within its bounds.
LEMMA LimitForBounds ==
  ASSUME NEW c \in Configs, NEW old \in Nat
  PROVE  /\ LimitFor(c, old) \in Nat
         /\ IF c.on THEN c.min <= LimitFor(c, old) /\ LimitFor(c, old) <= c.max
                    ELSE LimitFor(c, old) = 0
<1>1. c \in Config /\ c.min <= c.initial /\ c.initial <= c.max
  BY ConfigAssumption
<1> QED BY <1>1 DEF LimitFor, Config

\* Notify keeps the places, wakes whoever is blocked and moves nobody else.
LEMMA NotifyWakes ==
  ASSUME NEW p \in [Request -> Places]
  PROVE  /\ Notify(p) \in [Request -> Places]
         /\ \A r \in Request : /\ Notify(p)[r] # "blocked"
                               /\ (Notify(p)[r] = "counted") <=> (p[r] = "counted")
BY DEF Notify, Places

\* The requests with a slot are finitely many.
LEMMA CountedIsFinite == IsFiniteSet(Counted) /\ Cardinality(Counted) \in Nat
<1>1. Counted \subseteq Request
  BY DEF Counted
<1> QED BY <1>1, RequestAssumption, FS_Subset, FS_CardinalityType

\* An invariant state is one before a step of a request that keeps the
\* configuration and the limit.
LEMMA RequestKeepsLimit ==
  ASSUME LimitWithinBounds, UNCHANGED <<cfg, limit>>
  PROVE  LimitWithinBounds'
BY DEF LimitWithinBounds

-----------------------------------------------------------------------------
(* The steps.                                                               *)

\* A request that goes from a place without a slot to another such place,
\* without touching the count, keeps the invariant; if it goes to sleep, the
\* limiter has to be full.
LEMMA GoesKeeps ==
  ASSUME IInv, NEW r \in Request, NEW place \in Places \ {"counted"},
         NEW d \in {"unset", "ahead", "past"},
         at[r] # "counted", place = "blocked" => Full,
         Goes(r, place, d), UNCHANGED inflight
  PROVE  IInv'
<1>1. TypeOK'
  BY DEF IInv, TypeOK, Goes
<1>2. NoLostWakeup'
  BY DEF IInv, TypeOK, NoLostWakeup, Goes, Full, Governs
<1>3. Counted' = Counted
  BY DEF IInv, TypeOK, Goes, Counted
<1>4. CountIsExact'
  BY <1>3 DEF IInv, CountIsExact
<1>5. LimitWithinBounds'
  BY RequestKeepsLimit DEF IInv, Goes
<1> QED BY <1>1, <1>2, <1>4, <1>5 DEF IInv

\* Admit takes a slot.
LEMMA AdmitKeeps ==
  ASSUME IInv, NEW r \in Request, Admit(r)
  PROVE  IInv'
<1>1. at[r] # "counted" /\ inflight' = inflight + 1 /\ ~Full
  BY DEF Admit, Attempts
<1>2. Goes(r, "counted", "unset")
  BY DEF Admit
<1>3. TypeOK'
  BY <1>1, <1>2 DEF IInv, TypeOK, Goes, Places
<1>4. Counted' = Counted \cup {r} /\ r \notin Counted
  BY <1>1, <1>2 DEF IInv, TypeOK, Goes, Counted
<1>5. Cardinality(Counted') = Cardinality(Counted) + 1
  BY <1>4, CountedIsFinite, FS_AddElement
<1>6. CountIsExact'
  BY <1>1, <1>5 DEF IInv, CountIsExact
<1>7. NoLostWakeup'
  BY <1>1, <1>2 DEF IInv, TypeOK, NoLostWakeup, Goes
<1>8. LimitWithinBounds'
  BY <1>2, RequestKeepsLimit DEF IInv, Goes
<1> QED BY <1>3, <1>6, <1>7, <1>8 DEF IInv

\* Release gives it back and wakes the others.
LEMMA ReleaseKeeps ==
  ASSUME IInv, NEW r \in Request, Release(r)
  PROVE  IInv'
<1> DEFINE p == [at EXCEPT ![r] = "idle"]
<1>1. p \in [Request -> Places] /\ r \in Counted /\ at' = Notify(p)
  BY DEF IInv, TypeOK, Release, HoldsSlot, Counted, Places
<1>2. Counted' = Counted \ {r}
  <2>1. \A q \in Request : (at'[q] = "counted") <=> (p[q] = "counted")
    BY <1>1, NotifyWakes
  <2>2. \A q \in Request : (p[q] = "counted") <=> (q # r /\ at[q] = "counted")
    BY DEF IInv, TypeOK
  <2> QED BY <2>1, <2>2 DEF Counted
<1>3. Cardinality(Counted') = Cardinality(Counted) - 1
  BY <1>1, <1>2, CountedIsFinite, FS_RemoveElement
<1>4. Cardinality(Counted) > 0
  BY <1>1, CountedIsFinite, FS_EmptySet
<1>5. inflight' = inflight - 1 /\ inflight' \in Nat
  BY <1>4, CountedIsFinite DEF IInv, CountIsExact, Release
<1>6. CountIsExact'
  BY <1>3, <1>5 DEF IInv, CountIsExact
<1>7. TypeOK'
  <2> HIDE DEF p
  <2>1. at' \in [Request -> Places]
    BY <1>1, NotifyWakes
  <2> QED BY <2>1, <1>5 DEF IInv, TypeOK, Release
<1>8. NoLostWakeup'
  <2> HIDE DEF p
  <2> QED BY <1>1, NotifyWakes DEF NoLostWakeup
<1>9. LimitWithinBounds'
  BY RequestKeepsLimit DEF IInv, Release
<1> QED BY <1>6, <1>7, <1>8, <1>9 DEF IInv

\* The passing of a deadline moves nobody.
LEMMA ExpireKeeps ==
  ASSUME IInv, NEW r \in Request, Expire(r)
  PROVE  IInv'
<1>1. UNCHANGED <<cfg, limit, inflight, at, seen, stopped>>
  BY DEF Expire
<1>2. TypeOK'
  BY <1>1 DEF IInv, TypeOK, Expire
<1>3. Counted' = Counted
  BY <1>1 DEF Counted
<1> QED BY <1>1, <1>2, <1>3
        DEF IInv, NoLostWakeup, CountIsExact, LimitWithinBounds, Full, Governs

\* Every step of a request keeps the invariant.
LEMMA RequestStepKeeps ==
  ASSUME IInv, NEW r \in Request, RequestStep(r)
  PROVE  IInv'
<1>1. CASE Attempt(r)
  <2>1. CASE Ungoverned(r)
    BY <2>1, GoesKeeps DEF Ungoverned, Attempts, Places
  <2>2. CASE Admit(r)
    BY <2>2, AdmitKeeps
  <2>3. CASE Block(r)
    BY <2>3, GoesKeeps DEF Block, Attempts, Places
  <2>4. CASE Reject(r)
    BY <2>4, GoesKeeps DEF Reject, Attempts, Places
  <2> QED BY <1>1, <2>1, <2>2, <2>3, <2>4 DEF Attempt
<1>2. CASE TimesOut(r)
  BY <1>2, GoesKeeps DEF TimesOut, Waiting, Places
<1>3. CASE ClientLeaves(r)
  BY <1>3, GoesKeeps DEF ClientLeaves, Waiting, Places
<1>4. CASE StopFrees(r)
  BY <1>4, GoesKeeps DEF StopFrees, Waiting, Places
<1>5. CASE Expire(r)
  BY <1>5, ExpireKeeps
<1>6. CASE Release(r)
  BY <1>6, ReleaseKeeps
<1>7. CASE ReleaseFree(r)
  BY <1>7, GoesKeeps DEF ReleaseFree, Places
<1> QED BY <1>1, <1>2, <1>3, <1>4, <1>5, <1>6, <1>7 DEF RequestStep

\* A step that wakes everybody keeps the invariant if it keeps the bounds.
LEMMA NotifyKeeps ==
  ASSUME IInv, at' = Notify(at), UNCHANGED <<inflight, deadline>>,
         cfg' \in Configs, limit' \in Nat, LimitWithinBounds',
         seen' \in Configs \cup {NoConfig}, stopped' \in BOOLEAN
  PROVE  IInv'
<1>1. at \in [Request -> Places]
  BY DEF IInv, TypeOK
<1>2. TypeOK'
  BY <1>1, NotifyWakes DEF IInv, TypeOK
<1>3. NoLostWakeup'
  BY <1>1, NotifyWakes DEF NoLostWakeup
<1>4. Counted' = Counted
  BY <1>1, NotifyWakes DEF Counted
<1>5. CountIsExact'
  BY <1>4 DEF IInv, CountIsExact
<1> QED BY <1>2, <1>3, <1>5 DEF IInv

\* A reload fits the limit to the new configuration.
LEMMA ApplyConfigKeeps ==
  ASSUME IInv, NEW c \in Configs, ApplyConfig(c)
  PROVE  IInv'
<1>1. limit \in Nat /\ cfg' = c /\ limit' = LimitFor(c, limit)
  BY DEF IInv, TypeOK, ApplyConfig
<1>2. limit' \in Nat /\ LimitWithinBounds'
  BY <1>1, LimitForBounds DEF LimitWithinBounds
<1> QED BY <1>1, <1>2, NotifyKeeps DEF IInv, TypeOK, ApplyConfig

\* The monitor moves the limit by one within the bounds in force.
LEMMA AdjustKeeps ==
  ASSUME IInv, Adjust
  PROVE  IInv'
<1>1. cfg \in Config /\ limit \in Nat
  BY ConfigAssumption DEF IInv, TypeOK
<1>2. CASE UNCHANGED <<limit, at>>
  <2>1. Counted' = Counted
    BY <1>2 DEF Counted
  <2> QED BY <1>2, <2>1
          DEF IInv, TypeOK, NoLostWakeup, CountIsExact, LimitWithinBounds,
              Full, Governs, Adjust
<1>3. CASE ~UNCHANGED <<limit, at>>
  <2>1. /\ cfg.on /\ at' = Notify(at)
        /\ \/ limit > cfg.min /\ limit' = limit - 1
           \/ limit < cfg.max /\ limit' = limit + 1
    BY <1>3 DEF Adjust, Bounds
  <2>2. limit' \in Nat /\ LimitWithinBounds'
    BY <1>1, <2>1 DEF IInv, LimitWithinBounds, Adjust, Config
  <2> QED BY <2>1, <2>2, NotifyKeeps DEF IInv, TypeOK, Adjust
<1> QED BY <1>2, <1>3

-----------------------------------------------------------------------------

LEMMA InitHolds == Init => IInv
<1> SUFFICES ASSUME Init PROVE IInv
  OBVIOUS
<1>1. limit \in Nat /\ LimitWithinBounds
  BY LimitForBounds DEF Init, LimitWithinBounds
<1>2. TypeOK
  BY <1>1 DEF Init, TypeOK, Places
<1>3. NoLostWakeup
  BY DEF Init, NoLostWakeup
<1>4. Counted = {}
  BY DEF Init, Counted
<1>5. CountIsExact
  BY <1>4, FS_EmptySet DEF Init, CountIsExact
<1> QED BY <1>1, <1>2, <1>3, <1>5 DEF IInv

LEMMA NextKeeps == IInv /\ [Next]_vars => IInv'
<1> SUFFICES ASSUME IInv, [Next]_vars PROVE IInv'
  OBVIOUS
<1>1. CASE \E r \in Request : RequestStep(r)
  BY <1>1, RequestStepKeeps
<1>2. CASE \E c \in Configs : ApplyConfig(c)
  BY <1>2, ApplyConfigKeeps
<1>3. CASE Sample
  <2>1. Counted' = Counted
    BY <1>3 DEF Sample, Counted, requests
  <2> QED BY <1>3, <2>1
          DEF Sample, requests, IInv, TypeOK, NoLostWakeup, CountIsExact,
              LimitWithinBounds, Full, Governs
<1>4. CASE Adjust
  BY <1>4, AdjustKeeps
<1>5. CASE Close
  <2>1. LimitWithinBounds'
    BY <1>5, RequestKeepsLimit DEF IInv, Close
  <2> QED BY <1>5, <2>1, NotifyKeeps DEF IInv, TypeOK, Close
<1>6. CASE UNCHANGED vars
  <2>1. Counted' = Counted
    BY <1>6 DEF vars, requests, Counted
  <2> QED BY <1>6, <2>1
          DEF vars, requests, IInv, TypeOK, NoLostWakeup, CountIsExact,
              LimitWithinBounds, Full, Governs
<1> QED BY <1>1, <1>2, <1>3, <1>4, <1>5, <1>6 DEF Next

LEMMA Invariant == Spec => []IInv
BY InitHolds, NextKeeps, PTL DEF Spec

\* Whatever is admitted, reloaded, moved or stopped, the variables keep their
\* types; in particular the count never becomes negative.
THEOREM TypeCorrect == Spec => []TypeOK
<1>1. IInv => TypeOK
  BY DEF IInv
<1> QED BY <1>1, Invariant, PTL

\* Nobody sleeps on the current channel while a slot is free or the limiter
\* is off, for any number of waiters.
THEOREM NobodySleepsThroughIt == Spec => []NoLostWakeup
<1>1. IInv => NoLostWakeup
  BY DEF IInv
<1> QED BY <1>1, Invariant, PTL

\* The count is exact in every reachable state, across reloads and stops.
THEOREM SlotsAreCounted == Spec => []CountIsExact
<1>1. IInv => CountIsExact
  BY DEF IInv
<1> QED BY <1>1, Invariant, PTL

\* The limit respects the configuration in force, for every set of ranges.
THEOREM LimitRespectsConfig == Spec => []LimitWithinBounds
<1>1. IInv => LimitWithinBounds
  BY DEF IInv
<1> QED BY <1>1, Invariant, PTL
=============================================================================
