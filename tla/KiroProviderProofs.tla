------------------------- MODULE KiroProviderProofs -------------------------
(***************************************************************************)
(* The retry loops of kiro-rs over the token manager, for every number of  *)
(* requests, every list of credentials, every budget and whatever the      *)
(* upstream answers.  Each step moves one request; what it may do to the   *)
(* list is said by Harmless, except for the one report that counts a       *)
(* failure.  That the manager's own invariant survives the composition is  *)
(* shown on the way.  Failover comes last: a request's history is bounded  *)
(* by what is charged to the credentials that failed it.                   *)
(***************************************************************************)
EXTENDS KiroProvider, KiroTokenManagerProofs, SequenceTheorems

RequestSteps == {"idle", "loop", "acquiring", "send", "force", "forcing",
                 "report"}

\* What a request may note in its history: what it sent to which credential
\* and how that was answered, or that it forced a refresh.
Notes == Nat \X (AnswerKinds \cup {"force"})

\* How often a history tells of a forced refresh of this credential.
Forcings(tried, id) == Count(tried, <<id, "force">>)

RequestRecord(r) ==
    r \in [pc : RequestSteps, opus : BOOLEAN, attempt : Nat, retries : Nat,
           forced : SUBSET Nat, id : Nat, tried : Seq(Notes),
           result : {"none", "ok", "err"}]

\* The sends an attempt has noted: the one of a rejected bearer token is noted
\* before the attempt is over.
Budget(r) ==
    /\ r.attempt <= r.retries
    /\ r.pc \notin {"idle", "loop"} => r.attempt < r.retries
    /\ Cardinality(Sends(r.tried)) <= r.retries
    /\ r.pc \in {"loop", "acquiring", "send"} =>
         Cardinality(Sends(r.tried)) <= r.attempt
    /\ r.pc \in {"force", "forcing", "report"} =>
         Cardinality(Sends(r.tried)) <= r.attempt + 1

\* A credential not remembered has not been forced, nor the one that is just
\* about to be.
Remembered(r) ==
    /\ \A id \in Nat : Forcings(r.tried, id) <= 1
    /\ r.pc = "force" => r.id \in r.forced /\ Forcings(r.tried, r.id) = 0
    /\ r.pc # "idle" =>
         \A id \in Nat \ r.forced : Forcings(r.tried, id) = 0

Request(r) == RequestRecord(r) /\ Budget(r) /\ Remembered(r)

Requests == rq = [t \in Task |-> rq[t]] /\ \A t \in Task : Request(rq[t])

\* The failures an enabled entry has are answers that spoke against it.
Blamed ==
    /\ blame = [n \in DOMAIN blame |-> blame[n]]
    /\ \A n \in DOMAIN blame : blame[n] \in Nat
    /\ UniqueIds(entries)
    /\ \A s \in DOMAIN entries :
         /\ entries[s].id \in DOMAIN blame
         /\ ~entries[s].disabled => entries[s].fails <= blame[entries[s].id]

ProviderInv == IInv /\ Requests /\ Blamed

-----------------------------------------------------------------------------
(* The history of a request.                                                *)

\* The positions of a history that satisfy something are finitely many.
LEMMA PositionsFinite ==
  ASSUME NEW s \in Seq(Notes), NEW S, S \subseteq DOMAIN s
  PROVE  IsFiniteSet(S) /\ Cardinality(S) \in Nat
<1>1. DOMAIN s = 1 .. Len(s) /\ Len(s) \in Nat
  BY LenProperties
<1>2. IsFiniteSet(1 .. Len(s))
  BY <1>1, FS_Interval
<1> QED BY <1>1, <1>2, FS_Subset, FS_CardinalityType

\* A note adds at most one send; that of a forced refresh adds none.
LEMMA NoteCountsOnce ==
  ASSUME NEW s \in Seq(Notes), NEW e \in Notes
  PROVE  /\ Append(s, e) \in Seq(Notes)
         /\ Cardinality(Sends(s)) \in Nat
         /\ Cardinality(Sends(Append(s, e))) \in Nat
         /\ Cardinality(Sends(Append(s, e))) <= Cardinality(Sends(s)) + 1
         /\ e[2] = "force" => Sends(Append(s, e)) = Sends(s)
<1> DEFINE a == Append(s, e)
           n == Len(s) + 1
<1>1. /\ a \in Seq(Notes) /\ DOMAIN a = DOMAIN s \cup {n} /\ n \notin DOMAIN s
      /\ a[n] = e /\ \A i \in DOMAIN s : a[i] = s[i]
  <2>1. /\ a \in Seq(Notes) /\ Len(a) = n /\ a[n] = e
        /\ \A i \in 1 .. Len(s) : a[i] = s[i]
    BY AppendProperties
  <2>2. /\ DOMAIN a = 1 .. Len(a) /\ DOMAIN s = 1 .. Len(s)
        /\ Len(s) \in Nat
    BY <2>1, LenProperties
  <2> QED BY <2>1, <2>2
<1> HIDE DEF a, n
<1>2. Sends(a) \subseteq Sends(s) \cup {n} /\ Sends(a) \subseteq DOMAIN a
  BY <1>1 DEF Sends
<1>3. IsFiniteSet(Sends(s)) /\ Cardinality(Sends(s)) \in Nat
  BY PositionsFinite DEF Sends
<1>4. Cardinality(Sends(a)) \in Nat
  BY <1>1, <1>2, PositionsFinite
<1>5. n \notin Sends(s)
  BY <1>1 DEF Sends
<1>6. /\ IsFiniteSet(Sends(s) \cup {n})
      /\ Cardinality(Sends(s) \cup {n}) = Cardinality(Sends(s)) + 1
  BY <1>3, <1>5, FS_AddElement
<1>7. Cardinality(Sends(a)) <= Cardinality(Sends(s)) + 1
  BY <1>2, <1>6, FS_Subset
<1>8. ASSUME e[2] = "force"
      PROVE  Sends(a) = Sends(s)
  BY <1>1, <1>8 DEF Sends
<1> QED BY <1>1, <1>3, <1>4, <1>7, <1>8 DEF a

\* Other notes leave the count of p alone, and p itself adds one.
LEMMA CountOfNote ==
  ASSUME NEW s \in Seq(Notes), NEW e \in Notes, NEW p
  PROVE  /\ Count(s, p) \in Nat
         /\ e # p => Count(Append(s, e), p) = Count(s, p)
         /\ e = p => Count(Append(s, e), p) = Count(s, p) + 1
<1> DEFINE a == Append(s, e)
           n == Len(s) + 1
           S == {i \in DOMAIN s : s[i] = p}
           A == {i \in DOMAIN a : a[i] = p}
<1>1. /\ DOMAIN a = DOMAIN s \cup {n} /\ n \notin DOMAIN s
      /\ a[n] = e /\ \A i \in DOMAIN s : a[i] = s[i]
  <2>1. /\ a \in Seq(Notes) /\ Len(a) = n /\ a[n] = e
        /\ \A i \in 1 .. Len(s) : a[i] = s[i]
    BY AppendProperties
  <2>2. /\ DOMAIN a = 1 .. Len(a) /\ DOMAIN s = 1 .. Len(s)
        /\ Len(s) \in Nat
    BY <2>1, LenProperties
  <2> QED BY <2>1, <2>2
<1> HIDE DEF a, n
<1>2. IsFiniteSet(S) /\ Cardinality(S) \in Nat
  BY PositionsFinite
<1>3. e # p => A = S
  BY <1>1
<1>4. e = p => A = S \cup {n} /\ n \notin S
  BY <1>1
<1>5. e = p => Cardinality(A) = Cardinality(S) + 1
  BY <1>2, <1>4, FS_AddElement
<1> QED BY <1>2, <1>3, <1>5 DEF Count, a

\* Before its first send a request has noted nothing.
LEMMA NothingNoted ==
  /\ <<>> \in Seq(Notes)
  /\ Cardinality(Sends(<<>>)) = 0
  /\ \A p : Count(<<>>, p) = 0
<1>1. Sends(<<>>) = {}
  BY DEF Sends
<1>2. \A p : {i \in DOMAIN <<>> : <<>>[i] = p} = {}
  OBVIOUS
<1> QED BY <1>1, <1>2, FS_EmptySet, EmptySeq DEF Count

-----------------------------------------------------------------------------
(* The request of one task.                                                 *)

\* A step writes the request of one task.
LEMMA RequestsMove ==
  ASSUME Requests, NEW t \in Task, NEW r, Request(r),
         rq' = [rq EXCEPT ![t] = r]
  PROVE  Requests'
BY DEF Requests

\* What a request's numbers are.
LEMMA RequestTyped ==
  ASSUME NEW r, Request(r)
  PROVE  /\ r.attempt \in Nat /\ r.retries \in Nat /\ r.tried \in Seq(Notes)
         /\ r.forced \subseteq Nat /\ r.id \in Nat /\ r.opus \in BOOLEAN
         /\ Cardinality(Sends(r.tried)) \in Nat
<1>1. r.tried \in Seq(Notes)
  BY DEF Request, RequestRecord
<1>2. Sends(r.tried) \subseteq DOMAIN r.tried
  BY DEF Sends
<1> QED BY <1>1, <1>2, PositionsFinite DEF Request, RequestRecord

\* The two halves of Remembered, for one credential.
LEMMA ForcingsKnown ==
  ASSUME NEW r, Request(r), NEW id \in Nat
  PROVE  /\ Forcings(r.tried, id) <= 1
         /\ r.pc # "idle" /\ id \notin r.forced => Forcings(r.tried, id) = 0
<1>1. Remembered(r)
  BY DEF Request
<1>2. Forcings(r.tried, id) <= 1
  BY <1>1 DEF Remembered
<1>3. ASSUME r.pc # "idle", id \notin r.forced
      PROVE  Forcings(r.tried, id) = 0
  BY <1>1, <1>3 DEF Remembered
<1> QED BY <1>2, <1>3

\* A change of step that keeps the history and what was remembered.
LEMMA StepOnly ==
  ASSUME NEW r, Request(r), NEW step,
         \/ r.pc = "acquiring" /\ step = "send"
         \/ r.pc = "forcing" /\ step = "report"
         \/ r.pc = "loop" /\ step = "acquiring" /\ r.attempt < r.retries
  PROVE  Request([r EXCEPT !.pc = step])
<1> DEFINE q == [r EXCEPT !.pc = step]
<1>1. RequestRecord(q)
  BY DEF Request, RequestRecord, RequestSteps
<1>2. /\ q.attempt = r.attempt /\ q.retries = r.retries /\ q.tried = r.tried
      /\ q.forced = r.forced /\ q.id = r.id /\ q.pc = step
  BY DEF Request, RequestRecord
<1> HIDE DEF q
<1>3. Budget(q)
  BY <1>2 DEF Request, Budget
<1>4. Remembered(q)
  BY <1>2 DEF Request, Remembered
<1> QED BY <1>1, <1>3, <1>4 DEF Request, q

\* The attempt is over: its send is within the next one's budget.
LEMMA AttemptOver ==
  ASSUME NEW r, Request(r), r.pc \in {"acquiring", "forcing", "report"}
  PROVE  Request([r EXCEPT !.attempt = r.attempt + 1, !.id = 0, !.pc = "loop"])
<1> DEFINE n == r.attempt + 1
           q == [r EXCEPT !.attempt = n, !.id = 0, !.pc = "loop"]
<1>0. n \in Nat /\ n = r.attempt + 1
  BY RequestTyped
<1> HIDE DEF n
<1>1. RequestRecord(q)
  BY <1>0 DEF Request, RequestRecord, RequestSteps
<1>2. /\ q.attempt = n /\ q.retries = r.retries
      /\ q.tried = r.tried /\ q.forced = r.forced /\ q.pc = "loop"
  BY DEF Request, RequestRecord
<1> HIDE DEF q
<1>3. Budget(q)
  BY <1>0, <1>2, RequestTyped DEF Request, Budget
<1>4. Remembered(q)
  BY <1>2, ForcingsKnown DEF Remembered
<1> QED BY <1>1, <1>3, <1>4 DEF Request, q, n

\* What is left of a request when it ends with the history tried.
LEMMA LeavesHistory ==
  ASSUME NEW r, Request(r), NEW result \in {"ok", "err"},
         NEW tried \in Seq(Notes), Cardinality(Sends(tried)) <= r.retries,
         \A id \in Nat : Forcings(tried, id) <= 1
  PROVE  Request([NoRequest(result) EXCEPT !.retries = r.retries,
                                           !.tried = tried])
<1> DEFINE q == [NoRequest(result) EXCEPT !.retries = r.retries,
                                          !.tried = tried]
<1>1. RequestRecord(q)
  BY RequestTyped DEF RequestRecord, RequestSteps, NoRequest
<1>2. /\ q.attempt = 0 /\ q.retries = r.retries /\ q.tried = tried
      /\ q.pc = "idle"
  BY DEF NoRequest
<1> HIDE DEF q
<1>3. Budget(q)
  BY <1>2, RequestTyped DEF Budget
<1>4. Remembered(q)
  BY <1>2 DEF Remembered
<1> QED BY <1>1, <1>3, <1>4 DEF Request, q

\* An answer to a send is noted; no forced refresh is.
LEMMA AnswerNoted ==
  ASSUME NEW r, Request(r), r.pc = "send", NEW id \in Nat,
         NEW answer \in AnswerKinds
  PROVE  /\ Append(r.tried, <<id, answer>>) \in Seq(Notes)
         /\ Cardinality(Sends(Append(r.tried, <<id, answer>>))) \in Nat
         /\ Cardinality(Sends(Append(r.tried, <<id, answer>>))) <= r.attempt + 1
         /\ r.attempt + 1 <= r.retries
         /\ \A n \in Nat : Forcings(Append(r.tried, <<id, answer>>), n)
                             = Forcings(r.tried, n)
<1> DEFINE e == <<id, answer>>
<1>1. e \in Notes /\ r.tried \in Seq(Notes)
  BY RequestTyped DEF Notes
<1>2. \A n \in Nat : e # <<n, "force">>
  BY DEF AnswerKinds
<1> HIDE DEF e
<1>3. \A n \in Nat : Forcings(Append(r.tried, e), n)
                       = Forcings(r.tried, n)
  BY <1>1, <1>2, CountOfNote DEF Forcings
<1>4. /\ Append(r.tried, e) \in Seq(Notes)
      /\ Cardinality(Sends(Append(r.tried, e))) \in Nat
      /\ Cardinality(Sends(Append(r.tried, e))) <= Cardinality(Sends(r.tried)) + 1
  BY <1>1, NoteCountsOnce
<1>5. Cardinality(Sends(r.tried)) <= r.attempt /\ r.attempt < r.retries
  BY DEF Request, Budget
<1>6. /\ Cardinality(Sends(Append(r.tried, e))) <= r.attempt + 1
      /\ r.attempt + 1 <= r.retries
  BY <1>4, <1>5, RequestTyped
<1> QED BY <1>3, <1>4, <1>6 DEF e

\* After an answer the request goes round again, or ends.
LEMMA Answered ==
  ASSUME NEW r, Request(r), r.pc = "send", NEW id \in Nat,
         NEW answer \in AnswerKinds, NEW result \in {"ok", "err"}
  PROVE  /\ Request([r EXCEPT !.attempt = r.attempt + 1, !.pc = "loop",
                              !.tried = Append(r.tried, <<id, answer>>)])
         /\ Request([NoRequest(result) EXCEPT
                       !.retries = r.retries,
                       !.tried = Append(r.tried, <<id, answer>>)])
<1> DEFINE tried == Append(r.tried, <<id, answer>>)
           next == r.attempt + 1
           q == [r EXCEPT !.attempt = next, !.pc = "loop", !.tried = tried]
<1>1. /\ tried \in Seq(Notes) /\ Cardinality(Sends(tried)) \in Nat
      /\ Cardinality(Sends(tried)) <= r.attempt + 1
      /\ r.attempt + 1 <= r.retries
      /\ \A n \in Nat : Forcings(tried, n)
                          = Forcings(r.tried, n)
  BY AnswerNoted
<1>7. next \in Nat /\ next = r.attempt + 1
  BY RequestTyped
<1> HIDE DEF tried, next
<1>2. RequestRecord(q)
  BY <1>1, <1>7 DEF Request, RequestRecord, RequestSteps
<1>3. /\ q.attempt = next /\ q.retries = r.retries
      /\ q.tried = tried /\ q.forced = r.forced /\ q.pc = "loop"
  BY DEF Request, RequestRecord
<1> HIDE DEF q
<1>4. Budget(q)
  BY <1>1, <1>3, <1>7, RequestTyped DEF Budget
<1>5. Remembered(q)
  BY <1>1, <1>3, ForcingsKnown DEF Remembered
<1>6. Request([NoRequest(result) EXCEPT !.retries = r.retries,
                                        !.tried = tried])
  <2>1. \A n \in Nat : Forcings(tried, n) <= 1
    BY <1>1 DEF Request, Remembered
  <2>2. Cardinality(Sends(tried)) <= r.retries
    BY <1>1, RequestTyped
  <2> QED BY <1>1, <2>1, <2>2, LeavesHistory
<1> QED BY <1>2, <1>4, <1>5, <1>6 DEF Request, q, tried, next

\* A rejected bearer token of a credential not yet forced: it is remembered
\* before the refresh is noted.
LEMMA ForceRemembered ==
  ASSUME NEW r, Request(r), r.pc = "send", NEW id \in Nat, id \notin r.forced
  PROVE  Request([r EXCEPT !.forced = r.forced \cup {id}, !.pc = "force",
                           !.id = id,
                           !.tried = Append(r.tried, <<id, "badToken">>)])
<1> DEFINE tried == Append(r.tried, <<id, "badToken">>)
           forced == r.forced \cup {id}
           q == [r EXCEPT !.forced = forced, !.pc = "force",
                          !.id = id, !.tried = tried]
<1>1. /\ tried \in Seq(Notes) /\ Cardinality(Sends(tried)) \in Nat
      /\ Cardinality(Sends(tried)) <= r.attempt + 1
      /\ r.attempt + 1 <= r.retries
      /\ \A n \in Nat : Forcings(tried, n)
                          = Forcings(r.tried, n)
  BY AnswerNoted DEF AnswerKinds
<1>2. forced \subseteq Nat
  BY RequestTyped
<1> HIDE DEF tried, forced
<1>3. RequestRecord(q)
  BY <1>1, <1>2 DEF Request, RequestRecord, RequestSteps
<1>4. /\ q.attempt = r.attempt /\ q.retries = r.retries /\ q.id = id
      /\ q.tried = tried /\ q.forced = forced /\ q.pc = "force"
  BY DEF Request, RequestRecord
<1> HIDE DEF q
<1>5. Budget(q)
  BY <1>1, <1>4, RequestTyped DEF Budget
<1>6. Remembered(q)
  <2>1. \A n \in Nat : Forcings(tried, n) <= 1
    BY <1>1 DEF Request, Remembered
  <2>2. ASSUME NEW n \in Nat, n \notin q.forced \/ n = q.id
        PROVE  Forcings(q.tried, n) = 0
    <3>1. n \notin r.forced
      BY <1>4, <2>2 DEF forced
    <3> QED BY <1>1, <1>4, <3>1, ForcingsKnown
  <2> QED BY <1>4, <2>1, <2>2 DEF Remembered, forced
<1> QED BY <1>3, <1>5, <1>6 DEF Request, q, forced, tried

\* The forced refresh itself is noted: no send, and the first of this id.
LEMMA ForceNoted ==
  ASSUME NEW r, Request(r), r.pc = "force"
  PROVE  Request([r EXCEPT !.pc = "forcing",
                           !.tried = Append(r.tried, <<r.id, "force">>)])
<1> DEFINE e == <<r.id, "force">>
           tried == Append(r.tried, e)
           q == [r EXCEPT !.pc = "forcing", !.tried = tried]
<1>1. e \in Notes /\ r.tried \in Seq(Notes) /\ e[2] = "force" /\ r.id \in Nat
  BY RequestTyped DEF Notes
<1>2. \A n \in Nat : n # r.id => e # <<n, "force">>
  OBVIOUS
<1>3. e = <<r.id, "force">>
  OBVIOUS
<1> HIDE DEF e
<1>4. tried \in Seq(Notes) /\ Sends(tried) = Sends(r.tried)
  BY <1>1, NoteCountsOnce
<1>5. \A n \in Nat : n # r.id => Forcings(tried, n)
                                   = Forcings(r.tried, n)
  BY <1>1, <1>2, CountOfNote DEF Forcings
<1>6. Forcings(tried, r.id) = 1 /\ r.id \in r.forced
  BY <1>1, <1>3, CountOfNote DEF Request, Remembered, Forcings
<1> HIDE DEF tried
<1>7. RequestRecord(q)
  BY <1>4 DEF Request, RequestRecord, RequestSteps
<1>8. /\ q.attempt = r.attempt /\ q.retries = r.retries /\ q.id = r.id
      /\ q.tried = tried /\ q.forced = r.forced /\ q.pc = "forcing"
  BY DEF Request, RequestRecord
<1> HIDE DEF q
<1>9. Budget(q)
  BY <1>4, <1>8 DEF Request, Budget
<1>10. Remembered(q)
  <2>1. \A n \in Nat : Forcings(tried, n) <= 1
    BY <1>5, <1>6 DEF Request, Remembered
  <2>2. ASSUME NEW n \in Nat, n \notin q.forced
        PROVE  Forcings(q.tried, n) = 0
    BY <1>5, <1>6, <1>8, <2>2, ForcingsKnown
  <2> QED BY <1>8, <2>1, <2>2 DEF Remembered
<1> QED BY <1>7, <1>9, <1>10 DEF Request, q, tried, e

-----------------------------------------------------------------------------
(* What the manager's steps do to the counts of failures.                   *)

\* e becomes f, and neither a failure is counted nor an entry enabled with
\* failures.
HarmlessTo(e, f) ==
    /\ f.id = e.id
    /\ f.reason = "TooManyFailures" => e.reason = "TooManyFailures"
    /\ ~f.disabled => f.fails = 0 \/ (~e.disabled /\ f.fails = e.fails)

Harmless ==
    /\ DOMAIN entries' = DOMAIN entries
    /\ \A s \in DOMAIN entries : HarmlessTo(entries[s], entries'[s])

\* The changes of an entry other than a counted failure.
LEMMA ChangesHarmless ==
  ASSUME NEW e, SoundEntry(e), NEW c
  PROVE  /\ HarmlessTo(e, e) /\ HarmlessTo(e, Succeeded(e))
         /\ HarmlessTo(e, RefreshCountReset(e)) /\ HarmlessTo(e, Healed(e))
         /\ HarmlessTo(e, [e EXCEPT !.cred = c])
         /\ HarmlessTo(e, [e EXCEPT !.cred = c, !.refreshFails = 0])
         /\ ~e.disabled =>
              /\ HarmlessTo(e, QuotaExhausted(e))
              /\ HarmlessTo(e, RefreshFailed(e))
              /\ HarmlessTo(e, RefreshTokenInvalid(e))
<1>1. e \in Entry /\ Sound(e)
  BY DEF SoundEntry
<1>2. /\ HarmlessTo(e, e) /\ HarmlessTo(e, Succeeded(e))
      /\ HarmlessTo(e, RefreshCountReset(e)) /\ HarmlessTo(e, Healed(e))
  BY <1>1 DEF Entry, Sound, HarmlessTo, Succeeded, RefreshCountReset, Healed
<1>3. /\ HarmlessTo(e, [e EXCEPT !.cred = c])
      /\ HarmlessTo(e, [e EXCEPT !.cred = c, !.refreshFails = 0])
  BY <1>1 DEF Entry, HarmlessTo
<1>4. ~e.disabled => /\ HarmlessTo(e, QuotaExhausted(e))
                     /\ HarmlessTo(e, RefreshFailed(e))
                     /\ HarmlessTo(e, RefreshTokenInvalid(e))
  BY <1>1 DEF Entry, Sound, HarmlessTo, QuotaExhausted, RefreshFailed,
              RefreshTokenInvalid
<1> QED BY <1>2, <1>3, <1>4

\* A step that leaves the list alone.
LEMMA SameListHarmless ==
  ASSUME IInv, UNCHANGED entries
  PROVE  Harmless
BY Typed, MembersSound, ChangesHarmless DEF Harmless

\* The steps of acquire_context between its call and its end.
LEMMA AcquireStepHarmless ==
  ASSUME IInv, NEW t \in Task, AcquireStep(t)
  PROVE  Harmless
<1>1. \A s \in DOMAIN entries : SoundEntry(entries[s])
  BY Typed, MembersSound
<1>2. CASE UNCHANGED entries
  BY <1>2, SameListHarmless
<1>3. CASE entries' = [s \in DOMAIN entries |-> Healed(entries[s])]
  BY <1>1, <1>3, ChangesHarmless DEF Harmless
<1>4. CASE entries' = Patch(entries, task[t].id, RefreshCountReset)
  BY <1>1, <1>4, ChangesHarmless DEF Harmless, Patch
<1>5. CASE entries' = PatchEnabled(entries, task[t].id, RefreshFailed)
  BY <1>1, <1>5, ChangesHarmless DEF Harmless, PatchEnabled
<1>6. CASE entries' = PatchEnabled(entries, task[t].id, RefreshTokenInvalid)
  BY <1>1, <1>6, ChangesHarmless DEF Harmless, PatchEnabled
<1> QED BY <1>2, <1>3, <1>4, <1>5, <1>6
        DEF AcquireStep, TakeCurrent, SelectFirst, SelfHeal, SelectAgain,
            Select, SetCurrent, ReportRefreshFailure,
            ReportRefreshTokenInvalid, ReportRefresh, ResetRefreshCount

\* The refresh and its lock.
LEMMA RefreshHarmless ==
  ASSUME IInv, NEW t \in Task, LockStep(t) \/ RefreshStep(t) \/ StoreStep(t)
  PROVE  Harmless
<1>1. \A s \in DOMAIN entries : SoundEntry(entries[s])
  BY Typed, MembersSound
<1>2. CASE UNCHANGED entries
  BY <1>2, SameListHarmless
<1>3. CASE StoreRefreshed(t)
  BY <1>1, <1>3, ChangesHarmless
     DEF StoreRefreshed, Store, Refreshed, RefreshedAndReset, Harmless
<1> QED BY <1>2, <1>3
        DEF LockStep, LockAndRecheck, Recheck, ForceLock, RefreshStep,
            RefreshAccepted, RefreshRejected, RefreshErrors, StoreStep,
            PersistSnapshot, PersistWrite, AfterWrite

\* A token expires.
LEMMA ExpiryHarmless ==
  ASSUME IInv, NEW s \in DOMAIN entries, TokenExpires(s)
  PROVE  Harmless
<1>1. \A u \in DOMAIN entries : SoundEntry(entries[u])
  BY Typed, MembersSound
<1> DEFINE c == [entries[s].cred EXCEPT !.expired = TRUE]
           e == [entries[s] EXCEPT !.cred = c]
<1>2. entries' = [entries EXCEPT ![s] = e]
  BY DEF TokenExpires
<1>3. HarmlessTo(entries[s], e)
  BY <1>1, ChangesHarmless
<1> HIDE DEF e
<1>4. entries = [u \in DOMAIN entries |-> entries[u]]
  BY Typed DEF IsPool
<1> QED BY <1>1, <1>2, <1>3, <1>4, ChangesHarmless DEF Harmless

\* A harmless step keeps the counts below the blame, if no blame is taken
\* back.
LEMMA HarmlessKeepsBlamed ==
  ASSUME IInv, Blamed, Harmless, UNCHANGED blame
  PROVE  Blamed'
<1>1. \A s \in DOMAIN entries : entries[s] \in Entry
  BY Typed DEF IsPool
<1>2. ASSUME NEW s \in DOMAIN entries, ~entries'[s].disabled
      PROVE  entries'[s].fails <= blame[entries[s].id]
  <2>1. \/ entries'[s].fails = 0
        \/ ~entries[s].disabled /\ entries'[s].fails = entries[s].fails
    BY <1>2 DEF Harmless, HarmlessTo
  <2>2. blame[entries[s].id] \in Nat
    BY DEF Blamed
  <2> QED BY <2>1, <2>2 DEF Blamed
<1>3. UniqueIds(entries')
  BY DEF Harmless, HarmlessTo, Blamed, UniqueIds
<1> QED BY <1>2, <1>3 DEF Blamed, Harmless, HarmlessTo

\* A failure counted against id, and an answer that spoke against it.
LEMMA FailureKeepsBlamed ==
  ASSUME IInv, Blamed, NEW id,
         entries' = PatchEnabled(entries, id, Failed), Blame(id)
  PROVE  /\ Blamed'
         /\ \A s \in DOMAIN entries :
              entries[s].reason # "TooManyFailures"
              /\ entries'[s].reason = "TooManyFailures"
                 => blame'[entries[s].id] >= MaxFailures
<1> DEFINE hit(s) == s \in Find(entries, id) /\ ~entries[s].disabled
<1>1. /\ DOMAIN entries' = DOMAIN entries
      /\ \A s \in DOMAIN entries :
           entries'[s] = IF hit(s) THEN Failed(entries[s]) ELSE entries[s]
  BY DEF PatchEnabled
<1>2. /\ DOMAIN blame' = DOMAIN blame
      /\ blame' = [n \in DOMAIN blame' |-> blame'[n]]
      /\ \A n \in DOMAIN blame : /\ blame[n] \in Nat
                                 /\ blame'[n] = IF n = id THEN blame[n] + 1
                                                          ELSE blame[n]
  BY DEF Blame, Blamed
<1>3. \A s \in DOMAIN entries :
        hit(s) => entries[s].id = id /\ ~entries[s].disabled
  BY DEF Find, Slots
<1>4. \A s \in DOMAIN entries : entries[s] \in Entry
  BY Typed DEF IsPool
<1>5. \A s \in DOMAIN entries :
        /\ Failed(entries[s]).id = entries[s].id
        /\ Failed(entries[s]).fails = entries[s].fails + 1
        /\ Failed(entries[s]).reason = "TooManyFailures" =>
             \/ entries[s].reason = "TooManyFailures"
             \/ entries[s].fails + 1 >= MaxFailures
  BY <1>4 DEF Failed, Entry
<1> HIDE DEF hit
<1>6. ASSUME NEW s \in DOMAIN entries
      PROVE  /\ entries'[s].id = entries[s].id
             /\ ~entries'[s].disabled =>
                  entries'[s].fails <= blame'[entries[s].id]
             /\ entries[s].reason # "TooManyFailures"
                /\ entries'[s].reason = "TooManyFailures"
                   => blame'[entries[s].id] >= MaxFailures
  <2>1. /\ entries[s].id \in DOMAIN blame /\ blame[entries[s].id] \in Nat
        /\ entries[s].fails \in Nat
        /\ ~entries[s].disabled => entries[s].fails <= blame[entries[s].id]
    BY <1>4 DEF Blamed, Entry
  <2>2. CASE hit(s)
    <3>1. blame'[entries[s].id] = blame[entries[s].id] + 1
      BY <1>2, <1>3, <2>1, <2>2
    <3>2. entries'[s] = Failed(entries[s])
      BY <1>1, <2>2
    <3> QED BY <1>3, <1>5, <2>1, <2>2, <3>1, <3>2, MaxFailuresAssumption
  <2>3. CASE ~hit(s)
    <3>1. entries'[s] = entries[s]
      BY <1>1, <2>3
    <3>2. blame'[entries[s].id] >= blame[entries[s].id]
          /\ blame'[entries[s].id] \in Nat
      BY <1>2, <2>1
    <3> QED BY <2>1, <3>1, <3>2
  <2> QED BY <2>2, <2>3
<1>7. UniqueIds(entries')
  BY <1>1, <1>6 DEF Blamed, UniqueIds
<1>8. \A n \in DOMAIN blame' : blame'[n] \in Nat
  BY <1>2
<1> QED BY <1>1, <1>2, <1>6, <1>7, <1>8 DEF Blamed

\* A success clears the count and the blame of the one entry with this id.
LEMMA SuccessKeepsBlamed ==
  ASSUME IInv, Blamed, NEW id, entries' = Patch(entries, id, Succeeded),
         blame' = [blame EXCEPT ![id] = 0]
  PROVE  Blamed' /\ Harmless
<1>1. \A s \in DOMAIN entries : SoundEntry(entries[s]) /\ entries[s] \in Entry
  BY Typed, MembersSound DEF IsPool
<1>2. Harmless
  BY <1>1, ChangesHarmless DEF Harmless, Patch
<1>3. /\ DOMAIN blame' = DOMAIN blame
      /\ blame' = [n \in DOMAIN blame' |-> blame'[n]]
      /\ \A n \in DOMAIN blame :
           /\ blame[n] \in Nat /\ blame'[n] \in Nat
           /\ blame'[n] = IF n = id THEN 0 ELSE blame[n]
  BY DEF Blamed
<1>4. ASSUME NEW s \in DOMAIN entries, ~entries'[s].disabled
      PROVE  entries'[s].fails <= blame'[entries[s].id]
  <2>1. CASE entries[s].id = id
    <3>1. \A u \in Slots(entries, id) : u = s
      BY <2>1 DEF Slots, Blamed, UniqueIds
    <3>2. s \in Nat
      BY Typed DEF IsPool
    <3>3. s \in Find(entries, id)
      BY <2>1, <3>1, <3>2 DEF Find, Slots
    <3>4. entries'[s] = Succeeded(entries[s])
      BY <3>3 DEF Patch
    <3>5. entries'[s].fails = 0
      BY <1>1, <3>4 DEF Succeeded, Entry
    <3> QED BY <1>3, <2>1, <3>5 DEF Blamed
  <2>2. CASE entries[s].id # id
    <3>1. entries'[s] = entries[s]
      BY <2>2 DEF Patch, Find, Slots
    <3> QED BY <1>3, <1>4, <2>2, <3>1 DEF Blamed
  <2> QED BY <2>1, <2>2
<1>5. UniqueIds(entries')
  BY <1>2 DEF Harmless, HarmlessTo, Blamed, UniqueIds
<1> QED BY <1>2, <1>3, <1>4, <1>5 DEF Blamed, Harmless, HarmlessTo

-----------------------------------------------------------------------------
(* The steps.                                                               *)

\* No entry is disabled for too many failures without as many answers that
\* spoke against it.
Culpable ==
    \A s \in DOMAIN entries :
        entries[s].reason # "TooManyFailures"
        /\ entries'[s].reason = "TooManyFailures"
           => blame'[entries[s].id] >= MaxFailures

\* A step that moves one request and is harmless to the list.
LEMMA HarmlessStep ==
  ASSUME ProviderInv, IInv', Harmless, UNCHANGED blame, Requests'
  PROVE  ProviderInv' /\ Culpable
<1>1. Blamed'
  BY HarmlessKeepsBlamed DEF ProviderInv
<1>2. Culpable
  BY DEF Culpable, Harmless, HarmlessTo
<1> QED BY <1>1, <1>2 DEF ProviderInv

\* The request of a task is one.
LEMMA OneRequest ==
  ASSUME ProviderInv, NEW t \in Task
  PROVE  /\ Request(rq[t]) /\ RequestRecord(rq[t]) /\ task[t].id \in Nat
         /\ rq = [u \in Task |-> rq[u]]
BY Typed DEF ProviderInv, Requests, Request

\* A request starts with its budget.
LEMMA StartKeeps ==
  ASSUME ProviderInv, NEW t \in Task, NEW opus \in Models, StartRequest(t, opus)
  PROVE  ProviderInv' /\ Culpable
<1> DEFINE wanted == Cardinality(DOMAIN entries) * RetriesPerCredential
           retries == IF wanted < MaxTotalRetries THEN wanted
                                                  ELSE MaxTotalRetries
           r == [NoRequest("none") EXCEPT !.pc = "loop", !.opus = opus,
                                          !.retries = retries]
<1>1. retries \in Nat
  <2>1. Cardinality(DOMAIN entries) \in Nat
    BY Typed, FS_CardinalityType DEF ProviderInv, IsPool
  <2>2. wanted \in Nat
    BY <2>1, ProviderAssumption
  <2> QED BY <2>2, ProviderAssumption
<1>2. rq' = [rq EXCEPT ![t] = r]
  BY DEF StartRequest, Start
<1> HIDE DEF retries
<1>3. RequestRecord(r)
  BY <1>1, InputAssumption, NothingNoted
     DEF RequestRecord, RequestSteps, NoRequest
<1>4. /\ r.pc = "loop" /\ r.attempt = 0 /\ r.retries = retries
      /\ r.tried = <<>>
  BY DEF NoRequest
<1> HIDE DEF r
<1>5. Budget(r)
  BY <1>1, <1>4, NothingNoted DEF Budget
<1>6. Remembered(r)
  BY <1>4, NothingNoted DEF Remembered, Forcings
<1>7. Requests'
  BY <1>2, <1>3, <1>5, <1>6, RequestsMove DEF ProviderInv, Request
<1>8. IInv'
  BY DEF StartRequest, Start, Counted, upstream, ProviderInv, IInv, TypeOK,
         LockHeld, Refreshing
<1>9. Harmless /\ UNCHANGED blame
  BY SameListHarmless DEF StartRequest, Start, ProviderInv
<1> QED BY <1>7, <1>8, <1>9, HarmlessStep

\* It acquires a credential, or has no attempt left.
LEMMA LoopKeeps ==
  ASSUME ProviderInv, NEW t \in Task, NextAttempt(t) \/ OutOfAttempts(t)
  PROVE  ProviderInv' /\ Culpable
<1> DEFINE r == rq[t]
<1>1. /\ Request(r) /\ RequestRecord(r) /\ rq = [u \in Task |-> rq[u]]
  BY OneRequest
<1>2. CASE NextAttempt(t)
  <2>1. IInv'
    <3>1. calls' \in Nat /\ faults' \in Nat
      BY <1>2 DEF NextAttempt, ProviderInv, IInv, TypeOK
    <3>2. r.opus \in BOOLEAN
      BY <1>1, RequestTyped
    <3> QED BY <1>2, <3>1, <3>2, AcquireKeeps DEF NextAttempt, ProviderInv
  <2>2. rq' = [rq EXCEPT ![t] = [r EXCEPT !.pc = "acquiring"]]
    BY <1>1, <1>2 DEF NextAttempt
  <2>3. Request([r EXCEPT !.pc = "acquiring"])
    BY <1>1, <1>2, StepOnly DEF NextAttempt
  <2>4. Requests'
    BY <2>2, <2>3, RequestsMove DEF ProviderInv
  <2>5. Harmless /\ UNCHANGED blame
    BY <1>2, SameListHarmless DEF NextAttempt, Acquire, ProviderInv
  <2> QED BY <2>1, <2>4, <2>5, HarmlessStep
<1>3. CASE OutOfAttempts(t)
  <2>1. Requests'
    <3>1. r.tried \in Seq(Notes) /\ Cardinality(Sends(r.tried)) <= r.retries
      BY <1>1, RequestTyped DEF Request, Budget
    <3>2. \A id \in Nat : Forcings(r.tried, id) <= 1
      BY <1>1, ForcingsKnown
    <3>3. Request([NoRequest("err") EXCEPT !.retries = r.retries,
                                           !.tried = r.tried])
      BY <1>1, <3>1, <3>2, LeavesHistory
    <3> QED BY <1>3, <3>3, RequestsMove
            DEF OutOfAttempts, Finish, Ended, ProviderInv
  <2>2. IInv'
    BY <1>3 DEF OutOfAttempts, vars, upstream, ProviderInv, IInv, TypeOK,
                LockHeld, Refreshing
  <2>3. Harmless /\ UNCHANGED blame
    BY <1>3, SameListHarmless DEF OutOfAttempts, vars, ProviderInv
  <2> QED BY <2>1, <2>2, <2>3, HarmlessStep
<1> QED BY <1>2, <1>3

\* A step of the acquisition or of the forced refresh.
LEMMA ManagerStepKeeps ==
  ASSUME ProviderInv, NEW t \in Task, AcquireProceeds(t) \/ ForceProceeds(t)
  PROVE  ProviderInv' /\ Culpable
<1> DEFINE r == rq[t]
<1>1. /\ Request(r) /\ RequestRecord(r) /\ rq = [u \in Task |-> rq[u]]
  BY OneRequest
<1>2. AcquireStep(t) \/ LockStep(t) \/ RefreshStep(t) \/ StoreStep(t)
  BY DEF AcquireProceeds, ForceProceeds
<1>3. IInv'
  BY <1>2, TaskStepKeeps DEF TaskStep, ProviderInv
<1>4. Harmless /\ UNCHANGED blame
  BY <1>2, AcquireStepHarmless, RefreshHarmless
     DEF AcquireProceeds, ForceProceeds, ProviderInv
<1>5. Requests'
  <2>1. CASE UNCHANGED rq
    BY <2>1 DEF Requests, ProviderInv
  <2>2. CASE Continue(t) /\ r.pc \in {"acquiring", "forcing"}
    <3>1. rq' = [rq EXCEPT ![t] = [r EXCEPT !.attempt = r.attempt + 1,
                                            !.id = 0, !.pc = "loop"]]
      BY <1>1, <2>2 DEF Continue
    <3> QED BY <1>1, <2>2, <3>1, AttemptOver, RequestsMove DEF ProviderInv
  <2>3. CASE rq' = [rq EXCEPT ![t].pc = "send"] /\ r.pc = "acquiring"
    <3>1. rq' = [rq EXCEPT ![t] = [r EXCEPT !.pc = "send"]]
      BY <1>1, <2>3
    <3> QED BY <1>1, <2>3, <3>1, StepOnly, RequestsMove DEF ProviderInv
  <2>4. CASE rq' = [rq EXCEPT ![t].pc = "report"] /\ r.pc = "forcing"
    <3>1. rq' = [rq EXCEPT ![t] = [r EXCEPT !.pc = "report"]]
      BY <1>1, <2>4
    <3> QED BY <1>1, <2>4, <3>1, StepOnly, RequestsMove DEF ProviderInv
  <2> QED BY <2>1, <2>2, <2>3, <2>4 DEF AcquireProceeds, ForceProceeds
<1> QED BY <1>3, <1>4, <1>5, HarmlessStep

\* After an answer, the request goes round again or ends.
LEMMA AnswerMoves ==
  ASSUME ProviderInv, NEW t \in Task, NEW answer \in AnswerKinds,
         NEW result \in {"ok", "err"}, Got(t, answer),
         ContinueAfter(t, answer) \/ FinishAfter(t, answer, result)
  PROVE  Requests'
<1> DEFINE r == rq[t]
           note == <<task[t].id, answer>>
<1>1. /\ Request(r) /\ r.pc = "send" /\ task[t].id \in Nat
      /\ RequestRecord(r) /\ rq = [u \in Task |-> rq[u]]
  BY OneRequest DEF Got
<1>2. CASE ContinueAfter(t, answer)
  <2>1. rq' = [rq EXCEPT ![t] = [r EXCEPT !.attempt = r.attempt + 1,
                                          !.pc = "loop",
                                          !.tried = Append(r.tried, note)]]
    BY <1>1, <1>2 DEF ContinueAfter, Note
  <2> QED BY <1>1, <2>1, Answered, RequestsMove DEF ProviderInv
<1>3. CASE FinishAfter(t, answer, result)
  <2>1. rq' = [rq EXCEPT ![t] = [NoRequest(result) EXCEPT
                                   !.retries = r.retries,
                                   !.tried = Append(r.tried, note)]]
    BY <1>3 DEF FinishAfter, Ended, Note
  <2> QED BY <1>1, <2>1, Answered, RequestsMove DEF ProviderInv
<1> QED BY <1>2, <1>3

\* The upstream answers.
LEMMA AnswerKeeps ==
  ASSUME ProviderInv, NEW t \in Task, Answer(t)
  PROVE  ProviderInv' /\ Culpable
<1>1. calls' \in Nat /\ faults' \in Nat
  <2>1. UNCHANGED <<calls, faults>>
    BY DEF Answer, Succeeds, UnknownEndpoint, NoClient, Transient,
           QuotaUsedUp, Refused, Denied, BadToken, BearerRejected,
           ReportSuccess, ReportFailure, ReportQuotaExhausted, Report, Abandon, At
  <2> QED BY <2>1 DEF ProviderInv, IInv, TypeOK
<1>2. IInv'
  <2>1. RequestReport(t)
    BY DEF Answer, Succeeds, UnknownEndpoint, NoClient, Transient,
           QuotaUsedUp, Refused, Denied, BadToken, BearerRejected,
           RequestReport
  <2> QED BY <1>1, <2>1, RequestReportKeeps DEF ProviderInv
<1>3. \A s \in DOMAIN entries : SoundEntry(entries[s])
  BY Typed, MembersSound DEF ProviderInv
<1>4. CASE Succeeds(t)
  <2>1. Requests'
    BY <1>4, AnswerMoves DEF Succeeds, AnswerKinds
  <2>2. Blamed' /\ Harmless
    BY <1>4, SuccessKeepsBlamed DEF Succeeds, ReportSuccess, Report, ProviderInv
  <2> QED BY <1>2, <2>1, <2>2
          DEF ProviderInv, Culpable, Harmless, HarmlessTo
<1>5. CASE UnknownEndpoint(t) \/ Denied(t)
  <2>1. Requests'
    BY <1>5, AnswerMoves DEF UnknownEndpoint, Denied, AnswerKinds
  <2>2. Blamed' /\ Culpable
    BY <1>5, FailureKeepsBlamed
       DEF UnknownEndpoint, Denied, ReportFailure, Report, ProviderInv, Culpable
  <2> QED BY <1>2, <2>1, <2>2 DEF ProviderInv
<1>6. CASE NoClient(t) \/ Transient(t) \/ Refused(t)
  <2>1. Requests'
    BY <1>6, AnswerMoves DEF NoClient, Transient, Refused, AnswerKinds
  <2>2. Harmless /\ UNCHANGED blame
    BY <1>6, SameListHarmless
       DEF NoClient, Transient, Refused, Abandon, ProviderInv
  <2> QED BY <1>2, <2>1, <2>2, HarmlessStep
<1>7. CASE QuotaUsedUp(t)
  <2>1. Requests'
    BY <1>7, AnswerMoves DEF QuotaUsedUp, AnswerKinds
  <2>2. Harmless /\ UNCHANGED blame
    BY <1>3, <1>7, ChangesHarmless
       DEF QuotaUsedUp, ReportQuotaExhausted, Report, PatchEnabled, Harmless
  <2> QED BY <1>2, <2>1, <2>2, HarmlessStep
<1>8. CASE BadToken(t)
  <2> DEFINE r == rq[t]
             id == task[t].id
  <2>1. /\ Request(r) /\ r.pc = "send" /\ id \in Nat /\ id \notin r.forced
        /\ RequestRecord(r) /\ rq = [u \in Task |-> rq[u]]
    BY <1>8, OneRequest DEF BadToken, BearerRejected, Got
  <2>2. rq' = [rq EXCEPT ![t] =
                 [r EXCEPT !.forced = r.forced \cup {id}, !.pc = "force",
                           !.id = id,
                           !.tried = Append(r.tried, <<id, "badToken">>)]]
    BY <1>8, <2>1 DEF BadToken, BearerRejected, Note
  <2>3. Requests'
    BY <2>1, <2>2, ForceRemembered, RequestsMove DEF ProviderInv
  <2>4. Harmless /\ UNCHANGED blame
    BY <1>8, SameListHarmless
       DEF BadToken, BearerRejected, Abandon, ProviderInv
  <2> QED BY <1>2, <2>3, <2>4, HarmlessStep
<1> QED BY <1>4, <1>5, <1>6, <1>7, <1>8 DEF Answer

\* The forced refresh begins.
LEMMA StartForceKeeps ==
  ASSUME ProviderInv, NEW t \in Task, StartForce(t)
  PROVE  ProviderInv' /\ Culpable
<1> DEFINE r == rq[t]
<1>1. /\ Request(r) /\ r.pc = "force" /\ r.id \in Nat
      /\ RequestRecord(r) /\ rq = [u \in Task |-> rq[u]]
  BY OneRequest, RequestTyped DEF StartForce
<1>2. rq' = [rq EXCEPT ![t] =
               [r EXCEPT !.pc = "forcing",
                         !.tried = Append(r.tried, <<r.id, "force">>)]]
  BY <1>1 DEF StartForce
<1>3. Requests'
  BY <1>1, <1>2, ForceNoted, RequestsMove DEF ProviderInv
<1>4. IInv'
  <2>1. calls' \in Nat /\ faults' \in Nat
    BY DEF StartForce, ProviderInv, IInv, TypeOK
  <2> QED BY <1>1, <2>1, ReadingCallsKeep DEF StartForce, ProviderInv
<1>5. Harmless /\ UNCHANGED blame
  BY SameListHarmless DEF StartForce, ForceRefresh, ProviderInv
<1> QED BY <1>3, <1>4, <1>5, HarmlessStep

\* A forced refresh that failed is counted like a rejected answer.
LEMMA ReportAfterForceKeeps ==
  ASSUME ProviderInv, NEW t \in Task, ReportAfterForce(t)
  PROVE  ProviderInv' /\ Culpable
<1> DEFINE r == rq[t]
<1>1. /\ Request(r) /\ r.pc = "report"
      /\ RequestRecord(r) /\ rq = [u \in Task |-> rq[u]]
  BY OneRequest DEF ReportAfterForce
<1>2. Requests'
  <2>1. CASE Continue(t)
    <3>1. rq' = [rq EXCEPT ![t] = [r EXCEPT !.attempt = r.attempt + 1,
                                            !.id = 0, !.pc = "loop"]]
      BY <1>1, <2>1 DEF Continue
    <3> QED BY <1>1, <3>1, AttemptOver, RequestsMove DEF ProviderInv
  <2>2. CASE Finish(t, "err")
    <3>1. r.tried \in Seq(Notes) /\ Cardinality(Sends(r.tried)) <= r.retries
      BY <1>1, RequestTyped DEF Request, Budget
    <3>2. \A id \in Nat : Forcings(r.tried, id) <= 1
      BY <1>1, ForcingsKnown
    <3>3. Request([NoRequest("err") EXCEPT !.retries = r.retries,
                                           !.tried = r.tried])
      BY <1>1, <3>1, <3>2, LeavesHistory
    <3> QED BY <2>2, <3>3, RequestsMove DEF Finish, Ended, ProviderInv
  <2> QED BY <2>1, <2>2 DEF ReportAfterForce
<1>3. entries' = PatchEnabled(entries, r.id, Failed) /\ Blame(r.id)
  BY DEF ReportAfterForce
<1>4. Blamed' /\ Culpable
  BY <1>3, FailureKeepsBlamed DEF ProviderInv, Culpable
<1>5. IInv'
  <2>1. SoundPool(entries')
    BY <1>3, Typed, ReportsKeepSound DEF ProviderInv
  <2>2. current' \in Nat
    BY <1>3, <2>1, SwitchIfDisabledTyped
       DEF ReportAfterForce, SoundPool, ProviderInv, IInv, TypeOK
  <2>3. UNCHANGED <<balanced, savedMode, lock, file, task, up, upstream,
                    calls, faults>>
    BY DEF ReportAfterForce
  <2> QED BY <2>1, <2>2, <2>3
          DEF ProviderInv, IInv, TypeOK, SoundPool, LockHeld, Refreshing,
              upstream
<1> QED BY <1>2, <1>4, <1>5 DEF ProviderInv

-----------------------------------------------------------------------------
(* The theorems.                                                            *)

\* No request runs, nothing is blamed, and the ids of the file are unique.
LEMMA ProviderInitEstablishes == ProviderInit => ProviderInv
<1> SUFFICES ASSUME ProviderInit
             PROVE  ProviderInv
  OBVIOUS
<1>1. IInv
  BY InitEstablishes DEF ProviderInit
<1>2. Requests
  <2> DEFINE r == NoRequest("none")
  <2>1. RequestRecord(r)
    BY NothingNoted DEF RequestRecord, RequestSteps, NoRequest
  <2>2. r.pc = "idle" /\ r.attempt = 0 /\ r.retries = 0 /\ r.tried = <<>>
    BY DEF NoRequest
  <2>3. rq = [t \in Task |-> r]
    BY DEF ProviderInit
  <2> HIDE DEF r
  <2>4. Budget(r)
    BY <2>2, NothingNoted DEF Budget
  <2>5. Remembered(r)
    BY <2>2, NothingNoted DEF Remembered, Forcings
  <2> QED BY <2>1, <2>3, <2>4, <2>5 DEF Requests, Request
<1>3. Blamed
  <2>1. UniqueIds(file) /\ entries = Loaded(file)
    BY InputAssumption DEF ProviderInit, Init
  <2>2. /\ DOMAIN entries = DOMAIN file
        /\ \A s \in DOMAIN entries : /\ entries[s].id = file[s].id
                                     /\ entries[s].fails = 0
    BY <2>1 DEF Loaded
  <2>3. UniqueIds(entries)
    BY <2>1, <2>2 DEF UniqueIds
  <2>4. blame = [n \in Ids |-> 0]
    BY DEF ProviderInit
  <2> QED BY <2>2, <2>3, <2>4 DEF Blamed, Ids
<1> QED BY <1>1, <1>2, <1>3 DEF ProviderInv

\* Every step, a stutter included.
LEMMA ProviderStepKeeps ==
  ProviderInv /\ [ProviderNext]_providerVars => ProviderInv' /\ Culpable
<1> SUFFICES ASSUME ProviderInv, [ProviderNext]_providerVars
             PROVE  ProviderInv' /\ Culpable
  OBVIOUS
<1>1. CASE UNCHANGED providerVars
  <2>1. IInv' /\ Requests' /\ Harmless /\ UNCHANGED blame
    <3>1. IInv'
      BY <1>1 DEF providerVars, vars, upstream, ProviderInv, IInv, TypeOK,
                  LockHeld, Refreshing
    <3>2. Requests' /\ UNCHANGED <<entries, blame>>
      BY <1>1 DEF providerVars, vars, ProviderInv, Requests
    <3> QED BY <3>1, <3>2, SameListHarmless DEF ProviderInv
  <2> QED BY <2>1, HarmlessStep
<1>2. CASE ProviderFault
  <2>1. PICK s \in DOMAIN entries : TokenExpires(s)
    BY <1>2 DEF ProviderFault
  <2>2. IInv' /\ Harmless
    BY <2>1, TokenExpiresKeeps, ExpiryHarmless DEF ProviderInv
  <2>3. Requests' /\ UNCHANGED blame
    BY <1>2 DEF ProviderFault, ProviderInv, Requests
  <2> QED BY <2>2, <2>3, HarmlessStep
<1> QED BY <1>1, <1>2, StartKeeps, LoopKeeps, ManagerStepKeeps, AnswerKeeps,
           StartForceKeeps, ReportAfterForceKeeps
        DEF ProviderNext, RequestStep, ProviderRest

\* The invariant of the composition, the manager's among it.
LEMMA ProviderInductive == ProviderSpec => []ProviderInv
<1>1. ProviderInv /\ [ProviderNext]_providerVars => ProviderInv'
  BY ProviderStepKeeps
<1> QED BY ProviderInitEstablishes, <1>1, PTL DEF ProviderSpec

\* call_api_with_retry computes its budget once from the number of
\* credentials and MAX_TOTAL_RETRIES and never sends more often, however the
\* list changes meanwhile and whatever the upstream answers.
THEOREM BudgetIsKept == ProviderSpec => []SendsWithinBudget
<1>1. ProviderInv => SendsWithinBudget
  BY DEF ProviderInv, Requests, Request, Budget, SendsWithinBudget
<1> QED BY <1>1, ProviderInductive, PTL

\* force_refreshed remembers each credential before its forced refresh is
\* under way: a request forces none twice, however often its bearer token is
\* rejected.
THEOREM ForcedAtMostOnce == ProviderSpec => []ForcedOncePerCredential
<1>1. ProviderInv => ForcedOncePerCredential
  <2> SUFFICES ASSUME ProviderInv, NEW t \in Task, NEW s \in DOMAIN entries
               PROVE  Count(rq[t].tried, <<entries[s].id, "force">>) <= 1
    BY DEF ForcedOncePerCredential
  <2>1. entries[s].id \in Nat
    BY Typed DEF ProviderInv
  <2> QED BY <2>1, OneRequest, ForcingsKnown DEF Forcings
<1> QED BY <1>1, ProviderInductive, PTL

\* report_failure disables a credential only when MAX_FAILURES_PER_CREDENTIAL
\* answers in a row spoke against it, however many requests report at once:
\* transient answers count for nothing, and the self-healing starts afresh.
THEOREM NobodyLockedOutUnblamed == ProviderSpec => BlamedBeforeDisabled
<1>1. ProviderInv /\ [ProviderNext]_providerVars => [Culpable]_providerVars
  BY ProviderStepKeeps
<1> QED BY <1>1, ProviderInductive, PTL
        DEF ProviderSpec, BlamedBeforeDisabled, Culpable

\* The manager's own promise survives the composition: whatever the retry
\* loops do, at most one handler is between sending a refresh token and
\* storing the reply.
THEOREM ManagerUnharmed == ProviderSpec => []OneRefreshAtATime
<1>1. ProviderInv => OneRefreshAtATime
  BY DEF ProviderInv, IInv, LockHeld, OneRefreshAtATime
<1> QED BY <1>1, ProviderInductive, PTL

-----------------------------------------------------------------------------
(* Failover.  A request tries a credential that does not serve at most      *)
(* MaxFailures times, whatever the other requests report about it           *)
(* meanwhile: what the request has tried never exceeds what is charged to   *)
(* the entry, and an entry that is fully charged is not handed out.  The    *)
(* attempts of a request are its tries, so that the budget outlasts them.   *)

Serves(c) == Answers[c.account] = {"success"}
Failing(p) == {s \in DOMAIN p : ~Serves(p[s].cred)}
HasHealthy(p) == \E h \in DOMAIN p : Serves(p[h].cred)

\* The token needs no refresh.
Lasts(c) == c.kind = "apiKey" \/ (c.kind = "oauth" /\ ~c.expired)

\* Whoever serves may be chosen by every request, and a budget outlasts the others.
PoolOK(p) ==
  /\ \A s \in DOMAIN p : Lasts(p[s].cred)
  /\ \A h \in DOMAIN p : Serves(p[h].cred) =>
       /\ ~p[h].disabled /\ \A opus \in Models : opus => p[h].cred.opus
       /\ Cardinality(Failing(p)) * MaxFailures < Cardinality(DOMAIN p) * RetriesPerCredential
       /\ Cardinality(Failing(p)) * MaxFailures < MaxTotalRetries

\* What the theorem is about: no token expires, each account either serves or fails in a
\* way that counts, and the files are such pools.
SteadyUpstream ==
  /\ "expire" \notin Faults
  /\ \A a \in Account : Answers[a] = {"success"} \/ Answers[a] \subseteq {"denied", "noEndpoint", "quota"}
  /\ \A f \in InitialFiles : PoolOK(f)

Charge(e) == IF e.disabled THEN MaxFailures ELSE e.fails

Tries(tried, id) == Cardinality({i \in DOMAIN tried : tried[i][1] = id})

Bound == {"setCurrent", "resetCount", "ready"}

AcquirerOK(p, k) ==
  /\ k.pc \in {"idle", "current", "select", "heal", "again"} \cup Bound
  /\ k.pc # "idle" => k.flag \in Models
  /\ k.pc = "current" => k.attempt < k.limit
  /\ k.pc \in Bound => \E s \in DOMAIN p : p[s].id = k.id /\ p[s].cred = k.cred

TriedOK(p, r) ==
  /\ r.attempt = Len(r.tried)
  /\ Cardinality(Failing(p)) * MaxFailures < r.retries
  /\ \A i \in DOMAIN r.tried : \E s \in Failing(p) : r.tried[i][1] = p[s].id
  /\ \A s \in Failing(p) : Tries(r.tried, p[s].id) <= Charge(p[s])

\* Where there is a credential that serves
GoesOn(p, k, r) ==
  /\ k.pc \notin {"heal", "again"} /\ r.result # "err"
  /\ r.pc # "idle" => TriedOK(p, r)
  /\ k.pc \in Bound => \A s \in Failing(p) : p[s].id = k.id => Tries(r.tried, k.id) < MaxFailures

\* No request forces a refresh.
RequesterOK(r) ==
  /\ r.pc \in {"idle", "loop", "acquiring", "send"}
  /\ r.pc # "idle" => r.opus \in Models

FailoverInv ==
  /\ PoolOK(entries)
  /\ \A t \in Task :
       /\ AcquirerOK(entries, task[t]) /\ RequesterOK(rq[t])
       /\ HasHealthy(entries) => GoesOn(entries, task[t], rq[t])

\* A sequence of pairs whose first parts are from a finite set, none of them more than
\* K times, is not longer than that allows.
LEMMA Pigeons ==
  ASSUME NEW F, IsFiniteSet(F), NEW K \in Nat, NEW X, NEW q \in Seq(X),
         \A i \in DOMAIN q : q[i][1] \in F,
         \A x \in F : Tries(q, x) <= K
  PROVE  Len(q) <= Cardinality(F) * K
<1> DEFINE n == Len(q)
           upTo(i) == {j \in 1 .. i : q[j][1] = q[i][1]}
           all(x) == {j \in DOMAIN q : q[j][1] = x}
           f == [i \in 1 .. n |-> <<q[i][1], Cardinality(upTo(i))>>]
<1>1. DOMAIN q = 1 .. n /\ n \in Nat
  BY LenProperties
<1>2. IsFiniteSet(1 .. n) /\ Cardinality(1 .. n) = n
  <2> HIDE DEF n
  <2> QED BY <1>1, FS_Interval
<1>3. ASSUME NEW i \in 1 .. n
      PROVE  /\ IsFiniteSet(upTo(i)) /\ Cardinality(upTo(i)) \in 1 .. K
             /\ q[i][1] \in F /\ i \in upTo(i) /\ upTo(i) \subseteq 1 .. i
  <2>1. q[i][1] \in F /\ i \in upTo(i) /\ upTo(i) \subseteq 1 .. i
    BY <1>1
  <2>2. IsFiniteSet(all(q[i][1]))
    BY <1>1, <1>2, FS_Subset
  <2>3. upTo(i) \in SUBSET all(q[i][1])
    BY <1>1
  <2>4. IsFiniteSet(upTo(i)) /\ Cardinality(upTo(i)) <= Cardinality(all(q[i][1]))
    BY <2>2, <2>3, FS_Subset
  <2>5. Cardinality(all(q[i][1])) <= K
    BY <2>1 DEF Tries
  <2>6. /\ Cardinality(upTo(i)) \in Nat /\ Cardinality(upTo(i)) # 0
        /\ Cardinality(all(q[i][1])) \in Nat
    BY <2>1, <2>2, <2>4, FS_CardinalityType, FS_EmptySet
  <2> HIDE DEF upTo, all
  <2> QED BY <2>1, <2>4, <2>5, <2>6
<1>4. f \in [1 .. n -> F \X (1 .. K)]
  <2> HIDE DEF upTo
  <2> QED BY <1>3
<1>5. ASSUME NEW i \in 1 .. n, NEW j \in 1 .. n, i < j
      PROVE  f[i] # f[j]
  <2> SUFFICES ASSUME q[i][1] = q[j][1], Cardinality(upTo(i)) = Cardinality(upTo(j)) PROVE FALSE
    OBVIOUS
  <2>1. upTo(i) \in SUBSET upTo(j)
    BY <1>1, <1>5
  <2>2. upTo(i) = upTo(j)
    BY <1>3, <2>1, FS_Subset
  <2>3. j \in upTo(i)
    BY <1>3, <2>2
  <2> QED BY <1>1, <1>5, <2>3
<1>6. \A i, j \in 1 .. n : f[i] = f[j] => i = j
  <2> SUFFICES ASSUME NEW i \in 1 .. n, NEW j \in 1 .. n, f[i] = f[j], i # j PROVE FALSE
    OBVIOUS
  <2>1. i < j \/ j < i
    BY <1>1
  <2> HIDE DEF f
  <2> QED BY <1>5, <2>1
<1> HIDE DEF f
<1>7. f \in Injection(1 .. n, F \X (1 .. K))
  BY <1>4, <1>6 DEF Injection, IsInjective
<1>8. /\ IsFiniteSet(1 .. K) /\ Cardinality(1 .. K) = K
  BY FS_Interval
<1>9. /\ IsFiniteSet(F \X (1 .. K)) /\ Cardinality(F \X (1 .. K)) = Cardinality(F) * Cardinality(1 .. K)
  BY <1>8, FS_Product
<1>10. Cardinality(1 .. n) <= Cardinality(F \X (1 .. K))
  BY <1>7, <1>9, FS_Injection
<1> QED BY <1>2, <1>8, <1>9, <1>10

\* The tries of one credential, before and after a note.
LEMMA NoteTries ==
  ASSUME NEW s \in Seq(Notes), NEW e \in Notes, NEW id
  PROVE  /\ Tries(s, id) \in Nat /\ Append(s, e) \in Seq(Notes) /\ Len(Append(s, e)) = Len(s) + 1
         /\ Tries(Append(s, e), id) = IF e[1] = id THEN Tries(s, id) + 1 ELSE Tries(s, id)
         /\ \A i \in DOMAIN Append(s, e) : Append(s, e)[i] = e \/ (i \in DOMAIN s /\ Append(s, e)[i] = s[i])
<1> DEFINE a == Append(s, e)
           n == Len(s) + 1
           S == {i \in DOMAIN s : s[i][1] = id}
           A == {i \in DOMAIN a : a[i][1] = id}
<1>1. /\ a \in Seq(Notes) /\ Len(a) = n /\ DOMAIN a = DOMAIN s \cup {n} /\ n \notin DOMAIN s
      /\ a[n] = e /\ \A i \in DOMAIN s : a[i] = s[i]
  <2>1. /\ a \in Seq(Notes) /\ Len(a) = n /\ a[n] = e
        /\ \A i \in 1 .. Len(s) : a[i] = s[i]
    BY AppendProperties
  <2>2. /\ DOMAIN a = 1 .. Len(a) /\ DOMAIN s = 1 .. Len(s)
        /\ Len(s) \in Nat
    BY <2>1, LenProperties
  <2> QED BY <2>1, <2>2
<1> HIDE DEF a
<1>2. IsFiniteSet(S) /\ Cardinality(S) \in Nat
  BY PositionsFinite
<1> HIDE DEF n
<1>3. e[1] # id => A = S
  BY <1>1
<1>4. e[1] = id => A = S \cup {n} /\ n \notin S
  BY <1>1
<1>5. e[1] = id => Cardinality(A) = Cardinality(S) + 1
  BY <1>2, <1>4, FS_AddElement
<1>6. Tries(a, id) = Cardinality(A) /\ Tries(s, id) = Cardinality(S)
  BY DEF Tries
<1> HIDE DEF A, S
<1>7. Tries(a, id) = IF e[1] = id THEN Tries(s, id) + 1 ELSE Tries(s, id)
  BY <1>2, <1>3, <1>5, <1>6
<1>8. \A i \in DOMAIN a : a[i] = e \/ (i \in DOMAIN s /\ a[i] = s[i])
  BY <1>1
<1>9. Tries(s, id) \in Nat /\ a \in Seq(Notes) /\ Len(a) = Len(s) + 1
  BY <1>1, <1>2, <1>6 DEF n
<1> QED BY <1>7, <1>8, <1>9 DEF a

SameCreds(p, q) ==
  /\ DOMAIN q = DOMAIN p
  /\ \A s \in DOMAIN p : q[s].id = p[s].id /\ q[s].cred = p[s].cred

\* A change that keeps the credentials and takes no charge back.
LEMMA PoolMoves ==
  ASSUME NEW p, NEW q, SameCreds(p, q)
  PROVE  /\ Failing(q) = Failing(p) /\ (HasHealthy(q) <=> HasHealthy(p))
         /\ PoolOK(p) /\ (\A h \in DOMAIN p : Serves(p[h].cred) => ~q[h].disabled) => PoolOK(q)
         /\ \A k : AcquirerOK(p, k) => AcquirerOK(q, k)
<1>1. Failing(q) = Failing(p) /\ (HasHealthy(q) <=> HasHealthy(p))
  <2>1. DOMAIN q = DOMAIN p /\ \A s \in DOMAIN p : Serves(q[s].cred) <=> Serves(p[s].cred)
    BY DEF SameCreds
  <2>2. Failing(q) = Failing(p)
    BY <2>1 DEF Failing
  <2> QED BY <2>1, <2>2 DEF HasHealthy
<1>2. ASSUME PoolOK(p), \A h \in DOMAIN p : Serves(p[h].cred) => ~q[h].disabled
      PROVE  PoolOK(q)
  BY <1>1, <1>2 DEF PoolOK, SameCreds
<1>3. ASSUME NEW k, AcquirerOK(p, k)
      PROVE  AcquirerOK(q, k)
  BY <1>3 DEF AcquirerOK, SameCreds
<1> QED BY <1>1, <1>2, <1>3

\* What goes on in one list goes on in another that charges no less.
LEMMA ChargeMoves ==
  ASSUME NEW p, NEW q, SameCreds(p, q),
         \A s \in Failing(p) : Charge(q[s]) \in Nat /\ Charge(p[s]) \in Nat /\ Charge(q[s]) >= Charge(p[s]),
         NEW k, NEW r, r.tried \in Seq(Notes), GoesOn(p, k, r)
  PROVE  GoesOn(q, k, r)
<1>1. Failing(q) = Failing(p) /\ \A s \in Failing(p) : q[s].id = p[s].id
  <2>1. Failing(q) = Failing(p)
    BY PoolMoves
  <2>2. \A s \in Failing(p) : s \in DOMAIN p
    BY DEF Failing
  <2> QED BY <2>1, <2>2 DEF SameCreds
<1>2. ASSUME r.pc # "idle" PROVE TriedOK(q, r)
  <2>1. TriedOK(p, r)
    BY <1>2 DEF GoesOn
  <2>2. ASSUME NEW s \in Failing(q) PROVE Tries(r.tried, q[s].id) <= Charge(q[s])
    <3>1. Tries(r.tried, p[s].id) \in Nat /\ Tries(r.tried, p[s].id) <= Charge(p[s])
      <4>1. Tries(r.tried, p[s].id) \in Nat
        <5>1. {i \in DOMAIN r.tried : r.tried[i][1] = p[s].id} \subseteq DOMAIN r.tried
          OBVIOUS
        <5> QED BY <5>1, PositionsFinite DEF Tries
      <4> QED BY <1>1, <2>1, <4>1 DEF TriedOK
    <3> QED BY <1>1, <3>1
  <2> QED BY <1>1, <2>1, <2>2 DEF TriedOK
<1>3. ASSUME k.pc \in Bound, NEW s \in Failing(q), q[s].id = k.id PROVE Tries(r.tried, k.id) < MaxFailures
  BY <1>1, <1>3 DEF GoesOn
<1> QED BY <1>2, <1>3 DEF GoesOn

-----------------------------------------------------------------------------
(* Where there is a credential to choose, one is chosen.                    *)

\* A set of numbers that is not empty has a least one.
LEMMA LeastNumber ==
  ASSUME NEW S \in SUBSET Nat, S # {}
  PROVE  \E x \in S : \A y \in S : x <= y
<1> DEFINE R == {e \in Nat \X Nat : e[1] < e[2]}
<1>1. OpToRel(<, Nat) = R
  BY DEF OpToRel
<1>2. IsWellFoundedOn(R, Nat)
  BY <1>1, NatLessThanWellFounded, Zenon
<1>3. \A x, y \in Nat : <<y, x>> \in R <=> y < x
  OBVIOUS
<1> HIDE DEF R
<1>4. PICK x \in S : \A y \in S : ~(<<y, x>> \in R)
  BY <1>2, WFMin
<1>5. \A y \in S : ~(y < x)
  BY <1>3, <1>4
<1> QED BY <1>5

\* Among entries there is one with the least priority, the first of those.
LEMMA SomeIsFirst ==
  ASSUME NEW p, NEW S \in SUBSET Nat, S # {}, \A s \in S : p[s].cred.prio \in Nat
  PROVE  First(p, S) # {}
<1> DEFINE prios == {p[s].cred.prio : s \in S}
<1>1. PICK n \in prios : \A y \in prios : n <= y
  <2>1. prios \in SUBSET Nat /\ prios # {}
    OBVIOUS
  <2> HIDE DEF prios
  <2> QED BY <2>1, LeastNumber
<1> DEFINE T == {s \in S : p[s].cred.prio = n}
<1>2. PICK x \in T : \A y \in T : x <= y
  <2>1. T \in SUBSET Nat /\ T # {}
    BY <1>1
  <2> HIDE DEF T
  <2> QED BY <2>1, LeastNumber
<1>3. ASSUME NEW u \in S
      PROVE  p[x].cred.prio < p[u].cred.prio \/ (p[x].cred.prio = p[u].cred.prio /\ x <= u)
  <2>1. p[x].cred.prio = n /\ n <= p[u].cred.prio /\ n \in Nat /\ p[u].cred.prio \in Nat
    BY <1>1
  <2>2. p[u].cred.prio = n => x <= u
    BY <1>2
  <2> QED BY <2>1, <2>2
<1>4. x \in First(p, S)
  BY <1>3 DEF First
<1> QED BY <1>4

\* Among entries there is one with the fewest successes.
LEMMA SomeIsLeastUsed ==
  ASSUME NEW p, NEW S \in SUBSET Nat, S # {}, \A s \in S : p[s].cred.prio \in Nat /\ p[s].successes \in Nat
  PROVE  LeastUsed(p, S) # {}
<1> DEFINE used == {p[s].successes : s \in S}
<1>1. PICK n \in used : \A y \in used : n <= y
  <2>1. used \in SUBSET Nat /\ used # {}
    OBVIOUS
  <2> HIDE DEF used
  <2> QED BY <2>1, LeastNumber
<1> DEFINE T == {s \in S : p[s].successes = n}
<1>2. PICK x : x \in First(p, T)
  <2>1. T \in SUBSET Nat /\ T # {} /\ \A s \in T : p[s].cred.prio \in Nat
    BY <1>1
  <2> HIDE DEF T
  <2> QED BY <2>1, SomeIsFirst
<1>3. x \in S /\ p[x].successes = n
  BY <1>2 DEF First
<1>4. ASSUME NEW u \in S
      PROVE  \/ p[x].successes < p[u].successes
             \/ /\ p[x].successes = p[u].successes
                /\ p[x].cred.prio < p[u].cred.prio \/ (p[x].cred.prio = p[u].cred.prio /\ x <= u)
  <2>1. n <= p[u].successes /\ n \in Nat /\ p[u].successes \in Nat
    BY <1>1
  <2>2. CASE p[u].successes = n
    BY <1>2, <1>3, <2>2 DEF First
  <2>3. CASE p[u].successes # n
    BY <1>3, <2>1, <2>3
  <2> QED BY <2>2, <2>3
<1>5. x \in LeastUsed(p, S)
  BY <1>3, <1>4 DEF LeastUsed
<1> QED BY <1>5

\* A credential that serves is chosen, or another.
LEMMA OneIsChosen ==
  ASSUME IInv, PoolOK(entries), HasHealthy(entries), NEW opus \in Models
  PROVE  SelectNext(entries, balanced, opus) # {}
<1> DEFINE S == Eligible(entries, opus)
<1>1. PICK h \in DOMAIN entries : Serves(entries[h].cred)
  BY DEF HasHealthy
<1>2. h \in S
  BY <1>1 DEF PoolOK, Eligible, Enabled
<1>3. S \in SUBSET Nat /\ S # {}
  BY <1>2, Typed DEF IsPool, Eligible, Enabled
<1>4. \A s \in S : entries[s].cred.prio \in Nat /\ entries[s].successes \in Nat
  BY Typed DEF IsPool, Eligible, Enabled, Entry, Credential
<1> HIDE DEF S
<1>5. First(entries, S) # {} /\ LeastUsed(entries, S) # {}
  BY <1>3, <1>4, SomeIsFirst, SomeIsLeastUsed
<1> QED BY <1>5 DEF SelectNext, S

-----------------------------------------------------------------------------
(* The steps of a request that fails over.                                  *)

\* Charges are numbers.
LEMMA ChargesTyped ==
  ASSUME NEW p, IsPool(p)
  PROVE  \A s \in DOMAIN p : Charge(p[s]) \in Nat
BY MaxFailuresAssumption DEF IsPool, Entry, Charge

\* One request moves, the credentials stay and no charge is taken back.
LEMMA OneFailsOver ==
  ASSUME ProviderInv, FailoverInv, IInv', NEW t \in Task, SameCreds(entries, entries'),
         \A h \in DOMAIN entries : Serves(entries[h].cred) => ~entries'[h].disabled,
         \A u \in Task \ {t} : task'[u] = task[u] /\ rq'[u] = rq[u],
         HasHealthy(entries) => \A s \in Failing(entries) : Charge(entries'[s]) >= Charge(entries[s]),
         AcquirerOK(entries', task'[t]), RequesterOK(rq'[t]),
         HasHealthy(entries) => GoesOn(entries', task'[t], rq'[t])
  PROVE  FailoverInv'
<1>1. PoolOK(entries') /\ (HasHealthy(entries') <=> HasHealthy(entries))
  BY PoolMoves DEF FailoverInv
<1>2. \A s \in Failing(entries) : Charge(entries[s]) \in Nat /\ Charge(entries'[s]) \in Nat
  <2>1. IsPool(entries) /\ IsPool(entries')
    BY DEF ProviderInv, IInv, TypeOK
  <2> QED BY <2>1, ChargesTyped DEF SameCreds, Failing
<1>3. ASSUME NEW u \in Task
      PROVE  /\ AcquirerOK(entries', task'[u]) /\ RequesterOK(rq'[u])
             /\ HasHealthy(entries) => GoesOn(entries', task'[u], rq'[u])
  <2>1. CASE u = t
    BY <2>1
  <2>2. CASE u # t
    <3>1. task'[u] = task[u] /\ rq'[u] = rq[u]
      BY <2>2
    <3>2. AcquirerOK(entries', task[u]) /\ RequesterOK(rq[u])
      BY PoolMoves DEF FailoverInv
    <3>3. ASSUME HasHealthy(entries) PROVE GoesOn(entries', task[u], rq[u])
      <4>1. GoesOn(entries, task[u], rq[u])
        BY <3>3 DEF FailoverInv
      <4>2. rq[u].tried \in Seq(Notes)
        BY OneRequest, RequestTyped
      <4>3. \A s \in Failing(entries) : Charge(entries'[s]) \in Nat /\ Charge(entries[s]) \in Nat
                                        /\ Charge(entries'[s]) >= Charge(entries[s])
        BY <1>2, <3>3
      <4> QED BY <4>1, <4>2, <4>3, ChargeMoves
    <3> QED BY <3>1, <3>2, <3>3
  <2> QED BY <2>1, <2>2
<1> QED BY <1>1, <1>3 DEF FailoverInv

\* A request starts with a budget that outlasts those that fail.
LEMMA StartFailsOver ==
  ASSUME ProviderInv, ProviderInv', FailoverInv, NEW t \in Task, NEW opus \in Models, StartRequest(t, opus)
  PROVE  FailoverInv'
<1> DEFINE wanted == Cardinality(DOMAIN entries) * RetriesPerCredential
           retries == IF wanted < MaxTotalRetries THEN wanted ELSE MaxTotalRetries
           r == [NoRequest("none") EXCEPT !.pc = "loop", !.opus = opus, !.retries = retries]
<1>1. rq' = [rq EXCEPT ![t] = r] /\ UNCHANGED <<entries, task>>
  BY DEF StartRequest, Start
<1>2. rq'[t] = r /\ \A u \in Task \ {t} : task'[u] = task[u] /\ rq'[u] = rq[u]
  BY <1>1, OneRequest
<1>3. r.pc = "loop" /\ r.attempt = 0 /\ r.tried = <<>> /\ r.result = "none" /\ r.retries = retries
      /\ r.opus = opus
  BY DEF NoRequest
<1> HIDE DEF r
<1>4. \A id : Tries(<<>>, id) = 0
  <2>1. \A id : {i \in DOMAIN <<>> : <<>>[i][1] = id} = {}
    OBVIOUS
  <2> QED BY <2>1, FS_EmptySet DEF Tries
<1>5. ASSUME HasHealthy(entries)
      PROVE  GoesOn(entries, task[t], r)
  <2>1. GoesOn(entries, task[t], rq[t])
    BY <1>5 DEF FailoverInv
  <2>2. Cardinality(Failing(entries)) * MaxFailures < retries
    BY <1>5 DEF FailoverInv, PoolOK, HasHealthy
  <2>3. \A s \in Failing(entries) : 0 <= Charge(entries[s])
    BY ChargesTyped DEF ProviderInv, IInv, TypeOK, Failing
  <2>4. TriedOK(entries, r)
    BY <1>3, <1>4, <2>2, <2>3, EmptySeq DEF TriedOK
  <2> QED BY <1>3, <1>4, <2>1, <2>4, MaxFailuresAssumption DEF GoesOn
<1>6. SameCreds(entries, entries') /\ entries' = entries /\ task' = task
  BY <1>1 DEF SameCreds
<1>7. \A s \in Failing(entries) : Charge(entries'[s]) >= Charge(entries[s])
  BY <1>6, ChargesTyped DEF ProviderInv, IInv, TypeOK, Failing
<1>8. RequesterOK(r) /\ AcquirerOK(entries', task'[t])
  BY <1>3, <1>6 DEF RequesterOK, FailoverInv
<1> QED BY <1>2, <1>5, <1>6, <1>7, <1>8, OneFailsOver DEF FailoverInv, PoolOK, ProviderInv

\* A request that has spent its attempts would have tried the others more often than it can.
LEMMA NotOutOfAttempts ==
  ASSUME ProviderInv, FailoverInv, NEW t \in Task, rq[t].pc # "idle", HasHealthy(entries)
  PROVE  rq[t].attempt < rq[t].retries
<1> DEFINE q == rq[t].tried
           F == {entries[s].id : s \in Failing(entries)}
<1>1. TriedOK(entries, rq[t])
  BY DEF FailoverInv, GoesOn
<1>2. q \in Seq(Notes) /\ rq[t].retries \in Nat
  BY OneRequest, RequestTyped
<1>3. IsFiniteSet(Failing(entries))
  BY FS_Subset DEF ProviderInv, IInv, TypeOK, IsPool, Failing
<1>4. IsFiniteSet(F) /\ Cardinality(F) <= Cardinality(Failing(entries))
  <2> DEFINE f == [s \in Failing(entries) |-> entries[s].id]
  <2>1. f \in Surjection(Failing(entries), F)
    BY DEF Surjection
  <2> HIDE DEF F
  <2> QED BY <1>3, <2>1, FS_Surjection
<1>5. ASSUME NEW s \in Failing(entries) PROVE Tries(q, entries[s].id) <= MaxFailures
  <2>1. Tries(q, entries[s].id) <= Charge(entries[s])
    BY <1>1 DEF TriedOK
  <2>2. Charge(entries[s]) <= MaxFailures /\ Charge(entries[s]) \in Nat
    <3>1. SoundEntry(entries[s])
      BY Typed, MembersSound DEF ProviderInv, Failing
    <3> QED BY <3>1, MaxFailuresAssumption DEF SoundEntry, Sound, Entry, Charge
  <2>3. Tries(q, entries[s].id) \in Nat
    <3>1. {i \in DOMAIN q : q[i][1] = entries[s].id} \subseteq DOMAIN q
      OBVIOUS
    <3> QED BY <1>2, <3>1, PositionsFinite DEF Tries
  <2> QED BY <2>1, <2>2, <2>3, MaxFailuresAssumption
<1>6. \A i \in DOMAIN q : q[i][1] \in F
  BY <1>1 DEF TriedOK
<1>7. \A x \in F : Tries(q, x) <= MaxFailures
  BY <1>5
<1>8. MaxFailures \in Nat /\ Cardinality(F) \in Nat /\ Cardinality(Failing(entries)) \in Nat
  BY <1>3, <1>4, FS_CardinalityType, MaxFailuresAssumption
<1>9. Len(q) <= Cardinality(F) * MaxFailures
  <2> HIDE DEF q, F
  <2> QED BY <1>2, <1>4, <1>6, <1>7, <1>8, Pigeons
<1>10. Cardinality(F) * MaxFailures <= Cardinality(Failing(entries)) * MaxFailures
  <2>1. \A a, b, c \in Nat : a <= b => a * c <= b * c
    OBVIOUS
  <2> QED BY <1>4, <1>8, <2>1
<1>11. rq[t].attempt = Len(q) /\ Cardinality(Failing(entries)) * MaxFailures < rq[t].retries /\ Len(q) \in Nat
  BY <1>1, <1>2, LenProperties DEF TriedOK
<1>12. Cardinality(F) * MaxFailures \in Nat /\ Cardinality(Failing(entries)) * MaxFailures \in Nat
  BY <1>8
<1> HIDE DEF F, q
<1> QED BY <1>2, <1>9, <1>10, <1>11, <1>12

\* A request whose acquisition moves, or that goes on with its attempts and its history as
\* they are.
LEMMA AttemptGoesOn ==
  ASSUME NEW k, NEW r, NEW l, NEW q, GoesOn(entries, k, r), r.pc # "idle",
         q.attempt = r.attempt, q.retries = r.retries, q.tried = r.tried, q.result = r.result,
         l.pc \notin {"heal", "again"},
         l.pc \in Bound => \A s \in Failing(entries) :
                             entries[s].id = l.id => Tries(r.tried, l.id) < MaxFailures
  PROVE  GoesOn(entries, l, q)
<1>1. TriedOK(entries, q)
  BY DEF GoesOn, TriedOK
<1> QED BY <1>1 DEF GoesOn

\* What has been handed out enabled may be tried once more.
LEMMA EnabledHasRoom ==
  ASSUME ProviderInv, FailoverInv, HasHealthy(entries), NEW t \in Task, rq[t].pc # "idle",
         NEW s \in Enabled(entries), NEW u \in Failing(entries), entries[u].id = entries[s].id
  PROVE  Tries(rq[t].tried, entries[s].id) < MaxFailures
<1>1. u = s /\ s \in DOMAIN entries /\ u \in DOMAIN entries
  BY DEF ProviderInv, Blamed, UniqueIds, Enabled, Failing
<1>2. Tries(rq[t].tried, entries[s].id) <= Charge(entries[s])
  BY <1>1 DEF FailoverInv, GoesOn, TriedOK
<1>3. Charge(entries[s]) < MaxFailures /\ Charge(entries[s]) \in Nat
  <2>1. SoundEntry(entries[s])
    BY <1>1, Typed, MembersSound DEF ProviderInv
  <2> QED BY <2>1 DEF SoundEntry, Sound, Entry, Charge, Enabled
<1>4. Tries(rq[t].tried, entries[s].id) \in Nat
  <2>1. {i \in DOMAIN rq[t].tried : rq[t].tried[i][1] = entries[s].id} \subseteq DOMAIN rq[t].tried
    OBVIOUS
  <2>2. rq[t].tried \in Seq(Notes)
    BY OneRequest, RequestTyped
  <2> QED BY <2>1, <2>2, PositionsFinite DEF Tries
<1> QED BY <1>2, <1>3, <1>4, MaxFailuresAssumption

\* It acquires a credential, or has no attempt left where no credential serves.
LEMMA LoopFailsOver ==
  ASSUME ProviderInv, ProviderInv', FailoverInv, NEW t \in Task, NextAttempt(t) \/ OutOfAttempts(t)
  PROVE  FailoverInv'
<1>1. SameCreds(entries, entries') /\ entries' = entries
  BY DEF SameCreds, NextAttempt, Acquire, OutOfAttempts, vars
<1>2. \A s \in Failing(entries) : Charge(entries'[s]) >= Charge(entries[s])
  BY <1>1, ChargesTyped DEF ProviderInv, IInv, TypeOK, Failing
<1>3. /\ rq = [u \in Task |-> rq[u]] /\ RequestRecord(rq[t])
      /\ task = [u \in Task |-> task[u]] /\ TaskRecord(task[t])
  BY OneRequest, Typed DEF ProviderInv, IInv, TypeOK
<1>4. CASE NextAttempt(t)
  <2> DEFINE n == Cardinality(DOMAIN entries)
             limit == IF n = 0 THEN 1 ELSE n * MaxFailures
             k == [Begin(t, "acquire", "current") EXCEPT !.flag = rq[t].opus, !.limit = limit]
             r == [rq[t] EXCEPT !.pc = "acquiring"]
  <2>1. task' = [task EXCEPT ![t] = k] /\ rq' = [rq EXCEPT ![t] = r] /\ rq[t].pc = "loop"
    BY <1>3, <1>4 DEF NextAttempt, Acquire
  <2>2. task'[t] = k /\ rq'[t] = r /\ \A u \in Task \ {t} : task'[u] = task[u] /\ rq'[u] = rq[u]
    BY <1>3, <2>1
  <2>3. k.pc = "current" /\ k.flag = rq[t].opus /\ k.limit = limit /\ k.attempt = 0
    BY DEF Begin, Idle
  <2>4. limit > 0
    <3>1. n \in Nat
      BY FS_CardinalityType DEF ProviderInv, IInv, TypeOK, IsPool
    <3>2. \A a, b \in Nat \ {0} : a * b > 0
      OBVIOUS
    <3> HIDE DEF n
    <3> QED BY <3>1, <3>2, MaxFailuresAssumption
  <2>5. /\ r.pc = "acquiring" /\ r.result = rq[t].result /\ r.attempt = rq[t].attempt
        /\ r.tried = rq[t].tried /\ r.retries = rq[t].retries /\ r.opus = rq[t].opus
    BY <1>3 DEF RequestRecord
  <2>6. rq[t].opus \in Models
    BY <2>1 DEF FailoverInv, RequesterOK
  <2> HIDE DEF k, r, limit
  <2>7. AcquirerOK(entries, k) /\ RequesterOK(r)
    BY <2>3, <2>4, <2>5, <2>6 DEF AcquirerOK, RequesterOK, Bound
  <2>8. ASSUME HasHealthy(entries) PROVE GoesOn(entries, k, r)
    <3>1. GoesOn(entries, task[t], rq[t])
      BY <2>8 DEF FailoverInv
    <3> QED BY <2>1, <2>3, <2>5, <3>1, AttemptGoesOn DEF Bound
  <2> QED BY <1>1, <1>2, <2>2, <2>7, <2>8, OneFailsOver DEF FailoverInv, PoolOK, ProviderInv
<1>5. CASE OutOfAttempts(t)
  <2> DEFINE r == Ended(t, "err", rq[t].tried)
  <2>1. rq' = [rq EXCEPT ![t] = r] /\ UNCHANGED task /\ rq[t].pc = "loop" /\ rq[t].attempt >= rq[t].retries
    BY <1>5 DEF OutOfAttempts, Finish, vars
  <2>2. rq'[t] = r /\ \A u \in Task : task'[u] = task[u] /\ (u # t => rq'[u] = rq[u])
    BY <1>3, <2>1
  <2>3. r.pc = "idle"
    BY DEF Ended, NoRequest
  <2>4. ~HasHealthy(entries)
    <3>1. rq[t].attempt \in Nat /\ rq[t].retries \in Nat
      BY OneRequest, RequestTyped
    <3> QED BY <2>1, <3>1, NotOutOfAttempts
  <2>5. AcquirerOK(entries', task'[t]) /\ RequesterOK(r)
    BY <1>1, <2>2, <2>3 DEF FailoverInv, RequesterOK
  <2> HIDE DEF r
  <2> QED BY <1>1, <1>2, <2>2, <2>4, <2>5, OneFailsOver DEF FailoverInv, PoolOK, ProviderInv
<1> QED BY <1>4, <1>5

-----------------------------------------------------------------------------
(* The acquisition of a request that fails over.                            *)

\* A step of the acquisition to the local variables k, which charges nobody.
LEMMA AcquisitionMoves ==
  ASSUME ProviderInv, FailoverInv, IInv', NEW t \in Task, AcquireProceeds(t),
         NEW k, task' = [task EXCEPT ![t] = k], AcquirerOK(entries, k),
         SameCreds(entries, entries'),
         HasHealthy(entries) =>
           /\ \A s \in DOMAIN entries : /\ Charge(entries'[s]) = Charge(entries[s])
                                       /\ entries'[s].disabled = entries[s].disabled
           /\ k.pc \notin {"idle", "heal", "again"}
           /\ k.pc \in Bound => \A s \in Failing(entries) :
                                  entries[s].id = k.id => Tries(rq[t].tried, k.id) < MaxFailures
  PROVE  FailoverInv'
<1> DEFINE r == rq[t]
<1>1. /\ rq = [u \in Task |-> rq[u]] /\ RequestRecord(r) /\ r.pc = "acquiring"
      /\ task = [u \in Task |-> task[u]]
  BY OneRequest DEF ProviderInv, IInv, TypeOK, AcquireProceeds
<1>2. task'[t] = k /\ \A u \in Task \ {t} : task'[u] = task[u]
  BY <1>1
<1>3. RequesterOK(r) /\ r.opus \in Models
  BY <1>1 DEF FailoverInv, RequesterOK
<1>4. PICK q : /\ rq' = [rq EXCEPT ![t] = q] /\ q.opus = r.opus
               /\ q.pc \in {"loop", "acquiring", "send"}
               /\ k.pc # "idle" =>
                    /\ q.attempt = r.attempt /\ q.retries = r.retries
                    /\ q.tried = r.tried /\ q.result = r.result
  <2>1. CASE k.pc = "idle" /\ Continue(t)
    <3> DEFINE q == [r EXCEPT !.attempt = r.attempt + 1, !.id = 0, !.pc = "loop"]
    <3>1. rq' = [rq EXCEPT ![t] = q]
      BY <1>1, <2>1 DEF Continue
    <3>2. q.opus = r.opus /\ q.pc = "loop"
      BY <1>1 DEF RequestRecord
    <3> HIDE DEF q
    <3> QED BY <2>1, <3>1, <3>2
  <2>2. CASE rq' = [rq EXCEPT ![t].pc = "send"]
    <3> DEFINE q == [r EXCEPT !.pc = "send"]
    <3>1. rq' = [rq EXCEPT ![t] = q]
      BY <1>1, <2>2
    <3>2. /\ q.opus = r.opus /\ q.pc = "send" /\ q.attempt = r.attempt /\ q.retries = r.retries
          /\ q.tried = r.tried /\ q.result = r.result
      BY <1>1 DEF RequestRecord
    <3> HIDE DEF q
    <3> QED BY <3>1, <3>2
  <2>3. CASE UNCHANGED rq
    <3>1. rq' = [rq EXCEPT ![t] = r]
      BY <1>1, <2>3
    <3> QED BY <1>1, <3>1
  <2> QED BY <1>2, <2>1, <2>2, <2>3 DEF AcquireProceeds
<1>5. rq'[t] = q /\ \A u \in Task \ {t} : rq'[u] = rq[u]
  BY <1>1, <1>4
<1>6. AcquirerOK(entries', k) /\ RequesterOK(q)
  BY <1>3, <1>4, PoolMoves DEF RequesterOK
<1>7. ASSUME HasHealthy(entries) PROVE GoesOn(entries', k, q)
  <2>1. GoesOn(entries, task[t], r)
    BY <1>7 DEF FailoverInv
  <2>2. GoesOn(entries, k, q)
    BY <1>1, <1>4, <1>7, <2>1, AttemptGoesOn
  <2>3. \A s \in Failing(entries) : /\ Charge(entries'[s]) \in Nat /\ Charge(entries[s]) \in Nat
                                   /\ Charge(entries'[s]) >= Charge(entries[s])
    BY <1>7, ChargesTyped DEF ProviderInv, IInv, TypeOK, Failing
  <2>4. q.tried \in Seq(Notes)
    BY <1>4, <1>7, OneRequest, RequestTyped
  <2> QED BY <2>2, <2>3, <2>4, ChargeMoves
<1>8. HasHealthy(entries) => \A s \in Failing(entries) : Charge(entries'[s]) >= Charge(entries[s])
  BY ChargesTyped DEF ProviderInv, IInv, TypeOK, Failing
<1>9. \A h \in DOMAIN entries : Serves(entries[h].cred) => ~entries'[h].disabled
  BY DEF FailoverInv, PoolOK, HasHealthy
<1> QED BY <1>2, <1>5, <1>6, <1>7, <1>8, <1>9, OneFailsOver

\* The acquisition takes the credential of an enabled entry.
LEMMA BindsEnabled ==
  ASSUME ProviderInv, FailoverInv, NEW t \in Task, rq[t].pc = "acquiring", task[t].pc # "idle",
         NEW s \in Enabled(entries), NEW step \in Bound, NEW k,
         k.pc = step, k.id = entries[s].id, k.cred = entries[s].cred, k.flag = task[t].flag
  PROVE  /\ AcquirerOK(entries, k)
         /\ HasHealthy(entries) => \A u \in Failing(entries) :
              entries[u].id = k.id => Tries(rq[t].tried, k.id) < MaxFailures
<1>1. task[t].flag \in Models
  BY DEF FailoverInv, AcquirerOK
<1>3. AcquirerOK(entries, k)
  BY <1>1 DEF AcquirerOK, Bound, Enabled
<1>4. ASSUME HasHealthy(entries), NEW u \in Failing(entries), entries[u].id = k.id
      PROVE  Tries(rq[t].tried, k.id) < MaxFailures
  BY <1>4, EnabledHasRoom
<1> QED BY <1>3, <1>4

\* A credential whose token lasts is ready.
LEMMA LastsIsReady ==
  ASSUME NEW c, Lasts(c)
  PROVE  Ensure(c) \in {"ready", "resetCount"}
BY DEF Lasts, Ensure

\* A step that leaves the list alone charges nobody.
LEMMA ListSame ==
  ASSUME UNCHANGED entries
  PROVE  /\ SameCreds(entries, entries')
         /\ \A s \in DOMAIN entries : /\ Charge(entries'[s]) = Charge(entries[s])
                                     /\ entries'[s].disabled = entries[s].disabled
BY DEF SameCreds

\* The steps of the acquisition: one per action, the lock and the refresh excluded.
LEMMA AcquireFailsOver ==
  ASSUME ProviderInv, ProviderInv', FailoverInv, NEW t \in Task, AcquireProceeds(t)
  PROVE  FailoverInv'
<1> DEFINE k == task[t]
<1>1. /\ rq[t].pc = "acquiring" /\ AcquirerOK(entries, k) /\ TaskRecord(k)
      /\ k.pc \in {"idle", "current", "select", "heal", "again"} \cup Bound
      /\ task = [u \in Task |-> task[u]] /\ IInv /\ IInv'
  BY Typed DEF ProviderInv, IInv, TypeOK, AcquireProceeds, FailoverInv, AcquirerOK
<1>2. ASSUME k.pc # "idle", NEW step \in {"select", "heal", "again"},
             SameCreds(entries, entries'),
             HasHealthy(entries) =>
               /\ \A s \in DOMAIN entries : /\ Charge(entries'[s]) = Charge(entries[s])
                                           /\ entries'[s].disabled = entries[s].disabled
               /\ step = "select",
             Goto(t, step)
      PROVE  FailoverInv'
  <2> DEFINE l == [k EXCEPT !.pc = step]
  <2>1. task' = [task EXCEPT ![t] = l]
    BY <1>1, <1>2 DEF Goto
  <2>2. l.pc = step /\ l.flag = k.flag
    BY <1>1 DEF TaskRecord
  <2> HIDE DEF l
  <2>3. AcquirerOK(entries, l)
    BY <1>1, <1>2, <2>2 DEF AcquirerOK, Bound
  <2>4. l.pc \notin Bound /\ l.pc # "idle"
    BY <1>2, <2>2 DEF Bound
  <2> QED BY <1>1, <1>2, <2>1, <2>2, <2>3, <2>4, AcquisitionMoves
<1>3. ASSUME k.pc # "idle", NEW s \in Enabled(entries), NEW step \in Bound, UNCHANGED entries,
             Bind(t, entries[s].id, entries[s].cred, step)
      PROVE  FailoverInv'
  <2> DEFINE l == [k EXCEPT !.id = entries[s].id, !.cred = entries[s].cred, !.pc = step]
  <2>1. task' = [task EXCEPT ![t] = l]
    BY <1>1, <1>3 DEF Bind
  <2>4. l.pc = step /\ l.id = entries[s].id /\ l.cred = entries[s].cred /\ l.flag = k.flag
    BY <1>1 DEF TaskRecord
  <2> HIDE DEF l
  <2>2. /\ AcquirerOK(entries, l)
        /\ HasHealthy(entries) => \A u \in Failing(entries) :
             entries[u].id = l.id => Tries(rq[t].tried, l.id) < MaxFailures
    BY <1>1, <1>3, <2>4, BindsEnabled
  <2>3. l.pc \notin {"idle", "heal", "again"}
    BY <2>4 DEF Bound
  <2> QED BY <1>1, <1>3, <2>1, <2>2, <2>3, ListSame, AcquisitionMoves
<1>4. ASSUME k.pc \in Bound, NEW step \in Bound, SameCreds(entries, entries'),
             \A s \in DOMAIN entries : /\ Charge(entries'[s]) = Charge(entries[s])
                                     /\ entries'[s].disabled = entries[s].disabled,
             Goto(t, step)
      PROVE  FailoverInv'
  <2> DEFINE l == [k EXCEPT !.pc = step]
  <2>1. task' = [task EXCEPT ![t] = l]
    BY <1>1, <1>4 DEF Goto
  <2>2. l.pc = step /\ l.flag = k.flag /\ l.id = k.id /\ l.cred = k.cred
    BY <1>1 DEF TaskRecord
  <2> HIDE DEF l
  <2>3. AcquirerOK(entries, l)
    BY <1>1, <1>4, <2>2 DEF AcquirerOK, Bound
  <2>4. ASSUME HasHealthy(entries), NEW s \in Failing(entries), entries[s].id = l.id
        PROVE  Tries(rq[t].tried, l.id) < MaxFailures
    BY <1>4, <2>2, <2>4 DEF FailoverInv, GoesOn
  <2>5. l.pc \notin {"idle", "heal", "again"}
    BY <1>4, <2>2 DEF Bound
  <2> QED BY <1>1, <1>4, <2>1, <2>3, <2>4, <2>5, AcquisitionMoves
<1>5. ASSUME ~HasHealthy(entries), UNCHANGED entries, Return(t, "err")
      PROVE  FailoverInv'
  <2> DEFINE l == Idle("err")
  <2>1. task' = [task EXCEPT ![t] = l]
    BY <1>5 DEF Return
  <2>2. AcquirerOK(entries, l)
    BY DEF AcquirerOK, Idle, Bound
  <2> HIDE DEF l
  <2> QED BY <1>1, <1>5, <2>1, <2>2, ListSame, AcquisitionMoves
<1>6. CASE TakeCurrent(t)
  <2>1. /\ k.pc = "current" /\ UNCHANGED entries /\ k.attempt < k.limit
        /\ k.attempt \in Nat /\ k.limit \in Nat
    BY <1>1, <1>6 DEF TakeCurrent, At, AcquirerOK, TaskRecord
  <2>2. \/ Goto(t, "select")
        \/ \E s \in Enabled(entries) : Bind(t, entries[s].id, entries[s].cred, Ensure(entries[s].cred))
    BY <1>6, <2>1 DEF TakeCurrent, Enabled
  <2>3. \A s \in Enabled(entries) : Ensure(entries[s].cred) \in Bound
    BY LastsIsReady DEF FailoverInv, PoolOK, Enabled, Bound
  <2> QED BY <1>2, <1>3, <2>1, <2>2, <2>3, ListSame
<1>7. ASSUME NEW S, S = SelectNext(entries, balanced, k.flag)
      PROVE  S \subseteq Enabled(entries)
  BY <1>7 DEF SelectNext, First, LeastUsed, Eligible
<1>8. CASE SelectFirst(t) \/ SelectAgain(t)
  <2> DEFINE best == SelectNext(entries, balanced, k.flag)
  <2>1. /\ k.pc \in {"select", "again"} /\ UNCHANGED entries /\ k.flag \in Models
        /\ SelectAgain(t) => k.pc = "again"
    BY <1>1, <1>8 DEF SelectFirst, SelectAgain, Select, At, AcquirerOK
  <2>2. \/ best = {} /\ SelectFirst(t) /\ Goto(t, "heal")
        \/ best = {} /\ SelectAgain(t) /\ Return(t, "err")
        \/ \E s \in best : Bind(t, entries[s].id, entries[s].cred, "setCurrent")
    BY <1>8 DEF SelectFirst, SelectAgain, Select
  <2>3. best \subseteq Enabled(entries)
    BY <1>7
  <2>4. best = {} => ~HasHealthy(entries)
    BY <1>1, <2>1, OneIsChosen DEF FailoverInv
  <2> HIDE DEF best
  <2>5. "setCurrent" \in Bound
    BY DEF Bound
  <2> QED BY <1>2, <1>3, <1>5, <2>1, <2>2, <2>3, <2>4, <2>5, ListSame
<1>9. CASE SelfHeal(t)
  <2>1. k.pc = "heal" /\ ~HasHealthy(entries)
    BY <1>9 DEF SelfHeal, At, FailoverInv, GoesOn
  <2>2. CASE UNCHANGED entries /\ Return(t, "err")
    BY <1>5, <2>1, <2>2
  <2>3. CASE entries' = [s \in DOMAIN entries |-> Healed(entries[s])] /\ Goto(t, "again")
    <3>1. \A s \in DOMAIN entries : /\ Healed(entries[s]).id = entries[s].id
                                   /\ Healed(entries[s]).cred = entries[s].cred
      BY <1>1, Typed DEF IsPool, Entry, Healed
    <3>2. SameCreds(entries, entries')
      BY <2>3, <3>1 DEF SameCreds
    <3> QED BY <1>2, <2>1, <2>3, <3>2
  <2> QED BY <1>9, <2>2, <2>3 DEF SelfHeal
<1>10. CASE SetCurrent(t)
  <2>1. k.pc = "setCurrent" /\ UNCHANGED entries /\ Goto(t, Ensure(k.cred))
    BY <1>10 DEF SetCurrent, At
  <2>2. k.pc \in Bound
    BY <2>1 DEF Bound
  <2>3. Lasts(k.cred)
    BY <1>1, <2>2 DEF AcquirerOK, FailoverInv, PoolOK
  <2>4. Ensure(k.cred) \in Bound
    BY <2>3, LastsIsReady DEF Bound
  <2> QED BY <1>4, <2>1, <2>2, <2>4, ListSame
<1>11. CASE ResetRefreshCount(t)
  <2>1. /\ k.pc = "resetCount" /\ Goto(t, "ready")
        /\ entries' = Patch(entries, k.id, RefreshCountReset)
    BY <1>11 DEF ResetRefreshCount, At
  <2>2. \A s \in DOMAIN entries :
          LET e == RefreshCountReset(entries[s])
          IN  /\ e.id = entries[s].id /\ e.cred = entries[s].cred
              /\ e.disabled = entries[s].disabled /\ e.fails = entries[s].fails
    BY <1>1, Typed DEF IsPool, Entry, RefreshCountReset
  <2>3. /\ DOMAIN entries' = DOMAIN entries
        /\ \A s \in DOMAIN entries : entries'[s] \in {entries[s], RefreshCountReset(entries[s])}
    BY <2>1 DEF Patch
  <2>4. \A s \in DOMAIN entries : /\ entries'[s].id = entries[s].id /\ entries'[s].cred = entries[s].cred
                                 /\ entries'[s].disabled = entries[s].disabled
                                 /\ entries'[s].fails = entries[s].fails
    BY <2>2, <2>3
  <2>5. SameCreds(entries, entries')
    BY <2>3, <2>4 DEF SameCreds
  <2>6. \A s \in DOMAIN entries : Charge(entries'[s]) = Charge(entries[s])
    BY <2>4 DEF Charge
  <2>7. k.pc \in Bound /\ "ready" \in Bound
    BY <2>1 DEF Bound
  <2> QED BY <1>4, <2>1, <2>4, <2>5, <2>6, <2>7
<1>12. ~(ReportRefreshFailure(t) \/ ReportRefreshTokenInvalid(t))
  BY <1>1 DEF ReportRefreshFailure, ReportRefreshTokenInvalid, ReportRefresh, At, Bound
<1>13. ~(LockStep(t) \/ RefreshStep(t) \/ StoreStep(t))
  BY <1>1 DEF LockStep, LockAndRecheck, Recheck, ForceLock, RefreshStep, RefreshAccepted,
              RefreshRejected, RefreshErrors, StoreStep, StoreRefreshed, Store,
              PersistSnapshot, PersistWrite, At, Bound
<1> QED BY <1>6, <1>8, <1>9, <1>10, <1>11, <1>12, <1>13 DEF AcquireProceeds, AcquireStep

-----------------------------------------------------------------------------
(* The answers to a request that fails over.                                *)

\* What counts against a credential is charged to its entry and to no other.
LEMMA ReportsCharge ==
  ASSUME ProviderInv, NEW s \in DOMAIN entries, NEW f,
         DOMAIN entries' = DOMAIN entries,
         \A u \in DOMAIN entries \ Find(entries, entries[s].id) : entries'[u] = entries[u],
         entries[s].disabled => entries'[s] = entries[s],
         s \in Find(entries, entries[s].id) /\ ~entries[s].disabled => entries'[s] = f,
         ~entries[s].disabled /\ entries[s].fails < MaxFailures =>
            /\ f.id = entries[s].id /\ f.cred = entries[s].cred
            /\ Charge(f) \in Nat
            /\ Charge(f) >= MaxFailures \/ Charge(f) >= entries[s].fails + 1
  PROVE  /\ SameCreds(entries, entries')
         /\ \A u \in DOMAIN entries : u # s => entries'[u] = entries[u] /\ entries[u].id # entries[s].id
         /\ Charge(entries[s]) \in Nat /\ Charge(entries[s]) <= MaxFailures /\ Charge(entries'[s]) \in Nat
         /\ Charge(entries'[s]) >= MaxFailures \/ Charge(entries'[s]) >= Charge(entries[s]) + 1
<1> DEFINE id == entries[s].id
<1>1. \A u \in DOMAIN entries : SoundEntry(entries[u]) /\ entries[u] \in Entry
  BY Typed, MembersSound DEF ProviderInv, SoundEntry
<1>2. \A u \in DOMAIN entries : u # s => entries[u].id # id
  BY DEF ProviderInv, Blamed, UniqueIds
<1>3. Find(entries, id) = {s}
  <2>1. Slots(entries, id) = {s}
    BY <1>2 DEF Slots
  <2>2. s \in Nat
    BY Typed DEF ProviderInv, IsPool
  <2> QED BY <2>1, <2>2 DEF Find
<1>4. /\ DOMAIN entries' = DOMAIN entries
      /\ \A u \in DOMAIN entries : u # s => entries'[u] = entries[u]
      /\ entries'[s] = IF ~entries[s].disabled THEN f ELSE entries[s]
  BY <1>3
<1>5. /\ MaxFailures \in Nat /\ entries[s].fails \in Nat /\ entries[s].disabled \in BOOLEAN
      /\ ~entries[s].disabled => entries[s].fails < MaxFailures
  BY <1>1, MaxFailuresAssumption DEF SoundEntry, Sound, Entry
<1>6. CASE entries[s].disabled
  <2>1. entries'[s] = entries[s] /\ Charge(entries[s]) = MaxFailures
    BY <1>4, <1>6 DEF Charge
  <2>2. SameCreds(entries, entries')
    BY <1>4, <2>1 DEF SameCreds
  <2>3. /\ Charge(entries[s]) \in Nat /\ Charge(entries[s]) <= MaxFailures
        /\ Charge(entries'[s]) \in Nat /\ Charge(entries'[s]) >= MaxFailures
    BY <1>5, <2>1
  <2> QED BY <1>2, <1>4, <2>2, <2>3
<1>7. CASE ~entries[s].disabled
  <2>1. entries'[s] = f /\ Charge(entries[s]) = entries[s].fails
    BY <1>4, <1>7 DEF Charge
  <2>2. /\ entries'[s].id = entries[s].id /\ entries'[s].cred = entries[s].cred
        /\ Charge(entries'[s]) \in Nat
        /\ Charge(entries'[s]) >= MaxFailures \/ Charge(entries'[s]) >= entries[s].fails + 1
    BY <1>1, <1>5, <1>7, <2>1
  <2>3. SameCreds(entries, entries')
    BY <1>4, <2>2 DEF SameCreds
  <2>4. Charge(entries[s]) \in Nat /\ Charge(entries[s]) <= MaxFailures
    BY <1>5, <1>7, <2>1
  <2> QED BY <1>2, <1>4, <2>1, <2>2, <2>3, <2>4
<1> QED BY <1>6, <1>7

\* The two reports that count against a credential.
LEMMA FailuresCharge ==
  ASSUME ProviderInv, NEW s \in DOMAIN entries,
         \/ entries' = PatchEnabled(entries, entries[s].id, Failed)
         \/ entries' = PatchEnabled(entries, entries[s].id, QuotaExhausted)
  PROVE  /\ SameCreds(entries, entries')
         /\ \A u \in DOMAIN entries : u # s => entries'[u] = entries[u] /\ entries[u].id # entries[s].id
         /\ Charge(entries[s]) \in Nat /\ Charge(entries[s]) <= MaxFailures /\ Charge(entries'[s]) \in Nat
         /\ Charge(entries'[s]) >= MaxFailures \/ Charge(entries'[s]) >= Charge(entries[s]) + 1
<1>1. ASSUME NEW e \in Entry, ~e.disabled, e.fails < MaxFailures
      PROVE  /\ Failed(e).id = e.id /\ Failed(e).cred = e.cred
             /\ Charge(Failed(e)) \in Nat
             /\ Charge(Failed(e)) >= MaxFailures \/ Charge(Failed(e)) >= e.fails + 1
  <2>1. /\ e.fails \in Nat /\ Failed(e).id = e.id /\ Failed(e).cred = e.cred
        /\ Failed(e).fails = e.fails + 1
        /\ e.fails + 1 >= MaxFailures => Failed(e).disabled
        /\ ~(e.fails + 1 >= MaxFailures) => ~Failed(e).disabled
    BY <1>1 DEF Failed, Entry
  <2> QED BY <2>1, MaxFailuresAssumption DEF Charge
<1>2. ASSUME NEW e \in Entry, ~e.disabled, e.fails < MaxFailures
      PROVE  /\ QuotaExhausted(e).id = e.id /\ QuotaExhausted(e).cred = e.cred
             /\ Charge(QuotaExhausted(e)) \in Nat
             /\ Charge(QuotaExhausted(e)) >= MaxFailures \/ Charge(QuotaExhausted(e)) >= e.fails + 1
  <2>1. /\ QuotaExhausted(e).id = e.id /\ QuotaExhausted(e).cred = e.cred
        /\ QuotaExhausted(e).disabled
    BY DEF QuotaExhausted, Entry
  <2> QED BY <2>1, MaxFailuresAssumption DEF Charge
<1>5. entries[s] \in Entry
  BY Typed DEF ProviderInv, IsPool
<1>3. CASE entries' = PatchEnabled(entries, entries[s].id, Failed)
  <2> DEFINE f == Failed(entries[s])
  <2>1. /\ DOMAIN entries' = DOMAIN entries
        /\ \A u \in DOMAIN entries \ Find(entries, entries[s].id) : entries'[u] = entries[u]
        /\ entries[s].disabled => entries'[s] = entries[s]
        /\ s \in Find(entries, entries[s].id) /\ ~entries[s].disabled => entries'[s] = f
    BY <1>3 DEF PatchEnabled
  <2>2. ~entries[s].disabled /\ entries[s].fails < MaxFailures =>
          /\ f.id = entries[s].id /\ f.cred = entries[s].cred
          /\ Charge(f) \in Nat
          /\ Charge(f) >= MaxFailures \/ Charge(f) >= entries[s].fails + 1
    BY <1>1, <1>5
  <2> HIDE DEF f
  <2> QED BY <2>1, <2>2, ReportsCharge
<1>4. CASE entries' = PatchEnabled(entries, entries[s].id, QuotaExhausted)
  <2> DEFINE f == QuotaExhausted(entries[s])
  <2>1. /\ DOMAIN entries' = DOMAIN entries
        /\ \A u \in DOMAIN entries \ Find(entries, entries[s].id) : entries'[u] = entries[u]
        /\ entries[s].disabled => entries'[s] = entries[s]
        /\ s \in Find(entries, entries[s].id) /\ ~entries[s].disabled => entries'[s] = f
    BY <1>4 DEF PatchEnabled
  <2>2. ~entries[s].disabled /\ entries[s].fails < MaxFailures =>
          /\ f.id = entries[s].id /\ f.cred = entries[s].cred
          /\ Charge(f) \in Nat
          /\ Charge(f) >= MaxFailures \/ Charge(f) >= entries[s].fails + 1
    BY <1>2, <1>5
  <2> HIDE DEF f
  <2> QED BY <2>1, <2>2, ReportsCharge
<1> QED BY <1>3, <1>4

\* What a request noted about a failing entry is charged to it.
LEMMA FailureNoted ==
  ASSUME ProviderInv, ProviderInv', FailoverInv, NEW t \in Task, HasHealthy(entries),
         rq[t].pc = "send", task[t].pc = "ready",
         NEW s \in Failing(entries), entries[s].id = task[t].id,
         \/ entries' = PatchEnabled(entries, entries[s].id, Failed)
         \/ entries' = PatchEnabled(entries, entries[s].id, QuotaExhausted),
         NEW answer \in AnswerKinds, NEW k, k.pc = "idle", NEW q, q.pc = "loop",
         q.attempt = rq[t].attempt + 1, q.retries = rq[t].retries, q.result = rq[t].result,
         q.tried = Append(rq[t].tried, <<task[t].id, answer>>)
  PROVE  GoesOn(entries', k, q)
<1> DEFINE r == rq[t]
           note == <<task[t].id, answer>>
<1>1. s \in DOMAIN entries /\ \A u \in Failing(entries) : u \in DOMAIN entries
  BY DEF Failing
<1>2. /\ SameCreds(entries, entries')
      /\ \A u \in DOMAIN entries : u # s => entries'[u] = entries[u] /\ entries[u].id # entries[s].id
      /\ Charge(entries[s]) \in Nat /\ Charge(entries[s]) <= MaxFailures /\ Charge(entries'[s]) \in Nat
      /\ Charge(entries'[s]) >= MaxFailures \/ Charge(entries'[s]) >= Charge(entries[s]) + 1
  BY <1>1, FailuresCharge
<1>3. GoesOn(entries, task[t], r) /\ TriedOK(entries, r)
  BY DEF FailoverInv, GoesOn
<1>4. r.tried \in Seq(Notes) /\ r.attempt \in Nat /\ note \in Notes /\ note[1] = entries[s].id
  BY OneRequest, RequestTyped DEF Notes
<1>5. Failing(entries') = Failing(entries) /\ \A u \in Failing(entries) : entries'[u].id = entries[u].id
  BY <1>1, <1>2, PoolMoves DEF SameCreds
<1>6. /\ Len(q.tried) = Len(r.tried) + 1
      /\ \A i \in DOMAIN q.tried : q.tried[i] = note \/ (i \in DOMAIN r.tried /\ q.tried[i] = r.tried[i])
      /\ \A id : /\ Tries(r.tried, id) \in Nat
               /\ Tries(q.tried, id) = IF note[1] = id THEN Tries(r.tried, id) + 1 ELSE Tries(r.tried, id)
  <2> HIDE DEF note
  <2> DEFINE h == r.tried
             a == Append(h, note)
  <2>1. q.tried = a
    BY DEF note
  <2>2. h \in Seq(Notes) /\ note \in Notes
    BY <1>4
  <2> HIDE DEF h
  <2>3. /\ Len(a) = Len(h) + 1
        /\ \A i \in DOMAIN a : a[i] = note \/ (i \in DOMAIN h /\ a[i] = h[i])
    BY <2>2, NoteTries
  <2>4. \A id : /\ Tries(h, id) \in Nat
               /\ Tries(a, id) = IF note[1] = id THEN Tries(h, id) + 1 ELSE Tries(h, id)
    BY <2>2, NoteTries
  <2> HIDE DEF a
  <2> QED BY <2>1, <2>3, <2>4 DEF h
<1> HIDE DEF note
<1>7. ASSUME NEW u \in Failing(entries) PROVE Tries(q.tried, entries[u].id) <= Charge(entries'[u])
  <2>1. Tries(r.tried, entries[u].id) <= Charge(entries[u]) /\ Tries(r.tried, entries[u].id) \in Nat
    BY <1>3, <1>6 DEF TriedOK
  <2>2. CASE u = s
    <3>1. Tries(r.tried, entries[s].id) < MaxFailures
      BY <1>3 DEF GoesOn, Bound
    <3>2. Tries(q.tried, entries[s].id) = Tries(r.tried, entries[s].id) + 1
      BY <1>4, <1>6
    <3> QED BY <1>2, <2>1, <2>2, <3>1, <3>2, MaxFailuresAssumption
  <2>3. CASE u # s
    BY <1>1, <1>2, <1>4, <1>6, <2>1, <2>3
  <2> QED BY <2>2, <2>3
<1>8. \A i \in DOMAIN q.tried : \E u \in Failing(entries) : q.tried[i][1] = entries[u].id
  BY <1>3, <1>4, <1>6 DEF TriedOK
<1>9. q.attempt = Len(q.tried) /\ Cardinality(Failing(entries)) * MaxFailures < q.retries
  BY <1>3, <1>6 DEF TriedOK
<1>10. \A u \in Failing(entries') : Tries(q.tried, entries'[u].id) <= Charge(entries'[u])
  BY <1>5, <1>7
<1>11. \A i \in DOMAIN q.tried : \E u \in Failing(entries') : q.tried[i][1] = entries'[u].id
  BY <1>5, <1>8
<1>12. TriedOK(entries', q)
  BY <1>5, <1>9, <1>10, <1>11 DEF TriedOK
<1> QED BY <1>3, <1>12 DEF GoesOn, Bound

\* An answer that counts against the credential: the request goes on where one serves.
LEMMA FailureFailsOver ==
  ASSUME ProviderInv, ProviderInv', FailoverInv, NEW t \in Task, task[t].pc = "ready",
         NEW answer \in AnswerKinds, Got(t, answer), answer # "success",
         \/ entries' = PatchEnabled(entries, task[t].id, Failed)
         \/ entries' = PatchEnabled(entries, task[t].id, QuotaExhausted),
         NEW outcome, Return(t, outcome),
         \/ ContinueAfter(t, answer)
         \/ ~HasEnabled(entries') /\ FinishAfter(t, answer, "err")
  PROVE  FailoverInv'
<1> DEFINE r == rq[t]
           k == Idle(outcome)
           tried == Append(r.tried, <<task[t].id, answer>>)
<1>1. /\ rq = [u \in Task |-> rq[u]] /\ RequestRecord(r) /\ r.pc = "send"
      /\ task = [u \in Task |-> task[u]] /\ IInv'
  BY OneRequest DEF ProviderInv, IInv, TypeOK, Got
<1>2. PICK s \in DOMAIN entries : entries[s].id = task[t].id /\ entries[s].cred = task[t].cred
  BY DEF FailoverInv, AcquirerOK, Bound
<1>3. s \in Failing(entries)
  BY <1>2 DEF Got, Failing, Serves
<1>4. /\ SameCreds(entries, entries')
      /\ \A u \in DOMAIN entries : u # s => entries'[u] = entries[u] /\ entries[u].id # entries[s].id
      /\ Charge(entries[s]) \in Nat /\ Charge(entries[s]) <= MaxFailures /\ Charge(entries'[s]) \in Nat
      /\ Charge(entries'[s]) >= MaxFailures \/ Charge(entries'[s]) >= Charge(entries[s]) + 1
  BY <1>2, FailuresCharge
<1>5. task'[t] = k /\ (\A u \in Task \ {t} : task'[u] = task[u]) /\ k.pc = "idle"
  BY <1>1 DEF Return, Idle
<1>6. \A h \in DOMAIN entries : Serves(entries[h].cred) => ~entries'[h].disabled
  <2>1. ASSUME NEW h \in DOMAIN entries, Serves(entries[h].cred) PROVE ~entries'[h].disabled
    <3>1. h # s
      BY <1>3, <2>1 DEF Failing
    <3> QED BY <1>4, <2>1, <3>1 DEF FailoverInv, PoolOK
  <2> QED BY <2>1
<1>7. \A u \in Failing(entries) : Charge(entries'[u]) >= Charge(entries[u])
  <2>1. \A u \in DOMAIN entries : Charge(entries[u]) \in Nat
    BY ChargesTyped DEF ProviderInv, IInv, TypeOK
  <2>2. ASSUME NEW u \in DOMAIN entries PROVE Charge(entries'[u]) >= Charge(entries[u])
    <3>1. CASE u = s
      BY <1>4, <3>1, MaxFailuresAssumption
    <3>2. CASE u # s
      BY <1>4, <2>1, <3>2
    <3> QED BY <3>1, <3>2
  <2> QED BY <2>2 DEF Failing
<1>8. HasHealthy(entries) => HasEnabled(entries')
  BY <1>4, <1>6 DEF HasHealthy, HasEnabled, Enabled, SameCreds
<1>9. AcquirerOK(entries', k)
  BY <1>5 DEF AcquirerOK, Bound
<1> HIDE DEF k
<1>10. CASE ContinueAfter(t, answer)
  <2> DEFINE n == r.attempt + 1
             q == [r EXCEPT !.attempt = n, !.pc = "loop", !.tried = tried]
  <2>1. rq' = [rq EXCEPT ![t] = q]
    BY <1>1, <1>10 DEF ContinueAfter, Note
  <2>2. /\ q.pc = "loop" /\ q.attempt = n /\ q.tried = tried /\ q.retries = r.retries
        /\ q.result = r.result /\ q.opus = r.opus
    BY <1>1 DEF RequestRecord
  <2> HIDE DEF q
  <2>3. RequesterOK(q)
    BY <1>1, <2>2 DEF FailoverInv, RequesterOK
  <2>4. HasHealthy(entries) => GoesOn(entries', k, q)
    BY <1>1, <1>2, <1>3, <1>5, <2>2, FailureNoted
  <2>5. rq'[t] = q /\ \A u \in Task \ {t} : rq'[u] = rq[u]
    BY <1>1, <2>1
  <2> QED BY <1>1, <1>4, <1>5, <1>6, <1>7, <1>9, <2>3, <2>4, <2>5, OneFailsOver
<1>11. CASE ~HasEnabled(entries') /\ FinishAfter(t, answer, "err")
  <2> DEFINE q == Ended(t, "err", tried)
  <2>1. rq' = [rq EXCEPT ![t] = q]
    BY <1>11 DEF FinishAfter, Note
  <2>2. q.pc = "idle"
    BY DEF Ended, NoRequest
  <2> HIDE DEF q
  <2>3. RequesterOK(q) /\ ~HasHealthy(entries)
    BY <1>8, <1>11, <2>2 DEF RequesterOK
  <2>5. rq'[t] = q /\ \A u \in Task \ {t} : rq'[u] = rq[u]
    BY <1>1, <2>1
  <2> QED BY <1>1, <1>4, <1>5, <1>6, <1>7, <1>9, <2>3, <2>5, OneFailsOver
<1> QED BY <1>10, <1>11

\* A success is that of a credential that serves: nothing is charged to the others.
LEMMA SuccessFailsOver ==
  ASSUME SteadyUpstream, ProviderInv, ProviderInv', FailoverInv, NEW t \in Task, Succeeds(t)
  PROVE  FailoverInv'
<1> DEFINE r == rq[t]
           k == task'[t]
           q == Ended(t, "ok", Note(t, "success"))
<1>1. /\ rq = [u \in Task |-> rq[u]] /\ r.pc = "send" /\ task[t].pc = "ready"
      /\ task = [u \in Task |-> task[u]] /\ IInv' /\ IInv
      /\ task[t].cred.account \in Account
  BY OneRequest, Typed DEF ProviderInv, IInv, TypeOK, Got, Succeeds, ReportSuccess, Report, At, Credential
<1>2. PICK s \in DOMAIN entries : entries[s].id = task[t].id /\ entries[s].cred = task[t].cred
  BY <1>1 DEF FailoverInv, AcquirerOK, Bound
<1>3. s \notin Failing(entries)
  <2>1. "success" \in Answers[entries[s].cred.account]
    BY <1>2 DEF Succeeds, Got
  <2>2. Answers[entries[s].cred.account] = {"success"}
    BY <1>1, <1>2, <2>1 DEF SteadyUpstream
  <2> QED BY <2>2 DEF Failing, Serves
<1>4. entries' = Patch(entries, task[t].id, Succeeded)
  BY DEF Succeeds, ReportSuccess, Report
<1>5. /\ DOMAIN entries' = DOMAIN entries
      /\ \A u \in DOMAIN entries : entries'[u] \in {entries[u], Succeeded(entries[u])}
      /\ \A u \in DOMAIN entries : entries[u].id # task[t].id => entries'[u] = entries[u]
  BY <1>4 DEF Patch, Find, Slots
<1>6. \A u \in DOMAIN entries : /\ Succeeded(entries[u]).id = entries[u].id
                               /\ Succeeded(entries[u]).cred = entries[u].cred
                               /\ Succeeded(entries[u]).disabled = entries[u].disabled
  BY <1>1, Typed DEF IsPool, Entry, Succeeded
<1>7. SameCreds(entries, entries') /\ \A u \in DOMAIN entries : entries'[u].disabled = entries[u].disabled
  BY <1>5, <1>6 DEF SameCreds
<1>8. \A u \in Failing(entries) : Charge(entries'[u]) >= Charge(entries[u])
  <2>1. ASSUME NEW u \in Failing(entries) PROVE entries'[u] = entries[u] /\ Charge(entries[u]) \in Nat
    <3>1. u \in DOMAIN entries /\ u # s
      BY <1>3 DEF Failing
    <3>2. entries[u].id # entries[s].id
      BY <3>1 DEF ProviderInv, Blamed, UniqueIds
    <3> QED BY <1>1, <1>2, <1>5, <3>1, <3>2, ChargesTyped DEF IInv, TypeOK
  <2> QED BY <2>1
<1>9. task' = [task EXCEPT ![t] = Idle(task'[t].result)]
  BY <1>1 DEF Succeeds, ReportSuccess, Report, Return, Idle
<1>10. k.pc = "idle" /\ \A u \in Task \ {t} : task'[u] = task[u]
  BY <1>1, <1>9 DEF Idle
<1>11. rq' = [rq EXCEPT ![t] = q]
  BY DEF Succeeds, FinishAfter
<1>12. q.pc = "idle" /\ q.result = "ok"
  BY DEF Ended, NoRequest
<1> HIDE DEF q, k
<1>13. AcquirerOK(entries', k) /\ RequesterOK(q) /\ GoesOn(entries', k, q)
  BY <1>10, <1>12 DEF AcquirerOK, RequesterOK, GoesOn, Bound
<1>14. rq'[t] = q /\ task'[t] = k /\ \A u \in Task \ {t} : rq'[u] = rq[u]
  BY <1>1, <1>11 DEF k
<1>15. \A h \in DOMAIN entries : Serves(entries[h].cred) => ~entries'[h].disabled
  BY <1>7 DEF FailoverInv, PoolOK
<1> QED BY <1>1, <1>7, <1>8, <1>10, <1>13, <1>14, <1>15, OneFailsOver

\* The upstream answers.
LEMMA AnswerFailsOver ==
  ASSUME SteadyUpstream, ProviderInv, ProviderInv', FailoverInv, NEW t \in Task, Answer(t)
  PROVE  FailoverInv'
<1>1. ASSUME NEW answer, Got(t, answer) PROVE answer \in {"success", "denied", "noEndpoint", "quota"}
  <2>1. task[t].cred.account \in Account
    BY Typed DEF ProviderInv, Credential
  <2> QED BY <1>1, <2>1 DEF Got, SteadyUpstream
<1>2. CASE Succeeds(t)
  BY <1>2, SuccessFailsOver
<1>3. CASE UnknownEndpoint(t)
  <2>1. /\ task[t].pc = "ready" /\ Got(t, "noEndpoint") /\ ContinueAfter(t, "noEndpoint")
        /\ entries' = PatchEnabled(entries, task[t].id, Failed)
    BY <1>3 DEF UnknownEndpoint, ReportFailure, Report, At
  <2>2. PICK outcome : Return(t, outcome)
    BY <1>3 DEF UnknownEndpoint, ReportFailure, Report
  <2> QED BY <2>1, <2>2, FailureFailsOver DEF AnswerKinds
<1>4. CASE QuotaUsedUp(t)
  <2>1. /\ task[t].pc = "ready" /\ Got(t, "quota")
        /\ entries' = PatchEnabled(entries, task[t].id, QuotaExhausted)
        /\ ContinueAfter(t, "quota") \/ (~HasEnabled(entries') /\ FinishAfter(t, "quota", "err"))
    BY <1>4 DEF QuotaUsedUp, ReportQuotaExhausted, Report, At
  <2>2. PICK outcome : Return(t, outcome)
    BY <1>4 DEF QuotaUsedUp, ReportQuotaExhausted, Report
  <2> QED BY <2>1, <2>2, FailureFailsOver DEF AnswerKinds
<1>5. CASE Denied(t)
  <2>1. PICK answer \in {"denied", "badToken"} :
          /\ Got(t, answer)
          /\ IF HasEnabled(entries') THEN ContinueAfter(t, answer) ELSE FinishAfter(t, answer, "err")
    BY <1>5 DEF Denied
  <2>2. answer = "denied"
    BY <1>1, <2>1
  <2>3. /\ task[t].pc = "ready" /\ entries' = PatchEnabled(entries, task[t].id, Failed)
        /\ ContinueAfter(t, "denied") \/ (~HasEnabled(entries') /\ FinishAfter(t, "denied", "err"))
    BY <1>5, <2>1, <2>2 DEF Denied, ReportFailure, Report, At
  <2>4. PICK outcome : Return(t, outcome)
    BY <1>5 DEF Denied, ReportFailure, Report
  <2> QED BY <2>1, <2>2, <2>3, <2>4, FailureFailsOver DEF AnswerKinds
<1>6. ~(NoClient(t) \/ Transient(t) \/ Refused(t) \/ BadToken(t))
  BY <1>1 DEF NoClient, Transient, Refused, BadToken, BearerRejected
<1> QED BY <1>2, <1>3, <1>4, <1>5, <1>6 DEF Answer

-----------------------------------------------------------------------------
(* Every step.                                                              *)

\* MultiTokenManager::new leaves a usable pool as it is in the file.
LEMMA FailoverInitEstablishes ==
  ASSUME SteadyUpstream, ProviderInit
  PROVE  FailoverInv
<1>1. entries = Loaded(file) /\ PoolOK(file) /\ task = [t \in Task |-> Idle("none")]
      /\ rq = [t \in Task |-> NoRequest("none")]
  BY DEF ProviderInit, Init, SteadyUpstream
<1>2. /\ DOMAIN entries = DOMAIN file
      /\ \A s \in DOMAIN file : /\ entries[s].cred = file[s].cred
                                /\ entries[s].disabled = (file[s].disabled \/ file[s].cred.kind = "noKey")
  BY <1>1 DEF Loaded
<1>3. \A s \in DOMAIN file : file[s].cred.kind # "noKey"
  BY <1>1 DEF PoolOK, Lasts
<1>4. Failing(entries) = Failing(file)
  BY <1>2 DEF Failing
<1>5. PoolOK(entries)
  BY <1>1, <1>2, <1>3, <1>4 DEF PoolOK
<1>6. ASSUME NEW t \in Task
      PROVE  AcquirerOK(entries, task[t]) /\ RequesterOK(rq[t]) /\ GoesOn(entries, task[t], rq[t])
  BY <1>1 DEF AcquirerOK, RequesterOK, GoesOn, Bound, Idle, NoRequest
<1> QED BY <1>5, <1>6 DEF FailoverInv

\* Every step, a stutter included.
LEMMA FailoverInvKept ==
  ASSUME SteadyUpstream, ProviderInv, ProviderInv', FailoverInv, [ProviderNext]_providerVars
  PROVE  FailoverInv'
<1>1. CASE UNCHANGED providerVars
  <2>1. UNCHANGED <<entries, task, rq>>
    BY <1>1 DEF providerVars, vars
  <2> QED BY <2>1 DEF FailoverInv
<1>2. ~ProviderFault
  BY DEF ProviderFault, TokenExpires, Fault, SteadyUpstream
<1>3. ASSUME NEW t \in Task PROVE ~(StartForce(t) \/ ForceProceeds(t) \/ ReportAfterForce(t))
  BY DEF StartForce, ForceProceeds, ReportAfterForce, FailoverInv, RequesterOK
<1> QED BY <1>1, <1>2, <1>3, StartFailsOver, LoopFailsOver, AcquireFailsOver, AnswerFailsOver
        DEF ProviderNext, RequestStep, ProviderRest

\* call_api_with_retry and call_mcp_with_retry end with an error only when no credential of the
\* list serves: however many requests report at once, each credential that fails costs a request
\* at most MAX_FAILURES_PER_CREDENTIAL attempts, and the budget allows for all of them.
THEOREM HealthyIsReached == ASSUME SteadyUpstream PROVE ProviderSpec => []FailoverReachesHealthy
<1>1. ProviderInit => FailoverInv
  BY FailoverInitEstablishes
<1>2. ProviderInv /\ ProviderInv' /\ FailoverInv /\ [ProviderNext]_providerVars => FailoverInv'
  BY FailoverInvKept
<1>3. FailoverInv => FailoverReachesHealthy
  BY DEF FailoverInv, GoesOn, HasHealthy, Serves, FailoverReachesHealthy
<1> QED BY <1>1, <1>2, <1>3, ProviderInductive, PTL DEF ProviderSpec
=============================================================================
