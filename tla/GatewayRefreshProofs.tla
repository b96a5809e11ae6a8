------------------------- MODULE GatewayRefreshProofs -------------------------
(***************************************************************************)
(* Proofs about GatewayRefresh, for any number of auths, workers and       *)
(* callers, any capacity of the job channel and any back-offs.             *)
(***************************************************************************)
EXTENDS GatewayRefresh, FiniteSetTheorems, SequenceTheorems, TLAPS

Steps == {"add", "wake", "mark", "reread", "send", "refresh"}
Clones == [auth : Auths, guard : 0 .. Pending, disabled : BOOLEAN]
Holdings == {Nobody} \cup [auth : Auths] \cup Flights \cup Clones

Typed ==
  /\ DOMAIN auths \subseteq Auths /\ auths \in [DOMAIN auths -> Auth]
  /\ jobs \in Seq(Flights)
  /\ loop = [phase |-> loop.phase, lag |-> loop.lag, batch |-> loop.batch, puts |-> loop.puts]
  /\ loop.lag \in 0 .. MaxLag
  /\ held \in [Goroutines -> Holdings] /\ todo \in [Goroutines -> Seq(Steps)]

\* Nobody deals with an auth the manager does not have.
Known ==
  /\ dirty \cup loop.batch \cup DOMAIN loop.puts \cup DOMAIN heap \subseteq DOMAIN auths
  /\ \A g \in Goroutines : todo[g] # <<>> => held[g].auth \in DOMAIN auths
  /\ \A i \in 1 .. Len(jobs) : jobs[i].auth \in DOMAIN auths

\* What a goroutine has left to do: a wake-up after every addition, a refresh
\* alone, and the loop's own steps, of which the send is the last.
ListOK(g, l) ==
  /\ \A i \in 1 .. Len(l) : l[i] = "add" => i + 1 \in 1 .. Len(l) /\ l[i + 1] = "wake"
  /\ \A i \in 1 .. Len(l) : l[i] = "refresh" => Len(l) = 1
  /\ \A i \in 1 .. Len(l) : l[i] \in {"mark", "reread", "send"} => g = TheLoop
  /\ \A i \in 1 .. Len(l) : l[i] = "send" => i = Len(l)
Lists == \A g \in Goroutines : ListOK(g, todo[g])

\* The loop carries a flight; whoever asks upstream carries a clone.
Carried ==
  /\ todo[TheLoop] # <<>> => held[TheLoop] \in Flights
  /\ \A g \in Goroutines \ {TheLoop} : Doing(g, "refresh") => held[g] \in Clones

\* A change that was noted is drained by the round under way or by one that a
\* wake-up will start.
WakeFollows ==
  dirty # {} => loop.phase # "off" /\
    (wake \/ loop.phase = "drain" \/ \E g \in Goroutines : Doing(g, "wake"))

\* A refresh under the protection of its pending mark.
Fresh(g) == InFlight(g) /\ held[g].guard > 0

\* The entry backs off at least as long as that protection lasts.
Bounded ==
  /\ \A g \in Goroutines : Fresh(g) => held[g].guard <= auths[held[g].auth].wait
  /\ \A i \in 1 .. Len(jobs) : jobs[i].guard > 0 => jobs[i].guard <= auths[jobs[i].auth].wait

Alone ==
  /\ \A g, h \in Goroutines : Fresh(g) /\ Fresh(h) /\ held[g].auth = held[h].auth => g = h
  /\ \A i, j \in 1 .. Len(jobs) :
       jobs[i].guard > 0 /\ jobs[j].guard > 0 /\ jobs[i].auth = jobs[j].auth => i = j
  /\ \A g \in Goroutines, i \in 1 .. Len(jobs) :
       ~(Fresh(g) /\ jobs[i].guard > 0 /\ held[g].auth = jobs[i].auth)

\* Somebody still has to look at the auth, or to tell the loop to.
Notes(l) == \E i \in 1 .. Len(l) : l[i] \in {"add", "mark", "reread"}
Promised(a) ==
  \/ a \in dirty \cup loop.batch
  \/ \E g \in Goroutines : held[g].auth = a /\ Notes(todo[g])

\* The time the heap holds for an auth once the loop has put what it read.
Planned(a) ==
  IF a \in DOMAIN loop.puts THEN loop.puts[a] ELSE IF a \in DOMAIN heap THEN heap[a] ELSE Gone
InTime(t, auth) ==
  LET next == NextCheck(auth, 0)
  IN next # Gone => t # Gone /\ (t <= next \/ (next = 0 /\ t <= Interval))
AllInTime ==
  loop.phase \notin {"off", "rebuild"} =>
    \A a \in DOMAIN auths : Promised(a) \/ InTime(Planned(a), auths[a])

\* What the loop has in hand where it is in its round.
Times == {Gone} \cup Nat
Rounds ==
  /\ loop.puts \in [DOMAIN loop.puts -> Times] /\ heap \in [DOMAIN heap -> Nat]
  /\ loop.phase \in {"off", "rebuild"} => DOMAIN loop.puts = {}
  /\ loop.phase \in {"select", "drain"} => loop.batch = {}
  /\ todo[TheLoop] # <<>> => loop.phase = "due" /\ DOMAIN loop.puts = {}

Base == Typed /\ Known /\ Lists /\ Carried
IInv == Base /\ WakeFollows /\ Bounded /\ Alone /\ Rounds /\ AllInTime

-----------------------------------------------------------------------------
(* Lists of steps.                                                          *)

\* Taking the first step off a list leaves a list, and the step after "add" is
\* the wake-up.
LEMMA TailOK ==
  ASSUME NEW g, NEW l \in Seq(Steps), l # <<>>, ListOK(g, l)
  PROVE  /\ Tail(l) \in Seq(Steps) /\ ListOK(g, Tail(l))
         /\ Head(l) = "add" => Tail(l) # <<>> /\ Head(Tail(l)) = "wake"
         /\ Tail(l) # <<>> => Head(Tail(l)) # "refresh"
<1> DEFINE m == Tail(l)
<1>1. /\ m \in Seq(Steps) /\ Len(m) = Len(l) - 1 /\ Len(l) \in Nat /\ Len(l) > 0
      /\ \A i \in 1 .. Len(m) : m[i] = l[i + 1]
  BY HeadTailProperties, EmptySeq
<1>2. Head(l) = l[1] /\ (m # <<>> => Head(m) = m[1] /\ Len(m) > 0)
  BY <1>1, HeadTailProperties, EmptySeq
<1>3. Len(m) > 0 => m # <<>>
  <2> HIDE DEF m
  <2> QED BY <1>1, EmptySeq
<1>a. \A i \in 1 .. Len(m) : i + 1 \in 1 .. Len(l) /\ m[i] = l[i + 1]
  <2> HIDE DEF m
  <2> QED BY <1>1
<1>b. Len(m) \in Nat /\ Len(m) = Len(l) - 1
  BY <1>1
<1> HIDE DEF m
<1>4. ListOK(g, m)
  <2>1. ASSUME NEW i \in 1 .. Len(m), m[i] = "add"
        PROVE  i + 1 \in 1 .. Len(m) /\ m[i + 1] = "wake"
    <3>1. (i + 1) + 1 \in 1 .. Len(l) /\ l[(i + 1) + 1] = "wake"
      BY <1>a, <2>1 DEF ListOK
    <3>2. i + 1 \in 1 .. Len(m)
      BY <1>1, <1>b, <3>1
    <3> QED BY <1>a, <3>1, <3>2
  <2>2. ASSUME NEW i \in 1 .. Len(m) PROVE m[i] # "refresh"
    BY <1>1, <1>a, <1>b, <2>2 DEF ListOK
  <2>3. ASSUME NEW i \in 1 .. Len(m), m[i] \in {"mark", "reread", "send"} PROVE g = TheLoop
    BY <1>a, <2>3 DEF ListOK
  <2>4. ASSUME NEW i \in 1 .. Len(m), m[i] = "send" PROVE i = Len(m)
    <3>1. i + 1 = Len(l)
      BY <1>a, <2>4 DEF ListOK
    <3> QED BY <1>1, <1>b, <3>1
  <2> QED BY <2>1, <2>2, <2>3, <2>4 DEF ListOK
<1>5. Head(l) = "add" => m # <<>> /\ Head(m) = "wake"
  BY <1>1, <1>2, <1>3 DEF ListOK
<1>6. m # <<>> => Head(m) # "refresh"
  BY <1>1, <1>2 DEF ListOK
<1> QED BY <1>1, <1>4, <1>5, <1>6 DEF m

\* The lists of one step.
LEMMA SingleOK ==
  ASSUME NEW g, NEW step \in Steps, step # "add", step \in {"mark", "reread", "send"} => g = TheLoop
  PROVE  /\ <<step>> \in Seq(Steps) /\ <<step>> # <<>> /\ Head(<<step>>) = step
         /\ ListOK(g, <<step>>)
BY DEF ListOK, Steps

\* The lists that end a change, a mark and a refresh.
LEMMA RescheduleOK ==
  ASSUME NEW g
  PROVE  /\ Reschedule \in Seq(Steps) /\ Reschedule # <<>> /\ Head(Reschedule) = "add"
         /\ ListOK(g, Reschedule)
         /\ LET l == Reschedule \o Reschedule
            IN l \in Seq(Steps) /\ l # <<>> /\ Head(l) = "add" /\ ListOK(g, l)
         /\ LET l == Reschedule \o <<"send">>
            IN l \in Seq(Steps) /\ l # <<>> /\ Head(l) = "add" /\ (g = TheLoop => ListOK(g, l))
<1>1. Reschedule \in Seq(Steps) /\ Len(Reschedule) = 2 /\ Reschedule[1] = "add" /\ Reschedule[2] = "wake"
  BY DEF Reschedule, Steps
<1>2. Reschedule # <<>> /\ Head(Reschedule) = "add"
  BY <1>1, EmptySeq, HeadTailProperties
<1>3. ListOK(g, Reschedule)
  BY <1>1 DEF ListOK
<1>4. ASSUME NEW r \in Seq(Steps), NEW n \in {1, 2}, Len(r) = n,
             n = 1 => r[1] = "send" /\ g = TheLoop, n = 2 => r[1] = "add" /\ r[2] = "wake"
      PROVE  ListOK(g, Reschedule \o r)
  <2> DEFINE l == Reschedule \o r
  <2>1. /\ Len(l) = 2 + n /\ l[1] = "add" /\ l[2] = "wake"
        /\ l[3] = r[1] /\ (n = 2 => l[4] = r[2])
    BY <1>1, <1>4, ConcatProperties
  <2> HIDE DEF l
  <2>2. ListOK(g, l)
    <3>1. CASE n = 1
      BY <1>4, <2>1, <3>1 DEF ListOK
    <3>2. CASE n = 2
      BY <1>4, <2>1, <3>2 DEF ListOK
    <3> QED BY <3>1, <3>2
  <2> QED BY <2>2 DEF l
<1>5. ASSUME NEW r \in Seq(Steps)
      PROVE  LET l == Reschedule \o r IN l \in Seq(Steps) /\ l # <<>> /\ Head(l) = "add"
  <2> DEFINE l == Reschedule \o r
  <2>0. Len(r) \in Nat
    OBVIOUS
  <2>c. Len(l) = Len(Reschedule) + Len(r)
    BY <1>1, ConcatProperties
  <2>d. l \in Seq(Steps)
    BY <1>1, ConcatProperties
  <2>a. l \in Seq(Steps) /\ Len(l) = 2 + Len(r)
    BY <1>1, <2>c, <2>d
  <2>b. l[1] = IF 1 <= Len(Reschedule) THEN Reschedule[1] ELSE r[1 - Len(Reschedule)]
    BY <1>1, <2>0, ConcatProperties
  <2>1. l \in Seq(Steps) /\ Len(l) = 2 + Len(r) /\ l[1] = "add"
    BY <1>1, <2>a, <2>b
  <2> HIDE DEF l
  <2>2. l # <<>>
    BY <2>0, <2>1, EmptySeq
  <2>3. Head(l) = l[1]
    BY <2>1, <2>2, HeadTailProperties
  <2> QED BY <2>1, <2>2, <2>3 DEF l
<1>6. <<"send">> \in Seq(Steps) /\ Len(<<"send">>) = 1 /\ <<"send">>[1] = "send"
  BY DEF Steps
<1> QED BY <1>1, <1>2, <1>3, <1>4, <1>5, <1>6

-----------------------------------------------------------------------------
(* Writing an entry.                                                        *)

\* Whoever has a refresh on its way holds it with a guard.
LEMMA FlightsHeld ==
  ASSUME Typed, Carried, NEW g \in Goroutines, InFlight(g)
  PROVE  held[g] \in Flights \cup Clones
BY DEF Typed, Carried, InFlight, Goroutines

\* What Write does: to the entry, to the writer's list, and to the guards of the
\* flights of that auth, which it leaves or clears.
Spared(f, a, wait) == f.auth = a /\ a \in DOMAIN auths => auths[a].wait <= wait

LEMMA OvertakenFacts ==
  ASSUME Typed, NEW f \in Flights \cup Clones, NEW a \in Auths, NEW auth \in Auth
  PROVE  LET o == Overtaken(f, a, auth.wait)
         IN /\ f \in Flights => o \in Flights
            /\ f \in Clones => o \in Clones
            /\ o.auth = f.auth /\ o.guard \in 0 .. Pending
            /\ o.guard > 0 => o.guard = f.guard /\ Spared(f, a, auth.wait)
<1>1. Pending \in Nat
  BY RefreshConstants
<1>2. f.guard \in 0 .. Pending
  BY DEF Flights, Clones
<1>3. CASE f.auth = a /\ a \in DOMAIN auths /\ auth.wait < auths[a].wait
  <2> DEFINE o == [f EXCEPT !.guard = 0]
  <2>1. f \in Flights => o \in Flights /\ o.auth = f.auth /\ o.guard = 0
    BY <1>1 DEF Flights
  <2>2. f \in Clones => o \in Clones /\ o.auth = f.auth /\ o.guard = 0
    BY <1>1 DEF Clones
  <2>3. Overtaken(f, a, auth.wait) = o
    BY <1>3 DEF Overtaken
  <2> HIDE DEF o
  <2> QED BY <1>1, <2>1, <2>2, <2>3
<1>4. CASE ~(f.auth = a /\ a \in DOMAIN auths /\ auth.wait < auths[a].wait)
  <2>1. Overtaken(f, a, auth.wait) = f
    BY <1>4 DEF Overtaken
  <2>2. f.auth = a /\ a \in DOMAIN auths => auths[a].wait <= auth.wait
    BY <1>4, RefreshConstants DEF Typed, Auth, Zero
  <2> QED BY <1>2, <2>1, <2>2 DEF Spared
<1> QED BY <1>3, <1>4

WriteResult(g, a, auth, steps, holding) ==
  /\ DOMAIN auths' = DOMAIN auths \cup {a} /\ auths' \in [DOMAIN auths' -> Auth]
  /\ auths'[a] = auth /\ \A b \in DOMAIN auths \ {a} : auths'[b] = auths[b]
  /\ todo' \in [Goroutines -> Seq(Steps)]
  /\ todo'[g] = steps /\ \A h \in Goroutines \ {g} : todo'[h] = todo[h]
  /\ jobs' \in Seq(Flights) /\ Len(jobs') = Len(jobs)
  /\ \A i \in 1 .. Len(jobs) :
       /\ jobs'[i].auth = jobs[i].auth /\ jobs'[i].guard \in 0 .. Pending
       /\ jobs'[i].guard > 0 => jobs'[i].guard = jobs[i].guard /\ Spared(jobs[i], a, auth.wait)
  /\ held' \in [Goroutines -> Holdings] /\ held'[g] = holding
  /\ \A h \in Goroutines \ {g} :
       /\ ~InFlight(h) => held'[h] = held[h]
       /\ InFlight(h) =>
            /\ held'[h].auth = held[h].auth /\ held'[h].guard \in 0 .. Pending
            /\ held[h] \in Flights => held'[h] \in Flights
            /\ held[h] \in Clones => held'[h] \in Clones
            /\ held'[h].guard > 0 => held'[h].guard = held[h].guard /\ Spared(held[h], a, auth.wait)

LEMMA WriteFacts ==
  ASSUME Typed, Carried, NEW g \in Goroutines, NEW a \in Auths, NEW auth \in Auth,
         NEW steps \in Seq(Steps), NEW holding \in Holdings, Write(g, a, auth, steps, holding)
  PROVE  WriteResult(g, a, auth, steps, holding)
<1>1. /\ DOMAIN auths' = DOMAIN auths \cup {a} /\ auths' \in [DOMAIN auths' -> Auth]
      /\ auths'[a] = auth /\ \A b \in DOMAIN auths \ {a} : auths'[b] = auths[b]
  BY DEF Write, Typed
<1>2. /\ todo' \in [Goroutines -> Seq(Steps)]
      /\ todo'[g] = steps /\ \A h \in Goroutines \ {g} : todo'[h] = todo[h]
  BY DEF Write, Typed
<1>3. \A i \in 1 .. Len(jobs) : jobs[i] \in Flights
  BY DEF Typed
<1>4. jobs' = [i \in 1 .. Len(jobs) |-> Overtaken(jobs[i], a, auth.wait)]
  BY DEF Write
<1>5. ASSUME NEW i \in 1 .. Len(jobs)
      PROVE  /\ jobs'[i] \in Flights
             /\ jobs'[i].auth = jobs[i].auth /\ jobs'[i].guard \in 0 .. Pending
             /\ jobs'[i].guard > 0 => jobs'[i].guard = jobs[i].guard /\ Spared(jobs[i], a, auth.wait)
  BY <1>3, <1>4, <1>5, OvertakenFacts
<1>6. jobs' \in Seq(Flights) /\ Len(jobs') = Len(jobs)
  BY <1>4, <1>5 DEF Typed
<1>7. held'[g] = holding
  BY DEF Write
<1>8. ASSUME NEW h \in Goroutines \ {g}
      PROVE  /\ held'[h] \in Holdings
             /\ ~InFlight(h) => held'[h] = held[h]
             /\ InFlight(h) =>
                   /\ held'[h].auth = held[h].auth /\ held'[h].guard \in 0 .. Pending
                   /\ held[h] \in Flights => held'[h] \in Flights
                   /\ held[h] \in Clones => held'[h] \in Clones
                   /\ held'[h].guard > 0 => held'[h].guard = held[h].guard /\ Spared(held[h], a, auth.wait)
  <2>1. held'[h] = IF InFlight(h) THEN Overtaken(held[h], a, auth.wait) ELSE held[h]
    BY DEF Write
  <2>2. held[h] \in Holdings
    BY DEF Typed
  <2>3. CASE InFlight(h)
    <3>1. held[h] \in Flights \cup Clones
      BY <2>3, FlightsHeld
    <3> QED BY <2>1, <2>3, <3>1, OvertakenFacts DEF Holdings
  <2>4. CASE ~InFlight(h)
    BY <2>1, <2>2, <2>4
  <2> QED BY <2>3, <2>4
<1>9. held' \in [Goroutines -> Holdings]
  <2>1. held' = [h \in Goroutines |-> held'[h]]
    BY DEF Write
  <2>2. \A h \in Goroutines : held'[h] \in Holdings
    BY <1>7, <1>8
  <2> QED BY <2>1, <2>2
<1> QED BY <1>1, <1>2, <1>5, <1>6, <1>7, <1>8, <1>9 DEF WriteResult

-----------------------------------------------------------------------------
(* Every step keeps the state well formed.                                  *)

\* A goroutine is given a new list, and nothing else of the auths changes.
LEMMA ListKeepsBase ==
  ASSUME Base, NEW g \in Goroutines, NEW l \in Seq(Steps), ListOK(g, l),
         todo' = [todo EXCEPT ![g] = l], UNCHANGED auths,
         held' \in [Goroutines -> Holdings], \A h \in Goroutines \ {g} : held'[h] = held[h],
         l # <<>> => held'[g].auth \in DOMAIN auths,
         l # <<>> /\ g = TheLoop => held'[g] \in Flights,
         l # <<>> /\ Head(l) = "refresh" /\ g # TheLoop => held'[g] \in Clones,
         loop' = [phase |-> loop'.phase, lag |-> loop'.lag, batch |-> loop'.batch, puts |-> loop'.puts],
         loop'.lag \in 0 .. MaxLag, jobs' \in Seq(Flights),
         dirty' \cup loop'.batch \cup DOMAIN loop'.puts \cup DOMAIN heap' \subseteq DOMAIN auths,
         \A i \in 1 .. Len(jobs') : jobs'[i].auth \in DOMAIN auths
  PROVE  Base'
<1>1. /\ todo' \in [Goroutines -> Seq(Steps)]
      /\ todo'[g] = l /\ \A h \in Goroutines \ {g} : todo'[h] = todo[h]
  BY DEF Base, Typed
<1>2. Typed'
  BY <1>1 DEF Base, Typed
<1>3. Known'
  BY <1>1 DEF Base, Known
<1>4. Lists'
  BY <1>1 DEF Base, Lists
<1>5. Carried'
  <2>1. TheLoop \in Goroutines
    BY DEF Goroutines
  <2>2. todo'[TheLoop] # <<>> => held'[TheLoop] \in Flights
    BY <1>1, <2>1 DEF Base, Carried
  <2>3. ASSUME NEW h \in Goroutines \ {TheLoop}, todo'[h] # <<>>, Head(todo'[h]) = "refresh"
        PROVE  held'[h] \in Clones
    BY <1>1, <2>3 DEF Base, Carried, Doing
  <2> QED BY <2>2, <2>3 DEF Carried, Doing
<1> QED BY <1>2, <1>3, <1>4, <1>5 DEF Base

\* An entry is written.
LEMMA WriteKeepsBase ==
  ASSUME Base, NEW g \in Goroutines, NEW a \in Auths, NEW auth \in Auth,
         NEW steps \in Seq(Steps), ListOK(g, steps), steps # <<>>, Head(steps) = "add",
         NEW holding \in Holdings, holding.auth = a, g = TheLoop => holding \in Flights,
         Write(g, a, auth, steps, holding), UNCHANGED <<heap, dirty, loop>>
  PROVE  Base'
<1>0. Typed /\ Carried
  BY DEF Base
<1>1. /\ DOMAIN auths' = DOMAIN auths \cup {a} /\ auths' \in [DOMAIN auths' -> Auth]
      /\ todo' \in [Goroutines -> Seq(Steps)]
      /\ todo'[g] = steps /\ \A h \in Goroutines \ {g} : todo'[h] = todo[h]
      /\ jobs' \in Seq(Flights) /\ Len(jobs') = Len(jobs)
      /\ \A i \in 1 .. Len(jobs) : jobs'[i].auth = jobs[i].auth
      /\ held' \in [Goroutines -> Holdings] /\ held'[g] = holding
  <2>1. WriteResult(g, a, auth, steps, holding)
    BY <1>0, WriteFacts
  <2> QED BY <2>1 DEF WriteResult
<1>2. ASSUME NEW h \in Goroutines \ {g}
      PROVE  /\ held'[h].auth = held[h].auth
             /\ held[h] \in Flights => held'[h] \in Flights
             /\ held[h] \in Clones => held'[h] \in Clones
  <2>1. WriteResult(g, a, auth, steps, holding)
    BY <1>0, WriteFacts
  <2> QED BY <2>1 DEF WriteResult
<1>3. Typed'
  BY <1>1 DEF Base, Typed
<1>4. Known'
  BY <1>1, <1>2 DEF Base, Known
<1>5. Lists'
  BY <1>1 DEF Base, Lists
<1>6. Carried'
  <2>1. TheLoop \in Goroutines
    BY DEF Goroutines
  <2>2. todo'[TheLoop] # <<>> => held'[TheLoop] \in Flights
    BY <1>1, <1>2, <2>1 DEF Base, Carried
  <2>3. ASSUME NEW h \in Goroutines \ {TheLoop}, todo'[h] # <<>>, Head(todo'[h]) = "refresh"
        PROVE  held'[h] \in Clones
    BY <1>1, <1>2, <2>3 DEF Base, Carried, Doing
  <2> QED BY <2>2, <2>3 DEF Carried, Doing
<1> QED BY <1>3, <1>4, <1>5, <1>6 DEF Base

\* Only the loop, the heap or the set of changed auths moves.
LEMMA LoopKeepsBase ==
  ASSUME Base, UNCHANGED <<auths, jobs, held, todo>>,
         loop' = [phase |-> loop'.phase, lag |-> loop'.lag, batch |-> loop'.batch, puts |-> loop'.puts],
         loop'.lag \in 0 .. MaxLag,
         dirty' \cup loop'.batch \cup DOMAIN loop'.puts \cup DOMAIN heap' \subseteq DOMAIN auths
  PROVE  Base'
<1>1. Typed' /\ Known'
  BY DEF Base, Typed, Known
<1>2. Lists'
  BY DEF Base, Lists, ListOK
<1>3. Carried'
  BY DEF Base, Carried, Doing
<1> QED BY <1>1, <1>2, <1>3 DEF Base

\* The steps of the loop that leave its list alone, and what the environment does.
LEMMA LoopOnlyKeepsBase ==
  ASSUME Base, \/ Publish \/ Rebuild \/ Put \/ Drain \/ EndRound \/ WakeUp \/ TimerFires \/ Reload
               \/ \E a \in Auths : Apply(a)
  PROVE  Base'
<1>0. /\ loop = [phase |-> loop.phase, lag |-> loop.lag, batch |-> loop.batch, puts |-> loop.puts]
      /\ loop.lag \in 0 .. MaxLag /\ 0 \in 0 .. MaxLag
      /\ dirty \cup loop.batch \cup DOMAIN loop.puts \cup DOMAIN heap \subseteq DOMAIN auths
  BY RefreshConstants DEF Base, Typed, Known
<1>1. CASE Publish \/ WakeUp \/ EndRound \/ Drain
  BY <1>0, <1>1, LoopKeepsBase DEF Publish, WakeUp, EndRound, Drain, Go
<1>2. CASE Rebuild
  BY <1>0, <1>2, LoopKeepsBase DEF Rebuild
<1>3. CASE Put
  <2>1. /\ UNCHANGED <<auths, jobs, held, todo, dirty>> /\ loop' = [loop EXCEPT !.puts = EmptyFn]
        /\ DOMAIN heap' \subseteq DOMAIN heap \cup DOMAIN loop.puts
    BY <1>3 DEF Put
  <2>2. DOMAIN EmptyFn = {}
    BY DEF EmptyFn
  <2> HIDE DEF EmptyFn
  <2> QED BY <1>0, <2>1, <2>2, LoopKeepsBase
<1>4. CASE TimerFires
  <2>1. PICK due \in SUBSET DOMAIN heap :
          /\ UNCHANGED <<auths, jobs, held, todo, dirty>>
          /\ loop' = [loop EXCEPT !.phase = "due", !.batch = due]
          /\ DOMAIN heap' = DOMAIN heap \ due
    BY <1>4 DEF TimerFires, Restrict
  <2> QED BY <1>0, <2>1, LoopKeepsBase
<1>5. CASE Reload
  BY <1>0, <1>5, LoopKeepsBase DEF Reload
<1>6. ASSUME NEW a \in Auths, Apply(a)
      PROVE  Base'
  <2>1. /\ UNCHANGED <<auths, jobs, held, todo, dirty, heap>> /\ a \in loop.batch
        /\ loop' = [loop EXCEPT !.batch = @ \ {a}, !.puts = At(a, NextCheck(auths[a], loop.lag))]
    BY <1>6 DEF Apply
  <2>2. DOMAIN At(a, NextCheck(auths[a], loop.lag)) = {a}
    BY DEF At
  <2> HIDE DEF At
  <2> QED BY <1>0, <2>1, <2>2, LoopKeepsBase
<1> QED BY <1>1, <1>2, <1>3, <1>4, <1>5, <1>6

\* What every step may use of the state before it.
LEMMA BaseFacts ==
  ASSUME Base
  PROVE  /\ loop = [phase |-> loop.phase, lag |-> loop.lag, batch |-> loop.batch, puts |-> loop.puts]
         /\ loop.lag \in 0 .. MaxLag /\ MaxLag \in Nat /\ MaxLag <= Pending /\ Pending \in Nat
         /\ dirty \cup loop.batch \cup DOMAIN loop.puts \cup DOMAIN heap \subseteq DOMAIN auths
         /\ DOMAIN auths \subseteq Auths /\ TheLoop \in Goroutines /\ Nobody \in Holdings
         /\ jobs \in Seq(Flights) /\ held \in [Goroutines -> Holdings]
         /\ \A i \in 1 .. Len(jobs) : jobs[i].auth \in DOMAIN auths
         /\ \A g \in Goroutines : /\ todo[g] \in Seq(Steps) /\ ListOK(g, todo[g])
                                  /\ todo[g] # <<>> => held[g].auth \in DOMAIN auths
         /\ todo[TheLoop] # <<>> => held[TheLoop] \in Flights
BY RefreshConstants DEF Base, Typed, Known, Lists, Carried, Goroutines, Holdings

\* A goroutine tells the loop of a change.
LEMMA PostKeepsBase ==
  ASSUME Base, NEW g \in Goroutines, QueueDirty(g) \/ PostWake(g)
  PROVE  Base'
<1> DEFINE l == Tail(todo[g])
<1>0. /\ todo[g] # <<>> /\ todo' = [todo EXCEPT ![g] = l]
      /\ UNCHANGED <<auths, heap, jobs, loop>>
  BY DEF QueueDirty, PostWake, Doing
<1>1. l \in Seq(Steps) /\ ListOK(g, l) /\ (l # <<>> => Head(l) # "refresh")
  BY <1>0, BaseFacts, TailOK
<1>2. dirty' \subseteq DOMAIN auths
  BY <1>0, BaseFacts DEF QueueDirty, PostWake
<1>3. \/ held' = held
      \/ held' = [held EXCEPT ![g] = Nobody] /\ g # TheLoop /\ l = <<>>
  <2>1. CASE QueueDirty(g)
    BY <2>1 DEF QueueDirty
  <2>2. CASE PostWake(g)
    <3>1. CASE g # TheLoop /\ Len(todo[g]) = 1
      <4>1. l = <<>>
        <5>1. l \in Seq(Steps) /\ Len(l) = 0
          BY <1>0, <3>1, BaseFacts, HeadTailProperties
        <5> HIDE DEF l
        <5> QED BY <5>1, EmptySeq
      <4> QED BY <2>2, <3>1, <4>1 DEF PostWake
    <3>2. CASE ~(g # TheLoop /\ Len(todo[g]) = 1)
      BY <2>2, <3>2, BaseFacts DEF PostWake
    <3> QED BY <3>1, <3>2
  <2> QED BY <2>1, <2>2
<1>4. /\ held' \in [Goroutines -> Holdings]
      /\ \A h \in Goroutines \ {g} : held'[h] = held[h]
      /\ l # <<>> => held'[g] = held[g]
  BY <1>3, BaseFacts
<1> HIDE DEF l
<1> QED BY <1>0, <1>1, <1>2, <1>4, BaseFacts, ListKeepsBase

\* A caller stores an auth.
LEMMA StoreKeepsBase ==
  ASSUME Base, NEW c \in Callers, NEW a \in Auths, Store(c, a)
  PROVE  Base'
<1>1. PICK auth \in Auth : Write(c, a, auth, Reschedule, [auth |-> a]) /\ UNCHANGED <<heap, dirty, loop>>
  BY DEF Store
<1>2. c \in Goroutines /\ c # TheLoop
  BY RefreshConstants DEF Goroutines
<1>3. [auth |-> a] \in Holdings
  BY DEF Holdings
<1>4. Reschedule \in Seq(Steps) /\ Reschedule # <<>> /\ Head(Reschedule) = "add" /\ ListOK(c, Reschedule)
  BY RescheduleOK
<1> HIDE DEF Reschedule
<1> QED BY <1>1, <1>2, <1>3, <1>4, WriteKeepsBase

\* The loop takes a due auth in hand, or puts it back.
LEMMA HandleKeepsBase ==
  ASSUME Base, NEW a \in Auths, HandleDue(a)
  PROVE  Base'
<1>1. a \in DOMAIN auths
  BY BaseFacts DEF HandleDue
<1>2. /\ loop' = [phase |-> loop'.phase, lag |-> loop'.lag, batch |-> loop'.batch, puts |-> loop'.puts]
      /\ loop'.lag = loop.lag /\ loop'.batch \subseteq loop.batch
      /\ DOMAIN loop'.puts \subseteq {a}
      /\ UNCHANGED <<auths, heap, dirty, jobs>>
  BY BaseFacts DEF HandleDue, EmptyFn, At
<1>3. CASE UNCHANGED <<todo, held>>
  BY <1>1, <1>2, <1>3, BaseFacts, LoopKeepsBase
<1>4. CASE todo' = [todo EXCEPT ![TheLoop] = <<"mark">>] /\ held' = [held EXCEPT ![TheLoop] = Flight(a, 0)]
  <2>1. Flight(a, 0) \in Flights /\ Flight(a, 0).auth = a
    BY BaseFacts DEF Flight, Flights
  <2>2. /\ <<"mark">> \in Seq(Steps) /\ Head(<<"mark">>) = "mark" /\ ListOK(TheLoop, <<"mark">>)
    BY SingleOK DEF Steps
  <2>3. /\ held' \in [Goroutines -> Holdings] /\ held'[TheLoop] = Flight(a, 0)
        /\ \A h \in Goroutines \ {TheLoop} : held'[h] = held[h]
    BY <1>4, <2>1, BaseFacts DEF Holdings
  <2> QED BY <1>1, <1>2, <1>4, <2>1, <2>2, <2>3, BaseFacts, ListKeepsBase
<1> QED BY <1>3, <1>4 DEF HandleDue

\* markRefreshPending, and what the loop does when it finds it was too late.
LEMMA MarkKeepsBase ==
  ASSUME Base, MarkPending
  PROVE  Base'
<1> DEFINE a == held[TheLoop].auth
<1>1. todo[TheLoop] # <<>> /\ a \in DOMAIN auths /\ held[TheLoop] \in Flights
  BY BaseFacts DEF MarkPending, Doing
<1>2. CASE todo' = [todo EXCEPT ![TheLoop] = <<"reread">>] /\ UNCHANGED <<auths, jobs, held, heap, dirty, loop>>
  <2>1. <<"reread">> \in Seq(Steps) /\ Head(<<"reread">>) = "reread" /\ ListOK(TheLoop, <<"reread">>)
    BY SingleOK DEF Steps
  <2> QED BY <1>1, <1>2, <2>1, BaseFacts, ListKeepsBase
<1>3. CASE /\ Write(TheLoop, a, [auths[a] EXCEPT !.wait = Pending - loop.lag],
                    Reschedule \o <<"send">>, Flight(a, Pending - loop.lag))
           /\ UNCHANGED <<heap, dirty, loop>>
  <2> DEFINE auth == [auths[a] EXCEPT !.wait = Pending - loop.lag]
             steps == Reschedule \o <<"send">>
             flight == Flight(a, Pending - loop.lag)
  <2>1. Pending - loop.lag \in 0 .. Pending /\ Pending - loop.lag \in Zero .. FailureBackoff
    BY BaseFacts, RefreshConstants DEF Zero
  <2>2. auth \in Auth
    BY <1>1, <2>1 DEF Base, Typed, Auth
  <2>3. flight \in Flights /\ flight.auth = a /\ flight \in Holdings
    BY <1>1, <2>1, BaseFacts DEF Flight, Flights, Holdings
  <2>4. steps \in Seq(Steps) /\ steps # <<>> /\ Head(steps) = "add" /\ ListOK(TheLoop, steps)
    BY RescheduleOK
  <2>5. a \in Auths
    BY <1>1, BaseFacts
  <2> HIDE DEF auth, steps, flight, a
  <2> QED BY <1>3, <2>2, <2>3, <2>4, <2>5, BaseFacts, WriteKeepsBase DEF auth, steps, flight
<1> QED BY <1>2, <1>3 DEF MarkPending

LEMMA RereadKeepsBase ==
  ASSUME Base, Reread \/ SendJob
  PROVE  Base'
<1> DEFINE a == held[TheLoop].auth
<1>1. todo[TheLoop] # <<>> /\ a \in DOMAIN auths /\ held[TheLoop] \in Flights
  BY BaseFacts DEF Reread, SendJob, Doing
<1>2. /\ todo' = [todo EXCEPT ![TheLoop] = <<>>] /\ held' = [held EXCEPT ![TheLoop] = Nobody]
      /\ UNCHANGED <<auths, heap, dirty>>
  BY DEF Reread, SendJob
<1>3. <<>> \in Seq(Steps) /\ ListOK(TheLoop, <<>>)
  BY DEF ListOK
<1>4. held' \in [Goroutines -> Holdings] /\ \A h \in Goroutines \ {TheLoop} : held'[h] = held[h]
  BY <1>2, BaseFacts
<1>5. CASE Reread
  <2>1. /\ loop' = [phase |-> loop'.phase, lag |-> loop'.lag, batch |-> loop'.batch, puts |-> loop'.puts]
        /\ loop'.lag = loop.lag /\ loop'.batch = loop.batch /\ DOMAIN loop'.puts = {a} /\ UNCHANGED jobs
    BY <1>5, BaseFacts DEF Reread, At
  <2> HIDE DEF a
  <2> QED BY <1>1, <1>2, <1>3, <1>4, <2>1, BaseFacts, ListKeepsBase
<1>6. CASE SendJob
  <2>1. jobs' = Append(jobs, held[TheLoop]) /\ UNCHANGED loop
    BY <1>6 DEF SendJob
  <2>2. jobs' \in Seq(Flights) /\ \A i \in 1 .. Len(jobs') : jobs'[i].auth \in DOMAIN auths
    BY <1>1, <2>1, BaseFacts, AppendProperties
  <2> HIDE DEF a
  <2> QED BY <1>2, <1>3, <1>4, <2>1, <2>2, BaseFacts, ListKeepsBase
<1> QED BY <1>5, <1>6

\* A worker takes a job.
LEMMA TakeKeepsBase ==
  ASSUME Base, NEW w \in Workers, TakeJob(w)
  PROVE  Base'
<1> DEFINE job == Head(jobs)
           clone == [auth |-> job.auth, guard |-> job.guard, disabled |-> auths[job.auth].disabled]
<1>0. w \in Goroutines /\ w # TheLoop
  BY RefreshConstants DEF Goroutines
<1>1. /\ jobs # <<>> /\ jobs' = Tail(jobs) /\ UNCHANGED <<auths, heap, dirty, loop>>
      /\ \/ todo' = [todo EXCEPT ![w] = <<"refresh">>] /\ held' = [held EXCEPT ![w] = clone]
         \/ todo' = [todo EXCEPT ![w] = Reschedule] /\ held' = [held EXCEPT ![w] = [auth |-> job.auth]]
  BY DEF TakeJob
<1>2. job \in Flights /\ job = jobs[1] /\ 1 \in 1 .. Len(jobs)
  BY <1>1, BaseFacts, HeadTailProperties, EmptySeq
<1>3. jobs' \in Seq(Flights) /\ \A i \in 1 .. Len(jobs') : jobs'[i] = jobs[i + 1] /\ i + 1 \in 1 .. Len(jobs)
  <2>1. Tail(jobs) \in Seq(Flights) /\ Len(Tail(jobs)) = Len(jobs) - 1 /\ Len(jobs) \in Nat
    BY <1>1, BaseFacts, HeadTailProperties
  <2>2. \A i \in 1 .. Len(Tail(jobs)) : Tail(jobs)[i] = jobs[i + 1]
    BY <1>1, BaseFacts, HeadTailProperties
  <2> QED BY <1>1, <2>1, <2>2
<1>4. job.auth \in DOMAIN auths /\ job.auth \in Auths
  BY <1>2, BaseFacts
<1>5. clone \in Clones /\ clone.auth = job.auth
  <2>1. auths[job.auth].disabled \in BOOLEAN
    BY <1>4 DEF Base, Typed, Auth
  <2>2. job.guard \in 0 .. Pending
    BY <1>2 DEF Flights
  <2> QED BY <1>4, <2>1, <2>2 DEF Clones
<1>6. \A i \in 1 .. Len(jobs') : jobs'[i].auth \in DOMAIN auths
  BY <1>3, BaseFacts
<1> HIDE DEF clone
<1>7. CASE todo' = [todo EXCEPT ![w] = <<"refresh">>] /\ held' = [held EXCEPT ![w] = clone]
  <2>1. <<"refresh">> \in Seq(Steps) /\ ListOK(w, <<"refresh">>)
    BY SingleOK DEF Steps
  <2>2. /\ held' \in [Goroutines -> Holdings] /\ held'[w] = clone
        /\ \A h \in Goroutines \ {w} : held'[h] = held[h]
    BY <1>0, <1>5, <1>7, BaseFacts DEF Holdings
  <2> QED BY <1>0, <1>1, <1>3, <1>4, <1>5, <1>6, <1>7, <2>1, <2>2, BaseFacts, ListKeepsBase
<1>8. CASE todo' = [todo EXCEPT ![w] = Reschedule] /\ held' = [held EXCEPT ![w] = [auth |-> job.auth]]
  <2>1. Reschedule \in Seq(Steps) /\ Head(Reschedule) = "add" /\ ListOK(w, Reschedule)
    BY RescheduleOK
  <2>2. /\ held' \in [Goroutines -> Holdings] /\ held'[w].auth = job.auth
        /\ \A h \in Goroutines \ {w} : held'[h] = held[h]
    BY <1>0, <1>4, <1>8, BaseFacts DEF Holdings
  <2> HIDE DEF Reschedule
  <2> QED BY <1>0, <1>1, <1>3, <1>4, <1>6, <1>8, <2>1, <2>2, BaseFacts, ListKeepsBase
<1> QED BY <1>1, <1>7, <1>8

\* What a refresh writes, and what the worker has left to do.
LEMMA RefreshWrites ==
  ASSUME Base, NEW w \in Workers,
         RefreshFails(w) \/ \E left \in 0 .. Life : RefreshSucceeds(w, left)
  PROVE  /\ w \in Goroutines /\ w # TheLoop
         /\ \E a \in Auths, auth \in Auth :
              /\ Write(w, a, auth, Reschedule \o Reschedule, [auth |-> a])
              /\ UNCHANGED <<heap, dirty, loop>>
<1>0. w \in Goroutines /\ w # TheLoop
  BY RefreshConstants DEF Goroutines
<1> DEFINE a == held[w].auth
<1>1. Doing(w, "refresh") /\ held[w] \in Clones /\ a \in DOMAIN auths /\ a \in Auths
  BY <1>0, BaseFacts DEF RefreshFails, RefreshSucceeds, Base, Carried, Doing
<1>2. CASE RefreshFails(w)
  <2> DEFINE auth == auths[a]
  <2>0. auth \in Auth /\ FailureBackoff \in Zero .. FailureBackoff
    BY <1>1, RefreshConstants DEF Base, Typed, Zero
  <2>1. [auth EXCEPT !.wait = FailureBackoff] \in Auth
    <3> HIDE DEF auth
    <3> QED BY <2>0 DEF Auth
  <2> QED BY <1>0, <1>1, <1>2, <2>1 DEF RefreshFails
<1>3. ASSUME NEW left \in 0 .. Life, RefreshSucceeds(w, left)
      PROVE  \E auth \in Auth : Write(w, a, auth, Reschedule \o Reschedule, [auth |-> a])
                                /\ UNCHANGED <<heap, dirty, loop>>
  <2> DEFINE updated == [disabled |-> held[w].disabled, wait |-> Zero, left |-> left]
             wait == IF ShouldRefresh(updated, 0) THEN IneffectiveBackoff ELSE Zero
             auth == [updated EXCEPT !.wait = wait]
  <2>1. wait \in Zero .. FailureBackoff
    BY RefreshConstants DEF Zero
  <2> HIDE DEF wait
  <2>2. auth \in Auth
    BY <1>1, <2>1 DEF Auth, Clones
  <2>3. Write(w, a, auth, Reschedule \o Reschedule, [auth |-> a]) /\ UNCHANGED <<heap, dirty, loop>>
    BY <1>3 DEF RefreshSucceeds, wait
  <2> HIDE DEF auth
  <2> QED BY <2>2, <2>3
<1> QED BY <1>0, <1>1, <1>2, <1>3

LEMMA RefreshKeepsBase ==
  ASSUME Base, NEW w \in Workers,
         RefreshFails(w) \/ \E left \in 0 .. Life : RefreshSucceeds(w, left)
  PROVE  Base'
<1>1. PICK a \in Auths, auth \in Auth :
        /\ Write(w, a, auth, Reschedule \o Reschedule, [auth |-> a]) /\ UNCHANGED <<heap, dirty, loop>>
  BY RefreshWrites
<1>2. w \in Goroutines /\ w # TheLoop /\ [auth |-> a] \in Holdings
  BY RefreshConstants DEF Goroutines, Holdings
<1> DEFINE steps == Reschedule \o Reschedule
<1>3. steps \in Seq(Steps) /\ steps # <<>> /\ Head(steps) = "add" /\ ListOK(w, steps)
  BY RescheduleOK
<1> HIDE DEF steps
<1> QED BY <1>1, <1>2, <1>3, WriteKeepsBase DEF steps

\* Time passes for a record, without leaving its type.
LEMMA Later ==
  /\ \A auth \in Auth : AuthLater(auth) \in Auth
  /\ \A f \in Flights \cup Clones :
       /\ f \in Flights => FlightLater(f) \in Flights
       /\ f \in Clones => FlightLater(f) \in Clones
       /\ FlightLater(f).auth = f.auth /\ FlightLater(f).guard \in 0 .. Pending
       /\ FlightLater(f).guard > 0 => FlightLater(f).guard = f.guard - 1
<1>0. Pending \in Nat /\ MaxLag \in Nat /\ FailureBackoff \in Nat /\ Life \in Nat
  BY RefreshConstants
<1>1. \A auth \in Auth : AuthLater(auth) \in Auth
  <2> SUFFICES ASSUME NEW auth \in Auth PROVE AuthLater(auth) \in Auth
    OBVIOUS
  <2>1. Down(auth.wait, Zero) \in Zero .. FailureBackoff /\ Down(auth.left, 0) \in 0 .. Life
    BY <1>0 DEF Auth, Down, Zero
  <2> QED BY <2>1 DEF AuthLater, Auth
<1>2. ASSUME NEW f \in Flights \cup Clones
      PROVE  Down(f.guard, 0) \in 0 .. Pending /\ (Down(f.guard, 0) > 0 => Down(f.guard, 0) = f.guard - 1)
  BY <1>0 DEF Flights, Clones, Down
<1>3. ASSUME NEW f \in Flights
      PROVE  FlightLater(f) \in Flights /\ FlightLater(f).auth = f.auth /\ FlightLater(f).guard = Down(f.guard, 0)
  BY <1>2 DEF FlightLater, Flights
<1>4. ASSUME NEW f \in Clones
      PROVE  FlightLater(f) \in Clones /\ FlightLater(f).auth = f.auth /\ FlightLater(f).guard = Down(f.guard, 0)
  BY <1>2 DEF FlightLater, Clones
<1> QED BY <1>1, <1>2, <1>3, <1>4

\* What a tick does.
TickResult ==
  /\ DOMAIN auths' = DOMAIN auths /\ \A a \in DOMAIN auths : auths'[a] = AuthLater(auths[a])
  /\ jobs' \in Seq(Flights) /\ Len(jobs') = Len(jobs)
  /\ \A i \in 1 .. Len(jobs) : jobs[i] \in Flights /\ jobs'[i] = FlightLater(jobs[i])
  /\ held' \in [Goroutines -> Holdings]
  /\ \A g \in Goroutines : IF InFlight(g) THEN held[g] \in Flights \cup Clones /\ held'[g] = FlightLater(held[g])
                                          ELSE held'[g] = held[g]
  /\ UNCHANGED <<todo, dirty, wake>> /\ loop'.phase = loop.phase

LEMMA TickFacts ==
  ASSUME Base, Tick
  PROVE  TickResult /\ Base'
<1>0. Typed /\ Carried
  BY DEF Base
<1>1. DOMAIN auths' = DOMAIN auths /\ \A a \in DOMAIN auths : auths'[a] = AuthLater(auths[a])
  BY DEF Tick
<1>2. auths' \in [DOMAIN auths' -> Auth]
  <2>1. auths' = [a \in DOMAIN auths |-> AuthLater(auths[a])]
    BY DEF Tick
  <2> QED BY <1>0, <2>1, Later DEF Typed
<1>3. \A i \in 1 .. Len(jobs) : jobs[i] \in Flights
  BY <1>0 DEF Typed
<1>4. jobs' = [i \in 1 .. Len(jobs) |-> FlightLater(jobs[i])]
  BY DEF Tick
<1>5. \A i \in 1 .. Len(jobs) : FlightLater(jobs[i]) \in Flights
  BY <1>3, Later
<1>6. jobs' \in Seq(Flights) /\ Len(jobs') = Len(jobs)
  BY <1>0, <1>4, <1>5 DEF Typed
<1>7. held' = [g \in Goroutines |-> IF InFlight(g) THEN FlightLater(held[g]) ELSE held[g]]
  BY DEF Tick
<1>8. ASSUME NEW g \in Goroutines
      PROVE  /\ held'[g] \in Holdings /\ held'[g].auth = held[g].auth
             /\ held[g] \in Flights => held'[g] \in Flights
             /\ held[g] \in Clones => held'[g] \in Clones
             /\ IF InFlight(g) THEN held[g] \in Flights \cup Clones /\ held'[g] = FlightLater(held[g])
                               ELSE held'[g] = held[g]
  <2>1. CASE InFlight(g)
    <3>1. held[g] \in Flights \cup Clones
      BY <1>0, <2>1, FlightsHeld
    <3>2. held'[g] = FlightLater(held[g])
      BY <1>7, <2>1
    <3> QED BY <2>1, <3>1, <3>2, Later DEF Holdings
  <2>2. CASE ~InFlight(g)
    BY <1>0, <1>7, <2>2 DEF Typed
  <2> QED BY <2>1, <2>2
<1>9. held' \in [Goroutines -> Holdings]
  BY <1>7, <1>8
<1>10. /\ UNCHANGED <<todo, dirty, wake>> /\ loop'.phase = loop.phase /\ loop'.batch = loop.batch
       /\ loop' = [phase |-> loop'.phase, lag |-> loop'.lag, batch |-> loop'.batch, puts |-> loop'.puts]
       /\ DOMAIN loop'.puts = DOMAIN loop.puts /\ DOMAIN heap' = DOMAIN heap
  BY BaseFacts DEF Tick
<1>11. loop'.lag \in 0 .. MaxLag
  BY BaseFacts DEF Tick
<1>12. TickResult
  BY <1>1, <1>3, <1>4, <1>6, <1>8, <1>9, <1>10 DEF TickResult
<1>13. Typed'
  BY <1>0, <1>1, <1>2, <1>6, <1>9, <1>10, <1>11 DEF Typed
<1>14. Known'
  <2>1. \A i \in 1 .. Len(jobs) : jobs'[i].auth = jobs[i].auth
    BY <1>3, <1>4, Later
  <2> QED BY <1>1, <1>6, <1>8, <1>10, <2>1 DEF Base, Known
<1>15. Lists'
  BY <1>10 DEF Base, Lists
<1>16. Carried'
  BY <1>8, <1>10, BaseFacts DEF Base, Carried, Doing
<1> QED BY <1>12, <1>13, <1>14, <1>15, <1>16 DEF Base

\* Together, for every step.
LEMMA BaseKept ==
  ASSUME Base, [Next]_vars
  PROVE  Base'
<1>1. CASE LoopStep \/ Select \/ Reload
  BY <1>1, LoopOnlyKeepsBase, HandleKeepsBase, MarkKeepsBase, RereadKeepsBase DEF LoopStep, Select
<1>2. CASE Tick
  BY <1>2, TickFacts
<1>3. ASSUME NEW w \in Workers, WorkerStep(w)
      PROVE  Base'
  BY <1>3, TakeKeepsBase, RefreshKeepsBase DEF WorkerStep
<1>4. ASSUME NEW c \in Callers, CallerStep(c)
      PROVE  Base'
  BY <1>4, StoreKeepsBase DEF CallerStep
<1>5. ASSUME NEW g \in Goroutines, Post(g)
      PROVE  Base'
  BY <1>5, PostKeepsBase DEF Post
<1>6. CASE UNCHANGED vars
  BY <1>6, BaseFacts, LoopKeepsBase DEF vars
<1> QED BY <1>1, <1>2, <1>3, <1>4, <1>5, <1>6 DEF Next

LEMMA BaseInit == Init => Base
<1> SUFFICES ASSUME Init PROVE Base
  OBVIOUS
<1>1. Typed
  BY RefreshConstants DEF Init, Typed, Auth, Zero, Holdings, Nobody
<1>2. Known
  BY DEF Init, Known, EmptyFn
<1>3. Lists
  BY DEF Init, Lists, ListOK
<1>4. Carried
  BY DEF Init, Carried, Doing, Goroutines
<1> QED BY <1>1, <1>2, <1>3, <1>4 DEF Base

-----------------------------------------------------------------------------
(* No wake-up is lost.                                                      *)

\* Steps that neither take the wake-up nor post it.
LEMMA StillFollows ==
  ASSUME Base, WakeFollows, UNCHANGED <<dirty, wake>>,
         loop'.phase = loop.phase \/ (loop.phase # "drain" /\ loop'.phase # "off"),
         \A g \in Goroutines : todo[g] # <<>> /\ Head(todo[g]) = "wake" => todo'[g] = todo[g]
  PROVE  WakeFollows'
BY DEF WakeFollows, Doing

\* A goroutine whose list another step gives a new one was not about to wake the loop.
LEMMA NewList ==
  ASSUME Base, NEW g \in Goroutines, NEW l, todo' = [todo EXCEPT ![g] = l],
         todo[g] = <<>> \/ Head(todo[g]) # "wake"
  PROVE  \A h \in Goroutines : todo[h] # <<>> /\ Head(todo[h]) = "wake" => todo'[h] = todo[h]
BY DEF Base, Typed

LEMMA WakeKept ==
  ASSUME Base, Base', WakeFollows, [Next]_vars
  PROVE  WakeFollows'
<1>1. CASE Publish \/ Rebuild \/ Put \/ EndRound \/ TimerFires \/ Reload \/ \E a \in Auths : Apply(a)
  <2>1. /\ UNCHANGED <<dirty, wake, todo>>
        /\ loop'.phase = loop.phase \/ (loop.phase # "drain" /\ loop'.phase # "off")
    BY <1>1, BaseFacts DEF Publish, Rebuild, Put, EndRound, TimerFires, Reload, Apply, Go, In
  <2> QED BY <2>1, StillFollows
<1>2. CASE Drain
  BY <1>2 DEF Drain, WakeFollows
<1>3. CASE WakeUp
  <2>1. loop'.phase = "drain"
    BY <1>3, BaseFacts DEF WakeUp, Go
  <2> QED BY <2>1 DEF WakeFollows
<1>4. ASSUME NEW a \in Auths, HandleDue(a)
      PROVE  WakeFollows'
  <2>1. UNCHANGED <<dirty, wake>> /\ loop'.phase = loop.phase /\ todo[TheLoop] = <<>> /\ TheLoop \in Goroutines
    BY <1>4, BaseFacts DEF HandleDue, In
  <2>2. CASE UNCHANGED todo
    BY <2>1, <2>2, StillFollows
  <2>3. CASE todo' = [todo EXCEPT ![TheLoop] = <<"mark">>]
    BY <2>1, <2>3, NewList, StillFollows
  <2> QED BY <1>4, <2>2, <2>3 DEF HandleDue
<1>5. CASE MarkPending \/ Reread \/ SendJob
  <2>1. /\ UNCHANGED <<dirty, wake>> /\ loop'.phase = loop.phase /\ TheLoop \in Goroutines
        /\ Head(todo[TheLoop]) # "wake"
    BY <1>5, BaseFacts DEF MarkPending, Reread, SendJob, Doing
  <2>2. \E l : todo' = [todo EXCEPT ![TheLoop] = l]
    BY <1>5 DEF MarkPending, Reread, SendJob, Write
  <2> QED BY <2>1, <2>2, NewList, StillFollows
<1>6. CASE Tick
  <2>1. UNCHANGED <<dirty, wake, todo>> /\ loop'.phase = loop.phase
    BY <1>6, TickFacts DEF TickResult
  <2> QED BY <2>1, StillFollows
<1>7. ASSUME NEW w \in Workers, WorkerStep(w)
      PROVE  WakeFollows'
  <2>1. /\ UNCHANGED <<dirty, wake, loop>> /\ w \in Goroutines
        /\ todo[w] = <<>> \/ Head(todo[w]) # "wake"
    BY <1>7 DEF WorkerStep, TakeJob, RefreshFails, RefreshSucceeds, Doing, Goroutines
  <2>2. \E l : todo' = [todo EXCEPT ![w] = l]
    BY <1>7 DEF WorkerStep, TakeJob, RefreshFails, RefreshSucceeds, Write
  <2> QED BY <2>1, <2>2, NewList, StillFollows
<1>8. ASSUME NEW c \in Callers, CallerStep(c)
      PROVE  WakeFollows'
  <2>1. UNCHANGED <<dirty, wake, loop>> /\ c \in Goroutines /\ todo[c] = <<>>
    BY <1>8 DEF CallerStep, Store, Goroutines
  <2>2. \E l : todo' = [todo EXCEPT ![c] = l]
    BY <1>8 DEF CallerStep, Store, Write
  <2> QED BY <2>1, <2>2, NewList, StillFollows
<1>9. ASSUME NEW g \in Goroutines, QueueDirty(g)
      PROVE  WakeFollows'
  <2>1. CASE loop.phase = "off"
    BY <1>9, <2>1 DEF QueueDirty, WakeFollows
  <2>2. CASE loop.phase # "off"
    <3>1. todo[g] # <<>> /\ Head(todo[g]) = "add" /\ todo' = [todo EXCEPT ![g] = Tail(@)] /\ UNCHANGED loop
      BY <1>9 DEF QueueDirty, Doing
    <3>2. Tail(todo[g]) # <<>> /\ Head(Tail(todo[g])) = "wake"
      BY <3>1, BaseFacts, TailOK
    <3>3. todo'[g] = Tail(todo[g])
      BY <3>1 DEF Base, Typed
    <3> QED BY <2>2, <3>1, <3>2, <3>3 DEF WakeFollows, Doing
  <2> QED BY <2>1, <2>2
<1>10. ASSUME NEW g \in Goroutines, PostWake(g)
       PROVE  WakeFollows'
  <2>1. CASE loop.phase = "off"
    BY <1>10, <2>1 DEF PostWake, WakeFollows
  <2>2. CASE loop.phase # "off"
    BY <1>10, <2>2 DEF PostWake, WakeFollows
  <2> QED BY <2>1, <2>2
<1>11. CASE UNCHANGED vars
  BY <1>11, StillFollows DEF vars
<1> QED BY <1>1, <1>2, <1>3, <1>4, <1>5, <1>6, <1>7, <1>8, <1>9, <1>10, <1>11
        DEF Next, LoopStep, Select, Post

-----------------------------------------------------------------------------
(* One refresh at a time under a pending mark.                              *)

\* What a worker or the loop holds can only be fresh if it was before.
LEMMA NoneNewer ==
  ASSUME Base, Bounded, Alone, UNCHANGED <<auths, jobs>>,
         \A g \in Goroutines : Fresh(g)' => Fresh(g) /\ held'[g] = held[g]
  PROVE  Bounded' /\ Alone'
<1>1. Bounded'
  BY DEF Bounded
<1>2. Alone'
  BY DEF Alone
<1> QED BY <1>1, <1>2

\* An entry is written: the flights of that auth that stay fresh are spared, and
\* a new one is only made where there was none.
LEMMA WriteKeepsGuards ==
  ASSUME Base, Base', Bounded, Alone,
         NEW g \in Goroutines, NEW a \in Auths, NEW auth \in Auth,
         NEW steps \in Seq(Steps), NEW holding \in Holdings, Write(g, a, auth, steps, holding),
         Fresh(g)' => /\ holding.auth = a /\ holding.guard <= auth.wait
                      /\ a \in DOMAIN auths /\ auths[a].wait <= 0
  PROVE  Bounded' /\ Alone'
<1>0. Typed /\ Carried /\ Known /\ (a \in DOMAIN auths => auths[a].wait \in Int)
  <2>1. Typed /\ Carried /\ Known
    BY DEF Base
  <2>2. a \in DOMAIN auths => auths[a] \in Auth
    BY <2>1 DEF Typed
  <2>3. \A e \in Auth : e.wait \in Int
    BY RefreshConstants DEF Auth, Zero
  <2> QED BY <2>1, <2>2, <2>3
<1>1. WriteResult(g, a, auth, steps, holding)
  BY <1>0, WriteFacts
<1>2. \A b \in DOMAIN auths : auths'[b] = IF b = a THEN auth ELSE auths[b]
  BY <1>1 DEF WriteResult
<1>3. ASSUME NEW h \in Goroutines \ {g}, Fresh(h)'
      PROVE  /\ Fresh(h) /\ held'[h].auth = held[h].auth /\ held'[h].guard = held[h].guard
             /\ held[h].auth \in DOMAIN auths
             /\ held'[h].guard <= auths'[held'[h].auth].wait
             /\ held[h].auth = a => auths[a].wait > 0
  <2>1. todo'[h] = todo[h]
    BY <1>1 DEF WriteResult
  <2>2. InFlight(h)
    BY <1>3, <2>1 DEF Fresh, InFlight, Doing
  <2>3. held'[h].auth = held[h].auth /\ held'[h].guard = held[h].guard /\ Spared(held[h], a, auth.wait)
    BY <1>1, <1>3, <2>2 DEF WriteResult, Fresh
  <2>4. Fresh(h)
    BY <1>3, <2>2, <2>3 DEF Fresh
  <2>5. held[h].auth \in DOMAIN auths /\ held[h].guard \in 0 .. Pending
    BY <1>0, <2>2, FlightsHeld DEF Known, InFlight, Doing, Flights, Clones
  <2>6. held[h].guard <= auths[held[h].auth].wait /\ held[h].guard > 0
    BY <2>4 DEF Bounded, Fresh
  <2>7. CASE held[h].auth = a
    <3>1. auths[a].wait <= auth.wait /\ auths'[a] = auth
      BY <1>2, <2>3, <2>5, <2>7 DEF Spared
    <3>2. auth.wait \in Int /\ auths[a].wait \in Int /\ held[h].guard \in Int
      BY <1>0, <2>5, <2>7, RefreshConstants DEF Auth, Zero
    <3> QED BY <2>3, <2>4, <2>5, <2>6, <2>7, <3>1, <3>2
  <2>8. CASE held[h].auth # a
    BY <1>2, <2>3, <2>4, <2>5, <2>6, <2>8
  <2> QED BY <2>7, <2>8
<1>4. ASSUME NEW i \in 1 .. Len(jobs), jobs'[i].guard > 0
      PROVE  /\ jobs'[i].auth = jobs[i].auth /\ jobs'[i].guard = jobs[i].guard
             /\ jobs[i].auth \in DOMAIN auths
             /\ jobs'[i].guard <= auths'[jobs'[i].auth].wait
             /\ jobs[i].auth = a => auths[a].wait > 0
  <2>1. jobs'[i].auth = jobs[i].auth /\ jobs'[i].guard = jobs[i].guard /\ Spared(jobs[i], a, auth.wait)
    BY <1>1, <1>4 DEF WriteResult
  <2>0. jobs[i] \in Flights
    BY <1>0 DEF Typed
  <2>2. jobs[i].auth \in DOMAIN auths /\ jobs[i].guard \in 0 .. Pending
    BY <1>0, <2>0 DEF Known, Flights
  <2>3. jobs[i].guard <= auths[jobs[i].auth].wait /\ jobs[i].guard > 0
    BY <1>4, <2>1 DEF Bounded
  <2>4. CASE jobs[i].auth = a
    <3>1. auths[a].wait <= auth.wait /\ auths'[a] = auth
      BY <1>2, <2>1, <2>2, <2>4 DEF Spared
    <3>2. auth.wait \in Int /\ auths[a].wait \in Int /\ jobs[i].guard \in Int
      BY <1>0, <2>2, <2>4, RefreshConstants DEF Auth, Zero
    <3> QED BY <2>1, <2>2, <2>3, <2>4, <3>1, <3>2
  <2>5. CASE jobs[i].auth # a
    BY <1>2, <2>1, <2>2, <2>3, <2>5
  <2> QED BY <2>4, <2>5
<1>5. /\ Len(jobs') = Len(jobs) /\ held'[g] = holding /\ auths'[a] = auth
  BY <1>1 DEF WriteResult
<1>6. Fresh(g)' => /\ holding.auth = a /\ ~(auths[a].wait > 0) /\ holding.guard <= auths'[a].wait
  BY <1>0, <1>5
<1>7. Bounded'
  BY <1>3, <1>4, <1>5, <1>6 DEF Bounded
<1>8. ASSUME NEW h \in Goroutines, NEW k \in Goroutines, Fresh(h)', Fresh(k)', held'[h].auth = held'[k].auth
      PROVE  h = k
  <2>1. CASE h # g /\ k # g
    BY <1>3, <1>8, <2>1 DEF Alone
  <2>2. CASE h = g /\ k # g
    BY <1>3, <1>5, <1>6, <1>8, <2>2
  <2>3. CASE h # g /\ k = g
    BY <1>3, <1>5, <1>6, <1>8, <2>3
  <2> QED BY <2>1, <2>2, <2>3
<1>9. \A i, j \in 1 .. Len(jobs') :
        jobs'[i].guard > 0 /\ jobs'[j].guard > 0 /\ jobs'[i].auth = jobs'[j].auth => i = j
  BY <1>4, <1>5 DEF Alone
<1>10. ASSUME NEW h \in Goroutines, NEW i \in 1 .. Len(jobs'), Fresh(h)', jobs'[i].guard > 0,
              held'[h].auth = jobs'[i].auth
       PROVE  FALSE
  <2>1. CASE h # g
    BY <1>3, <1>4, <1>5, <1>10, <2>1 DEF Alone
  <2>2. CASE h = g
    BY <1>4, <1>5, <1>6, <1>10, <2>2
  <2> QED BY <2>1, <2>2
<1> QED BY <1>7, <1>8, <1>9, <1>10 DEF Alone

\* The mark is made where the entry does not back off, so no flight of that auth
\* is still fresh.
LEMMA MarkKeepsGuards ==
  ASSUME Base, Base', Bounded, Alone, MarkPending
  PROVE  Bounded' /\ Alone'
<1> DEFINE a == held[TheLoop].auth
<1>1. todo[TheLoop] # <<>> /\ a \in DOMAIN auths /\ a \in Auths /\ held[TheLoop] \in Flights /\ TheLoop \in Goroutines
  BY BaseFacts DEF MarkPending, Doing
<1>2. CASE todo' = [todo EXCEPT ![TheLoop] = <<"reread">>] /\ UNCHANGED <<auths, jobs, held>>
  <2>1. todo'[TheLoop] = <<"reread">> /\ \A h \in Goroutines \ {TheLoop} : todo'[h] = todo[h]
    BY <1>1, <1>2 DEF Base, Typed
  <2>2. \A h \in Goroutines : Fresh(h)' => Fresh(h)
    BY <1>2, <2>1 DEF Fresh, InFlight, Doing
  <2> QED BY <1>2, <2>2, NoneNewer
<1>3. CASE /\ Write(TheLoop, a, [auths[a] EXCEPT !.wait = Pending - loop.lag],
                    Reschedule \o <<"send">>, Flight(a, Pending - loop.lag))
           /\ ~(auths[a].wait > -loop.lag)
  <2> DEFINE auth == [auths[a] EXCEPT !.wait = Pending - loop.lag]
             steps == Reschedule \o <<"send">>
             flight == Flight(a, Pending - loop.lag)
  <2>1. Pending - loop.lag \in 0 .. Pending /\ Pending - loop.lag \in Zero .. FailureBackoff
    BY BaseFacts, RefreshConstants DEF Zero
  <2>a. auths[a] \in Auth
    BY <1>1 DEF Base, Typed
  <2>b. \A e \in Auth, n \in Zero .. FailureBackoff :
          [e EXCEPT !.wait = n] \in Auth /\ [e EXCEPT !.wait = n].wait = n /\ e.wait \in Int
    BY RefreshConstants DEF Auth, Zero
  <2>2. auth \in Auth /\ auth.wait = Pending - loop.lag /\ auths[a].wait <= 0
    BY <1>3, <2>1, <2>a, <2>b, BaseFacts
  <2>3. flight \in Holdings /\ flight.auth = a /\ flight.guard = Pending - loop.lag
    BY <1>1, <2>1, BaseFacts DEF Flight, Flights, Holdings
  <2>4. steps \in Seq(Steps)
    BY RescheduleOK
  <2>5. Write(TheLoop, a, auth, steps, flight)
    BY <1>3
  <2>6. flight.guard <= auth.wait
    BY <2>1, <2>2, <2>3
  <2> HIDE DEF auth, steps, flight, a
  <2> QED BY <1>1, <2>2, <2>3, <2>4, <2>5, <2>6, WriteKeepsGuards
<1> QED BY <1>2, <1>3 DEF MarkPending

\* A refresh is handed to the workers ...
LEMMA SendKeepsGuards ==
  ASSUME Base, Base', Bounded, Alone, SendJob
  PROVE  Bounded' /\ Alone'
<1>1. /\ TheLoop \in Goroutines /\ InFlight(TheLoop) /\ held[TheLoop] \in Flights
      /\ UNCHANGED auths /\ jobs' = Append(jobs, held[TheLoop])
      /\ todo' = [todo EXCEPT ![TheLoop] = <<>>] /\ held' = [held EXCEPT ![TheLoop] = Nobody]
  BY BaseFacts DEF SendJob, Doing, InFlight
<1>2. /\ Len(jobs') = Len(jobs) + 1 /\ Len(jobs) \in Nat /\ jobs'[Len(jobs) + 1] = held[TheLoop]
      /\ \A i \in 1 .. Len(jobs) : jobs'[i] = jobs[i]
  BY <1>1, BaseFacts, AppendProperties
<1>3. ~InFlight(TheLoop)' /\ \A h \in Goroutines \ {TheLoop} : (Fresh(h)' <=> Fresh(h)) /\ held'[h] = held[h]
  BY <1>1 DEF Base, Typed, Fresh, InFlight, Doing
<1>4. ASSUME NEW i \in 1 .. Len(jobs'), jobs'[i].guard > 0
      PROVE  \/ i \in 1 .. Len(jobs) /\ jobs'[i] = jobs[i]
             \/ i = Len(jobs) + 1 /\ jobs'[i] = held[TheLoop] /\ Fresh(TheLoop)
  BY <1>1, <1>2, <1>4 DEF Fresh
<1>5. Bounded'
  BY <1>1, <1>3, <1>4 DEF Bounded, Fresh
<1>6. \A g, h \in Goroutines : Fresh(g)' /\ Fresh(h)' /\ held'[g].auth = held'[h].auth => g = h
  BY <1>3 DEF Alone, Fresh
<1>7. ASSUME NEW i \in 1 .. Len(jobs'), NEW j \in 1 .. Len(jobs'), jobs'[i].guard > 0, jobs'[j].guard > 0,
             jobs'[i].auth = jobs'[j].auth
      PROVE  i = j
  BY <1>1, <1>4, <1>7 DEF Alone
<1>8. ASSUME NEW h \in Goroutines, NEW i \in 1 .. Len(jobs'), Fresh(h)', jobs'[i].guard > 0,
             held'[h].auth = jobs'[i].auth
      PROVE  FALSE
  <2>1. h # TheLoop /\ Fresh(h) /\ held'[h] = held[h]
    BY <1>3, <1>8 DEF Fresh
  <2> QED BY <1>1, <1>4, <1>8, <2>1 DEF Alone
<1> QED BY <1>5, <1>6, <1>7, <1>8 DEF Alone

\* ... and taken by one of them.
LEMMA TakeKeepsGuards ==
  ASSUME Base, Base', Bounded, Alone, NEW w \in Workers, TakeJob(w)
  PROVE  Bounded' /\ Alone'
<1> DEFINE job == Head(jobs)
<1>0. w \in Goroutines /\ w # TheLoop
  BY RefreshConstants DEF Goroutines
<1>1. /\ todo[w] = <<>> /\ jobs # <<>> /\ jobs' = Tail(jobs) /\ UNCHANGED auths
      /\ \E l, holding :
           /\ todo' = [todo EXCEPT ![w] = l] /\ held' = [held EXCEPT ![w] = holding]
           /\ holding.auth = job.auth
           /\ \/ holding.guard = job.guard
              \/ l # <<>> /\ Head(l) # "refresh"
  <2>1. Reschedule # <<>> /\ Head(Reschedule) = "add"
    BY RescheduleOK
  <2>2. CASE on /\ executor
    BY <2>2 DEF TakeJob
  <2>3. CASE ~(on /\ executor)
    BY <2>1, <2>3 DEF TakeJob
  <2> QED BY <2>2, <2>3
<1>2. job = jobs[1] /\ 1 \in 1 .. Len(jobs) /\ Len(jobs) \in Nat
  BY <1>1, BaseFacts, HeadTailProperties, EmptySeq
<1>3. \A i \in 1 .. Len(jobs') : jobs'[i] = jobs[i + 1] /\ i + 1 \in 1 .. Len(jobs) /\ i + 1 # 1
  <2>1. Len(Tail(jobs)) = Len(jobs) - 1
    BY <1>1, BaseFacts, HeadTailProperties
  <2>2. \A i \in 1 .. Len(Tail(jobs)) : Tail(jobs)[i] = jobs[i + 1]
    BY <1>1, BaseFacts, HeadTailProperties
  <2> QED BY <1>1, <1>2, <2>1, <2>2
<1>4. \A h \in Goroutines \ {w} : (Fresh(h)' <=> Fresh(h)) /\ held'[h] = held[h]
  BY <1>1 DEF Base, Typed, Fresh, InFlight, Doing
<1>5. Fresh(w)' => held'[w].auth = jobs[1].auth /\ held'[w].guard = jobs[1].guard /\ jobs[1].guard > 0
  BY <1>0, <1>1, <1>2 DEF Base, Typed, Fresh, InFlight, Doing
<1> HIDE DEF job
<1>6. Bounded'
  BY <1>1, <1>2, <1>3, <1>4, <1>5 DEF Bounded
<1>7. ASSUME NEW g \in Goroutines, NEW h \in Goroutines, Fresh(g)', Fresh(h)', held'[g].auth = held'[h].auth
      PROVE  g = h
  <2>1. CASE g # w /\ h # w
    BY <1>4, <1>7, <2>1 DEF Alone
  <2>2. CASE g = w /\ h # w
    BY <1>2, <1>4, <1>5, <1>7, <2>2 DEF Alone
  <2>3. CASE g # w /\ h = w
    BY <1>2, <1>4, <1>5, <1>7, <2>3 DEF Alone
  <2> QED BY <2>1, <2>2, <2>3
<1>8. \A i, j \in 1 .. Len(jobs') :
        jobs'[i].guard > 0 /\ jobs'[j].guard > 0 /\ jobs'[i].auth = jobs'[j].auth => i = j
  <2> SUFFICES ASSUME NEW i \in 1 .. Len(jobs'), NEW j \in 1 .. Len(jobs'),
                      jobs'[i].guard > 0, jobs'[j].guard > 0, jobs'[i].auth = jobs'[j].auth
               PROVE  i = j
    OBVIOUS
  <2>1. i + 1 = j + 1
    BY <1>3 DEF Alone
  <2> QED BY <2>1
<1>9. ASSUME NEW h \in Goroutines, NEW i \in 1 .. Len(jobs'), Fresh(h)', jobs'[i].guard > 0,
             held'[h].auth = jobs'[i].auth
      PROVE  FALSE
  <2>1. CASE h = w
    BY <1>2, <1>3, <1>5, <1>9, <2>1 DEF Alone
  <2>2. CASE h # w
    BY <1>3, <1>4, <1>9, <2>2 DEF Alone
  <2> QED BY <2>1, <2>2
<1> QED BY <1>6, <1>7, <1>8, <1>9 DEF Alone

\* Time passes for a guard no slower than for its back-off.
LEMMA TickKeepsGuards ==
  ASSUME Base, Base', Bounded, Alone, Tick
  PROVE  Bounded' /\ Alone'
<1>1. TickResult
  BY TickFacts
<1>2. ASSUME NEW b \in DOMAIN auths, NEW n \in 0 .. Pending, n <= auths[b].wait, n > 0
      PROVE  n - 1 <= auths'[b].wait
  <2>1. auths[b] \in Auth
    BY DEF Base, Typed
  <2>2. \A e \in Auth : e.wait \in Int /\ AuthLater(e).wait = Down(e.wait, Zero)
    BY RefreshConstants DEF Auth, AuthLater, Zero
  <2>3. auths'[b].wait = Down(auths[b].wait, Zero) /\ auths[b].wait \in Int
    BY <1>1, <2>1, <2>2 DEF TickResult
  <2> QED BY <1>2, <2>3, BaseFacts DEF Down
<1>3. ASSUME NEW g \in Goroutines, Fresh(g)'
      PROVE  Fresh(g) /\ held'[g].auth = held[g].auth /\ held'[g].guard <= auths'[held'[g].auth].wait
  <2>1. InFlight(g) /\ held[g] \in Flights \cup Clones /\ held'[g] = FlightLater(held[g]) /\ todo[g] # <<>>
    BY <1>1, <1>3 DEF TickResult, Fresh, InFlight, Doing
  <2>2. held'[g].auth = held[g].auth /\ held'[g].guard = held[g].guard - 1 /\ held[g].guard \in 0 .. Pending
    BY <1>3, <2>1, Later DEF Fresh, Flights, Clones
  <2>3. Fresh(g) /\ held[g].guard > 0
    BY <1>3, <2>1, <2>2, BaseFacts DEF Fresh
  <2>4. held[g].auth \in DOMAIN auths /\ held[g].guard <= auths[held[g].auth].wait
    BY <2>1, <2>3, BaseFacts DEF Bounded
  <2> QED BY <1>2, <2>2, <2>3, <2>4
<1>4. ASSUME NEW i \in 1 .. Len(jobs), jobs'[i].guard > 0
      PROVE  jobs[i].guard > 0 /\ jobs'[i].auth = jobs[i].auth /\ jobs'[i].guard <= auths'[jobs'[i].auth].wait
  <2>1. jobs[i] \in Flights /\ jobs'[i] = FlightLater(jobs[i])
    BY <1>1 DEF TickResult
  <2>2. jobs'[i].auth = jobs[i].auth /\ jobs'[i].guard = jobs[i].guard - 1 /\ jobs[i].guard \in 0 .. Pending
    BY <1>4, <2>1, Later DEF Flights
  <2>3. jobs[i].guard > 0
    BY <1>4, <2>2, BaseFacts
  <2>4. jobs[i].auth \in DOMAIN auths /\ jobs[i].guard <= auths[jobs[i].auth].wait
    BY <2>3, BaseFacts DEF Bounded
  <2> QED BY <1>2, <2>2, <2>3, <2>4
<1>5. Len(jobs') = Len(jobs)
  BY <1>1 DEF TickResult
<1>6. Bounded'
  BY <1>3, <1>4, <1>5 DEF Bounded
<1>7. Alone'
  BY <1>3, <1>4, <1>5 DEF Alone
<1> QED BY <1>6, <1>7

\* The other steps leave the flights as they are, or end them.
LEMMA OthersKeepGuards ==
  ASSUME Base, Base', Bounded, Alone, UNCHANGED <<auths, jobs>>,
         \/ UNCHANGED <<held, todo>>
         \/ \E a \in Auths : HandleDue(a)
         \/ Reread
         \/ \E g \in Goroutines : Post(g)
  PROVE  Bounded' /\ Alone'
<1>1. CASE UNCHANGED <<held, todo>>
  <2>1. \A g \in Goroutines : Fresh(g)' => Fresh(g) /\ held'[g] = held[g]
    BY <1>1 DEF Fresh, InFlight, Doing
  <2> QED BY <2>1, NoneNewer
<1>2. ASSUME NEW l, NEW holding, todo' = [todo EXCEPT ![TheLoop] = l], held' = [held EXCEPT ![TheLoop] = holding],
             l = <<>> \/ Head(l) \notin {"add", "wake", "send"}
      PROVE  Bounded' /\ Alone'
  <2>1. ~InFlight(TheLoop)'
    BY <1>2, BaseFacts DEF Base, Typed, InFlight
  <2>2. \A g \in Goroutines : Fresh(g)' => Fresh(g) /\ held'[g] = held[g]
    BY <1>2, <2>1, BaseFacts DEF Base, Typed, Fresh, InFlight, Doing
  <2> QED BY <2>2, NoneNewer
<1>3. ASSUME NEW a \in Auths, HandleDue(a)
      PROVE  Bounded' /\ Alone'
  <2>1. Head(<<"mark">>) = "mark"
    OBVIOUS
  <2> QED BY <1>1, <1>2, <1>3, <2>1 DEF HandleDue
<1>4. CASE Reread
  BY <1>2, <1>4 DEF Reread
<1>5. ASSUME NEW g \in Goroutines, Post(g)
      PROVE  Bounded' /\ Alone'
  <2> DEFINE l == Tail(todo[g])
  <2>1. /\ todo[g] # <<>> /\ Head(todo[g]) \in {"add", "wake"} /\ todo' = [todo EXCEPT ![g] = l]
        /\ held' = held \/ (g # TheLoop /\ held' = [held EXCEPT ![g] = Nobody])
           \/ held' = [held EXCEPT ![g] = held[g]]
    BY <1>5 DEF Post, QueueDirty, PostWake, Doing
  <2>2. l # <<>> => Head(l) # "refresh"
    BY <2>1, BaseFacts, TailOK
  <2>3. todo'[g] = l /\ \A h \in Goroutines \ {g} : todo'[h] = todo[h] /\ held'[h] = held[h]
    BY <2>1, BaseFacts DEF Base, Typed
  <2>4. g # TheLoop => ~InFlight(g)'
    BY <2>2, <2>3 DEF InFlight, Doing
  <2>5. g = TheLoop => InFlight(g) /\ held'[g] = held[g]
    BY <2>1, BaseFacts DEF InFlight
  <2>6. \A h \in Goroutines : Fresh(h)' => Fresh(h) /\ held'[h] = held[h]
    BY <2>3, <2>4, <2>5 DEF Fresh, InFlight, Doing
  <2> QED BY <2>6, NoneNewer
<1> QED BY <1>1, <1>3, <1>4, <1>5

LEMMA GuardsKept ==
  ASSUME Base, Base', Bounded, Alone, [Next]_vars
  PROVE  Bounded' /\ Alone'
<1>1. CASE Publish \/ Rebuild \/ Put \/ Drain \/ EndRound \/ Select \/ Reload \/ \E a \in Auths : Apply(a)
  <2>1. UNCHANGED <<auths, jobs, held, todo>>
    BY <1>1 DEF Publish, Rebuild, Put, Drain, EndRound, Select, WakeUp, TimerFires, Reload, Apply
  <2> QED BY <2>1, OthersKeepGuards
<1>2. ASSUME NEW a \in Auths, HandleDue(a)
      PROVE  Bounded' /\ Alone'
  <2>1. UNCHANGED <<auths, jobs>>
    BY <1>2 DEF HandleDue
  <2> QED BY <1>2, <2>1, OthersKeepGuards
<1>3. CASE Reread
  <2>1. UNCHANGED <<auths, jobs>>
    BY <1>3 DEF Reread
  <2> QED BY <1>3, <2>1, OthersKeepGuards
<1>4. CASE MarkPending \/ SendJob \/ Tick
  BY <1>4, MarkKeepsGuards, SendKeepsGuards, TickKeepsGuards
<1>5. ASSUME NEW w \in Workers, TakeJob(w)
      PROVE  Bounded' /\ Alone'
  BY <1>5, TakeKeepsGuards
<1>6. ASSUME NEW g \in Goroutines, g # TheLoop, NEW a \in Auths, NEW auth \in Auth, NEW l \in Seq(Steps),
             Head(l) = "add", Write(g, a, auth, l, [auth |-> a])
      PROVE  Bounded' /\ Alone'
  <2>1. todo'[g] = l
    BY <1>6 DEF Write, Base, Typed
  <2>2. ~Fresh(g)'
    BY <1>6, <2>1 DEF Fresh, InFlight, Doing
  <2>3. [auth |-> a] \in Holdings
    BY DEF Holdings
  <2> QED BY <1>6, <2>2, <2>3, WriteKeepsGuards
<1>7. ASSUME NEW w \in Workers, RefreshFails(w) \/ \E left \in 0 .. Life : RefreshSucceeds(w, left)
      PROVE  Bounded' /\ Alone'
  <2>1. PICK a \in Auths, auth \in Auth : Write(w, a, auth, Reschedule \o Reschedule, [auth |-> a])
    BY <1>7, RefreshWrites
  <2>2. w \in Goroutines /\ w # TheLoop
    BY RefreshConstants DEF Goroutines
  <2> DEFINE l == Reschedule \o Reschedule
  <2>3. l \in Seq(Steps) /\ Head(l) = "add"
    BY RescheduleOK
  <2> HIDE DEF l
  <2> QED BY <1>6, <2>1, <2>2, <2>3 DEF l
<1>8. ASSUME NEW c \in Callers, CallerStep(c)
      PROVE  Bounded' /\ Alone'
  <2>1. PICK a \in Auths, auth \in Auth : Write(c, a, auth, Reschedule, [auth |-> a])
    BY <1>8 DEF CallerStep, Store
  <2>2. c \in Goroutines /\ c # TheLoop
    BY RefreshConstants DEF Goroutines
  <2>3. Reschedule \in Seq(Steps) /\ Head(Reschedule) = "add"
    BY RescheduleOK
  <2> HIDE DEF Reschedule
  <2> QED BY <1>6, <2>1, <2>2, <2>3
<1>9. ASSUME NEW g \in Goroutines, Post(g)
      PROVE  Bounded' /\ Alone'
  <2>1. UNCHANGED <<auths, jobs>>
    BY <1>9 DEF Post, QueueDirty, PostWake
  <2> QED BY <1>9, <2>1, OthersKeepGuards
<1>10. CASE UNCHANGED vars
  <2>1. UNCHANGED <<auths, jobs, held, todo>>
    BY <1>10 DEF vars
  <2> QED BY <2>1, OthersKeepGuards
<1> QED BY <1>1, <1>2, <1>3, <1>4, <1>5, <1>7, <1>8, <1>9, <1>10 DEF Next, LoopStep, WorkerStep

-----------------------------------------------------------------------------
(* Nothing is looked at too late.                                           *)

\* A time read in a round is one the entry agrees with.
LEMMA CheckInTime ==
  ASSUME NEW auth \in Auth, NEW lag \in 0 .. MaxLag
  PROVE  NextCheck(auth, lag) \in Times /\ InTime(NextCheck(auth, lag), auth)
<1>1. /\ MaxLag \in Nat /\ Life \in Nat /\ Lead \in Nat /\ FailureBackoff \in Nat
      /\ auth.disabled \in BOOLEAN /\ auth.wait \in Int /\ auth.left \in Nat /\ lag \in Nat
  BY RefreshConstants DEF Auth, Zero
<1>2. CASE auth.disabled
  BY <1>2 DEF NextCheck, InTime, Times, Gone
<1>3. CASE ~auth.disabled /\ auth.wait > -lag
  BY <1>1, <1>3 DEF NextCheck, InTime, Times, Gone
<1>4. CASE ~auth.disabled /\ ~(auth.wait > -lag)
  BY <1>1, <1>4 DEF NextCheck, InTime, Times, Gone
<1> QED BY <1>1, <1>2, <1>3, <1>4

\* Time passes for what is planned no slower than for the entry.
LEMMA LaterInTime ==
  ASSUME NEW auth \in Auth, NEW t \in Times, InTime(t, auth)
  PROVE  InTime(IF t = Gone THEN Gone ELSE Down(t, 0), AuthLater(auth))
<1> DEFINE later == AuthLater(auth)
<1>1. /\ MaxLag \in Nat /\ Lead \in Nat /\ Interval \in Nat
      /\ auth.disabled \in BOOLEAN /\ auth.wait \in Int /\ auth.left \in Nat
      /\ Zero \in Int /\ Zero <= 0 /\ Zero <= auth.wait
  BY RefreshConstants DEF Auth, Zero
<1>2. /\ later.disabled = auth.disabled
      /\ later.wait = Down(auth.wait, Zero) /\ later.left = Down(auth.left, 0)
  BY DEF AuthLater, Auth
<1> HIDE DEF later
<1>3. CASE auth.disabled
  <2>1. NextCheck(later, 0) = Gone
    BY <1>2, <1>3 DEF NextCheck
  <2> QED BY <2>1 DEF InTime, later
<1>4. ASSUME ~auth.disabled PROVE t \in Nat /\ t # Gone
  BY <1>1, <1>4 DEF InTime, NextCheck, Times, Gone
<1>5. CASE ~auth.disabled /\ auth.wait > 0
  <2>1. NextCheck(auth, 0) = auth.wait /\ t <= auth.wait
    BY <1>1, <1>5 DEF InTime, NextCheck, Gone
  <2>2. NextCheck(later, 0) \in Nat /\ NextCheck(later, 0) >= auth.wait - 1
    BY <1>1, <1>2, <1>5 DEF NextCheck, Down
  <2>3. t # Gone /\ Down(t, 0) # Gone /\ Down(t, 0) <= NextCheck(later, 0)
    BY <1>1, <1>4, <1>5, <2>1, <2>2 DEF Gone, Down
  <2> QED BY <2>3 DEF InTime, later
<1>6. CASE ~auth.disabled /\ ~(auth.wait > 0)
  <2>1. NextCheck(auth, 0) = IF auth.left > Lead THEN auth.left - Lead ELSE 0
    BY <1>1, <1>6 DEF NextCheck
  <2>2. NextCheck(later, 0) = IF later.left > Lead THEN later.left - Lead ELSE 0
    BY <1>1, <1>2, <1>6 DEF NextCheck, Down
  <2>3. /\ t # Gone /\ t \in Nat /\ NextCheck(auth, 0) \in Nat
        /\ t <= NextCheck(auth, 0) \/ (NextCheck(auth, 0) = 0 /\ t <= Interval)
    BY <1>1, <1>4, <1>6, <2>1 DEF InTime, Gone
  <2>4. /\ NextCheck(auth, 0) = 0 => NextCheck(later, 0) = 0
        /\ NextCheck(auth, 0) # 0 => NextCheck(later, 0) >= NextCheck(auth, 0) - 1
        /\ NextCheck(later, 0) \in Nat
    BY <1>1, <1>2, <2>1, <2>2 DEF Down
  <2>5. /\ t # Gone /\ Down(t, 0) # Gone
        /\ Down(t, 0) <= NextCheck(later, 0) \/ (NextCheck(later, 0) = 0 /\ Down(t, 0) <= Interval)
    BY <1>1, <2>3, <2>4 DEF Gone, Down
  <2> QED BY <2>5 DEF InTime, later
<1> QED BY <1>3, <1>5, <1>6, <1>1 DEF later

\* What the first step of a list has to do with its promise.
LEMMA NotesFacts ==
  ASSUME NEW l \in Seq(Steps)
  PROVE  /\ l = <<>> => ~Notes(l)
         /\ l # <<>> /\ Head(l) \in {"add", "mark", "reread"} => Notes(l)
         /\ l # <<>> /\ Head(l) \notin {"add", "mark", "reread"} /\ Notes(l) => Notes(Tail(l))
         /\ Len(l) = 1 /\ Head(l) \notin {"add", "mark", "reread"} => ~Notes(l)
<1>1. l = <<>> => ~Notes(l)
  BY DEF Notes
<1>2. l # <<>> => 1 \in 1 .. Len(l) /\ Head(l) = l[1]
  BY HeadTailProperties, EmptySeq
<1>3. ASSUME l # <<>>, Head(l) \notin {"add", "mark", "reread"}, Notes(l)
      PROVE  Notes(Tail(l))
  <2> DEFINE m == Tail(l)
  <2>1. PICK i \in 1 .. Len(l) : l[i] \in {"add", "mark", "reread"}
    BY <1>3 DEF Notes
  <2>2. Len(m) = Len(l) - 1 /\ \A j \in 1 .. Len(m) : m[j] = l[j + 1]
    BY <1>3, HeadTailProperties
  <2> HIDE DEF m
  <2>3. i # 1 /\ i - 1 \in 1 .. Len(m) /\ (i - 1) + 1 = i
    BY <1>2, <1>3, <2>1, <2>2
  <2>4. m[i - 1] = l[i]
    BY <2>2, <2>3
  <2> QED BY <2>1, <2>3, <2>4 DEF Notes, m
<1>4. ASSUME Len(l) = 1, Head(l) \notin {"add", "mark", "reread"}
      PROVE  ~Notes(l)
  <2>1. l # <<>>
    BY <1>4
  <2> QED BY <1>2, <1>4, <2>1 DEF Notes
<1> QED BY <1>1, <1>2, <1>3, <1>4 DEF Notes

\* A promise is kept unless it was the one g made for its auth.
LEMMA PromiseKept ==
  ASSUME NEW g \in Goroutines, NEW a, Promised(a),
         \A h \in Goroutines \ {g} : todo'[h] = todo[h] /\ held'[h].auth = held[h].auth,
         a \in dirty \cup loop.batch => Promised(a)',
         held[g].auth = a /\ Notes(todo[g]) => Promised(a)'
  PROVE  Promised(a)'
<1>1. CASE a \in dirty \cup loop.batch
  BY <1>1
<1>2. ASSUME NEW h \in Goroutines, held[h].auth = a, Notes(todo[h])
      PROVE  Promised(a)'
  <2>1. CASE h = g
    BY <1>2, <2>1
  <2>2. CASE h # g
    BY <1>2, <2>2 DEF Promised
  <2> QED BY <2>1, <2>2
<1> QED BY <1>1, <1>2 DEF Promised

\* The entries stay, and every auth is promised as before or planned for a good time.
LEMMA StillTimely ==
  ASSUME Base, AllInTime, UNCHANGED auths,
         loop'.phase \notin {"off", "rebuild"} => loop.phase \notin {"off", "rebuild"},
         \A a \in DOMAIN auths :
           \/ Promised(a)'
           \/ InTime(Planned(a)', auths[a])
           \/ ~Promised(a) /\ Planned(a)' = Planned(a)
  PROVE  AllInTime'
BY DEF AllInTime

\* The steps of the loop that leave its list alone.
LEMMA LoopTimely ==
  ASSUME Base, Rounds, AllInTime,
         \/ Publish \/ Rebuild \/ Put \/ Drain \/ EndRound \/ WakeUp \/ TimerFires \/ Reload
         \/ \E a \in Auths : Apply(a)
  PROVE  Rounds' /\ AllInTime'
<1>0. /\ loop = [phase |-> loop.phase, lag |-> loop.lag, batch |-> loop.batch, puts |-> loop.puts]
      /\ loop.lag \in 0 .. MaxLag /\ 0 \in 0 .. MaxLag
      /\ UNCHANGED <<auths, held, todo>>
      /\ loop.puts \in [DOMAIN loop.puts -> Times] /\ heap \in [DOMAIN heap -> Nat]
      /\ auths \in [DOMAIN auths -> Auth]
  <2>1. UNCHANGED <<auths, held, todo>>
    BY DEF Publish, Rebuild, Put, Drain, EndRound, WakeUp, TimerFires, Reload, Apply
  <2> QED BY <2>1, BaseFacts DEF Rounds, Base, Typed
<1>1. ASSUME NEW a, Promised(a), dirty \cup loop.batch \subseteq dirty' \cup loop'.batch
      PROVE  Promised(a)'
  BY <1>0, <1>1 DEF Promised
<1>2. CASE Publish
  <2>1. loop'.phase = "rebuild" /\ DOMAIN loop'.puts = {} /\ loop'.puts = loop.puts
    BY <1>0, <1>2 DEF Publish, Go, In, EmptyFn
  <2>2. todo[TheLoop] = <<>> /\ UNCHANGED heap
    BY <1>2 DEF Publish, In
  <2> QED BY <1>0, <2>1, <2>2 DEF Rounds, AllInTime
<1>3. CASE Rebuild
  <2>1. /\ loop'.phase = "apply" /\ todo[TheLoop] = <<>> /\ UNCHANGED heap
        /\ loop'.puts = [a \in DOMAIN auths |-> NextCheck(auths[a], 0)]
    BY <1>0, <1>3 DEF Rebuild, In
  <2>2. \A a \in DOMAIN auths : NextCheck(auths[a], 0) \in Times /\ InTime(NextCheck(auths[a], 0), auths[a])
    BY <1>0, CheckInTime
  <2>3. Rounds'
    BY <1>0, <2>1, <2>2 DEF Rounds
  <2>4. \A a \in DOMAIN auths : Planned(a)' = NextCheck(auths[a], 0)
    BY <2>1 DEF Planned
  <2>5. AllInTime'
    BY <1>0, <2>2, <2>4 DEF AllInTime
  <2> QED BY <2>3, <2>5
<1>4. CASE Put
  <2> DEFINE puts == loop.puts
             kept == (DOMAIN heap \cup DOMAIN puts) \ {a \in DOMAIN puts : puts[a] = Gone}
  <2>1. /\ heap' = [a \in kept |-> IF a \in DOMAIN puts THEN puts[a] ELSE heap[a]]
        /\ loop' = [loop EXCEPT !.puts = EmptyFn] /\ UNCHANGED dirty
    BY <1>4 DEF Put
  <2>2. loop'.phase = loop.phase /\ loop'.batch = loop.batch /\ loop'.puts = EmptyFn /\ DOMAIN EmptyFn = {}
    BY <1>0, <2>1 DEF EmptyFn
  <2>3. \A a \in kept : heap'[a] \in Nat
    BY <1>0, <2>1 DEF Times
  <2>4. EmptyFn \in [DOMAIN EmptyFn -> Times]
    BY DEF EmptyFn
  <2>5. Rounds'
    BY <1>0, <2>1, <2>2, <2>3, <2>4 DEF Rounds
  <2>6. \A a : Planned(a)' = Planned(a)
    <3> SUFFICES ASSUME NEW a PROVE Planned(a)' = Planned(a)
      OBVIOUS
    <3>1. DOMAIN heap' = kept /\ a \notin DOMAIN loop'.puts
      BY <2>1, <2>2
    <3>2. CASE a \in DOMAIN puts
      BY <2>1, <3>1, <3>2 DEF Planned
    <3>3. CASE a \notin DOMAIN puts
      BY <2>1, <3>1, <3>3 DEF Planned
    <3> QED BY <3>2, <3>3
  <2> HIDE DEF puts, kept
  <2>7. \A a : Promised(a) => Promised(a)'
    BY <1>1, <2>1, <2>2
  <2> QED BY <1>0, <2>2, <2>5, <2>6, <2>7, StillTimely
<1>5. CASE Drain
  <2>1. /\ loop'.phase = "apply" /\ loop'.batch = dirty /\ loop'.puts = loop.puts /\ UNCHANGED heap
        /\ todo[TheLoop] = <<>> /\ loop.batch = {} /\ loop.phase \in {"drain", "due"}
    BY <1>0, <1>5 DEF Drain, In, Rounds
  <2>2. Rounds'
    BY <1>0, <2>1 DEF Rounds
  <2>3. \A a : Planned(a)' = Planned(a) /\ (Promised(a) => Promised(a)')
    BY <1>1, <2>1 DEF Planned
  <2> QED BY <1>0, <2>1, <2>2, <2>3, StillTimely
<1>6. CASE EndRound \/ WakeUp
  <2>1. /\ loop'.phase \in {"select", "drain"} /\ loop'.puts = loop.puts /\ UNCHANGED <<heap, dirty>>
        /\ todo[TheLoop] = <<>> /\ loop.phase \notin {"off", "rebuild"}
        /\ loop.batch = {} /\ loop'.batch = {}
    BY <1>0, <1>6 DEF EndRound, WakeUp, Go, In, Rounds
  <2>2. Rounds'
    BY <1>0, <2>1 DEF Rounds
  <2>3. \A a : Planned(a)' = Planned(a) /\ (Promised(a) => Promised(a)')
    BY <1>1, <2>1 DEF Planned
  <2> QED BY <1>0, <2>1, <2>2, <2>3, StillTimely
<1>7. CASE TimerFires
  <2> DEFINE due == {a \in DOMAIN heap : heap[a] = 0}
  <2>1. /\ loop'.phase = "due" /\ loop'.batch = due /\ loop'.puts = loop.puts /\ UNCHANGED dirty
        /\ heap' = [a \in DOMAIN heap \ due |-> heap[a]]
        /\ todo[TheLoop] = <<>> /\ loop.phase = "select" /\ loop.batch = {}
    BY <1>0, <1>7 DEF TimerFires, In, Rounds, Restrict
  <2> HIDE DEF due
  <2>2. Rounds'
    <3>1. heap' \in [DOMAIN heap' -> Nat]
      BY <1>0, <2>1
    <3> QED BY <1>0, <2>1, <3>1 DEF Rounds
  <2>3. \A a : (a \in due \/ Planned(a)' = Planned(a)) /\ (Promised(a) => Promised(a)')
    BY <1>1, <2>1 DEF Planned
  <2>4. \A a \in due : Promised(a)'
    BY <2>1 DEF Promised
  <2> QED BY <1>0, <2>1, <2>2, <2>3, <2>4, StillTimely
<1>8. CASE Reload
  <2>1. UNCHANGED <<loop, heap, dirty>>
    BY <1>8 DEF Reload
  <2>2. Rounds'
    BY <1>0, <2>1 DEF Rounds
  <2>3. \A a : Planned(a)' = Planned(a) /\ (Promised(a) => Promised(a)')
    BY <1>1, <2>1 DEF Planned
  <2> QED BY <1>0, <2>1, <2>2, <2>3, StillTimely
<1>9. ASSUME NEW b \in Auths, Apply(b)
      PROVE  Rounds' /\ AllInTime'
  <2> DEFINE next == NextCheck(auths[b], loop.lag)
  <2>1. /\ loop'.phase = "apply" /\ loop.phase = "apply" /\ loop'.batch = loop.batch \ {b}
        /\ loop'.puts = [a \in {b} |-> next] /\ UNCHANGED <<heap, dirty>>
        /\ todo[TheLoop] = <<>> /\ loop.puts = EmptyFn /\ DOMAIN EmptyFn = {} /\ b \in loop.batch
    BY <1>0, <1>9 DEF Apply, In, At, EmptyFn
  <2>2. b \in DOMAIN auths /\ next \in Times /\ InTime(next, auths[b])
    BY <1>0, <2>1, BaseFacts, CheckInTime
  <2> HIDE DEF next
  <2>3. Rounds'
    BY <1>0, <2>1, <2>2 DEF Rounds
  <2>4. Planned(b)' = next /\ \A a : a = b \/ Planned(a)' = Planned(a)
    BY <2>1 DEF Planned
  <2>5. \A a : a = b \/ (Promised(a) => Promised(a)')
    BY <1>0, <2>1 DEF Promised
  <2> QED BY <1>0, <2>1, <2>2, <2>3, <2>4, <2>5, StillTimely
<1> QED BY <1>2, <1>3, <1>4, <1>5, <1>6, <1>7, <1>8, <1>9

\* The loop takes a due auth in hand, or puts it back.
LEMMA HandleTimely ==
  ASSUME Base, Rounds, AllInTime, NEW b \in Auths, HandleDue(b)
  PROVE  Rounds' /\ AllInTime'
<1> DEFINE next == NextCheck(auths[b], loop.lag)
           due == next # Gone /\ ShouldRefresh(auths[b], loop.lag)
           retry == IF Interval > loop.lag THEN Interval - loop.lag ELSE 0
           t == IF due THEN retry ELSE next
<1>0. /\ loop = [phase |-> loop.phase, lag |-> loop.lag, batch |-> loop.batch, puts |-> loop.puts]
      /\ loop.lag \in 0 .. MaxLag /\ MaxLag \in Nat /\ Lead \in Nat /\ Interval \in Nat
      /\ UNCHANGED <<auths, heap, dirty>> /\ b \in loop.batch /\ b \in DOMAIN auths
      /\ loop.phase = "due" /\ todo[TheLoop] = <<>> /\ loop.puts = EmptyFn /\ DOMAIN EmptyFn = {}
      /\ auths[b] \in Auth
  BY BaseFacts, RefreshConstants DEF HandleDue, In, EmptyFn, Base, Typed
<1>1. next \in Times /\ InTime(next, auths[b])
  BY <1>0, CheckInTime
<1>2. retry \in Nat /\ retry <= Interval
  BY <1>0
<1>3. due => NextCheck(auths[b], 0) = 0
  BY <1>0 DEF ShouldRefresh, NextCheck, Auth, Zero
<1>4. t \in Times /\ InTime(t, auths[b])
  BY <1>1, <1>2, <1>3 DEF InTime, Times, Gone
<1>5. \/ due /\ executor /\ loop' = [loop EXCEPT !.batch = @ \ {b}, !.puts = EmptyFn]
         /\ todo' = [todo EXCEPT ![TheLoop] = <<"mark">>] /\ held' = [held EXCEPT ![TheLoop] = Flight(b, 0)]
      \/ loop' = [loop EXCEPT !.batch = @ \ {b}, !.puts = At(b, t)] /\ UNCHANGED <<todo, held>>
  BY DEF HandleDue
<1> HIDE DEF next, due, retry, t
<1>6. CASE /\ loop' = [loop EXCEPT !.batch = @ \ {b}, !.puts = EmptyFn]
           /\ todo' = [todo EXCEPT ![TheLoop] = <<"mark">>] /\ held' = [held EXCEPT ![TheLoop] = Flight(b, 0)]
  <2>1. /\ loop'.phase = "due" /\ loop'.batch = loop.batch \ {b} /\ loop'.puts = EmptyFn
    BY <1>0, <1>6
  <2>2. /\ todo'[TheLoop] = <<"mark">> /\ held'[TheLoop].auth = b
        /\ \A h \in Goroutines \ {TheLoop} : todo'[h] = todo[h] /\ held'[h] = held[h]
    BY <1>6 DEF Base, Typed, Flight, Goroutines
  <2>3. Notes(<<"mark">>)
    BY DEF Notes
  <2>4. Rounds'
    BY <1>0, <2>1 DEF Rounds
  <2>5. Promised(b)'
    BY <2>2, <2>3, BaseFacts DEF Promised
  <2>6. \A a : a = b \/ Planned(a)' = Planned(a)
    BY <1>0, <2>1 DEF Planned
  <2>7. \A a : a = b \/ (Promised(a) => Promised(a)')
    <3> SUFFICES ASSUME NEW a, a # b, Promised(a) PROVE Promised(a)'
      OBVIOUS
    <3>1. ~Notes(todo[TheLoop])
      BY <1>0 DEF Notes
    <3>2. a \in dirty \cup loop.batch => Promised(a)'
      BY <1>0, <2>1 DEF Promised
    <3> QED BY <2>2, <3>1, <3>2, BaseFacts, PromiseKept
  <2> QED BY <1>0, <2>1, <2>4, <2>5, <2>6, <2>7, StillTimely
<1>7. CASE loop' = [loop EXCEPT !.batch = @ \ {b}, !.puts = At(b, t)] /\ UNCHANGED <<todo, held>>
  <2>1. /\ loop'.phase = "due" /\ loop'.batch = loop.batch \ {b} /\ loop'.puts = [a \in {b} |-> t]
    BY <1>0, <1>7 DEF At
  <2>2. Rounds'
    BY <1>0, <1>4, <1>7, <2>1 DEF Rounds
  <2>3. Planned(b)' = t /\ \A a : a = b \/ Planned(a)' = Planned(a)
    BY <1>0, <2>1 DEF Planned
  <2>4. \A a : a = b \/ (Promised(a) => Promised(a)')
    BY <1>0, <1>7, <2>1 DEF Promised
  <2> QED BY <1>0, <1>4, <2>1, <2>2, <2>3, <2>4, StillTimely
<1> QED BY <1>5, <1>6, <1>7

\* The loop's own steps for the auth in its hands, but for the mark.
LEMMA RereadTimely ==
  ASSUME Base, Rounds, AllInTime,
         \/ Reread \/ SendJob
         \/ Doing(TheLoop, "mark") /\ todo' = [todo EXCEPT ![TheLoop] = <<"reread">>]
            /\ UNCHANGED <<auths, held, heap, dirty, loop>>
  PROVE  Rounds' /\ AllInTime'
<1> DEFINE b == held[TheLoop].auth
<1>0. /\ loop = [phase |-> loop.phase, lag |-> loop.lag, batch |-> loop.batch, puts |-> loop.puts]
      /\ loop.lag \in 0 .. MaxLag /\ TheLoop \in Goroutines /\ todo[TheLoop] \in Seq(Steps)
      /\ UNCHANGED <<auths, heap, dirty>> /\ todo[TheLoop] # <<>> /\ b \in DOMAIN auths
      /\ auths[b] \in Auth /\ loop.phase = "due" /\ DOMAIN loop.puts = {}
  BY BaseFacts DEF Reread, SendJob, Doing, Base, Typed, Rounds
<1>1. ASSUME NEW l, NEW a, todo' = [todo EXCEPT ![TheLoop] = l],
             \A h \in Goroutines \ {TheLoop} : held'[h] = held[h],
             Promised(a), loop'.batch = loop.batch, b = a /\ Notes(todo[TheLoop]) => Promised(a)'
      PROVE  Promised(a)'
  <2>1. \A h \in Goroutines \ {TheLoop} : todo'[h] = todo[h]
    BY <1>1 DEF Base, Typed
  <2>2. a \in dirty \cup loop.batch => Promised(a)'
    BY <1>0, <1>1 DEF Promised
  <2> QED BY <1>0, <1>1, <2>1, <2>2, PromiseKept
<1>2. CASE Doing(TheLoop, "mark") /\ todo' = [todo EXCEPT ![TheLoop] = <<"reread">>] /\ UNCHANGED <<held, loop>>
  <2>1. Notes(<<"reread">>) /\ todo'[TheLoop] = <<"reread">>
    BY <1>2 DEF Notes, Base, Typed, Goroutines
  <2>2. Promised(b)'
    BY <1>0, <1>2, <2>1 DEF Promised
  <2>3. \A a : Promised(a) => Promised(a)'
    BY <1>1, <1>2, <2>2
  <2>4. \A a : Planned(a)' = Planned(a)
    BY <1>0, <1>2 DEF Planned
  <2>5. Rounds'
    BY <1>0, <1>2 DEF Rounds
  <2> QED BY <1>0, <1>2, <2>3, <2>4, <2>5, StillTimely
<1>3. CASE Reread
  <2> DEFINE next == NextCheck(auths[b], loop.lag)
  <2>1. /\ loop' = [loop EXCEPT !.puts = At(b, next)] /\ todo' = [todo EXCEPT ![TheLoop] = <<>>]
        /\ held' = [held EXCEPT ![TheLoop] = Nobody]
    BY <1>3 DEF Reread
  <2>2. /\ loop'.phase = "due" /\ loop'.batch = loop.batch /\ loop'.puts = [a \in {b} |-> next]
        /\ todo'[TheLoop] = <<>>
    BY <1>0, <2>1 DEF At, Base, Typed
  <2>3. next \in Times /\ InTime(next, auths[b])
    BY <1>0, CheckInTime
  <2>4. \A a : a = b \/ (Promised(a) => Promised(a)')
    BY <1>1, <2>1, <2>2 DEF Base, Typed
  <2> HIDE DEF next
  <2>5. Rounds'
    BY <1>0, <2>2, <2>3 DEF Rounds
  <2>6. \A a : IF a = b THEN Planned(a)' = next ELSE Planned(a)' = Planned(a)
    BY <1>0, <2>2 DEF Planned
  <2> HIDE DEF b
  <2> QED BY <1>0, <2>2, <2>3, <2>4, <2>5, <2>6, StillTimely
<1>4. CASE SendJob
  <2>1. /\ UNCHANGED loop /\ todo' = [todo EXCEPT ![TheLoop] = <<>>]
        /\ held' = [held EXCEPT ![TheLoop] = Nobody] /\ Head(todo[TheLoop]) = "send"
    BY <1>4 DEF SendJob, Doing
  <2>2. Len(todo[TheLoop]) = 1
    <3>1. 1 \in 1 .. Len(todo[TheLoop]) /\ todo[TheLoop][1] = "send"
      BY <1>0, <2>1, HeadTailProperties, EmptySeq
    <3> QED BY <1>0, <3>1, BaseFacts DEF ListOK
  <2>3. ~Notes(todo[TheLoop])
    BY <1>0, <2>1, <2>2, NotesFacts
  <2>4. \A a : Promised(a) => Promised(a)'
    BY <1>1, <2>1, <2>3 DEF Base, Typed
  <2>5. \A a : Planned(a)' = Planned(a)
    BY <1>0, <2>1 DEF Planned
  <2>6. Rounds'
    BY <1>0, <2>1 DEF Rounds, Base, Typed
  <2> QED BY <1>0, <2>1, <2>4, <2>5, <2>6, StillTimely
<1> QED BY <1>2, <1>3, <1>4

\* An entry is written by somebody who still has to tell the loop.
LEMMA WriteTimely ==
  ASSUME Base, Rounds, AllInTime,
         NEW g \in Goroutines, NEW a \in Auths, NEW auth \in Auth,
         NEW steps \in Seq(Steps), steps # <<>>, Head(steps) = "add",
         NEW holding \in Holdings, holding.auth = a, Write(g, a, auth, steps, holding),
         UNCHANGED <<heap, dirty, loop>>, g = TheLoop => todo[g] # <<>>,
         Notes(todo[g]) => held[g].auth = a
  PROVE  Rounds' /\ AllInTime'
<1>1. WriteResult(g, a, auth, steps, holding)
  BY WriteFacts DEF Base
<1>2. /\ DOMAIN auths' = DOMAIN auths \cup {a} /\ \A b \in DOMAIN auths \ {a} : auths'[b] = auths[b]
      /\ todo'[g] = steps /\ held'[g] = holding
      /\ \A h \in Goroutines \ {g} : todo'[h] = todo[h] /\ held'[h].auth = held[h].auth
  BY <1>1 DEF WriteResult
<1>3. Notes(steps)
  BY NotesFacts
<1>4. Promised(a)'
  BY <1>2, <1>3 DEF Promised
<1>5. Rounds'
  BY <1>2, BaseFacts DEF Rounds
<1>6. \A b : Promised(b) => Promised(b)'
  <2> SUFFICES ASSUME NEW b, Promised(b) PROVE Promised(b)'
    OBVIOUS
  <2>1. b \in dirty \cup loop.batch => Promised(b)'
    BY DEF Promised
  <2>2. held[g].auth = b /\ Notes(todo[g]) => Promised(b)'
    BY <1>4
  <2> QED BY <1>2, <2>1, <2>2, PromiseKept
<1>7. \A b : Planned(b)' = Planned(b)
  BY DEF Planned
<1>8. AllInTime'
  BY <1>2, <1>4, <1>6, <1>7 DEF AllInTime
<1> QED BY <1>5, <1>8

\* Somebody who had nothing to do, or has posted, goes on.
LEMMA PostTimely ==
  ASSUME Base, Rounds, AllInTime, NEW g \in Goroutines,
         Post(g) \/ (g \in Workers /\ TakeJob(g))
  PROVE  Rounds' /\ AllInTime'
<1>0. /\ UNCHANGED <<auths, heap, loop>> /\ todo[g] \in Seq(Steps)
      /\ \E l : todo' = [todo EXCEPT ![g] = l]
      /\ \A h \in Goroutines \ {g} : held'[h] = held[h]
  BY BaseFacts DEF Post, QueueDirty, PostWake, TakeJob
<1>1. \A h \in Goroutines \ {g} : todo'[h] = todo[h] /\ held'[h] = held[h]
  BY <1>0 DEF Base, Typed
<1>2. \A a : Planned(a)' = Planned(a)
  BY <1>0 DEF Planned
<1>3. Rounds'
  <2>1. todo'[TheLoop] # <<>> => todo[TheLoop] # <<>>
    <3>1. CASE Post(g)
      BY <1>1, <3>1, BaseFacts DEF Post, QueueDirty, PostWake, Doing
    <3>2. CASE g \in Workers
      BY <1>1, <3>2, BaseFacts, RefreshConstants
    <3> QED BY <3>1, <3>2
  <2> QED BY <1>0, <2>1 DEF Rounds
<1>4. ASSUME NEW a, Promised(a), loop.phase # "off"
      PROVE  Promised(a)'
  <2>1. CASE QueueDirty(g)
    <3>1. dirty' = dirty \cup {held[g].auth}
      BY <1>4, <2>1 DEF QueueDirty
    <3>2. a \in dirty \cup loop.batch \cup {held[g].auth} => Promised(a)'
      BY <1>0, <3>1 DEF Promised
    <3> QED BY <1>1, <1>4, <3>2, PromiseKept
  <2>2. CASE PostWake(g)
    <3>0. UNCHANGED dirty /\ todo[g] # <<>> /\ Head(todo[g]) = "wake" /\ todo' = [todo EXCEPT ![g] = Tail(@)]
      BY <2>2 DEF PostWake, Doing
    <3>1. a \in dirty \cup loop.batch => Promised(a)'
      BY <1>0, <3>0 DEF Promised
    <3>2. ASSUME held[g].auth = a, Notes(todo[g])
          PROVE  Promised(a)'
      <4>1. Len(todo[g]) # 1 /\ Notes(Tail(todo[g]))
        BY <1>0, <3>0, <3>2, NotesFacts
      <4>2. held' = held
        BY <2>2, <4>1, BaseFacts DEF PostWake
      <4>3. todo'[g] = Tail(todo[g])
        BY <3>0 DEF Base, Typed
      <4> QED BY <3>2, <4>1, <4>2, <4>3 DEF Promised
    <3> QED BY <1>1, <1>4, <3>1, <3>2, PromiseKept
  <2>3. CASE g \in Workers /\ TakeJob(g)
    <3>1. UNCHANGED dirty /\ ~Notes(todo[g])
      BY <1>0, <2>3, NotesFacts DEF TakeJob
    <3>2. a \in dirty \cup loop.batch => Promised(a)'
      BY <1>0, <3>1 DEF Promised
    <3> QED BY <1>1, <1>4, <3>1, <3>2, PromiseKept
  <2> QED BY <2>1, <2>2, <2>3 DEF Post
<1>5. AllInTime'
  BY <1>0, <1>2, <1>4 DEF AllInTime
<1> QED BY <1>3, <1>5

\* Time passes for the heap no slower than for the entries.
LEMMA TickTimely ==
  ASSUME Base, Rounds, AllInTime, Tick
  PROVE  Rounds' /\ AllInTime'
<1>1. TickResult
  BY TickFacts
<1> DEFINE Aged(t) == IF t = Gone THEN Gone ELSE Down(t, 0)
<1>2. /\ loop'.phase = loop.phase /\ loop'.batch = loop.batch /\ UNCHANGED <<todo, dirty>>
      /\ loop'.puts = [a \in DOMAIN loop.puts |-> Aged(loop.puts[a])]
      /\ heap' = [a \in DOMAIN heap |-> Down(heap[a], 0)]
  BY BaseFacts DEF Tick
<1>3. \A n \in Nat : Down(n, 0) \in Nat
  BY DEF Down
<1>4. \A t \in Times : Aged(t) \in Times
  BY <1>3 DEF Times
<1>5. loop.puts \in [DOMAIN loop.puts -> Times] /\ heap \in [DOMAIN heap -> Nat]
  BY DEF Rounds
<1>6. Rounds'
  BY <1>2, <1>3, <1>4, <1>5 DEF Rounds
<1>7. \A a : Planned(a) \in Times /\ Planned(a)' = Aged(Planned(a))
  <2> SUFFICES ASSUME NEW a PROVE Planned(a) \in Times /\ Planned(a)' = Aged(Planned(a))
    OBVIOUS
  <2>1. CASE a \in DOMAIN loop.puts
    BY <1>2, <1>5, <2>1 DEF Planned
  <2>2. CASE a \notin DOMAIN loop.puts /\ a \in DOMAIN heap
    <3>1. heap[a] \in Nat /\ heap[a] # Gone
      BY <1>5, <2>2 DEF Gone
    <3> QED BY <1>2, <2>2, <3>1 DEF Planned, Times
  <2>3. CASE a \notin DOMAIN loop.puts /\ a \notin DOMAIN heap
    BY <1>2, <2>3 DEF Planned, Times
  <2> QED BY <2>1, <2>2, <2>3
<1>8. \A a : Promised(a) => Promised(a)'
  <2>1. \A g \in Goroutines : Notes(todo[g]) => held'[g].auth = held[g].auth
    BY <1>1, Later DEF TickResult
  <2> QED BY <1>2, <2>1 DEF Promised
<1>9. ASSUME NEW a \in DOMAIN auths, InTime(Planned(a), auths[a])
      PROVE  InTime(Planned(a)', auths'[a])
  <2>1. auths[a] \in Auth /\ auths'[a] = AuthLater(auths[a])
    BY <1>1 DEF Base, Typed, TickResult
  <2> QED BY <1>7, <1>9, <2>1, LaterInTime
<1>10. AllInTime'
  <2>1. DOMAIN auths' = DOMAIN auths
    BY <1>1 DEF TickResult
  <2> QED BY <1>2, <1>8, <1>9, <2>1 DEF AllInTime
<1> QED BY <1>6, <1>10

LEMMA TimelyKept ==
  ASSUME Base, Rounds, AllInTime, [Next]_vars
  PROVE  Rounds' /\ AllInTime'
<1>1. CASE \/ Publish \/ Rebuild \/ Put \/ Drain \/ EndRound \/ Select \/ Reload
           \/ Reread \/ SendJob \/ Tick \/ \E a \in Auths : HandleDue(a) \/ Apply(a)
  BY <1>1, LoopTimely, HandleTimely, RereadTimely, TickTimely DEF Select
<1>2. CASE MarkPending
  <2> DEFINE a == held[TheLoop].auth
  <2>1. Doing(TheLoop, "mark") /\ TheLoop \in Goroutines /\ a \in DOMAIN auths /\ a \in Auths
        /\ UNCHANGED <<heap, dirty, loop>> /\ auths[a] \in Auth
    BY <1>2, BaseFacts DEF MarkPending, Doing, Base, Typed
  <2>2. CASE todo' = [todo EXCEPT ![TheLoop] = <<"reread">>] /\ UNCHANGED <<auths, jobs, held>>
    BY <2>1, <2>2, RereadTimely
  <2>3. CASE Write(TheLoop, a, [auths[a] EXCEPT !.wait = Pending - loop.lag],
                   Reschedule \o <<"send">>, Flight(a, Pending - loop.lag))
    <3> DEFINE auth == [auths[a] EXCEPT !.wait = Pending - loop.lag]
               steps == Reschedule \o <<"send">>
               flight == Flight(a, Pending - loop.lag)
    <3>1. Pending - loop.lag \in 0 .. Pending /\ Pending - loop.lag \in Zero .. FailureBackoff
      BY BaseFacts, RefreshConstants DEF Zero
    <3>2. auth \in Auth
      BY <2>1, <3>1 DEF Auth
    <3>3. flight \in Holdings /\ flight.auth = a
      BY <2>1, <3>1 DEF Flight, Flights, Holdings
    <3>4. steps \in Seq(Steps) /\ steps # <<>> /\ Head(steps) = "add"
      BY RescheduleOK
    <3>5. todo[TheLoop] # <<>>
      BY <2>1 DEF Doing
    <3> HIDE DEF auth, steps, flight
    <3>6. Write(TheLoop, a, auth, steps, flight)
      BY <2>3 DEF auth, steps, flight
    <3> HIDE DEF a
    <3>7. Notes(todo[TheLoop]) => held[TheLoop].auth = a
      BY DEF a
    <3> QED BY <2>1, <3>2, <3>3, <3>4, <3>5, <3>6, <3>7, WriteTimely
  <2> QED BY <1>2, <2>2, <2>3 DEF MarkPending
<1>3. ASSUME NEW g \in Goroutines, g # TheLoop, NEW a \in Auths, NEW auth \in Auth, NEW l \in Seq(Steps),
             l # <<>>, Head(l) = "add", Write(g, a, auth, l, [auth |-> a]), UNCHANGED <<heap, dirty, loop>>,
             ~Notes(todo[g])
      PROVE  Rounds' /\ AllInTime'
  <2>1. [auth |-> a] \in Holdings
    BY DEF Holdings
  <2> QED BY <1>3, <2>1, WriteTimely
<1>4. ASSUME NEW w \in Workers, RefreshFails(w) \/ \E left \in 0 .. Life : RefreshSucceeds(w, left)
      PROVE  Rounds' /\ AllInTime'
  <2>1. PICK a \in Auths, auth \in Auth :
          /\ Write(w, a, auth, Reschedule \o Reschedule, [auth |-> a]) /\ UNCHANGED <<heap, dirty, loop>>
    BY <1>4, RefreshWrites
  <2>2. w \in Goroutines /\ w # TheLoop
    BY RefreshConstants DEF Goroutines
  <2>3. ~Notes(todo[w])
    <3>1. todo[w] # <<>> /\ Head(todo[w]) = "refresh" /\ todo[w] \in Seq(Steps)
      BY <1>4, <2>2, BaseFacts DEF RefreshFails, RefreshSucceeds, Doing
    <3>2. Len(todo[w]) = 1
      <4>1. 1 \in 1 .. Len(todo[w]) /\ todo[w][1] = "refresh"
        BY <3>1, HeadTailProperties, EmptySeq
      <4> QED BY <2>2, <4>1, BaseFacts DEF ListOK
    <3> QED BY <3>1, <3>2, NotesFacts
  <2> DEFINE l == Reschedule \o Reschedule
  <2>4. l \in Seq(Steps) /\ l # <<>> /\ Head(l) = "add"
    BY RescheduleOK
  <2> HIDE DEF l
  <2> QED BY <1>3, <2>1, <2>2, <2>3, <2>4 DEF l
<1>5. ASSUME NEW c \in Callers, CallerStep(c)
      PROVE  Rounds' /\ AllInTime'
  <2>1. PICK a \in Auths, auth \in Auth :
          /\ Write(c, a, auth, Reschedule, [auth |-> a]) /\ UNCHANGED <<heap, dirty, loop>>
          /\ todo[c] = <<>>
    BY <1>5 DEF CallerStep, Store
  <2>2. c \in Goroutines /\ c # TheLoop
    BY RefreshConstants DEF Goroutines
  <2>3. ~Notes(todo[c])
    BY <2>1 DEF Notes
  <2>4. Reschedule \in Seq(Steps) /\ Reschedule # <<>> /\ Head(Reschedule) = "add"
    BY RescheduleOK
  <2> HIDE DEF Reschedule
  <2> QED BY <1>3, <2>1, <2>2, <2>3, <2>4
<1>6. ASSUME NEW w \in Workers, TakeJob(w)
      PROVE  Rounds' /\ AllInTime'
  BY <1>6, PostTimely DEF Goroutines
<1>7. ASSUME NEW g \in Goroutines, Post(g)
      PROVE  Rounds' /\ AllInTime'
  BY <1>7, PostTimely
<1>8. CASE UNCHANGED vars
  BY <1>8 DEF vars, Rounds, AllInTime, Planned, Promised
<1> QED BY <1>1, <1>2, <1>4, <1>5, <1>6, <1>7, <1>8 DEF Next, LoopStep, WorkerStep

-----------------------------------------------------------------------------
(* The invariant and what follows from it.                                  *)

LEMMA InvInit == Init => IInv
<1> SUFFICES ASSUME Init PROVE IInv
  OBVIOUS
<1>1. Base
  BY BaseInit
<1>2. WakeFollows
  BY DEF Init, WakeFollows
<1>3. Bounded /\ Alone
  BY DEF Init, Bounded, Alone, Fresh, InFlight, Doing
<1>4. Rounds /\ AllInTime
  BY DEF Init, Rounds, AllInTime, EmptyFn, Times, Goroutines
<1> QED BY <1>1, <1>2, <1>3, <1>4 DEF IInv

LEMMA InvKept == IInv /\ [Next]_vars => IInv'
<1> SUFFICES ASSUME IInv, [Next]_vars PROVE IInv'
  OBVIOUS
<1>1. Base'
  BY BaseKept DEF IInv
<1>2. WakeFollows'
  BY <1>1, WakeKept DEF IInv
<1>3. Bounded' /\ Alone'
  BY <1>1, GuardsKept DEF IInv
<1>4. Rounds' /\ AllInTime'
  BY <1>1, TimelyKept DEF IInv
<1> QED BY <1>1, <1>2, <1>3, <1>4 DEF IInv

LEMMA Invariance == Spec => []IInv
<1> QED BY InvInit, InvKept, PTL DEF Spec

\* A set whose elements are all equal has at most one.
LEMMA AtMostOne ==
  ASSUME NEW S, \A x, y \in S : x = y
  PROVE  Cardinality(S) \in {0, 1} /\ (Cardinality(S) = 1 => S # {})
<1>1. CASE S = {}
  BY <1>1, FS_EmptySet
<1>2. CASE S # {}
  <2>1. PICK x : S = {x}
    BY <1>2
  <2> QED BY <2>1, FS_Singleton
<1> QED BY <1>1, <1>2

\* queueReschedule adds the auth before it posts the wake-up and the loop takes
\* the wake-up before it drains the set: while the loop sleeps in select, every
\* change that was noted has a wake-up there or about to be posted.
THEOREM NoWakeIsLost == Spec => []NoLostWake
<1>1. IInv => NoLostWake
  <2> SUFFICES ASSUME WakeFollows, loop.phase = "select", dirty # {}
               PROVE  wake \/ \E g \in Goroutines : todo[g] # <<>> /\ Head(todo[g]) = "wake"
    BY DEF IInv, NoLostWake
  <2> QED BY DEF WakeFollows, Doing
<1> QED BY <1>1, Invariance, PTL

\* markRefreshPending looks at the back-off again under the write lock: however
\* many changes, workers and rounds overlap, no auth has two refreshes on their
\* way that are both younger than the back-off of their pending mark and whose
\* entry nobody has written over.
THEOREM MarksExclude == Spec => []OneFreshRefresh
<1>1. IInv => OneFreshRefresh
  <2> SUFFICES ASSUME Alone, NEW a \in Auths
               PROVE  Guarded(a) <= 1
    BY DEF IInv, OneFreshRefresh
  <2> DEFINE G == {g \in Goroutines : InFlight(g) /\ held[g].auth = a /\ held[g].guard > 0}
             J == {i \in 1 .. Len(jobs) : jobs[i].auth = a /\ jobs[i].guard > 0}
  <2>1. \A g, h \in G : g = h
    BY DEF Alone, Fresh
  <2>2. \A i, j \in J : i = j
    BY DEF Alone
  <2>3. G = {} \/ J = {}
    BY DEF Alone, Fresh
  <2>4. Guarded(a) = Cardinality(G) + Cardinality(J)
    BY DEF Guarded
  <2> HIDE DEF G, J
  <2>5. Cardinality(G) \in {0, 1} /\ (Cardinality(G) = 1 => G # {})
    BY <2>1, AtMostOne
  <2>6. Cardinality(J) \in {0, 1} /\ (Cardinality(J) = 1 => J # {})
    BY <2>2, AtMostOne
  <2> QED BY <2>3, <2>4, <2>5, <2>6
<1> QED BY <1>1, Invariance, PTL

\* The loop computes the time of an auth under a lock and puts it into the heap after
\* the lock is gone, and every goroutine tells it of a change only after it wrote it:
\* still, whenever nobody is about to look at an auth again, the heap holds it with a
\* time no later than its entry asks for, or than an interval from now if it was due
\* while there was no executor.
THEOREM NothingIsLate == Spec => []NeverLate
<1>1. IInv => NeverLate
  <2> SUFFICES ASSUME IInv, loop.phase \notin {"off", "rebuild"}, NEW a \in DOMAIN auths,
                      NextCheck(auths[a], 0) # Gone, ~OnItsWay(a)
               PROVE  /\ a \in DOMAIN heap
                      /\ \/ heap[a] <= NextCheck(auths[a], 0)
                         \/ NextCheck(auths[a], 0) = 0 /\ heap[a] <= Interval
    BY DEF NeverLate
  <2>1. ~Promised(a) /\ a \notin DOMAIN loop.puts
    BY DEF OnItsWay, Promised, Notes
  <2>2. InTime(Planned(a), auths[a])
    BY <2>1 DEF IInv, AllInTime
  <2> QED BY <2>1, <2>2 DEF Planned, InTime
<1> QED BY <1>1, Invariance, PTL
=============================================================================
