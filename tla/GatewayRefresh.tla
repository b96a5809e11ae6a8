---------------------------- MODULE GatewayRefresh ----------------------------
(***************************************************************************)
(* The gateway's auto-refresh loop (auto_refresh_loop.go) with the methods *)
(* of the auth manager it works on (conductor.go).  The manager keeps the  *)
(* auths; the loop keeps a heap of the times at which to look at each of   *)
(* them again, a set of auths that changed, and a wake-up channel of       *)
(* capacity one.  A due auth is marked as pending and sent to the workers  *)
(* over a bounded channel; a worker refreshes it upstream without holding  *)
(* a lock and writes the whole entry back.  Every goroutine that changes   *)
(* an auth adds it to the set and posts a wake-up afterwards.              *)
(*                                                                         *)
(* Time is relative: every timer is the number of ticks until it fires and *)
(* Tick moves them all.  An auth is due when its token expires within Lead *)
(* ticks: the case of nextRefreshCheckAt with an expiry and no interval of *)
(* the auth's own.                                                         *)
(***************************************************************************)
EXTENDS Integers, Sequences, FiniteSets, Functions

CONSTANTS
  Auths,               \* auth ids
  Workers,             \* the goroutines that refresh
  Callers,             \* goroutines that add or change auths: service, management, watcher
  JobBuffer,           \* capacity of the job channel
  Life, Lead,          \* ticks a fresh token lives; how long before its end it is due
  Pending,             \* refreshPendingBackoff
  FailureBackoff,      \* refreshFailureBackoff
  IneffectiveBackoff,  \* refreshIneffectiveBackoff
  Interval,            \* the loop's interval, used when there is no executor
  MaxLag               \* bound: ticks one round of the loop may take

TheLoop == "loop"

ASSUME RefreshConstants ==
  /\ JobBuffer \in Nat \ {0} /\ MaxLag \in Nat
  /\ Life \in Nat /\ Lead \in Nat
  /\ Pending \in Nat /\ FailureBackoff \in Nat /\ IneffectiveBackoff \in Nat /\ Interval \in Nat
  /\ MaxLag <= Pending /\ Pending <= FailureBackoff /\ IneffectiveBackoff <= FailureBackoff
  /\ TheLoop \notin Workers \cup Callers /\ Workers \cap Callers = {}

VARIABLES
  auths,    \* manager.auths: id -> [disabled, wait (NextRefreshAfter), left (until expiry)]
  heap,     \* loop.queue and loop.index: id -> ticks until it is looked at
  dirty,    \* loop.dirty
  wake,     \* a token is in loop.wakeCh
  jobs,     \* loop.jobs
  loop,     \* where the loop's goroutine is in its round
  held,     \* the auth each goroutine is dealing with, and its copy
  todo,     \* what each goroutine has left to do with it
  on,       \* Config.AuthRefreshEnabled
  executor  \* an executor is registered for the provider

vars == <<auths, heap, dirty, wake, jobs, loop, held, todo, on, executor>>

Goroutines == {TheLoop} \cup Workers \cup Callers
Nobody == [auth |-> "none"]

\* NextRefreshAfter is zero: it lies before any time a round can have read
Zero == -MaxLag
Auth == [disabled : BOOLEAN, wait : Zero .. FailureBackoff, left : 0 .. Life]

\* A refresh on its way.  guard is history: the ticks left of the back-off its pending
\* mark was made with, none once the entry was written with a shorter one
Flight(a, guard) == [auth |-> a, guard |-> guard]
Flights == [auth : Auths, guard : 0 .. Pending]

At(a, next) == [b \in {a} |-> next]
EmptyFn == [a \in {} |-> 0]

-----------------------------------------------------------------------------
(* When to look at an auth again, and whether to refresh it                *)

Gone == -1   \* the auth is not scheduled

\* Mutant: an auth that backs off is not scheduled.
ForgetBackoff(auth, lag) ==
  IF auth.disabled \/ auth.wait > -lag THEN Gone
  ELSE IF auth.left > Lead THEN auth.left - Lead ELSE 0

\* nextRefreshCheckAt, with a clock reading that is lag ticks old
NextCheck(auth, lag) ==
  CASE auth.disabled -> Gone
    [] ~auth.disabled /\ auth.wait > -lag -> IF auth.wait > 0 THEN auth.wait ELSE 0
    [] OTHER -> IF auth.left > Lead THEN auth.left - Lead ELSE 0

\* Manager.shouldRefresh
ShouldRefresh(auth, lag) ==
  on /\ ~auth.disabled /\ auth.wait <= -lag /\ auth.left <= Lead

-----------------------------------------------------------------------------
Init ==
  /\ \E known \in SUBSET Auths, left \in 0 .. Life :
       auths = [a \in known |-> [disabled |-> FALSE, wait |-> Zero, left |-> left]]
  /\ heap = EmptyFn /\ dirty = {} /\ wake = FALSE /\ jobs = <<>>
  /\ loop = [phase |-> "off", lag |-> 0, batch |-> {}, puts |-> EmptyFn]
  /\ held = [g \in Goroutines |-> Nobody]
  /\ todo = [g \in Goroutines |-> <<>>]
  /\ on = TRUE /\ executor \in BOOLEAN

Doing(g, step) == todo[g] # <<>> /\ Head(todo[g]) = step

\* Mutant: the wake-up is posted before the id is added.
WakeFirst == <<"wake", "add">>

\* queueReschedule: the id is added under l.mu, then a wake-up is posted
Reschedule == <<"add", "wake">>

\* g holds a refresh that is on its way
InFlight(g) ==
  IF g = TheLoop THEN todo[g] # <<>> /\ Head(todo[g]) \in {"add", "wake", "send"} ELSE Doing(g, "refresh")

\* The entry of an auth is written by g, which then has steps left to do.  The
\* flights of an auth that is written with a shorter back-off are overtaken.
Overtaken(f, a, wait) ==
  IF f.auth = a /\ a \in DOMAIN auths /\ wait < auths[a].wait THEN [f EXCEPT !.guard = 0] ELSE f

Write(g, a, auth, steps, holding) ==
  /\ auths' = [b \in DOMAIN auths \cup {a} |-> IF b = a THEN auth ELSE auths[b]]
  /\ todo' = [todo EXCEPT ![g] = steps]
  /\ jobs' = [i \in 1 .. Len(jobs) |-> Overtaken(jobs[i], a, auth.wait)]
  /\ held' = [h \in Goroutines |->
                IF h = g THEN holding
                ELSE IF InFlight(h) THEN Overtaken(held[h], a, auth.wait) ELSE held[h]]

QueueDirty(g) ==
  /\ Doing(g, "add")
  /\ dirty' = IF loop.phase = "off" THEN dirty ELSE dirty \cup {held[g].auth}
  /\ todo' = [todo EXCEPT ![g] = Tail(@)]
  /\ UNCHANGED <<auths, heap, wake, jobs, loop, held, on, executor>>

PostWake(g) ==
  /\ Doing(g, "wake")
  /\ wake' = (wake \/ loop.phase # "off")
  /\ todo' = [todo EXCEPT ![g] = Tail(@)]
  /\ held' = [held EXCEPT ![g] = IF g # TheLoop /\ Len(todo[g]) = 1 THEN Nobody ELSE @]
  /\ UNCHANGED <<auths, heap, dirty, jobs, loop, on, executor>>

-----------------------------------------------------------------------------
(* Callers read a copy (GetByID) and Register or Update with the result.   *)
(* The back-off they write is that of the copy, however old, or none.      *)

Store(c, a) ==
  /\ todo[c] = <<>>
  /\ \E auth \in Auth :
       /\ a \notin DOMAIN auths => auth.wait = Zero
       /\ Write(c, a, auth, Reschedule, [auth |-> a])
  /\ UNCHANGED <<heap, dirty, wake, loop, on, executor>>

Reload ==
  /\ on' = ~on
  /\ UNCHANGED <<auths, heap, dirty, wake, jobs, loop, held, todo, executor>>

-----------------------------------------------------------------------------
(* The loop.  A round begins with a clock reading and ends in select.      *)

Go(phase) == loop' = [loop EXCEPT !.phase = phase]
In(phase) == loop.phase = phase /\ loop.puts = EmptyFn /\ todo[TheLoop] = <<>>

\* StartAutoRefresh publishes the loop ...
Publish ==
  /\ In("off")
  /\ Go("rebuild")
  /\ UNCHANGED <<auths, heap, dirty, wake, jobs, held, todo, on, executor>>

\* ... and only then takes the picture of the auths that rebuild puts into the heap
Rebuild ==
  /\ In("rebuild")
  /\ loop' = [loop EXCEPT !.phase = "apply", !.puts = [a \in DOMAIN auths |-> NextCheck(auths[a], 0)]]
  /\ UNCHANGED <<auths, heap, dirty, wake, jobs, held, todo, on, executor>>

\* Mutant: upsert leaves the time of an auth that is in the heap already.
PutIfAbsent ==
  /\ loop.puts # EmptyFn
  /\ heap' = [a \in DOMAIN heap \cup {b \in DOMAIN loop.puts : loop.puts[b] # Gone} |->
                IF a \in DOMAIN heap THEN heap[a] ELSE loop.puts[a]]
  /\ loop' = [loop EXCEPT !.puts = EmptyFn]
  /\ UNCHANGED <<auths, dirty, wake, jobs, held, todo, on, executor>>

\* upsert and remove, with the times read before
Put ==
  /\ loop.puts # EmptyFn
  /\ LET puts == loop.puts
         kept == (DOMAIN heap \cup DOMAIN puts) \ {a \in DOMAIN puts : puts[a] = Gone}
     IN heap' = [a \in kept |-> IF a \in DOMAIN puts THEN puts[a] ELSE heap[a]]
  /\ loop' = [loop EXCEPT !.puts = EmptyFn]
  /\ UNCHANGED <<auths, dirty, wake, jobs, held, todo, on, executor>>

WakeUp ==
  /\ In("select") /\ wake
  /\ wake' = FALSE
  /\ Go("drain")
  /\ UNCHANGED <<auths, heap, dirty, jobs, held, todo, on, executor>>

\* The timer fires at the smallest time in the heap; popDue takes all that are due
TimerFires ==
  /\ In("select")
  /\ LET due == {a \in DOMAIN heap : heap[a] = 0}
     IN /\ due # {}
        /\ heap' = Restrict(heap, DOMAIN heap \ due)
        /\ loop' = [loop EXCEPT !.phase = "due", !.batch = due]
  /\ UNCHANGED <<auths, dirty, wake, jobs, held, todo, on, executor>>

\* handleDueAuth: the decision, under the manager's read lock
HandleDue(a) ==
  /\ In("due") /\ a \in loop.batch
  /\ LET next == NextCheck(auths[a], loop.lag)
         due == next # Gone /\ ShouldRefresh(auths[a], loop.lag)
         retry == IF Interval > loop.lag THEN Interval - loop.lag ELSE 0
     IN /\ loop' = [loop EXCEPT !.batch = @ \ {a},
                                !.puts = IF due /\ executor THEN EmptyFn
                                         ELSE At(a, IF due THEN retry ELSE next)]
        /\ IF due /\ executor
           THEN /\ todo' = [todo EXCEPT ![TheLoop] = <<"mark">>]
                /\ held' = [held EXCEPT ![TheLoop] = Flight(a, 0)]
           ELSE UNCHANGED <<todo, held>>
  /\ UNCHANGED <<auths, heap, dirty, wake, jobs, on, executor>>

\* Mutant: an auth is sent to the workers without being marked as pending.
SendUnmarked ==
  /\ Doing(TheLoop, "mark")
  /\ Write(TheLoop, held[TheLoop].auth, auths[held[TheLoop].auth],
           Reschedule \o <<"send">>, Flight(held[TheLoop].auth, Pending - loop.lag))
  /\ UNCHANGED <<heap, dirty, wake, loop, on, executor>>

\* markRefreshPending: looked at again under the write lock.  If it is no longer to be
\* refreshed its time is read once more, which needs the read lock again.
MarkPending ==
  /\ Doing(TheLoop, "mark")
  /\ LET a == held[TheLoop].auth
         blocked == auths[a].disabled \/ auths[a].wait > -loop.lag
     IN IF blocked
        THEN /\ todo' = [todo EXCEPT ![TheLoop] = <<"reread">>]
             /\ UNCHANGED <<auths, jobs, held>>
        ELSE Write(TheLoop, a, [auths[a] EXCEPT !.wait = Pending - loop.lag],
                   Reschedule \o <<"send">>, Flight(a, Pending - loop.lag))
  /\ UNCHANGED <<heap, dirty, wake, loop, on, executor>>

Reread ==
  /\ Doing(TheLoop, "reread")
  /\ LET a == held[TheLoop].auth
     IN loop' = [loop EXCEPT !.puts = At(a, NextCheck(auths[a], loop.lag))]
  /\ todo' = [todo EXCEPT ![TheLoop] = <<>>]
  /\ held' = [held EXCEPT ![TheLoop] = Nobody]
  /\ UNCHANGED <<auths, heap, dirty, wake, jobs, on, executor>>

\* The send blocks while the buffer is full
SendJob ==
  /\ Doing(TheLoop, "send") /\ Len(jobs) < JobBuffer
  /\ jobs' = Append(jobs, held[TheLoop])
  /\ todo' = [todo EXCEPT ![TheLoop] = <<>>]
  /\ held' = [held EXCEPT ![TheLoop] = Nobody]
  /\ UNCHANGED <<auths, heap, dirty, wake, loop, on, executor>>

\* applyDirty: drainDirty, then one auth after the other
Drain ==
  /\ In("drain") \/ (In("due") /\ loop.batch = {})
  /\ loop' = [loop EXCEPT !.phase = "apply", !.batch = dirty]
  /\ dirty' = {}
  /\ UNCHANGED <<auths, heap, wake, jobs, held, todo, on, executor>>

Apply(a) ==
  /\ In("apply") /\ a \in loop.batch
  /\ loop' = [loop EXCEPT !.batch = @ \ {a}, !.puts = At(a, NextCheck(auths[a], loop.lag))]
  /\ UNCHANGED <<auths, heap, dirty, wake, jobs, held, todo, on, executor>>

EndRound ==
  /\ In("apply") /\ loop.batch = {}
  /\ loop' = [loop EXCEPT !.phase = "select", !.lag = 0]
  /\ UNCHANGED <<auths, heap, dirty, wake, jobs, held, todo, on, executor>>

-----------------------------------------------------------------------------
(* Workers.  refreshAuth clones the auth, asks upstream without a lock, and *)
(* writes the result; the worker reschedules the auth once more.            *)

TakeJob(w) ==
  /\ todo[w] = <<>> /\ jobs # <<>>
  /\ LET job == Head(jobs)
         clone == [auth |-> job.auth, guard |-> job.guard, disabled |-> auths[job.auth].disabled]
     IN IF on /\ executor
        THEN todo' = [todo EXCEPT ![w] = <<"refresh">>] /\ held' = [held EXCEPT ![w] = clone]
        ELSE todo' = [todo EXCEPT ![w] = Reschedule] /\ held' = [held EXCEPT ![w] = [auth |-> job.auth]]
  /\ jobs' = Tail(jobs)
  /\ UNCHANGED <<auths, heap, dirty, wake, loop, on, executor>>

RefreshFails(w) ==
  /\ Doing(w, "refresh")
  /\ LET a == held[w].auth
     IN Write(w, a, [auths[a] EXCEPT !.wait = FailureBackoff], Reschedule \o Reschedule, [auth |-> a])
  /\ UNCHANGED <<heap, dirty, wake, loop, on, executor>>

\* The clone, with a token that lives for left more ticks, replaces the entry
RefreshSucceeds(w, left) ==
  /\ Doing(w, "refresh")
  /\ LET updated == [disabled |-> held[w].disabled, wait |-> Zero, left |-> left]
         wait == IF ShouldRefresh(updated, 0) THEN IneffectiveBackoff ELSE Zero
     IN Write(w, held[w].auth, [updated EXCEPT !.wait = wait], Reschedule \o Reschedule, [auth |-> held[w].auth])
  /\ UNCHANGED <<heap, dirty, wake, loop, on, executor>>

-----------------------------------------------------------------------------
Down(n, floor) == IF n > floor THEN n - 1 ELSE n
AuthLater(auth) == [auth EXCEPT !.wait = Down(@, Zero), !.left = Down(@, 0)]
FlightLater(f) == [f EXCEPT !.guard = Down(@, 0)]

\* Time passes for every timer; a round lasts at most MaxLag
Tick ==
  /\ loop.phase \in {"off", "rebuild", "select"} \/ loop.lag < MaxLag
  /\ auths' = [a \in DOMAIN auths |-> AuthLater(auths[a])]
  /\ heap' = [a \in DOMAIN heap |-> Down(heap[a], 0)]
  /\ jobs' = [i \in 1 .. Len(jobs) |-> FlightLater(jobs[i])]
  /\ loop' = [loop EXCEPT !.lag = IF loop.phase \in {"off", "rebuild", "select"} THEN 0 ELSE @ + 1,
                          !.puts = [a \in DOMAIN @ |-> IF @[a] = Gone THEN Gone ELSE Down(@[a], 0)]]
  /\ held' = [g \in Goroutines |->
                IF InFlight(g) THEN FlightLater(held[g]) ELSE held[g]]
  /\ UNCHANGED <<dirty, wake, todo, on, executor>>

LoopStep ==
  \/ Publish \/ Rebuild \/ Put \/ MarkPending \/ Reread \/ SendJob
  \/ Drain \/ EndRound
  \/ \E a \in Auths : HandleDue(a) \/ Apply(a)
Select == WakeUp \/ TimerFires
WorkerStep(w) ==
  \/ TakeJob(w) \/ RefreshFails(w)
  \/ \E left \in 0 .. Life : RefreshSucceeds(w, left)
Post(g) == QueueDirty(g) \/ PostWake(g)
CallerStep(c) == \E a \in Auths : Store(c, a)

Next ==
  \/ LoopStep \/ Select \/ Tick \/ Reload
  \/ \E w \in Workers : WorkerStep(w)
  \/ \E c \in Callers : CallerStep(c)
  \/ \E g \in Goroutines : Post(g)

\* Go's select chooses among its ready cases at random, so neither starves; every
\* other step of a goroutine only waits for the scheduler or for the upstream's answer.
Spec ==
  /\ Init /\ [][Next]_vars
  /\ WF_vars(LoopStep) /\ SF_vars(WakeUp) /\ SF_vars(TimerFires) /\ WF_vars(Tick)
  /\ \A w \in Workers : WF_vars(WorkerStep(w))
  /\ \A g \in Goroutines : WF_vars(Post(g))

-----------------------------------------------------------------------------
\* Nothing is looked at too late.  Whenever an auth that wants to be looked at is not
\* about to be added to the dirty set, in it, or in the loop's hands, the heap holds it
\* with a time no later than the one its entry now asks for, or than an interval from now
\* if it was due while there was no executor.
OnItsWay(a) ==
  \/ a \in dirty \cup loop.batch \cup DOMAIN loop.puts
  \/ \E g \in Goroutines : held[g].auth = a /\ \E i \in 1 .. Len(todo[g]) : todo[g][i] \in {"add", "mark", "reread"}
NeverLate ==
  loop.phase \notin {"off", "rebuild"} =>
    \A a \in DOMAIN auths :
      LET next == NextCheck(auths[a], 0)
      IN next # Gone /\ ~OnItsWay(a) => 
        /\ a \in DOMAIN heap
        /\ heap[a] <= next \/ (next = 0 /\ heap[a] <= Interval)

\* While the loop sleeps on a change, a wake-up is there or about to be posted.
NoLostWake ==
  loop.phase = "select" /\ dirty # {} =>
    wake \/ \E g \in Goroutines : todo[g] # <<>> /\ Head(todo[g]) = "wake"

\* The pending mark keeps an auth from being refreshed twice at a time: of all its
\* refreshes that wait or run, at most one is younger than the back-off of the mark and
\* has not had its entry written over.
Guarded(a) ==
  Cardinality({g \in Goroutines : InFlight(g) /\ held[g].auth = a /\ held[g].guard > 0})
  + Cardinality({i \in 1 .. Len(jobs) : jobs[i].auth = a /\ jobs[i].guard > 0})
OneFreshRefresh == \A a \in Auths : Guarded(a) <= 1

\* A due auth is refreshed: unless the callers never stop writing auths, no auth stays
\* due for ever without a worker asking upstream.
Neglected(a) ==
  /\ a \in DOMAIN auths /\ on /\ executor
  /\ ~auths[a].disabled /\ auths[a].left <= Lead
  /\ ~\E w \in Workers : Doing(w, "refresh") /\ held[w].auth = a
EveryDueAuthIsRefreshed ==
  \A a \in Auths :
    []<>~Neglected(a) \/ []<><<\E c \in Callers : CallerStep(c)>>_vars
=============================================================================
