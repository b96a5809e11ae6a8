------------------------ MODULE GatewayWatcherProofs ------------------------
(***************************************************************************)
(* Proofs about GatewayRegistry and GatewayWatcher, for any contents,      *)
(* models, providers and capacities.                                       *)
(*                                                                         *)
(* The cached list: ListInv says when the marks lapse, as far as the cache *)
(* has to know, and is argued about the five operations of the registry.   *)
(*                                                                         *)
(* The updates: WayInv follows an auth's updates along their way, which is *)
(* the pending map, then the line (what is queued and what is batched      *)
(* behind it), then the service's job.  The last of them that is under way *)
(* is the one that was queued last; if none is, it has been served.        *)
(*                                                                         *)
(* The file: FileInv says what the hash, the auth that is known and what   *)
(* was queued have to do with the file while events are handled, the       *)
(* directory is read and differences are held, as long as none of the four *)
(* races has occurred.                                                     *)
(*                                                                         *)
(* The references: CountInv says that the counts of a registration are the *)
(* mentions of its model; Accounts follows the shares of the one client    *)
(* that registers through the passes of RegisterClient.                    *)
(***************************************************************************)
EXTENDS GatewayWatcher, FiniteSetTheorems, SequenceTheorems, WellFoundedInduction, TLAPS

-----------------------------------------------------------------------------
(* The list of available models.                                            *)

Registration == [count : Int, providers : [Providers -> Int], quota : [Clients -> Nat],
                 suspended : [Clients -> {"no", "other", "quota"}]]

Registered ==
  /\ models \in [Models -> Registration]
  /\ clientModels \in [Clients -> Seq(Models)]

CacheOK == cache \in [valid : BOOLEAN, list : SUBSET Models, expires : Nat]

\* The cache expires no later than the first mark lapses.
ExpiresInTime ==
  cache.valid =>
    \A m \in Models, c \in Clients :
      models[m].quota[c] # 0 => cache.expires > 0 /\ cache.expires <= models[m].quota[c]

ListInv == Registered /\ CacheOK /\ ExpiresInTime /\ CachedListIsCurrent

\* A nonempty set of natural numbers has a least element.
LEMMA MinFacts ==
  ASSUME NEW S \in SUBSET Nat, S # {}
  PROVE  Min(S) \in S /\ \A x \in S : Min(S) <= x
<1> DEFINE R == {e \in Nat \X Nat : e[1] < e[2]}
<1>1. OpToRel(<, Nat) = R
  BY DEF OpToRel
<1>2. IsWellFoundedOn(R, Nat)
  BY <1>1, NatLessThanWellFounded, Zenon
<1>3. \A x, y \in Nat : <<y, x>> \in R <=> y < x
  OBVIOUS
<1> HIDE DEF R
<1>4. PICK x \in S : \A y \in S : ~(<<y, x>> \in R)
  BY <1>2, WFMin
<1>5. ASSUME NEW y \in S PROVE x <= y
  <2>1. x \in Nat /\ y \in Nat
    OBVIOUS
  <2>2. ~(y < x)
    BY <1>3, <1>4, <2>1
  <2> QED BY <2>1, <2>2
<1> QED BY <1>5 DEF Min

\* A client mentions a model a number of times.
LEMMA OccurrencesType ==
  ASSUME NEW list \in Seq(Models), NEW m
  PROVE  Occurrences(list, m) \in Nat
<1>1. DOMAIN list = 1..Len(list) /\ Len(list) \in Nat
  BY LenProperties
<1>2. IsFiniteSet(1..Len(list))
  BY <1>1, FS_Interval
<1>3. IsFiniteSet({i \in DOMAIN list : list[i] = m})
  BY <1>1, <1>2, FS_Subset
<1> QED BY <1>3, FS_CardinalityType DEF Occurrences

LEMMA ProviderSet ==
  ASSUME NEW p \in [Providers -> Int], NEW q, NEW e, q \in Providers => e \in Int
  PROVE  [p EXCEPT ![q] = e] \in [Providers -> Int]
<1> QED OBVIOUS

LEMMA ProviderLowered ==
  ASSUME NEW p \in [Providers -> Int], NEW q, NEW n \in Int
  PROVE  [p EXCEPT ![q] = Less(@, n)] \in [Providers -> Int]
<1>1. q \in Providers => Less(p[q], n) \in Int
  BY DEF Less
<1> QED BY <1>1, ProviderSet

\* What registering and unregistering does to a registration leaves it one.
LEMMA RegistrationsKept ==
  ASSUME NEW reg \in Registration, NEW c \in Clients, NEW from, NEW to, NEW n \in Nat
  PROVE  /\ Gained(reg, from, n) \in Registration /\ Dropped(reg, c, from, n) \in Registration
         /\ Moved(reg, from, to, n) \in Registration /\ Lifted(reg, c) \in Registration
<1> DEFINE more == [reg.providers EXCEPT ![from] = @ + n]
           less == [reg.providers EXCEPT ![from] = Less(@, n)]
           moved == [less EXCEPT ![to] = @ + n]
           up == reg.count + n
           down == reg.count - n
<1>1. reg.providers \in [Providers -> Int] /\ up \in Int /\ down \in Int
  BY DEF Registration
<1>2. more \in [Providers -> Int]
  <2>1. from \in Providers => reg.providers[from] + n \in Int
    BY <1>1
  <2> QED BY <1>1, <2>1, ProviderSet
<1>3. less \in [Providers -> Int]
  BY <1>1, ProviderLowered
<1>4. moved \in [Providers -> Int]
  <2> HIDE DEF less
  <2>1. to \in Providers => less[to] + n \in Int
    BY <1>3
  <2> QED BY <1>3, <2>1, ProviderSet
<1>5. Lifted(reg, c) \in Registration /\ Lifted(reg, c).count = reg.count /\ Lifted(reg, c).providers = reg.providers
  BY DEF Lifted, Registration
<1>6. NoRegistration \in Registration
  BY DEF NoRegistration, Registration
<1>7. Gained(reg, from, n) = [reg EXCEPT !.count = up, !.providers = more]
  BY DEF Gained
<1>8. Moved(reg, from, to, n) = [reg EXCEPT !.providers = moved]
  BY DEF Moved
<1>9. Dropped(reg, c, from, n) = IF n = 0 THEN reg ELSE IF reg.count <= n THEN NoRegistration
                                 ELSE [Lifted(reg, c) EXCEPT !.count = down, !.providers = less]
  BY <1>5 DEF Dropped
<1> HIDE DEF more, less, moved, up, down
<1>10. Gained(reg, from, n) \in Registration /\ Moved(reg, from, to, n) \in Registration
  BY <1>1, <1>2, <1>4, <1>7, <1>8 DEF Registration
<1>11. [Lifted(reg, c) EXCEPT !.count = down, !.providers = less] \in Registration
  BY <1>1, <1>3, <1>5 DEF Registration
<1> QED BY <1>5, <1>6, <1>9, <1>10, <1>11

LEMMA RegisterKeepsList ==
  ASSUME ListInv, NEW c \in Clients, NEW provider, NEW list \in Seq(Models), RegisterClient(c, provider, list)
  PROVE  ListInv'
<1>1. \A m \in Models : Reconciled(m, c, provider, list) \in Registration
  <2> SUFFICES ASSUME NEW m \in Models PROVE Reconciled(m, c, provider, list) \in Registration
    OBVIOUS
  <2> DEFINE old == Occurrences(clientModels[c], m)
             new == Occurrences(list, m)
             both == Min({old, new})
             placed == IF clientProvider[c] = provider THEN models[m]
                       ELSE Moved(models[m], clientProvider[c], provider, both)
             cut == Dropped(placed, c, clientProvider[c], Less(old, new))
             resized == Gained(cut, provider, Less(new, old))
  <2>1. Reconciled(m, c, provider, list) = IF new > 0 THEN Lifted(resized, c) ELSE resized
    BY DEF Reconciled
  <2>2. models[m] \in Registration /\ old \in Nat /\ new \in Nat
    BY OccurrencesType DEF ListInv, Registered
  <2> HIDE DEF old, new
  <2>3. both \in Nat /\ Less(old, new) \in Nat /\ Less(new, old) \in Nat
    <3>1. both \in {old, new}
      BY <2>2, MinFacts
    <3> QED BY <2>2, <3>1 DEF Less
  <2> HIDE DEF both
  <2>4. placed \in Registration
    BY <2>2, <2>3, RegistrationsKept
  <2> HIDE DEF placed
  <2>5. cut \in Registration
    BY <2>3, <2>4, RegistrationsKept
  <2> HIDE DEF cut
  <2>6. resized \in Registration
    BY <2>3, <2>5, RegistrationsKept
  <2> HIDE DEF resized
  <2>7. Lifted(resized, c) \in Registration
    BY <2>6, RegistrationsKept
  <2> QED BY <2>1, <2>6, <2>7
<1>2. \A m \in Models : Gained(models[m], provider, Occurrences(list, m)) \in Registration
  BY RegistrationsKept, OccurrencesType DEF ListInv, Registered
<1>3. Registered'
  BY <1>1, <1>2 DEF RegisterClient, ListInv, Registered
<1> QED BY <1>3 DEF RegisterClient, ListInv, CacheOK, NoCache, ExpiresInTime, CachedListIsCurrent

LEMMA UnregisterKeepsList ==
  ASSUME ListInv, NEW c \in Clients, UnregisterClient(c)
  PROVE  ListInv'
<1>1. \A m \in Models :
        Dropped(models[m], c, clientProvider[c], Occurrences(clientModels[c], m)) \in Registration
  BY RegistrationsKept, OccurrencesType DEF ListInv, Registered
<1>2. <<>> \in Seq(Models)
  BY EmptySeq
<1>3. Registered'
  BY <1>1, <1>2 DEF UnregisterClient, ListInv, Registered
<1> QED BY <1>3 DEF UnregisterClient, ListInv, CacheOK, NoCache, ExpiresInTime, CachedListIsCurrent

LEMMA MarkedType ==
  ASSUME NEW reg \in Registration, NEW c \in Clients,
         NEW call \in {"exceed", "clear", "resume", "suspend", "pause"}
  PROVE  Marked(reg, c, call) \in Registration
<1> QED BY RegistryConstants DEF Marked, Registration

\* A mark that changes nothing keeps the cache; every other drops it.
LEMMA MarkKeepsList ==
  ASSUME ListInv, NEW c \in Clients, NEW m \in Models,
         NEW call \in {"exceed", "clear", "resume", "suspend", "pause"}, Mark(c, m, call)
  PROVE  ListInv'
<1>1. Marked(models[m], c, call) \in Registration
  BY MarkedType DEF ListInv, Registered
<1>2. Registered'
  BY <1>1 DEF Mark, ListInv, Registered
<1>3. CASE cache' = NoCache
  BY <1>2, <1>3 DEF ListInv, CacheOK, NoCache, ExpiresInTime, CachedListIsCurrent
<1>4. CASE cache' = cache /\ models' = models
  BY <1>2, <1>4 DEF ListInv, CacheOK, ExpiresInTime, CachedListIsCurrent, AvailableModels, Listed,
                    Exists, OverQuota, SuspendedFor
<1>5. cache' = NoCache \/ (cache' = cache /\ models' = models)
  BY DEF Mark, ListInv, Registered
<1> QED BY <1>3, <1>4, <1>5

LEMMA ListingKeepsList ==
  ASSUME ListInv, GetAvailableModels
  PROVE  ListInv'
<1> DEFINE lapses == {models[m].quota[c] : m \in Models, c \in Clients} \ {0}
<1>1. lapses \in SUBSET Nat
  BY DEF ListInv, Registered, Registration
<1>2. FirstLapse = IF lapses = {} THEN 0 ELSE Min(lapses)
  BY DEF FirstLapse
<1>3. \A m \in Models, c \in Clients : models[m].quota[c] # 0 => models[m].quota[c] \in lapses
  OBVIOUS
<1>4. 0 \notin lapses
  OBVIOUS
<1> HIDE DEF lapses
<1>5. /\ FirstLapse \in Nat
      /\ \A x \in lapses : FirstLapse > 0 /\ FirstLapse <= x
  <2>1. CASE lapses = {}
    BY <1>2, <2>1
  <2>2. CASE lapses # {}
    <3>1. Min(lapses) \in lapses /\ \A x \in lapses : Min(lapses) <= x
      BY <1>1, <2>2, MinFacts
    <3>2. Min(lapses) \in Nat /\ Min(lapses) # 0
      BY <1>1, <1>4, <3>1
    <3> QED BY <1>2, <2>2, <3>1, <3>2
  <2> QED BY <2>1, <2>2
<1>6. AvailableModels \in SUBSET Models /\ AvailableModels' = AvailableModels
  BY DEF AvailableModels, GetAvailableModels, Listed, Exists, OverQuota, SuspendedFor
<1>7. Registered' /\ CacheOK' /\ CachedListIsCurrent'
  BY <1>5, <1>6 DEF GetAvailableModels, ListInv, Registered, CacheOK, CachedListIsCurrent
<1>8. ExpiresInTime'
  BY <1>3, <1>5 DEF GetAvailableModels, ExpiresInTime
<1> QED BY <1>7, <1>8 DEF ListInv

\* Unless the cache expires now, no mark of those it counts lapses.
LEMMA TickKeepsList ==
  ASSUME ListInv, Tick
  PROVE  ListInv'
<1>1. /\ Registered'
      /\ \A m \in Models : /\ models'[m].count = models[m].count
                           /\ models'[m].suspended = models[m].suspended
                           /\ \A c \in Clients : models'[m].quota[c] = Less(models[m].quota[c], 1)
  <2> SUFFICES ASSUME NEW m \in Models
               PROVE  /\ models'[m] \in Registration
                      /\ models'[m].count = models[m].count
                      /\ models'[m].suspended = models[m].suspended
                      /\ \A c \in Clients : models'[m].quota[c] = Less(models[m].quota[c], 1)
    BY DEF Tick, ListInv, Registered
  <2> DEFINE quota == [c \in Clients |-> Less(models[m].quota[c], 1)]
  <2>1. models[m] \in Registration
    BY DEF ListInv, Registered
  <2>2. quota \in [Clients -> Nat] /\ \A c \in Clients : quota[c] = Less(models[m].quota[c], 1)
    BY <2>1 DEF Registration, Less
  <2>3. models'[m] = [models[m] EXCEPT !.quota = quota]
    BY <2>1 DEF Tick
  <2> HIDE DEF quota
  <2> QED BY <2>1, <2>2, <2>3 DEF Registration
<1>2. CASE cache.expires = 1
  BY <1>1, <1>2 DEF Tick, ListInv, CacheOK, NoCache, ExpiresInTime, CachedListIsCurrent
<1>3. CASE cache.expires # 1
  <2>1. /\ cache'.valid = cache.valid /\ cache'.list = cache.list
        /\ cache'.expires = Less(cache.expires, 1) /\ CacheOK'
    BY <1>3 DEF Tick, ListInv, CacheOK, Less
  <2>2. ASSUME cache.valid, NEW m \in Models, NEW c \in Clients
        PROVE  /\ models[m].quota[c] > 0 <=> models'[m].quota[c] > 0
               /\ models'[m].quota[c] # 0 => cache'.expires > 0 /\ cache'.expires <= models'[m].quota[c]
    <3>1. models[m].quota[c] \in Nat /\ cache.expires \in Nat
      BY DEF ListInv, Registered, Registration, CacheOK
    <3>2. models[m].quota[c] # 0 => cache.expires > 0 /\ cache.expires <= models[m].quota[c]
      BY <2>2 DEF ListInv, ExpiresInTime
    <3> QED BY <1>1, <1>3, <2>1, <3>1, <3>2 DEF Less
  <2>3. ExpiresInTime'
    BY <2>1, <2>2 DEF ExpiresInTime
  <2>4. ASSUME cache.valid PROVE AvailableModels' = AvailableModels
    <3>1. \A m \in Models : /\ OverQuota(m)' = OverQuota(m)
                            /\ \A reason \in {"other", "quota"} : SuspendedFor(m, reason)' = SuspendedFor(m, reason)
                            /\ Exists(m)' = Exists(m)
      BY <1>1, <2>2, <2>4 DEF OverQuota, SuspendedFor, Exists
    <3>2. \A m \in Models : Listed(m)' = Listed(m)
      BY <1>1, <3>1 DEF Listed
    <3> QED BY <3>2 DEF AvailableModels
  <2>5. CachedListIsCurrent'
    BY <2>1, <2>4 DEF ListInv, CachedListIsCurrent
  <2> QED BY <1>1, <2>1, <2>3, <2>5 DEF ListInv
<1> QED BY <1>2, <1>3
-----------------------------------------------------------------------------
(* What the goroutines hold, and what is under way.                         *)

Values == Auths \cup {None}
Updates == UNION {[D -> Values] : D \in SUBSET Clients}
Steps == {"idle", "stat", "compare", "reopen", "apply", "forget", "rescan", "snapshot", "merge",
          "check", "register", "unregister", "dispatch"}
Holding == [step : Steps, read : Values, force : BOOLEAN, updates : Updates]
Entry == [id : Clients, auth : Values]
Call == [call : {"answer", "exceed", "clear", "resume", "suspend", "pause"},
         client : Clients, model : Models]

WatcherOK ==
  /\ file \in Values /\ runtime \in Values
  /\ at \in [Goroutines -> Holding]
  /\ last \in [Clients -> Values]

ServiceOK ==
  /\ pending \in [order : Seq(Clients), updates : Updates]
  /\ batch \in Seq(Entry) /\ queue \in Seq(Entry)
  /\ job \in [step : {"idle", "models", "disable"}, id : Clients \cup {None}, auth : Values]
  /\ managed \in [Clients -> [auth : Values, on : BOOLEAN]]
  /\ clientModels \in [Clients -> Seq(Models)]
  /\ clientProvider \in [Clients -> Providers \cup {None}]
  /\ late \in Seq(Call)

\* The service has done the first half of the update it applies.
JobHalfDone ==
  /\ job.step = "models" =>
       job.id \in Clients /\ job.auth \in Auths /\ managed[job.id] = [auth |-> job.auth, on |-> TRUE]
  /\ job.step = "disable" =>
       job.id \in Clients /\ job.auth = None /\ clientModels[job.id] = <<>>

TypeInv == WatcherOK /\ ServiceOK /\ JobHalfDone

LEMMA UpdatesFacts ==
  /\ NoUpdates \in Updates
  /\ \A D \in SUBSET Clients : \A u \in [D -> Values] : u \in Updates
  /\ \A u \in Updates : /\ DOMAIN u \subseteq Clients /\ u \in [DOMAIN u -> Values]
                       /\ \A c \in DOMAIN u : u[c] \in Values
<1>1. \A D \in SUBSET Clients : \A u \in [D -> Values] : u \in Updates
  BY DEF Updates
<1>2. NoUpdates \in [{} -> Values]
  BY DEF NoUpdates
<1>3. NoUpdates \in Updates
  BY <1>1, <1>2
<1>4. ASSUME NEW u \in Updates
      PROVE  /\ DOMAIN u \subseteq Clients /\ u \in [DOMAIN u -> Values]
             /\ \A c \in DOMAIN u : u[c] \in Values
  <2>1. PICK D \in SUBSET Clients : u \in [D -> Values]
    BY DEF Updates
  <2>2. DOMAIN u = D
    BY <2>1
  <2> QED BY <2>1, <2>2
<1> QED BY <1>1, <1>3, <1>4

LEMMA CoalescedType ==
  ASSUME NEW old \in Updates, NEW new \in Updates
  PROVE  Coalesced(old, new) \in Updates
<1>1. Coalesced(old, new) \in [DOMAIN old \cup DOMAIN new -> Values]
  BY UpdatesFacts DEF Coalesced
<1>2. DOMAIN old \cup DOMAIN new \in SUBSET Clients
  BY UpdatesFacts
<1> QED BY <1>1, <1>2, UpdatesFacts

LEMMA RestingType ==
  /\ Resting \in Holding
  /\ \A updates \in Updates : [Resting EXCEPT !.step = "dispatch", !.updates = updates] \in Holding
  /\ \A force \in BOOLEAN : [Resting EXCEPT !.step = "snapshot", !.force = force] \in Holding
<1>1. NoUpdates \in Updates /\ None \in Values
  BY UpdatesFacts DEF Values
<1> HIDE DEF NoUpdates, Updates, Values
<1>2. Resting \in Holding
  BY <1>1 DEF Resting, Holding, Steps
<1>3. \A updates \in Updates : [Resting EXCEPT !.step = "dispatch", !.updates = updates] \in Holding
  BY <1>1 DEF Resting, Holding, Steps
<1>4. \A force \in BOOLEAN : [Resting EXCEPT !.step = "snapshot", !.force = force] \in Holding
  BY <1>1 DEF Resting, Holding, Steps
<1> QED BY <1>2, <1>3, <1>4

\* The ways in which a goroutine changes what it holds.
LEMMA AtFacts ==
  ASSUME WatcherOK, NEW g \in Goroutines, NEW step \in Steps, NEW updates \in Updates,
         Go(g, step) \/ Read(g, step) \/ Rest(g) \/ Hold(g, updates)
  PROVE  at' \in [Goroutines -> Holding]
<1>1. CASE Go(g, step)
  BY <1>1 DEF Go, WatcherOK, Holding
<1>2. CASE Read(g, step)
  BY <1>2 DEF Read, WatcherOK, Holding
<1>3. CASE Rest(g)
  BY <1>3, RestingType DEF Rest, WatcherOK
<1>4. CASE Hold(g, updates)
  BY <1>4, RestingType DEF Hold, WatcherOK
<1> QED BY <1>1, <1>2, <1>3, <1>4

LEMMA GoKeeps ==
  ASSUME WatcherOK, NEW g \in Goroutines, NEW step \in Steps, Go(g, step)
  PROVE  at' \in [Goroutines -> Holding]
<1> QED BY AtFacts, UpdatesFacts

LEMMA ReadKeeps ==
  ASSUME WatcherOK, NEW g \in Goroutines, NEW step \in Steps, Read(g, step)
  PROVE  at' \in [Goroutines -> Holding]
<1> QED BY AtFacts, UpdatesFacts

LEMMA RestKeeps ==
  ASSUME WatcherOK, NEW g \in Goroutines, Rest(g)
  PROVE  at' \in [Goroutines -> Holding]
<1>1. "idle" \in Steps
  BY DEF Steps
<1> QED BY <1>1, AtFacts, UpdatesFacts

LEMMA HoldKeeps ==
  ASSUME WatcherOK, NEW g \in Goroutines, NEW updates \in Updates, Hold(g, updates)
  PROVE  at' \in [Goroutines -> Holding]
<1>1. "idle" \in Steps
  BY DEF Steps
<1> QED BY <1>1, AtFacts

\* The steps before the pending map: of the environment, the watcher's goroutines
\* and the relay's callbacks.
FindOut ==
  \/ \E content \in Contents : WriteFile(content)
  \/ RemoveFile \/ WindowEnds \/ Connect \/ Disconnect
  \/ \E force, affected \in BOOLEAN : ReloadConfig(force, affected)
  \/ EventStep \/ ReloadStep \/ RelayStep

LEMMA FindOutKeepsWatcher ==
  ASSUME WatcherOK, FindOut
  PROVE  WatcherOK'
<1>0. /\ "events" \in Goroutines /\ "reload" \in Goroutines
      /\ "connect" \in Goroutines /\ "disconnect" \in Goroutines
      /\ File \in Clients /\ Relay \in Clients
      /\ None \in Values /\ Contents \subseteq Values /\ RelayAuth \in Values
  BY WatcherConstants DEF Goroutines, Values, Auths
<1>a. \A c \in Clients : \A v \in Values : [d \in {c} |-> v] \in Updates
  BY UpdatesFacts
<1>b. \A g \in Goroutines : at[g].read \in Values
  BY DEF WatcherOK, Holding
<1>c. \A g \in Goroutines, step \in Steps : Go(g, step) \/ Read(g, step) => at' \in [Goroutines -> Holding]
  BY GoKeeps, ReadKeeps
<1>d. \A g \in Goroutines : Rest(g) => at' \in [Goroutines -> Holding]
  BY RestKeeps
<1>1. ASSUME NEW content \in Contents, WriteFile(content) PROVE WatcherOK'
  BY <1>0, <1>1 DEF WriteFile, WatcherOK
<1>2. CASE RemoveFile
  BY <1>0, <1>2 DEF RemoveFile, WatcherOK
<1>3. CASE WindowEnds
  BY <1>3 DEF WindowEnds, WatcherOK
<1>4. CASE Connect
  BY <1>0, <1>4, <1>c DEF Steps, Connect, WatcherOK
<1>5. CASE Disconnect
  BY <1>0, <1>5, <1>c DEF Steps, Disconnect, WatcherOK
<1>6. ASSUME NEW force \in BOOLEAN, NEW affected \in BOOLEAN, ReloadConfig(force, affected) PROVE WatcherOK'
  BY <1>6, RestingType DEF ReloadConfig, WatcherOK
<1>7. CASE TakeWrite
  BY <1>0, <1>7, <1>c DEF Steps, TakeWrite, WatcherOK
<1>8. CASE TakeRemove
  BY <1>0, <1>8, <1>c DEF Steps, TakeRemove, WatcherOK
<1>9. CASE Stat
  BY <1>0, <1>9, <1>c DEF Steps, Stat, WatcherOK
<1>10. CASE Compare
  BY <1>0, <1>10, <1>c, <1>d DEF Steps, Compare, WatcherOK
<1>11. CASE Reopen
  BY <1>0, <1>11, <1>c, <1>d DEF Steps, Reopen, WatcherOK
<1>12. CASE Apply
  <2>1. Changed(File, at["events"].read) \in Updates
    BY <1>0, <1>a, <1>b, UpdatesFacts DEF Changed
  <2> QED BY <1>0, <1>12, <2>1, HoldKeeps, <1>d DEF Apply, WatcherOK
<1>13. CASE Forget
  <2>1. [c \in {File} |-> None] \in Updates
    BY <1>0, <1>a
  <2> QED BY <1>0, <1>13, <2>1, HoldKeeps, <1>d DEF Forget, WatcherOK
<1>14. CASE Rescan
  BY <1>0, <1>14, <1>c DEF Steps, Rescan, WatcherOK
<1>15. CASE Snapshot
  BY <1>0, <1>15, <1>c DEF Steps, Snapshot, WatcherOK
<1>16. CASE Merge
  <2> DEFINE due == {c \in Clients : Seen(c) # known[c] \/ (at["reload"].force /\ Seen(c) # None)}
             updates == [c \in due |-> Seen(c)]
  <2>1. \A c \in Clients : Seen(c) \in Values
    BY <1>0, <1>b DEF Seen, WatcherOK
  <2>2. due \in SUBSET Clients
    OBVIOUS
  <2>3. updates \in [due -> Values]
    BY <2>1, <2>2
  <2>4. updates \in Updates
    BY <2>2, <2>3, UpdatesFacts
  <2>5. Hold("reload", updates)
    BY <1>16 DEF Merge
  <2> HIDE DEF updates
  <2> QED BY <1>0, <1>16, <2>4, <2>5, HoldKeeps DEF Merge, WatcherOK
<1>17. CASE Check
  BY <1>0, <1>17, <1>c, <1>d DEF Steps, Check, WatcherOK
<1>18. ASSUME NEW g \in Goroutines, NEW step, NEW auth \in Values, Announce(g, step, auth) PROVE WatcherOK'
  <2>1. [c \in {Relay} |-> auth] \in Updates
    BY <1>0, <1>a
  <2> QED BY <1>18, <2>1, HoldKeeps DEF Announce, WatcherOK
<1> QED BY <1>0, <1>1, <1>2, <1>3, <1>4, <1>5, <1>6, <1>7, <1>8, <1>9, <1>10, <1>11, <1>12, <1>13,
           <1>14, <1>15, <1>16, <1>17, <1>18 DEF FindOut, EventStep, ReloadStep, RelayStep

\* They touch neither the service nor the registry.
LEMMA FindOutLeaves ==
  ASSUME FindOut
  PROVE  UNCHANGED <<serviceVars, registryVars, last>>
<1> QED BY DEF FindOut, WriteFile, RemoveFile, WindowEnds, Connect, Disconnect, ReloadConfig,
               EventStep, TakeWrite, TakeRemove, Stat, Compare, Reopen, Apply, Forget,
               ReloadStep, Rescan, Snapshot, Merge, RelayStep, Check, Announce
-----------------------------------------------------------------------------
(* From the watcher to the service.                                         *)

\* Some order of the auths that were not pending yet names each of them.
LEMMA FreshFacts ==
  ASSUME NEW S \in SUBSET Clients, NEW fresh \in SetToSeqs(S)
  PROVE  fresh \in Seq(Clients) /\ \A c \in S : \E i \in DOMAIN fresh : fresh[i] = c
<1> DEFINE k == Cardinality(S)
<1>1. /\ fresh \in [1..k -> S]
      /\ \A i, j \in 1..k : i # j => fresh[i] # fresh[j]
  BY DEF SetToSeqs
<1>2. {File, Relay} = Clients /\ File # Relay
  BY WatcherConstants
<1>3. S = {} \/ S = {File} \/ S = {Relay} \/ S = {File, Relay}
  BY <1>2
<1>4. Cardinality({}) = 0 /\ Cardinality({File}) = 1 /\ Cardinality({Relay}) = 1
  BY FS_EmptySet, FS_Singleton
<1>5. Cardinality({File, Relay}) = 2
  <2>1. IsFiniteSet({File}) /\ Relay \notin {File} /\ {File} \cup {Relay} = {File, Relay}
    BY <1>2, FS_Singleton
  <2> QED BY <1>4, <2>1, FS_AddElement
<1>6. k \in {0, 1, 2}
  BY <1>3, <1>4, <1>5
<1> HIDE DEF k
<1>7. fresh \in Seq(Clients)
  <2>1. k \in Nat /\ fresh \in [1..k -> Clients]
    BY <1>1, <1>6
  <2> QED BY <2>1, SeqDef
<1>8. CASE S = {}
  BY <1>7, <1>8
<1>9. CASE S = {File} \/ S = {Relay}
  <2>1. k = 1
    BY <1>4, <1>9 DEF k
  <2>2. 1 \in DOMAIN fresh /\ fresh[1] \in S
    BY <1>1, <2>1
  <2> QED BY <1>7, <1>9, <2>2
<1>10. CASE S = {File, Relay}
  <2>1. k = 2
    BY <1>5, <1>10 DEF k
  <2>2. {1, 2} \subseteq DOMAIN fresh /\ fresh[1] \in S /\ fresh[2] \in S /\ fresh[1] # fresh[2]
    BY <1>1, <2>1
  <2> QED BY <1>7, <1>10, <2>2
<1> QED BY <1>3, <1>8, <1>9, <1>10

\* The updates that wait in the channel, and behind it in the batch.
Line == queue \o batch

LEMMA JoinFacts ==
  ASSUME NEW q \in Seq(Entry), NEW b \in Seq(Entry)
  PROVE  /\ q \o b \in Seq(Entry) /\ Len(q \o b) = Len(q) + Len(b)
         /\ Len(q) \in Nat /\ Len(b) \in Nat
         /\ DOMAIN (q \o b) = 1..Len(q) + Len(b) /\ DOMAIN q = 1..Len(q) /\ DOMAIN b = 1..Len(b)
         /\ \A i \in 1..Len(q) + Len(b) : (q \o b)[i] = IF i <= Len(q) THEN q[i] ELSE b[i - Len(q)]
<1>1. /\ q \o b \in Seq(Entry) /\ Len(q \o b) = Len(q) + Len(b)
      /\ \A i \in 1..Len(q) + Len(b) : (q \o b)[i] = IF i <= Len(q) THEN q[i] ELSE b[i - Len(q)]
  BY ConcatProperties
<1>2. /\ Len(q) \in Nat /\ Len(b) \in Nat
      /\ DOMAIN (q \o b) = 1..Len(q \o b) /\ DOMAIN q = 1..Len(q) /\ DOMAIN b = 1..Len(b)
  BY <1>1, LenProperties
<1> QED BY <1>1, <1>2

LEMMA LineFacts ==
  ASSUME ServiceOK
  PROVE  /\ Line \in Seq(Entry) /\ Len(Line) = Len(queue) + Len(batch)
         /\ Len(queue) \in Nat /\ Len(batch) \in Nat
         /\ DOMAIN Line = 1..Len(queue) + Len(batch)
         /\ DOMAIN queue = 1..Len(queue) /\ DOMAIN batch = 1..Len(batch)
         /\ \A i \in DOMAIN Line : Line[i] = IF i <= Len(queue) THEN queue[i] ELSE batch[i - Len(queue)]
<1>1. batch \in Seq(Entry) /\ queue \in Seq(Entry)
  BY DEF ServiceOK
<1>2. Line = queue \o batch
  BY DEF Line
<1> QED BY <1>1, <1>2, JoinFacts

\* After a step that leaves q in the channel and b behind it
LEMMA NextLineFacts ==
  ASSUME NEW q \in Seq(Entry), NEW b \in Seq(Entry), queue' = q, batch' = b
  PROVE  /\ Line' \in Seq(Entry) /\ Len(Line') = Len(q) + Len(b)
         /\ Len(q) \in Nat /\ Len(b) \in Nat
         /\ DOMAIN Line' = 1..Len(q) + Len(b)
         /\ \A i \in DOMAIN Line' : Line'[i] = IF i <= Len(q) THEN q[i] ELSE b[i - Len(q)]
<1>1. Line' = q \o b
  BY DEF Line
<1> QED BY <1>1, JoinFacts

\* What each step does to the types of what is under way, and to the line.
LEMMA DispatchTypes ==
  ASSUME TypeInv, NEW g \in Goroutines, Dispatch(g)
  PROVE  TypeInv' /\ Line' = Line
<1>1. at[g].updates \in Updates /\ pending.updates \in Updates /\ pending.order \in Seq(Clients)
  BY DEF TypeInv, WatcherOK, ServiceOK, Holding
<1>2. PICK fresh \in SetToSeqs(DOMAIN at[g].updates \ DOMAIN pending.updates) :
        pending' = [order |-> pending.order \o fresh, updates |-> Coalesced(pending.updates, at[g].updates)]
  BY DEF Dispatch
<1>3. fresh \in Seq(Clients)
  BY <1>1, <1>2, UpdatesFacts, FreshFacts
<1>4. pending' \in [order : Seq(Clients), updates : Updates]
  BY <1>1, <1>2, <1>3, ConcatProperties, CoalescedType
<1>5. last' \in [Clients -> Values]
  BY <1>1, UpdatesFacts DEF Dispatch, TypeInv, WatcherOK
<1>6. at' \in [Goroutines -> Holding]
  BY RestKeeps DEF Dispatch, TypeInv
<1>7. UNCHANGED <<file, runtime, batch, queue, job, managed, late, clientModels, clientProvider>>
  BY DEF Dispatch, registryVars
<1> QED BY <1>4, <1>5, <1>6, <1>7 DEF TypeInv, WatcherOK, ServiceOK, JobHalfDone, Line

LEMMA BatchTypes ==
  ASSUME TypeInv, NextBatch, \A i \in DOMAIN pending.order : pending.order[i] \in DOMAIN pending.updates
  PROVE  TypeInv'
<1>1. pending.updates \in Updates /\ pending.order \in Seq(Clients)
  BY DEF TypeInv, ServiceOK
<1>2. DOMAIN pending.order = 1..Len(pending.order) /\ Len(pending.order) \in Nat
  BY <1>1, LenProperties
<1>3. \A i \in 1..Len(pending.order) : [id |-> pending.order[i], auth |-> pending.updates[pending.order[i]]] \in Entry
  BY <1>1, <1>2, UpdatesFacts DEF Entry
<1>4. batch' \in [1..Len(pending.order) -> Entry]
  BY <1>2, <1>3 DEF NextBatch
<1>5. batch' \in Seq(Entry)
  BY <1>2, <1>4, SeqDef
<1>6. pending' \in [order : Seq(Clients), updates : Updates]
  BY EmptySeq, UpdatesFacts DEF NextBatch
<1> QED BY <1>5, <1>6 DEF NextBatch, TypeInv, WatcherOK, ServiceOK, JobHalfDone, watcherVars, registryVars

LEMMA DeliverTypes ==
  ASSUME TypeInv, Deliver
  PROVE  TypeInv' /\ Line' = Line
<1>1. batch \in Seq(Entry) /\ queue \in Seq(Entry) /\ batch # <<>>
  BY DEF Deliver, TypeInv, ServiceOK
<1>2. /\ Head(batch) \in Entry /\ Tail(batch) \in Seq(Entry) /\ Len(Tail(batch)) = Len(batch) - 1
      /\ \A i \in 1..Len(Tail(batch)) : Tail(batch)[i] = batch[i + 1]
  BY <1>1, HeadTailProperties
<1>3. /\ queue' \in Seq(Entry) /\ Len(queue') = Len(queue) + 1
      /\ \A i \in 1..Len(queue) : queue'[i] = queue[i]
      /\ queue'[Len(queue) + 1] = Head(batch)
  BY <1>1, <1>2, AppendProperties DEF Deliver
<1>4. batch' \in Seq(Entry) /\ batch' = Tail(batch)
  BY <1>2 DEF Deliver
<1>5. ServiceOK' /\ TypeInv'
  BY <1>3, <1>4 DEF Deliver, TypeInv, WatcherOK, ServiceOK, JobHalfDone, watcherVars, registryVars
<1>6. Line' = Line
  <2>1. Head(batch) = batch[1] /\ Len(batch) \in Nat /\ Len(queue) \in Nat /\ Len(batch) > 0
    BY <1>1, EmptySeq, LenProperties
  <2>2. ServiceOK
    BY DEF TypeInv
  <2>5. /\ Line' \in Seq(Entry) /\ Len(Line') = Len(queue') + Len(Tail(batch))
        /\ DOMAIN Line' = 1..Len(queue') + Len(Tail(batch))
        /\ \A i \in DOMAIN Line' :
             Line'[i] = IF i <= Len(queue') THEN queue'[i] ELSE Tail(batch)[i - Len(queue')]
    BY <1>2, <1>3, <1>4, NextLineFacts
  <2>3. Len(Line') = Len(Line)
    BY <1>2, <1>3, <2>1, <2>2, <2>5, LineFacts
  <2>4. ASSUME NEW i \in 1..Len(Line) PROVE Line'[i] = Line[i]
    <3>1. /\ i \in Int /\ Len(Line) = Len(queue) + Len(batch)
          /\ Line[i] = IF i <= Len(queue) THEN queue[i] ELSE batch[i - Len(queue)]
      BY <2>2, <2>1, LineFacts
    <3>2. Line'[i] = IF i <= Len(queue) + 1 THEN queue'[i] ELSE Tail(batch)[i - (Len(queue) + 1)]
      <4>1. i \in DOMAIN Line'
        BY <1>2, <1>3, <2>1, <2>5, <3>1
      <4> QED BY <1>3, <2>5, <4>1
    <3>3. CASE i <= Len(queue)
      BY <1>3, <2>1, <3>1, <3>2, <3>3
    <3>4. CASE i = Len(queue) + 1
      BY <1>3, <2>1, <3>1, <3>2, <3>4
    <3>5. CASE i > Len(queue) + 1
      <4>1. i - (Len(queue) + 1) \in 1..Len(Tail(batch))
        BY <1>2, <2>1, <3>1, <3>5
      <4>2. (i - (Len(queue) + 1)) + 1 = i - Len(queue)
        BY <2>1, <3>1
      <4> QED BY <1>2, <2>1, <3>1, <3>2, <3>5, <4>1, <4>2
    <3> QED BY <2>1, <3>1, <3>3, <3>4, <3>5
  <2>6. Line \in Seq(Entry)
    BY <2>2, LineFacts
  <2> QED BY <2>3, <2>4, <2>5, <2>6, SeqEqual
<1> QED BY <1>5, <1>6

\* The service takes the update at the head of the line.
LEMMA TakeFacts ==
  ASSUME TypeInv, NEW step \in {"models", "disable"}, Take(step)
  PROVE  /\ Len(queue) > 0 /\ queue' \in Seq(Entry) /\ Len(queue') = Len(queue) - 1
         /\ \A i \in 1..Len(queue') : queue'[i] = queue[i + 1]
         /\ Head(queue) \in Entry /\ Head(queue) = queue[1]
         /\ job' = [step |-> step, id |-> Head(queue).id, auth |-> Head(queue).auth]
         /\ job.step = "idle"
<1>1. queue \in Seq(Entry) /\ queue # <<>>
  BY DEF Take, TypeInv, ServiceOK
<1>2. Len(queue) > 0 /\ Head(queue) = queue[1]
  BY <1>1, EmptySeq, LenProperties
<1> QED BY <1>1, <1>2, HeadTailProperties DEF Take

LEMMA AddTypes ==
  ASSUME TypeInv, AddOrUpdate
  PROVE  TypeInv'
<1>1. Take("models") /\ Head(queue).auth # None
  BY DEF AddOrUpdate
<1>2. /\ queue' \in Seq(Entry) /\ Head(queue) \in Entry
      /\ job' = [step |-> "models", id |-> Head(queue).id, auth |-> Head(queue).auth]
  BY <1>1, TakeFacts
<1>3. Head(queue).id \in Clients /\ Head(queue).auth \in Values /\ Head(queue).auth \in Auths
  BY <1>1, <1>2 DEF Entry, Values
<1>4. managed' = [managed EXCEPT ![Head(queue).id] = [auth |-> Head(queue).auth, on |-> TRUE]]
  BY DEF AddOrUpdate
<1>5. /\ managed' \in [Clients -> [auth : Values, on : BOOLEAN]]
      /\ managed'[Head(queue).id] = [auth |-> Head(queue).auth, on |-> TRUE]
  BY <1>3, <1>4 DEF TypeInv, ServiceOK
<1>6. job' \in [step : {"idle", "models", "disable"}, id : Clients \cup {None}, auth : Values]
  BY <1>2, <1>3
<1>7. JobHalfDone'
  BY <1>2, <1>3, <1>5 DEF JobHalfDone
<1> QED BY <1>2, <1>5, <1>6, <1>7 DEF AddOrUpdate, TypeInv, WatcherOK, ServiceOK, watcherVars, registryVars

LEMMA JobDoneType ==
  ASSUME JobDone
  PROVE  /\ job' \in [step : {"idle", "models", "disable"}, id : Clients \cup {None}, auth : Values]
         /\ job'.step = "idle"
<1> QED BY DEF JobDone, Values

LEMMA ModelsTypes ==
  ASSUME TypeInv, RegisterModels
  PROVE  /\ TypeInv' /\ job.id \in Clients /\ job.auth \in Auths
         /\ ModelsOf[job.auth] \in Seq(Models) /\ ProviderOf[job.auth] \in Providers
<1>1. /\ job.id \in Clients /\ job.auth \in Auths
      /\ ModelsOf[job.auth] \in Seq(Models) /\ ProviderOf[job.auth] \in Providers
  BY WatcherConstants DEF RegisterModels, TypeInv, JobHalfDone
<1>2. /\ clientModels' \in [Clients -> Seq(Models)]
      /\ clientProvider' \in [Clients -> Providers \cup {None}]
  BY <1>1 DEF RegisterModels, RegisterClient, TypeInv, ServiceOK
<1> QED BY <1>1, <1>2, JobDoneType DEF RegisterModels, TypeInv, WatcherOK, ServiceOK, JobHalfDone, watcherVars

LEMMA RemovalTypes ==
  ASSUME TypeInv, Removal
  PROVE  TypeInv' /\ Head(queue).id \in Clients
<1>1. Take("disable") /\ Head(queue).auth = None
  BY DEF Removal
<1>2. /\ queue' \in Seq(Entry) /\ Head(queue) \in Entry
      /\ job' = [step |-> "disable", id |-> Head(queue).id, auth |-> Head(queue).auth]
  BY <1>1, TakeFacts
<1>3. Head(queue).id \in Clients /\ Head(queue).auth \in Values
  BY <1>2 DEF Entry
<1>4. /\ clientModels' \in [Clients -> Seq(Models)] /\ clientModels'[Head(queue).id] = <<>>
      /\ clientProvider' \in [Clients -> Providers \cup {None}]
  BY <1>3, EmptySeq DEF Removal, UnregisterClient, TypeInv, ServiceOK
<1>5. job' \in [step : {"idle", "models", "disable"}, id : Clients \cup {None}, auth : Values]
  BY <1>2, <1>3
<1>6. JobHalfDone'
  BY <1>1, <1>2, <1>3, <1>4 DEF JobHalfDone
<1> QED BY <1>2, <1>3, <1>4, <1>5, <1>6 DEF Removal, TypeInv, WatcherOK, ServiceOK, watcherVars

LEMMA DisableTypes ==
  ASSUME TypeInv, Disable
  PROVE  TypeInv' /\ job.id \in Clients
<1>1. job.id \in Clients
  BY DEF Disable, TypeInv, JobHalfDone
<1>2. managed' \in [Clients -> [auth : Values, on : BOOLEAN]]
  BY <1>1 DEF Disable, TypeInv, ServiceOK
<1> QED BY <1>1, <1>2, JobDoneType DEF Disable, TypeInv, WatcherOK, ServiceOK, JobHalfDone, watcherVars,
                                       registryVars

\* The calls to the registry that a late result makes are those the registry has.
LEMMA CallsType ==
  ASSUME NEW c \in Clients, NEW m \in Models, NEW outcome \in {"ok", "quota", "refused"}
  PROVE  Calls(c, m, <<"answer">>) \in Seq(Call) /\ Calls(c, m, CallsFor(outcome)) \in Seq(Call)
<1>1. ASSUME NEW list \in Seq({"answer", "exceed", "clear", "resume", "suspend", "pause"})
      PROVE  Calls(c, m, list) \in Seq(Call)
  <2>1. DOMAIN list = 1..Len(list) /\ Len(list) \in Nat
    BY LenProperties
  <2>2. \A i \in 1..Len(list) : [call |-> list[i], client |-> c, model |-> m] \in Call
    BY <2>1 DEF Call
  <2>3. Calls(c, m, list) \in [1..Len(list) -> Call]
    BY <2>1, <2>2 DEF Calls
  <2> QED BY <2>1, <2>3, SeqDef
<1> DEFINE names == {"answer", "exceed", "clear", "resume", "suspend", "pause"}
<1>2. <<"answer">> \in Seq(names) /\ <<"suspend">> \in Seq(names)
  OBVIOUS
<1>3. <<"clear", "resume">> \in Seq(names) /\ <<"exceed", "pause">> \in Seq(names)
  OBVIOUS
<1>4. CallsFor(outcome) \in {<<"clear", "resume">>, <<"exceed", "pause">>, <<"suspend">>}
  BY DEF CallsFor
<1> QED BY <1>1, <1>2, <1>3, <1>4

\* Requests, readers and time leave the way of the updates alone.
LEMMA LateTypes ==
  ASSUME TypeInv,
         \/ \E c \in Clients, m \in Models : Send(c, m)
         \/ \E outcome \in {"ok", "quota", "refused"} : Answer(outcome)
         \/ MarkLate \/ ListModels \/ TimePasses
  PROVE  /\ TypeInv'
         /\ UNCHANGED <<pending, batch, queue, job, managed, clientModels, clientProvider, last>>
<1>1. late' \in Seq(Call)
  <2>1. ASSUME NEW c \in Clients, NEW m \in Models, Send(c, m) PROVE late' \in Seq(Call)
    BY <2>1, CallsType DEF Send
  <2>2. ASSUME NEW outcome \in {"ok", "quota", "refused"}, Answer(outcome) PROVE late' \in Seq(Call)
    <3>1. Head(late) \in Call
      BY <2>2, HeadTailProperties DEF Answer, TypeInv, ServiceOK
    <3>2. Head(late).client \in Clients /\ Head(late).model \in Models
      BY <3>1 DEF Call
    <3> QED BY <2>2, <3>2, CallsType DEF Answer
  <2>3. CASE MarkLate
    BY <2>3, HeadTailProperties DEF MarkLate, TypeInv, ServiceOK
  <2>4. CASE ListModels \/ TimePasses
    BY <2>4 DEF ListModels, TimePasses, serviceVars, TypeInv, ServiceOK
  <2> QED BY <2>1, <2>2, <2>3, <2>4
<1>2. UNCHANGED <<watcherVars, pending, batch, queue, job, managed, clientModels, clientProvider, last>>
  BY DEF Send, Answer, MarkLate, Mark, ListModels, GetAvailableModels, TimePasses, Tick, serviceVars, registryVars
<1> QED BY <1>1, <1>2 DEF TypeInv, WatcherOK, ServiceOK, JobHalfDone, watcherVars
-----------------------------------------------------------------------------
(* The last update on the way is the one that was queued last.              *)

Waiting(c) == c \in DOMAIN pending.updates
InLine(c) == \E i \in DOMAIN Line : Line[i].id = c

PendingIsLast ==
  /\ \A c \in DOMAIN pending.updates :
       pending.updates[c] = last[c] /\ \E i \in DOMAIN pending.order : pending.order[i] = c
  /\ \A i \in DOMAIN pending.order : pending.order[i] \in DOMAIN pending.updates

\* The last in the line for an auth, unless a newer one still waits
LineEndsInLast ==
  \A i \in DOMAIN Line :
    ~Waiting(Line[i].id) /\ (\A j \in DOMAIN Line : j > i => Line[j].id # Line[i].id)
      => Line[i].auth = last[Line[i].id]

JobIsLast ==
  job.step # "idle" /\ ~Waiting(job.id) /\ ~InLine(job.id) => job.auth = last[job.id]

ServedIsLast ==
  \A c \in Clients :
    ~Waiting(c) /\ ~InLine(c) /\ (job.step = "idle" \/ job.id # c) => Serves(c, last[c])

WayInv == PendingIsLast /\ LineEndsInLast /\ JobIsLast /\ ServedIsLast

LEMMA DispatchKeepsWay ==
  ASSUME TypeInv, WayInv, NEW g \in Goroutines, Dispatch(g)
  PROVE  WayInv'
<1> DEFINE new == at[g].updates
<1>1. new \in Updates /\ pending.updates \in Updates /\ pending.order \in Seq(Clients)
  BY DEF TypeInv, WatcherOK, ServiceOK, Holding
<1>2. PICK fresh \in SetToSeqs(DOMAIN new \ DOMAIN pending.updates) :
        pending' = [order |-> pending.order \o fresh, updates |-> Coalesced(pending.updates, new)]
  BY DEF Dispatch
<1>3. /\ fresh \in Seq(Clients)
      /\ \A c \in DOMAIN new \ DOMAIN pending.updates : \E i \in DOMAIN fresh : fresh[i] = c
      /\ \A i \in DOMAIN fresh : fresh[i] \in DOMAIN new
  <2>1. (DOMAIN new \ DOMAIN pending.updates) \in SUBSET Clients
    BY <1>1, UpdatesFacts
  <2> QED BY <1>2, <2>1, FreshFacts DEF SetToSeqs
<1>4. /\ last' = [c \in Clients |-> IF c \in DOMAIN new THEN new[c] ELSE last[c]]
      /\ DOMAIN new \subseteq Clients /\ DOMAIN pending.updates \subseteq Clients
      /\ last \in [Clients -> Values]
  BY <1>1, UpdatesFacts DEF Dispatch, TypeInv, WatcherOK
<1> HIDE DEF new
<1>5. /\ DOMAIN pending'.updates = DOMAIN pending.updates \cup DOMAIN new
      /\ \A c \in DOMAIN pending'.updates :
           pending'.updates[c] = IF c \in DOMAIN new THEN new[c] ELSE pending.updates[c]
  BY <1>2 DEF Coalesced
<1>6. /\ \A i \in DOMAIN pending.order : i \in DOMAIN pending'.order /\ pending'.order[i] = pending.order[i]
      /\ \A i \in DOMAIN fresh : \E j \in DOMAIN pending'.order : pending'.order[j] = fresh[i]
      /\ \A j \in DOMAIN pending'.order :
           \/ \E i \in DOMAIN pending.order : pending'.order[j] = pending.order[i]
           \/ \E i \in DOMAIN fresh : pending'.order[j] = fresh[i]
  <2> DEFINE old == pending.order
             joined == old \o fresh
  <2>1. /\ Len(old) \in Nat /\ Len(fresh) \in Nat /\ joined \in Seq(Clients)
        /\ Len(joined) = Len(old) + Len(fresh)
        /\ \A i \in 1..Len(old) + Len(fresh) :
             joined[i] = IF i <= Len(old) THEN old[i] ELSE fresh[i - Len(old)]
    BY <1>1, <1>3, ConcatProperties, LenProperties
  <2>2. DOMAIN old = 1..Len(old) /\ DOMAIN fresh = 1..Len(fresh) /\ DOMAIN joined = 1..Len(old) + Len(fresh)
    BY <1>1, <1>3, <2>1, LenProperties
  <2>3. pending'.order = joined
    BY <1>2
  <2> HIDE DEF old, joined
  <2>4. \A i \in DOMAIN old : i \in DOMAIN joined /\ joined[i] = old[i]
    BY <2>1, <2>2
  <2>5. \A i \in DOMAIN fresh : Len(old) + i \in DOMAIN joined /\ joined[Len(old) + i] = fresh[i]
    BY <2>1, <2>2
  <2>6. ASSUME NEW j \in DOMAIN joined
        PROVE  \/ \E i \in DOMAIN old : joined[j] = old[i]
               \/ \E i \in DOMAIN fresh : joined[j] = fresh[i]
    <3>1. CASE j <= Len(old)
      BY <2>1, <2>2, <3>1
    <3>2. CASE ~(j <= Len(old))
      <4>1. j - Len(old) \in DOMAIN fresh
        BY <2>1, <2>2, <3>2
      <4> QED BY <2>1, <2>2, <3>2, <4>1
    <3> QED BY <3>1, <3>2
  <2> QED BY <2>3, <2>4, <2>5, <2>6 DEF old
<1>7. PendingIsLast'
  <2>1. ASSUME NEW c \in DOMAIN pending'.updates
        PROVE  pending'.updates[c] = last'[c] /\ \E i \in DOMAIN pending'.order : pending'.order[i] = c
    <3>1. CASE c \in DOMAIN pending.updates
      BY <1>4, <1>5, <1>6, <2>1, <3>1 DEF WayInv, PendingIsLast
    <3>2. CASE c \notin DOMAIN pending.updates
      BY <1>3, <1>4, <1>5, <1>6, <2>1, <3>2
    <3> QED BY <3>1, <3>2
  <2>2. \A i \in DOMAIN pending'.order : pending'.order[i] \in DOMAIN pending'.updates
    BY <1>3, <1>5, <1>6 DEF WayInv, PendingIsLast
  <2> QED BY <2>1, <2>2 DEF PendingIsLast
<1>8. /\ Line' = Line /\ job' = job /\ UNCHANGED <<managed, clientModels, clientProvider>>
      /\ \A c : Waiting(c)' <=> Waiting(c) \/ c \in DOMAIN new
      /\ \A c \in Clients : c \notin DOMAIN new => last'[c] = last[c]
  BY <1>4, <1>5, DispatchTypes DEF Dispatch, Waiting, registryVars
<1>9. \A i \in DOMAIN Line : Line[i].id \in Clients
  <2>1. Line \in Seq(Entry)
    BY LineFacts DEF TypeInv
  <2>2. \A i \in DOMAIN Line : Line[i] \in Entry
    BY <2>1, ElementOfSeq, LenProperties
  <2> QED BY <2>2 DEF Entry
<1>10. LineEndsInLast'
  BY <1>8, <1>9 DEF WayInv, LineEndsInLast
<1>11. \A c : InLine(c)' <=> InLine(c)
  BY <1>8 DEF InLine
<1>12. JobIsLast'
  <2>1. job.step # "idle" => job.id \in Clients
    BY DEF TypeInv, ServiceOK, JobHalfDone
  <2> QED BY <1>8, <1>11, <2>1 DEF WayInv, JobIsLast
<1>13. ServedIsLast'
  BY <1>8, <1>11 DEF WayInv, ServedIsLast, Serves
<1> QED BY <1>7, <1>10, <1>12, <1>13 DEF WayInv

\* What was pending is now behind what was queued.
LEMMA BatchKeepsWay ==
  ASSUME TypeInv, WayInv, NextBatch
  PROVE  TypeInv' /\ WayInv'
<1> DEFINE order == pending.order
           entry(i) == [id |-> order[i], auth |-> pending.updates[order[i]]]
<1>1. TypeInv'
  BY BatchTypes DEF WayInv, PendingIsLast
<1>2. order \in Seq(Clients) /\ DOMAIN order = 1..Len(order) /\ Len(order) \in Nat
  BY LenProperties DEF TypeInv, ServiceOK
<1>3. /\ batch = <<>> /\ batch' = [i \in DOMAIN order |-> entry(i)]
      /\ pending'.updates = NoUpdates /\ pending'.order = <<>>
      /\ UNCHANGED <<queue, job, managed, clientModels, clientProvider, last>>
  BY DEF NextBatch, registryVars
<1>4. DOMAIN batch' = DOMAIN order /\ \A i \in DOMAIN order : batch'[i] = entry(i)
  BY <1>3
<1>5. Len(batch) = 0 /\ Len(batch') = Len(order)
  <2>1. batch' \in Seq(Entry)
    BY <1>1 DEF TypeInv, ServiceOK
  <2>2. DOMAIN batch' = 1..Len(batch') /\ Len(batch') \in Nat
    BY <2>1, LenProperties
  <2> QED BY <1>2, <1>3, <1>4, <2>2
<1>6. /\ Len(queue) \in Nat /\ DOMAIN Line = 1..Len(queue)
      /\ DOMAIN Line' = 1..Len(queue) + Len(order)
      /\ \A i \in 1..Len(queue) : Line[i] = queue[i]
      /\ \A i \in 1..Len(queue) + Len(order) :
           Line'[i] = IF i <= Len(queue) THEN queue[i] ELSE batch'[i - Len(queue)]
  <2>1. ServiceOK /\ ServiceOK' /\ queue' = queue
    BY <1>1, <1>3 DEF TypeInv
  <2>2. /\ DOMAIN Line = 1..Len(queue) /\ Len(queue) \in Nat
        /\ \A i \in 1..Len(queue) : Line[i] = queue[i]
    BY <1>5, <2>1, LineFacts
  <2>4. queue \in Seq(Entry) /\ batch' \in Seq(Entry)
    BY <2>1 DEF ServiceOK
  <2>3. /\ DOMAIN Line' = 1..Len(queue) + Len(order)
        /\ \A i \in 1..Len(queue) + Len(order) :
             Line'[i] = IF i <= Len(queue) THEN queue[i] ELSE batch'[i - Len(queue)]
    BY <1>5, <2>1, <2>4, NextLineFacts
  <2> QED BY <2>2, <2>3
<1>7. /\ \A i \in DOMAIN Line : i \in DOMAIN Line' /\ Line'[i] = Line[i] /\ i <= Len(queue)
      /\ \A i \in DOMAIN order : Len(queue) + i \in DOMAIN Line' /\ Line'[Len(queue) + i] = entry(i)
  <2> HIDE DEF order, entry
  <2> QED BY <1>2, <1>4, <1>6
<1>8. ASSUME NEW i \in DOMAIN Line'
      PROVE  \/ i \in DOMAIN Line
             \/ \E k \in DOMAIN order : Line'[i] = entry(k)
  <2> HIDE DEF order, entry
  <2>1. CASE i <= Len(queue)
    BY <1>2, <1>6, <2>1
  <2>2. CASE ~(i <= Len(queue))
    <3>1. i - Len(queue) \in DOMAIN order
      BY <1>2, <1>6, <2>2
    <3> QED BY <1>2, <1>4, <1>6, <2>2, <3>1
  <2> QED BY <2>1, <2>2
<1>9. \A c : ~Waiting(c)' /\ (InLine(c)' <=> InLine(c) \/ Waiting(c))
  <2> SUFFICES ASSUME NEW c PROVE ~Waiting(c)' /\ (InLine(c)' <=> InLine(c) \/ Waiting(c))
    OBVIOUS
  <2>1. ~Waiting(c)'
    BY <1>3 DEF Waiting, NoUpdates
  <2>2. InLine(c) => InLine(c)'
    BY <1>7 DEF InLine
  <2>3. Waiting(c) => InLine(c)'
    <3> SUFFICES ASSUME Waiting(c) PROVE InLine(c)'
      OBVIOUS
    <3>1. PICK k \in DOMAIN order : order[k] = c
      BY DEF Waiting, WayInv, PendingIsLast
    <3>2. Len(queue) + k \in DOMAIN Line' /\ Line'[Len(queue) + k] = entry(k)
      BY <1>7
    <3>3. entry(k).id = c
      BY <3>1
    <3> QED BY <3>2, <3>3 DEF InLine
  <2>4. InLine(c)' => InLine(c) \/ Waiting(c)
    BY <1>7, <1>8 DEF InLine, Waiting, WayInv, PendingIsLast
  <2> QED BY <2>1, <2>2, <2>3, <2>4
<1>10. PendingIsLast'
  BY <1>3 DEF PendingIsLast, NoUpdates
<1>11. LineEndsInLast'
  <2> SUFFICES ASSUME NEW i \in DOMAIN Line', \A j \in DOMAIN Line' : j > i => Line'[j].id # Line'[i].id
               PROVE  Line'[i].auth = last[Line'[i].id]
    BY <1>3 DEF LineEndsInLast
  <2>1. CASE i \in DOMAIN Line
    <3>1. ~Waiting(Line[i].id)
      <4> SUFFICES ASSUME Waiting(Line[i].id) PROVE FALSE
        OBVIOUS
      <4>1. PICK k \in DOMAIN order : order[k] = Line[i].id
        BY DEF Waiting, WayInv, PendingIsLast
      <4>2. Len(queue) + k \in DOMAIN Line' /\ Line'[Len(queue) + k].id = Line'[i].id
        <5>1. Len(queue) + k \in DOMAIN Line' /\ Line'[Len(queue) + k] = entry(k)
          BY <1>7
        <5>2. entry(k).id = Line[i].id /\ Line'[i] = Line[i]
          BY <1>7, <2>1, <4>1
        <5> QED BY <5>1, <5>2
      <4>3. Len(queue) + k > i
        <5> HIDE DEF order
        <5> QED BY <1>2, <1>6, <2>1
      <4> QED BY <4>2, <4>3
    <3>2. \A j \in DOMAIN Line : j > i => Line[j].id # Line[i].id
      BY <1>7, <2>1
    <3> QED BY <1>7, <2>1, <3>1, <3>2 DEF WayInv, LineEndsInLast
  <2>2. CASE \E k \in DOMAIN order : Line'[i] = entry(k)
    BY <2>2 DEF WayInv, PendingIsLast
  <2> QED BY <1>8, <2>1, <2>2
<1>12. JobIsLast' /\ ServedIsLast'
  BY <1>3, <1>9 DEF WayInv, JobIsLast, ServedIsLast, Serves
<1> QED BY <1>1, <1>10, <1>11, <1>12 DEF WayInv
\* Deliver moves an update within the line.
LEMMA LineUnchanged ==
  ASSUME WayInv, Line' = Line, UNCHANGED <<pending, job, managed, clientModels, clientProvider, last>>
  PROVE  WayInv'
<1>1. \A c : (Waiting(c)' <=> Waiting(c)) /\ (InLine(c)' <=> InLine(c))
  BY DEF Waiting, InLine
<1> QED BY <1>1 DEF WayInv, PendingIsLast, LineEndsInLast, JobIsLast, ServedIsLast, Serves

\* The line without its head, which the job holds now.
LEMMA TakeMoves ==
  ASSUME TypeInv, TypeInv', NEW step \in {"models", "disable"}, Take(step), batch' = batch
  PROVE  /\ Head(queue) = Line[1] /\ 1 \in DOMAIN Line
         /\ \A i \in DOMAIN Line' : i \in Nat /\ i + 1 \in DOMAIN Line /\ Line'[i] = Line[i + 1]
         /\ \A i \in DOMAIN Line : i = 1 \/ (i \in Nat /\ i - 1 \in DOMAIN Line' /\ Line'[i - 1] = Line[i])
<1>1. /\ Len(queue) > 0 /\ Len(queue') = Len(queue) - 1
      /\ \A i \in 1..Len(queue') : queue'[i] = queue[i + 1]
      /\ Head(queue) = queue[1]
  BY TakeFacts
<1>2. /\ Len(queue) \in Nat /\ Len(batch) \in Nat
      /\ DOMAIN Line = 1..Len(queue) + Len(batch)
      /\ \A i \in DOMAIN Line : Line[i] = IF i <= Len(queue) THEN queue[i] ELSE batch[i - Len(queue)]
  BY LineFacts DEF TypeInv
<1>3. /\ DOMAIN Line' = 1..Len(queue') + Len(batch)
      /\ \A i \in DOMAIN Line' : Line'[i] = IF i <= Len(queue') THEN queue'[i] ELSE batch[i - Len(queue')]
  BY NextLineFacts DEF TypeInv, ServiceOK
<1>4. ASSUME NEW i \in DOMAIN Line' PROVE i \in Nat /\ i + 1 \in DOMAIN Line /\ Line'[i] = Line[i + 1]
  <2>1. i \in Nat /\ i + 1 \in DOMAIN Line
    BY <1>1, <1>2, <1>3
  <2>2. CASE i <= Len(queue')
    <3>1. Line'[i] = queue[i + 1]
      BY <1>1, <1>2, <1>3, <2>2
    <3>2. Line[i + 1] = queue[i + 1]
      BY <1>1, <1>2, <2>1, <2>2
    <3> QED BY <2>1, <3>1, <3>2
  <2>3. CASE ~(i <= Len(queue'))
    <3>1. Line'[i] = batch[i - Len(queue')]
      BY <1>3, <2>3
    <3>2. Line[i + 1] = batch[(i + 1) - Len(queue)]
      BY <1>1, <1>2, <2>1, <2>3
    <3>3. (i + 1) - Len(queue) = i - Len(queue')
      BY <1>1, <1>2, <2>1
    <3> QED BY <2>1, <3>1, <3>2, <3>3
  <2> QED BY <2>2, <2>3
<1>5. ASSUME NEW i \in DOMAIN Line
      PROVE  i = 1 \/ (i \in Nat /\ i - 1 \in DOMAIN Line' /\ Line'[i - 1] = Line[i])
  <2> SUFFICES ASSUME i # 1 PROVE i \in Nat /\ i - 1 \in DOMAIN Line' /\ Line'[i - 1] = Line[i]
    OBVIOUS
  <2>1. i \in Nat /\ i - 1 \in DOMAIN Line' /\ (i - 1) + 1 = i
    BY <1>1, <1>2, <1>3
  <2>2. Line'[i - 1] = Line[(i - 1) + 1]
    BY <1>4, <2>1
  <2> QED BY <2>1, <2>2
<1>6. Head(queue) = Line[1] /\ 1 \in DOMAIN Line
  BY <1>1, <1>2
<1> QED BY <1>4, <1>5, <1>6

\* Taking an update and doing the first half of it disturbs no other auth.
LEMMA TakeKeepsWay ==
  ASSUME TypeInv, TypeInv', WayInv, NEW step \in {"models", "disable"}, Take(step),
         UNCHANGED <<pending, batch, last>>,
         \A c \in Clients \ {Head(queue).id} :
           /\ managed'[c] = managed[c] /\ clientModels'[c] = clientModels[c]
           /\ clientProvider'[c] = clientProvider[c]
  PROVE  WayInv'
<1>1. /\ job' = [step |-> step, id |-> Head(queue).id, auth |-> Head(queue).auth]
      /\ job.step = "idle"
  BY TakeFacts
<1>2. /\ Head(queue) = Line[1] /\ 1 \in DOMAIN Line
      /\ \A i \in DOMAIN Line' : i \in Nat /\ i + 1 \in DOMAIN Line /\ Line'[i] = Line[i + 1]
      /\ \A i \in DOMAIN Line : i = 1 \/ (i \in Nat /\ i - 1 \in DOMAIN Line' /\ Line'[i - 1] = Line[i])
  BY TakeMoves
<1>3. \A c : Waiting(c)' <=> Waiting(c)
  BY DEF Waiting
<1>4. \A c : InLine(c) <=> InLine(c)' \/ c = Head(queue).id
  BY <1>2 DEF InLine
<1>5. PendingIsLast'
  BY DEF WayInv, PendingIsLast
<1>6. LineEndsInLast'
  <2> SUFFICES ASSUME NEW i \in DOMAIN Line', ~Waiting(Line'[i].id),
                      \A j \in DOMAIN Line' : j > i => Line'[j].id # Line'[i].id
               PROVE  Line'[i].auth = last[Line'[i].id]
    BY <1>3 DEF LineEndsInLast
  <2>1. i \in Nat /\ i + 1 \in DOMAIN Line /\ Line'[i] = Line[i + 1]
    BY <1>2
  <2>2. ASSUME NEW j \in DOMAIN Line, j > i + 1 PROVE Line[j].id # Line[i + 1].id
    <3>1. j \in Nat /\ j - 1 \in DOMAIN Line' /\ Line'[j - 1] = Line[j] /\ j - 1 > i
      BY <1>2, <2>1, <2>2
    <3> QED BY <2>1, <3>1
  <2> QED BY <2>1, <2>2 DEF WayInv, LineEndsInLast
<1>7. JobIsLast'
  <2> SUFFICES ASSUME NEW c, c = Line[1].id, ~Waiting(c), ~InLine(c)'
               PROVE  Line[1].auth = last[c]
    <3>1. job'.id = Line[1].id /\ job'.auth = Line[1].auth /\ last' = last
      BY <1>1, <1>2
    <3> QED BY <1>3, <3>1 DEF JobIsLast
  <2>1. ASSUME NEW j \in DOMAIN Line, j > 1 PROVE Line[j].id # Line[1].id
    <3>1. j - 1 \in DOMAIN Line' /\ Line'[j - 1] = Line[j]
      BY <1>2, <2>1
    <3> QED BY <3>1 DEF InLine
  <2> QED BY <1>2, <2>1 DEF WayInv, LineEndsInLast
<1>8. ServedIsLast'
  <2> SUFFICES ASSUME NEW c \in Clients, ~Waiting(c), ~InLine(c)', c # Head(queue).id
               PROVE  Serves(c, last[c])'
    BY <1>1, <1>3 DEF ServedIsLast
  <2>1. Serves(c, last[c])
    BY <1>1, <1>4 DEF WayInv, ServedIsLast
  <2> QED BY <2>1 DEF Serves
<1> QED BY <1>5, <1>6, <1>7, <1>8 DEF WayInv

LEMMA AddKeepsWay ==
  ASSUME TypeInv, WayInv, AddOrUpdate
  PROVE  WayInv'
<1>1. TypeInv' /\ Take("models")
  BY AddTypes DEF AddOrUpdate
<1>2. /\ managed' = [managed EXCEPT ![Head(queue).id] = [auth |-> Head(queue).auth, on |-> TRUE]]
      /\ UNCHANGED <<pending, batch, last, clientModels, clientProvider>>
  BY DEF AddOrUpdate, registryVars
<1>3. \A c \in Clients \ {Head(queue).id} : managed'[c] = managed[c]
  BY <1>2 DEF TypeInv, ServiceOK
<1> QED BY <1>1, <1>2, <1>3, TakeKeepsWay

LEMMA RemovalKeepsWay ==
  ASSUME TypeInv, WayInv, Removal
  PROVE  WayInv'
<1>1. TypeInv' /\ Take("disable")
  BY RemovalTypes DEF Removal
<1>2. /\ UNCHANGED <<pending, batch, last, managed>>
      /\ clientModels' = [clientModels EXCEPT ![Head(queue).id] = <<>>]
      /\ clientProvider' = [clientProvider EXCEPT ![Head(queue).id] = None]
  BY DEF Removal, UnregisterClient
<1>3. \A c \in Clients \ {Head(queue).id} :
        clientModels'[c] = clientModels[c] /\ clientProvider'[c] = clientProvider[c]
  BY <1>2 DEF TypeInv, ServiceOK
<1> QED BY <1>1, <1>2, <1>3, TakeKeepsWay

\* The second half serves the auth as the update says.
LEMMA JobEndKeepsWay ==
  ASSUME TypeInv, WayInv, NEW id \in Clients, NEW auth,
         job.step # "idle", job.id = id, job.auth = auth, job'.step = "idle",
         UNCHANGED <<pending, batch, queue, last>>,
         \A c \in Clients \ {id} :
           /\ managed'[c] = managed[c] /\ clientModels'[c] = clientModels[c]
           /\ clientProvider'[c] = clientProvider[c],
         Serves(id, auth)'
  PROVE  WayInv'
<1>1. Line' = Line /\ (\A c : Waiting(c)' <=> Waiting(c)) /\ (\A c : InLine(c)' <=> InLine(c))
  BY DEF Line, Waiting, InLine
<1>2. PendingIsLast' /\ LineEndsInLast' /\ JobIsLast'
  BY <1>1 DEF WayInv, PendingIsLast, LineEndsInLast, JobIsLast
<1>3. ServedIsLast'
  <2> SUFFICES ASSUME NEW c \in Clients, ~Waiting(c), ~InLine(c)
               PROVE  Serves(c, last[c])'
    BY <1>1 DEF ServedIsLast
  <2>1. CASE c = id
    <3>1. auth = last'[c]
      BY <2>1 DEF WayInv, JobIsLast
    <3> QED BY <2>1, <3>1
  <2>2. CASE c # id
    <3>1. Serves(c, last[c])
      BY <2>2 DEF WayInv, ServedIsLast
    <3> QED BY <2>2, <3>1 DEF Serves
  <2> QED BY <2>1, <2>2
<1> QED BY <1>2, <1>3 DEF WayInv

LEMMA ModelsKeepsWay ==
  ASSUME TypeInv, WayInv, RegisterModels
  PROVE  WayInv'
<1> DEFINE id == job.id
           auth == job.auth
<1>1. /\ id \in Clients /\ auth \in Auths /\ job'.step = "idle" /\ job.step # "idle"
      /\ managed[id] = [auth |-> auth, on |-> TRUE]
  BY ModelsTypes, JobDoneType DEF RegisterModels, TypeInv, JobHalfDone
<1>2. /\ UNCHANGED <<pending, batch, queue, last, managed>>
      /\ clientModels' = [clientModels EXCEPT ![id] = ModelsOf[auth]]
      /\ clientProvider' = [clientProvider EXCEPT ![id] = ProviderOf[auth]]
  BY DEF RegisterModels, RegisterClient
<1>3. /\ clientModels \in [Clients -> Seq(Models)]
      /\ clientProvider \in [Clients -> Providers \cup {None}]
  BY DEF TypeInv, ServiceOK
<1>4. PICK c, a : c = id /\ a = auth
  OBVIOUS
<1> HIDE DEF id, auth
<1>5. /\ \A d \in Clients \ {c} : /\ managed'[d] = managed[d] /\ clientModels'[d] = clientModels[d]
                              /\ clientProvider'[d] = clientProvider[d]
      /\ clientModels'[c] = ModelsOf[a] /\ clientProvider'[c] = ProviderOf[a]
      /\ managed'[c] = [auth |-> a, on |-> TRUE]
  BY <1>1, <1>2, <1>3, <1>4
<1>6. a # None
  BY <1>1, <1>4, WatcherConstants
<1>7. Serves(c, a)'
  BY <1>5, <1>6 DEF Serves
<1> QED BY <1>1, <1>2, <1>4, <1>5, <1>7, JobEndKeepsWay DEF id, auth

LEMMA DisableKeepsWay ==
  ASSUME TypeInv, WayInv, Disable
  PROVE  WayInv'
<1> DEFINE id == job.id
<1>1. /\ id \in Clients /\ job.auth = None /\ job'.step = "idle" /\ job.step # "idle"
      /\ clientModels[id] = <<>>
  BY DisableTypes, JobDoneType DEF Disable, TypeInv, JobHalfDone
<1>2. /\ UNCHANGED <<pending, batch, queue, last, clientModels, clientProvider>>
      /\ managed' = [managed EXCEPT ![id].on = FALSE]
  BY DEF Disable, registryVars
<1>3. managed \in [Clients -> [auth : Values, on : BOOLEAN]]
  BY DEF TypeInv, ServiceOK
<1>4. PICK c : c = id
  OBVIOUS
<1> HIDE DEF id
<1>5. /\ \A d \in Clients \ {c} : /\ managed'[d] = managed[d] /\ clientModels'[d] = clientModels[d]
                              /\ clientProvider'[d] = clientProvider[d]
      /\ clientModels'[c] = <<>> /\ managed'[c].on = FALSE
  BY <1>1, <1>2, <1>3, <1>4
<1>6. Serves(c, None)'
  BY <1>5 DEF Serves
<1> QED BY <1>1, <1>2, <1>4, <1>5, <1>6, JobEndKeepsWay DEF id

-----------------------------------------------------------------------------
(* The invariant.                                                           *)

IInv == TypeInv /\ WayInv /\ ListInv

LEMMA InvInit == Init => IInv
<1> SUFFICES ASSUME Init PROVE IInv
  OBVIOUS
<1>1. /\ file \in Values /\ runtime \in Values /\ last \in [Clients -> Values]
      /\ at \in [Goroutines -> Holding]
  <2>1. [Resting EXCEPT !.step = "rescan"] \in Holding
    <3>1. NoUpdates \in Updates /\ None \in Values
      BY UpdatesFacts DEF Values
    <3> HIDE DEF NoUpdates
    <3> QED BY <3>1 DEF Resting, Holding, Steps
  <2> QED BY <2>1, RestingType, WatcherConstants DEF Init, Values, Auths
<1>2. ServiceOK
  <2>1. <<>> \in Seq(Clients) /\ <<>> \in Seq(Entry) /\ <<>> \in Seq(Call) /\ <<>> \in Seq(Models)
    BY EmptySeq
  <2>2. pending \in [order : Seq(Clients), updates : Updates]
    BY <2>1, UpdatesFacts DEF Init
  <2>3. /\ job \in [step : {"idle", "models", "disable"}, id : Clients \cup {None}, auth : Values]
        /\ managed \in [Clients -> [auth : Values, on : BOOLEAN]]
    BY DEF Init, Values
  <2>4. /\ clientModels \in [Clients -> Seq(Models)]
        /\ clientProvider \in [Clients -> Providers \cup {None}]
    BY <2>1 DEF Init, RegistryInit
  <2> QED BY <2>1, <2>2, <2>3, <2>4 DEF Init, ServiceOK
<1>3. TypeInv
  BY <1>1, <1>2 DEF Init, TypeInv, WatcherOK, JobHalfDone
<1>4. Line = <<>>
  BY <1>2, LineFacts DEF Init, Line
<1>5. WayInv
  <2>1. /\ pending.order = <<>> /\ DOMAIN pending.updates = {} /\ DOMAIN Line = {}
        /\ job.step = "idle"
    BY <1>4 DEF Init, NoUpdates
  <2>2. ServedIsLast
    BY DEF Init, RegistryInit, ServedIsLast, Serves
  <2> QED BY <2>1, <2>2 DEF WayInv, PendingIsLast, LineEndsInLast, JobIsLast
<1>6. ListInv
  <2>1. NoRegistration \in Registration
    BY DEF NoRegistration, Registration
  <2>2. Registered
    BY <2>1, EmptySeq DEF Init, RegistryInit, Registered
  <2> QED BY <2>2 DEF Init, RegistryInit, ListInv, CacheOK, NoCache, ExpiresInTime, CachedListIsCurrent
<1> QED BY <1>3, <1>5, <1>6 DEF IInv

LEMMA ListUnchanged ==
  ASSUME ListInv, UNCHANGED registryVars
  PROVE  ListInv'
<1>1. AvailableModels' = AvailableModels
  BY DEF registryVars, AvailableModels, Listed, Exists, OverQuota, SuspendedFor
<1> QED BY <1>1 DEF registryVars, ListInv, Registered, CacheOK, ExpiresInTime, CachedListIsCurrent

LEMMA InvKept == IInv /\ [Next]_vars => IInv'
<1> SUFFICES ASSUME IInv, [Next]_vars PROVE IInv'
  OBVIOUS
<1> USE DEF IInv
<1>1. CASE FindOut
  <2>1. UNCHANGED <<serviceVars, registryVars, last>>
    BY <1>1, FindOutLeaves
  <2>2. TypeInv'
    BY <1>1, <2>1, FindOutKeepsWatcher DEF TypeInv, ServiceOK, JobHalfDone, serviceVars, registryVars
  <2>3. WayInv'
    BY <2>1, LineUnchanged DEF Line, serviceVars, registryVars
  <2> QED BY <2>1, <2>2, <2>3, ListUnchanged
<1>2. ASSUME NEW g \in Goroutines, Dispatch(g) PROVE IInv'
  BY <1>2, DispatchTypes, DispatchKeepsWay, ListUnchanged DEF Dispatch
<1>3. CASE NextBatch
  BY <1>3, BatchKeepsWay, ListUnchanged DEF NextBatch
<1>4. CASE Deliver
  <2>1. UNCHANGED <<pending, job, managed, clientModels, clientProvider, last>>
    BY <1>4 DEF Deliver, registryVars
  <2> QED BY <1>4, <2>1, DeliverTypes, LineUnchanged, ListUnchanged DEF Deliver
<1>5. CASE AddOrUpdate
  BY <1>5, AddTypes, AddKeepsWay, ListUnchanged DEF AddOrUpdate
<1>6. CASE RegisterModels
  <2>1. ListInv'
    BY <1>6, ModelsTypes, RegisterKeepsList DEF RegisterModels
  <2> QED BY <1>6, <2>1, ModelsTypes, ModelsKeepsWay
<1>7. CASE Removal
  <2>1. ListInv'
    BY <1>7, RemovalTypes, UnregisterKeepsList DEF Removal
  <2> QED BY <1>7, <2>1, RemovalTypes, RemovalKeepsWay
<1>8. CASE Disable
  BY <1>8, DisableTypes, DisableKeepsWay, ListUnchanged DEF Disable
<1>9. ASSUME \/ \E c \in Clients, m \in Models : Send(c, m)
             \/ \E outcome \in {"ok", "quota", "refused"} : Answer(outcome)
             \/ MarkLate \/ ListModels \/ TimePasses
      PROVE  IInv'
  <2>1. /\ TypeInv'
        /\ UNCHANGED <<pending, batch, queue, job, managed, clientModels, clientProvider, last>>
    BY <1>9, LateTypes
  <2>2. WayInv'
    BY <2>1, LineUnchanged DEF Line
  <2>3. ASSUME NEW c \in Clients, NEW m \in Models, Send(c, m) PROVE ListInv'
    BY <2>3, ListUnchanged DEF Send
  <2>4. ASSUME NEW outcome \in {"ok", "quota", "refused"}, Answer(outcome) PROVE ListInv'
    BY <2>4, ListUnchanged DEF Answer
  <2>5. ASSUME MarkLate PROVE ListInv'
    <3>1. Head(late) \in Call /\ Head(late).call # "answer"
      BY <2>5, HeadTailProperties DEF MarkLate, TypeInv, ServiceOK
    <3>2. /\ Head(late).client \in Clients /\ Head(late).model \in Models
          /\ Head(late).call \in {"exceed", "clear", "resume", "suspend", "pause"}
      BY <3>1 DEF Call
    <3> QED BY <2>5, <3>2, MarkKeepsList DEF MarkLate
  <2>6. ASSUME ListModels PROVE ListInv'
    BY <2>6, ListingKeepsList DEF ListModels
  <2>7. ASSUME TimePasses PROVE ListInv'
    BY <2>7, TickKeepsList DEF TimePasses
  <2> QED BY <1>9, <2>1, <2>2, <2>3, <2>4, <2>5, <2>6, <2>7
<1>10. CASE UNCHANGED vars
  <2>1. UNCHANGED <<watcherVars, serviceVars, registryVars, last>>
    BY <1>10 DEF vars
  <2>2. TypeInv'
    BY <2>1 DEF TypeInv, WatcherOK, ServiceOK, JobHalfDone, watcherVars, serviceVars, registryVars
  <2>3. WayInv'
    BY <2>1, LineUnchanged DEF Line, serviceVars, registryVars
  <2> QED BY <2>1, <2>2, <2>3, ListUnchanged
<1> QED BY <1>1, <1>2, <1>3, <1>4, <1>5, <1>6, <1>7, <1>8, <1>9, <1>10 DEF Next, FindOut, Carry, Serve

LEMMA Invariance == Spec => []IInv
<1> QED BY InvInit, InvKept, PTL DEF Spec

-----------------------------------------------------------------------------
(* What follows.                                                            *)

\* The registry never serves a list from its cache that differs from the one it
\* would build: whoever marks, registers or unregisters a client drops it, and it
\* expires no later than the first mark lapses.
THEOREM ListIsCurrent == Spec => []CachedListIsCurrent
<1>1. IInv => CachedListIsCurrent
  BY DEF IInv, ListInv
<1> QED BY <1>1, Invariance, PTL

\* When no update for an auth is pending, batched, in the channel or being applied,
\* the manager and the registry serve what was queued for it last, whoever queued it.
THEOREM LastIsServed == Spec => []LastQueuedWins
<1>1. IInv => LastQueuedWins
  <2> SUFFICES ASSUME IInv, NEW c \in Clients, Delivered(c) PROVE Serves(c, last[c])
    BY DEF LastQueuedWins
  <2>1. ~Waiting(c) /\ job.id # c
    BY DEF Delivered, Waiting
  <2>2. ~InLine(c)
    <3> SUFFICES ASSUME NEW i \in DOMAIN Line, Line[i].id = c PROVE FALSE
      BY DEF InLine
    <3>1. /\ Len(queue) \in Nat /\ Len(batch) \in Nat /\ DOMAIN Line = 1..Len(queue) + Len(batch)
          /\ DOMAIN queue = 1..Len(queue) /\ DOMAIN batch = 1..Len(batch)
          /\ Line[i] = IF i <= Len(queue) THEN queue[i] ELSE batch[i - Len(queue)]
      BY LineFacts DEF IInv, TypeInv
    <3>2. CASE i <= Len(queue)
      BY <3>1, <3>2 DEF Delivered
    <3>3. CASE ~(i <= Len(queue))
      <4>1. i - Len(queue) \in DOMAIN batch
        BY <3>1, <3>3
      <4> QED BY <3>1, <3>3, <4>1 DEF Delivered
    <3> QED BY <3>2, <3>3
  <2> QED BY <2>1, <2>2 DEF IInv, WayInv, ServedIsLast
<1> QED BY <1>1, Invariance, PTL

-----------------------------------------------------------------------------
(* From the file to the auths the watcher knows.                            *)

\* Something will make the watcher look at the file again.
Coming == events # <<>> \/ at["events"].step \notin {"idle", "dispatch"}

Holds(g) == File \in DOMAIN at[g].updates
HoldsNew(g) == Holds(g) /\ at[g].updates[File] = known[File]

FileTypes ==
  /\ events \in Seq({"write", "remove"}) /\ hashes \in Values
  /\ known \in [Clients -> Values]

FileSteps ==
  /\ at["events"].step \in {"idle", "stat", "compare", "reopen", "apply", "forget", "dispatch"}
  /\ at["reload"].step \in {"idle", "rescan", "snapshot", "merge", "dispatch"}
  /\ ~Holds("connect") /\ ~Holds("disconnect")
  /\ Holds("events") => at["events"].step = "dispatch"
  /\ Holds("reload") => at["reload"].step = "dispatch"
  /\ at["events"].step = "apply" => at["events"].read # None

\* The events not handled yet end with the one of the last change.
LastChange == events # <<>> => (events[Len(events)] = "remove" <=> file = None)

\* What was read after the last event is what the file says.
FreshReads ==
  events = <<>> =>
    /\ at["events"].step \in {"compare", "apply"} => at["events"].read = file
    /\ at["events"].step \in {"compare", "reopen", "apply"} => file # None
    /\ at["events"].step = "forget" => file = None

\* Of two goroutines that hold an update, one has looked last.
OneIsNew == Holds("events") /\ Holds("reload") => HoldsNew("events") \/ HoldsNew("reload")

NotScanned == at["reload"].step = "rescan" => known[File] = hashes

\* Without a race, the hash stands for the file, the known auth is as the hash says,
\* and it was queued last, unless somebody is about to see to it.
Hashed == hashes = file \/ Coming \/ at["reload"].step = "rescan"
KnownAsHashed == known[File] = hashes \/ Coming \/ at["reload"].step \in {"rescan", "snapshot", "merge"}
QueuedAsKnown ==
  \/ last[File] = known[File] \/ HoldsNew("events") \/ HoldsNew("reload")
  \/ known[File] = None /\ (hashes # None \/ Coming)

FileInv ==
  /\ FileTypes /\ FileSteps /\ LastChange /\ FreshReads /\ OneIsNew /\ NotScanned
  /\ ~raced => Hashed /\ KnownAsHashed /\ QueuedAsKnown

LEMMA FileNames ==
  /\ {"events", "reload", "connect", "disconnect"} = Goroutines
  /\ File \in Clients /\ Relay \in Clients /\ File # Relay /\ Clients = {File, Relay}
  /\ None \in Values /\ Contents \subseteq Values /\ None \notin Contents
<1> QED BY WatcherConstants DEF Goroutines, Values, Auths

\* What a goroutine's change of place does to what it has read and holds.
LEMMA PlaceFacts ==
  ASSUME WatcherOK, NEW g \in Goroutines, NEW step, NEW updates
  PROVE  /\ Go(g, step) \/ Read(g, step) \/ Rest(g) \/ Hold(g, updates) =>
              \A h \in Goroutines \ {g} : at'[h] = at[h]
         /\ Go(g, step) \/ Read(g, step) => at'[g].step = step /\ at'[g].updates = at[g].updates
         /\ Go(g, step) => at'[g].read = at[g].read
         /\ Read(g, step) => at'[g].read = file
         /\ Rest(g) => at'[g].step = "idle" /\ DOMAIN at'[g].updates = {}
         /\ Hold(g, updates) =>
              /\ DOMAIN at'[g].updates = DOMAIN updates
              /\ DOMAIN updates # {} => at'[g].step = "dispatch" /\ at'[g].updates = updates
              /\ DOMAIN updates = {} => at'[g].step = "idle"
<1>1. at \in [Goroutines -> Holding]
  BY DEF WatcherOK
<1>2. Resting.step = "idle" /\ DOMAIN Resting.updates = {}
  BY DEF Resting, NoUpdates
<1>3. ASSUME Go(g, step)
      PROVE  /\ \A h \in Goroutines \ {g} : at'[h] = at[h]
             /\ at'[g].step = step /\ at'[g].updates = at[g].updates /\ at'[g].read = at[g].read
  BY <1>1, <1>3 DEF Go, Holding
<1>4. ASSUME Read(g, step)
      PROVE  /\ \A h \in Goroutines \ {g} : at'[h] = at[h]
             /\ at'[g].step = step /\ at'[g].updates = at[g].updates /\ at'[g].read = file
  BY <1>1, <1>4 DEF Read, Holding
<1>5. ASSUME Rest(g)
      PROVE  /\ \A h \in Goroutines \ {g} : at'[h] = at[h]
             /\ at'[g].step = "idle" /\ DOMAIN at'[g].updates = {}
  BY <1>1, <1>2, <1>5 DEF Rest
<1>6. ASSUME Hold(g, updates)
      PROVE  /\ \A h \in Goroutines \ {g} : at'[h] = at[h]
             /\ DOMAIN at'[g].updates = DOMAIN updates
             /\ DOMAIN updates # {} => at'[g].step = "dispatch" /\ at'[g].updates = updates
             /\ DOMAIN updates = {} => at'[g].step = "idle"
  <2>1. CASE DOMAIN updates = {}
    <3>1. at' = [at EXCEPT ![g] = Resting]
      BY <1>6, <2>1 DEF Hold
    <3> QED BY <1>1, <1>2, <2>1, <3>1
  <2>2. CASE DOMAIN updates # {}
    <3>1. at' = [at EXCEPT ![g] = [Resting EXCEPT !.step = "dispatch", !.updates = updates]]
      BY <1>6, <2>2 DEF Hold
    <3> QED BY <1>1, <2>2, <3>1 DEF Resting
  <2> QED BY <2>1, <2>2
<1> QED BY <1>3, <1>4, <1>5, <1>6

\* The last event stays the last until it is taken.
LEMMA EventFacts ==
  ASSUME events \in Seq({"write", "remove"})
  PROVE  /\ \A e \in {"write", "remove"} : /\ Append(events, e) \in Seq({"write", "remove"})
                                           /\ Append(events, e) # <<>>
                                           /\ Append(events, e)[Len(Append(events, e))] = e
         /\ events # <<>> =>
              /\ Head(events) \in {"write", "remove"} /\ Tail(events) \in Seq({"write", "remove"})
              /\ Tail(events) = <<>> => Head(events) = events[Len(events)]
              /\ Tail(events) # <<>> => Tail(events)[Len(Tail(events))] = events[Len(events)]
<1>1. ASSUME NEW e \in {"write", "remove"}
      PROVE  /\ Append(events, e) \in Seq({"write", "remove"}) /\ Append(events, e) # <<>>
             /\ Append(events, e)[Len(Append(events, e))] = e
  BY AppendProperties
<1>2. ASSUME events # <<>>
      PROVE  /\ Head(events) \in {"write", "remove"} /\ Tail(events) \in Seq({"write", "remove"})
             /\ Tail(events) = <<>> => Head(events) = events[Len(events)]
             /\ Tail(events) # <<>> => Tail(events)[Len(Tail(events))] = events[Len(events)]
  <2>1. /\ Head(events) \in {"write", "remove"} /\ Tail(events) \in Seq({"write", "remove"})
        /\ Len(events) \in Nat /\ Len(events) >= 1 /\ Head(events) = events[1]
        /\ Len(Tail(events)) = Len(events) - 1
        /\ \A i \in 1..Len(Tail(events)) : Tail(events)[i] = events[i + 1]
    BY <1>2, HeadTailProperties, EmptySeq, LenProperties
  <2>2. Tail(events) = <<>> => Len(events) = 1
    <3>1. Tail(events) = <<>> => Len(Tail(events)) = 0
      BY <2>1, EmptySeq
    <3> QED BY <2>1, <3>1
  <2>3. Tail(events) # <<>> => Len(Tail(events)) \in 1..Len(Tail(events)) /\ Len(Tail(events)) + 1 = Len(events)
    BY <2>1
  <2> QED BY <2>1, <2>2, <2>3
<1> QED BY <1>1, <1>2

\* A step that leaves the file, what is known of it, what is held of it and what was
\* queued of it alone.
LEMMA FileLeft ==
  ASSUME FileInv, UNCHANGED <<file, events, hashes, raced>>,
         known' \in [Clients -> Values], known'[File] = known[File], last'[File] = last[File],
         at'["events"] = at["events"], at'["reload"] = at["reload"],
         ~Holds("connect")', ~Holds("disconnect")'
  PROVE  FileInv'
<1> QED BY DEF FileInv, FileTypes, FileSteps, LastChange, FreshReads, OneIsNew, NotScanned,
               Hashed, KnownAsHashed, QueuedAsKnown, Coming, Holds, HoldsNew

LEMMA FileChanges ==
  ASSUME FileInv, NEW e \in {"write", "remove"}, events' = Append(events, e),
         file' \in Values, e = "remove" <=> file' = None,
         UNCHANGED <<hashes, known, at, last, raced>>
  PROVE  FileInv'
<1>1. events' \in Seq({"write", "remove"}) /\ events' # <<>> /\ events'[Len(events')] = e
  BY EventFacts DEF FileInv, FileTypes
<1> QED BY <1>1 DEF FileInv, FileTypes, FileSteps, LastChange, FreshReads, OneIsNew, NotScanned,
               Hashed, KnownAsHashed, QueuedAsKnown, Coming, Holds, HoldsNew

LEMMA TakeKeepsFile ==
  ASSUME WatcherOK, FileInv, TakeWrite \/ TakeRemove
  PROVE  FileInv'
<1>1. /\ at["events"].step = "idle" /\ ~Holds("events") /\ events # <<>> /\ events' = Tail(events)
      /\ UNCHANGED <<file, hashes, known, last>>
  BY DEF TakeWrite, TakeRemove, Idle, FileInv, FileSteps
<1>2. /\ events' \in Seq({"write", "remove"})
      /\ events' = <<>> => Head(events) = events[Len(events)]
      /\ events' # <<>> => events'[Len(events')] = events[Len(events)]
  BY <1>1, EventFacts DEF FileInv, FileTypes
<1>3. LastChange'
  BY <1>1, <1>2 DEF FileInv, LastChange
<1>4. events' = <<>> => (Head(events) = "remove" <=> file = None)
  BY <1>1, <1>2 DEF FileInv, LastChange
<1>5. CASE TakeWrite
  <2>1. /\ at'["events"].step = "compare" /\ at'["events"].read = file
        /\ at'["events"].updates = at["events"].updates
        /\ \A h \in {"reload", "connect", "disconnect"} : at'[h] = at[h]
        /\ raced' = raced /\ Head(events) = "write"
    BY <1>5, PlaceFacts, FileNames DEF TakeWrite
  <2>2. FileTypes' /\ FileSteps' /\ FreshReads' /\ OneIsNew' /\ NotScanned'
    BY <1>1, <1>2, <1>4, <2>1
       DEF FileInv, FileTypes, FileSteps, FreshReads, OneIsNew, NotScanned, Holds, HoldsNew
  <2>3. Coming'
    BY <2>1 DEF Coming
  <2>4. ~raced' => Hashed' /\ KnownAsHashed' /\ QueuedAsKnown'
    BY <1>1, <2>1, <2>3 DEF FileInv, Hashed, KnownAsHashed, QueuedAsKnown, Holds, HoldsNew
  <2> QED BY <1>3, <2>2, <2>4 DEF FileInv
<1>6. CASE TakeRemove /\ debouncing
  <2>1. at' = at /\ raced'
    BY <1>6 DEF TakeRemove
  <2>2. FileTypes' /\ FileSteps' /\ FreshReads' /\ OneIsNew' /\ NotScanned'
    BY <1>1, <1>2, <2>1
       DEF FileInv, FileTypes, FileSteps, FreshReads, OneIsNew, NotScanned, Holds, HoldsNew
  <2> QED BY <1>3, <2>1, <2>2 DEF FileInv
<1>7. CASE TakeRemove /\ ~debouncing
  <2>1. /\ at'["events"].step = "stat" /\ at'["events"].updates = at["events"].updates
        /\ \A h \in {"reload", "connect", "disconnect"} : at'[h] = at[h]
        /\ raced' => raced \/ debouncing
        /\ raced => raced'
    BY <1>7, PlaceFacts, FileNames DEF TakeRemove
  <2>2. FileTypes' /\ FileSteps' /\ FreshReads' /\ OneIsNew' /\ NotScanned'
    BY <1>1, <1>2, <2>1
       DEF FileInv, FileTypes, FileSteps, FreshReads, OneIsNew, NotScanned, Holds, HoldsNew
  <2>3. Coming'
    BY <2>1 DEF Coming
  <2>4. ~raced' => Hashed' /\ KnownAsHashed' /\ QueuedAsKnown'
    BY <1>1, <2>1, <2>3 DEF FileInv, Hashed, KnownAsHashed, QueuedAsKnown, Holds, HoldsNew
  <2> QED BY <1>3, <2>2, <2>4 DEF FileInv
<1> QED BY <1>5, <1>6, <1>7

LEMMA StatKeepsFile ==
  ASSUME WatcherOK, FileInv, Stat
  PROVE  FileInv'
<1>1. /\ at["events"].step = "stat" /\ ~Holds("events")
      /\ UNCHANGED <<file, events, hashes, known, last, raced>>
      /\ at'["events"].updates = at["events"].updates
      /\ \A h \in {"reload", "connect", "disconnect"} : at'[h] = at[h]
      /\ file = None => at'["events"].step = "forget"
      /\ file # None => at'["events"].step = "compare" /\ at'["events"].read = file
  BY PlaceFacts, FileNames DEF Stat, FileInv, FileSteps
<1>2. FileTypes' /\ FileSteps' /\ FreshReads' /\ OneIsNew' /\ NotScanned' /\ LastChange'
  BY <1>1 DEF FileInv, FileTypes, FileSteps, LastChange, FreshReads, OneIsNew, NotScanned, Holds, HoldsNew
<1>3. Coming'
  BY <1>1 DEF Coming
<1>4. ~raced' => Hashed' /\ KnownAsHashed' /\ QueuedAsKnown'
  BY <1>1, <1>3 DEF FileInv, Hashed, KnownAsHashed, QueuedAsKnown, Holds, HoldsNew
<1> QED BY <1>2, <1>4 DEF FileInv

\* The goroutine gives up because the hash stands for what it has read.
LEMMA NothingNewKeepsFile ==
  ASSUME WatcherOK, FileInv, at["events"].step \in {"compare", "apply"}, Unchanged, Rest("events"),
         UNCHANGED <<file, events, hashes, known, last>>,
         raced' = (raced \/ (Unchanged /\ known[File] # hashes))
  PROVE  FileInv'
<1>1. /\ ~Holds("events") /\ ~Holds("events")' /\ at'["events"].step = "idle"
      /\ \A h \in {"reload", "connect", "disconnect"} : at'[h] = at[h]
  BY PlaceFacts, FileNames DEF FileInv, FileSteps, Holds
<1>2. FileTypes' /\ FileSteps' /\ FreshReads' /\ OneIsNew' /\ NotScanned' /\ LastChange'
  BY <1>1 DEF FileInv, FileTypes, FileSteps, LastChange, FreshReads, OneIsNew, NotScanned, Holds, HoldsNew
<1>3. ASSUME ~raced' PROVE Hashed' /\ KnownAsHashed' /\ QueuedAsKnown'
  <2>1. ~raced /\ known[File] = hashes /\ hashes # None /\ hashes = at["events"].read
    BY <1>3 DEF Unchanged
  <2>2. Hashed'
    BY <2>1 DEF FileInv, FreshReads, Hashed, Coming
  <2>3. KnownAsHashed'
    BY <2>1 DEF KnownAsHashed
  <2>4. QueuedAsKnown'
    BY <1>1, <2>1 DEF FileInv, QueuedAsKnown, Holds, HoldsNew
  <2> QED BY <2>2, <2>3, <2>4
<1> QED BY <1>2, <1>3 DEF FileInv

LEMMA CompareKeepsFile ==
  ASSUME WatcherOK, FileInv, Compare
  PROVE  FileInv'
<1>1. CASE Unchanged
  BY <1>1, NothingNewKeepsFile DEF Compare
<1>2. CASE ~Unchanged
  <2>1. /\ at["events"].step = "compare" /\ ~Holds("events") /\ (raced' <=> raced)
        /\ UNCHANGED <<file, events, hashes, known, last>>
        /\ at'["events"].step = "reopen" /\ at'["events"].updates = at["events"].updates
        /\ \A h \in {"reload", "connect", "disconnect"} : at'[h] = at[h]
    BY <1>2, PlaceFacts, FileNames DEF Compare, FileInv, FileSteps
  <2>2. FileTypes' /\ FileSteps' /\ FreshReads' /\ OneIsNew' /\ NotScanned' /\ LastChange'
    BY <2>1 DEF FileInv, FileTypes, FileSteps, LastChange, FreshReads, OneIsNew, NotScanned, Holds, HoldsNew
  <2>3. Coming'
    BY <2>1 DEF Coming
  <2>4. ~raced' => Hashed' /\ KnownAsHashed' /\ QueuedAsKnown'
    BY <2>1, <2>3 DEF FileInv, Hashed, KnownAsHashed, QueuedAsKnown, Holds, HoldsNew
  <2> QED BY <2>2, <2>4 DEF FileInv
<1> QED BY <1>1, <1>2

LEMMA ReopenKeepsFile ==
  ASSUME WatcherOK, FileInv, Reopen
  PROVE  FileInv'
<1>1. /\ at["events"].step = "reopen" /\ ~Holds("events")
      /\ UNCHANGED <<file, events, hashes, known, last, raced>>
      /\ \A h \in {"reload", "connect", "disconnect"} : at'[h] = at[h]
      /\ file = None => at'["events"].step = "idle" /\ ~Holds("events")'
      /\ file # None => /\ at'["events"].step = "apply" /\ at'["events"].read = file
                        /\ ~Holds("events")'
  BY PlaceFacts, FileNames DEF Reopen, FileInv, FileSteps, Holds
<1>2. FileTypes' /\ FileSteps' /\ FreshReads' /\ OneIsNew' /\ NotScanned' /\ LastChange'
  BY <1>1 DEF FileInv, FileTypes, FileSteps, LastChange, FreshReads, OneIsNew, NotScanned, Holds, HoldsNew
<1>3. Coming'
  BY <1>1 DEF FileInv, FreshReads, Coming
<1>4. ~raced' => Hashed' /\ KnownAsHashed' /\ QueuedAsKnown'
  BY <1>1, <1>3 DEF FileInv, Hashed, KnownAsHashed, QueuedAsKnown, Holds, HoldsNew
<1> QED BY <1>2, <1>4 DEF FileInv

LEMMA ApplyKeepsFile ==
  ASSUME WatcherOK, FileInv, Apply
  PROVE  FileInv'
<1>1. CASE Unchanged
  BY <1>1, NothingNewKeepsFile DEF Apply
<1>2. CASE ~Unchanged
  <2> DEFINE read == at["events"].read
  <2>1. /\ at["events"].step = "apply" /\ ~Holds("events") /\ (raced' <=> raced) /\ read # None
        /\ UNCHANGED <<file, events, last>>
        /\ hashes' = read /\ known' = [known EXCEPT ![File] = read] /\ read \in Values
        /\ Hold("events", Changed(File, read))
    BY <1>2, FileNames DEF Apply, FileInv, FileSteps, WatcherOK, Holding
  <2>2. \A h \in {"reload", "connect", "disconnect"} : at'[h] = at[h]
    BY <2>1, PlaceFacts, FileNames
  <2>3. known[File] = read => ~Holds("events")' /\ at'["events"].step = "idle"
    <3>1. known[File] = read => DOMAIN Changed(File, read) = {}
      BY DEF Changed, NoUpdates
    <3> QED BY <2>1, <3>1, PlaceFacts, FileNames DEF Holds
  <2>4. known[File] # read =>
          /\ at'["events"].step = "dispatch" /\ Holds("events")' /\ at'["events"].updates[File] = read
    <3>1. known[File] # read =>
            /\ DOMAIN Changed(File, read) = {File} /\ Changed(File, read)[File] = read
            /\ DOMAIN Changed(File, read) # {}
      BY DEF Changed
    <3>2. known[File] # read =>
            at'["events"].step = "dispatch" /\ at'["events"].updates = Changed(File, read)
      BY <2>1, <3>1, PlaceFacts, FileNames
    <3> QED BY <3>1, <3>2 DEF Holds
  <2>5. known' \in [Clients -> Values] /\ known'[File] = read
    BY <2>1, FileNames DEF FileInv, FileTypes
  <2> HIDE DEF read
  <2>6. at["events"].read = read
    BY DEF read
  <2>7. FileTypes' /\ FileSteps' /\ FreshReads' /\ LastChange' /\ NotScanned'
    BY <2>1, <2>2, <2>3, <2>4, <2>5
       DEF FileInv, FileTypes, FileSteps, LastChange, FreshReads, NotScanned, Holds
  <2>8. OneIsNew'
    BY <2>3, <2>4, <2>5 DEF OneIsNew, HoldsNew
  <2>9. ASSUME ~raced' PROVE Hashed' /\ KnownAsHashed' /\ QueuedAsKnown'
    <3>1. Hashed'
      BY <2>1, <2>6 DEF FileInv, FreshReads, Hashed, Coming
    <3>2. KnownAsHashed'
      BY <2>1, <2>5 DEF KnownAsHashed
    <3>3. CASE known[File] # read
      BY <2>4, <2>5, <3>1, <3>2, <3>3 DEF QueuedAsKnown, HoldsNew
    <3>4. CASE known[File] = read
      BY <2>1, <2>2, <2>3, <2>5, <2>9, <3>1, <3>2, <3>4 DEF FileInv, QueuedAsKnown, Holds, HoldsNew
    <3> QED BY <3>3, <3>4
  <2> QED BY <2>7, <2>8, <2>9 DEF FileInv
<1> QED BY <1>1, <1>2

LEMMA ForgetKeepsFile ==
  ASSUME WatcherOK, FileInv, Forget
  PROVE  FileInv'
<1>1. /\ at["events"].step = "forget" /\ ~Holds("events") /\ UNCHANGED <<file, events, last>>
      /\ raced' <=> (raced \/ (hashes = None /\ {known[File], last[File]} # {None}))
  BY DEF Forget, FileInv, FileSteps
<1>2. CASE hashes = None
  <2>1. Rest("events") /\ UNCHANGED <<hashes, known>>
    BY <1>2 DEF Forget
  <2>2. /\ at'["events"].step = "idle" /\ ~Holds("events")'
        /\ \A h \in {"reload", "connect", "disconnect"} : at'[h] = at[h]
    BY <2>1, PlaceFacts, FileNames DEF Holds
  <2>3. FileTypes' /\ FileSteps' /\ FreshReads' /\ LastChange' /\ NotScanned' /\ OneIsNew'
    BY <1>1, <2>1, <2>2
       DEF FileInv, FileTypes, FileSteps, LastChange, FreshReads, NotScanned, OneIsNew, Holds, HoldsNew
  <2>4. ASSUME ~raced' PROVE Hashed' /\ KnownAsHashed' /\ QueuedAsKnown'
    <3>1. known[File] = None /\ last[File] = None
      BY <1>1, <1>2, <2>4
    <3>2. events = <<>> => file = None
      BY <1>1 DEF FileInv, FreshReads
    <3> QED BY <1>1, <1>2, <2>1, <3>1, <3>2 DEF Hashed, KnownAsHashed, QueuedAsKnown, Coming
  <2> QED BY <2>3, <2>4 DEF FileInv
<1>3. CASE hashes # None
  <2> DEFINE gone == [c \in {File} |-> None]
  <2>1. Hold("events", gone) /\ hashes' = None /\ known' = [known EXCEPT ![File] = None]
    BY <1>3 DEF Forget
  <2>2. DOMAIN gone = {File} /\ gone[File] = None /\ DOMAIN gone # {}
    OBVIOUS
  <2> HIDE DEF gone
  <2>3. /\ at'["events"].step = "dispatch" /\ at'["events"].updates = gone
        /\ \A h \in {"reload", "connect", "disconnect"} : at'[h] = at[h]
    BY <2>1, <2>2, PlaceFacts, FileNames
  <2>4. Holds("events")' /\ at'["events"].updates[File] = None
    BY <2>2, <2>3 DEF Holds
  <2>5. known' \in [Clients -> Values] /\ known'[File] = None
    BY <2>1, FileNames DEF FileInv, FileTypes
  <2>6. HoldsNew("events")'
    BY <2>4, <2>5 DEF HoldsNew
  <2>7. FileTypes' /\ FileSteps' /\ FreshReads' /\ LastChange' /\ NotScanned' /\ OneIsNew'
    BY <1>1, <2>1, <2>3, <2>5, <2>6, FileNames
       DEF FileInv, FileTypes, FileSteps, LastChange, FreshReads, NotScanned, OneIsNew, Holds
  <2>8. events = <<>> => file = None
    BY <1>1 DEF FileInv, FreshReads
  <2>9. Hashed' /\ KnownAsHashed' /\ QueuedAsKnown'
    BY <1>1, <2>1, <2>5, <2>6, <2>8 DEF Hashed, KnownAsHashed, QueuedAsKnown, Coming
  <2> QED BY <2>7, <2>9 DEF FileInv
<1> QED BY <1>2, <1>3

LEMMA RescanKeepsFile ==
  ASSUME WatcherOK, FileInv, Rescan
  PROVE  FileInv'
<1>1. /\ at["reload"].step = "rescan" /\ ~Holds("reload") /\ hashes' = file
      /\ UNCHANGED <<file, events, known, last, raced>>
      /\ at'["reload"].step = "snapshot" /\ at'["reload"].updates = at["reload"].updates
      /\ \A h \in {"events", "connect", "disconnect"} : at'[h] = at[h]
      /\ file \in Values
  BY PlaceFacts, FileNames DEF Rescan, FileInv, FileSteps, WatcherOK
<1>2. FileTypes' /\ FileSteps' /\ FreshReads' /\ LastChange' /\ NotScanned' /\ OneIsNew'
  BY <1>1 DEF FileInv, FileTypes, FileSteps, LastChange, FreshReads, NotScanned, OneIsNew, Holds, HoldsNew
<1>3. ASSUME ~raced' PROVE Hashed' /\ KnownAsHashed' /\ QueuedAsKnown'
  <2>1. Hashed' /\ KnownAsHashed'
    BY <1>1 DEF Hashed, KnownAsHashed
  <2>2. known[File] = hashes
    BY <1>1 DEF FileInv, NotScanned
  <2> QED BY <1>1, <1>3, <2>1, <2>2 DEF FileInv, QueuedAsKnown, Coming, Holds, HoldsNew
<1> QED BY <1>2, <1>3 DEF FileInv

LEMMA ConfigKeepsFile ==
  ASSUME WatcherOK, FileInv, NEW force \in BOOLEAN, NEW affected \in BOOLEAN, ReloadConfig(force, affected)
  PROVE  FileInv'
<1>1. /\ at["reload"].step = "idle" /\ ~Holds("reload") /\ UNCHANGED <<file, events, hashes, last, raced>>
      /\ known' = IF affected THEN [known EXCEPT ![File] = None] ELSE known
      /\ at' = [at EXCEPT !["reload"] = [Resting EXCEPT !.step = "snapshot", !.force = force]]
  BY DEF ReloadConfig, Idle, FileInv, FileSteps
<1>2. /\ at'["reload"].step = "snapshot" /\ ~Holds("reload")'
      /\ \A h \in {"events", "connect", "disconnect"} : at'[h] = at[h]
  BY <1>1, FileNames DEF WatcherOK, Resting, NoUpdates, Holds
<1>3. /\ known' \in [Clients -> Values]
      /\ affected => known'[File] = None
      /\ ~affected => known'[File] = known[File]
  BY <1>1, FileNames DEF FileInv, FileTypes
<1>4. FileTypes' /\ FileSteps' /\ FreshReads' /\ LastChange' /\ NotScanned' /\ OneIsNew'
  BY <1>1, <1>2, <1>3
     DEF FileInv, FileTypes, FileSteps, LastChange, FreshReads, NotScanned, OneIsNew, Holds
<1>5. ASSUME ~raced' PROVE Hashed' /\ KnownAsHashed' /\ QueuedAsKnown'
  <2>1. Hashed' /\ KnownAsHashed'
    BY <1>1, <1>2, <1>5 DEF FileInv, Hashed, KnownAsHashed, Coming
  <2>2. CASE ~affected
    BY <1>1, <1>2, <1>3, <1>5, <2>1, <2>2 DEF FileInv, QueuedAsKnown, Coming, Holds, HoldsNew
  <2>3. CASE affected /\ (hashes # None \/ Coming)
    BY <1>1, <1>2, <1>3, <2>1, <2>3 DEF QueuedAsKnown, Coming
  <2>4. CASE affected /\ hashes = None /\ ~Coming
    <3>1. known[File] = None
      BY <1>1, <1>5, <2>4 DEF FileInv, KnownAsHashed
    <3> QED BY <1>1, <1>2, <1>3, <1>5, <2>1, <2>4, <3>1 DEF FileInv, QueuedAsKnown, Coming, Holds, HoldsNew
  <2> QED BY <2>1, <2>2, <2>3, <2>4
<1> QED BY <1>4, <1>5 DEF FileInv

LEMMA SnapshotKeepsFile ==
  ASSUME WatcherOK, FileInv, Snapshot
  PROVE  FileInv'
<1>1. /\ at["reload"].step = "snapshot" /\ ~Holds("reload")
      /\ UNCHANGED <<file, events, hashes, known, last, raced>>
      /\ at'["reload"].step = "merge" /\ at'["reload"].updates = at["reload"].updates
      /\ \A h \in {"events", "connect", "disconnect"} : at'[h] = at[h]
  BY PlaceFacts, FileNames DEF Snapshot, FileInv, FileSteps
<1>2. FileTypes' /\ FileSteps' /\ FreshReads' /\ LastChange' /\ NotScanned' /\ OneIsNew'
  BY <1>1 DEF FileInv, FileTypes, FileSteps, LastChange, FreshReads, NotScanned, OneIsNew, Holds, HoldsNew
<1>3. ASSUME ~raced' PROVE Hashed' /\ KnownAsHashed' /\ QueuedAsKnown'
  BY <1>1, <1>3 DEF FileInv, Hashed, KnownAsHashed, QueuedAsKnown, Coming, Holds, HoldsNew
<1> QED BY <1>2, <1>3 DEF FileInv

\* What the snapshot says is what the hash stands for, unless something else is coming.
LEMMA MergeKeepsFile ==
  ASSUME WatcherOK, FileInv, Merge
  PROVE  FileInv'
<1> DEFINE due == {c \in Clients : Seen(c) # known[c] \/ (at["reload"].force /\ Seen(c) # None)}
           updates == [c \in due |-> Seen(c)]
           read == at["reload"].read
<1>1. /\ at["reload"].step = "merge" /\ ~Holds("reload") /\ UNCHANGED <<file, events, hashes, last>>
      /\ Hold("reload", updates) /\ known' = [c \in Clients |-> Seen(c)]
      /\ raced' <=> (raced \/ (read # file /\ hashes = file))
  BY DEF Merge, FileInv, FileSteps
<1>2. read \in Values /\ Seen(File) = read /\ (\A c \in Clients : Seen(c) \in Values)
  BY FileNames DEF Seen, WatcherOK, Holding
<1>3. known' \in [Clients -> Values] /\ known'[File] = read
  BY <1>1, <1>2, FileNames
<1>4. DOMAIN updates = due /\ (File \in due => updates[File] = read) /\ (known[File] # read => File \in due)
  BY <1>2, FileNames
<1> HIDE DEF updates, due, read
<1>5. /\ \A h \in {"events", "connect", "disconnect"} : at'[h] = at[h]
      /\ DOMAIN at'["reload"].updates = due
      /\ at'["reload"].step \in {"idle", "dispatch"}
      /\ File \in due => at'["reload"].step = "dispatch" /\ at'["reload"].updates[File] = read
  BY <1>1, <1>4, PlaceFacts, FileNames
<1>6. (Holds("reload")' <=> File \in due) /\ (File \in due => HoldsNew("reload")')
  BY <1>3, <1>5 DEF Holds, HoldsNew
<1>7. FileTypes' /\ FileSteps' /\ FreshReads' /\ LastChange' /\ NotScanned' /\ OneIsNew'
  BY <1>1, <1>3, <1>5, <1>6
     DEF FileInv, FileTypes, FileSteps, LastChange, FreshReads, NotScanned, OneIsNew, Holds
<1>8. ASSUME ~raced' PROVE Hashed' /\ KnownAsHashed' /\ QueuedAsKnown'
  <2>1. ~raced /\ (read = file \/ hashes # file)
    BY <1>1, <1>8
  <2>2. Coming' <=> Coming
    BY <1>1, <1>5 DEF Coming
  <2>3. hashes = file \/ Coming
    BY <1>1, <2>1 DEF FileInv, Hashed
  <2>4. Hashed' /\ KnownAsHashed'
    BY <1>1, <1>3, <2>1, <2>2, <2>3 DEF Hashed, KnownAsHashed
  <2>5. CASE File \in due
    BY <1>6, <2>4, <2>5 DEF QueuedAsKnown
  <2>6. CASE File \notin due
    <3>1. known'[File] = known[File]
      BY <1>3, <1>4, <2>6
    <3>2. HoldsNew("events") => HoldsNew("events")'
      BY <1>5, <3>1 DEF HoldsNew, Holds
    <3>3. ~HoldsNew("reload")
      BY <1>1 DEF HoldsNew
    <3> QED BY <1>1, <2>1, <2>2, <2>4, <3>1, <3>2, <3>3 DEF FileInv, QueuedAsKnown
  <2> QED BY <2>5, <2>6
<1> QED BY <1>7, <1>8 DEF FileInv

\* An update of the file that is older than what is known was queued while another
\* goroutine held the newer one, or a race is noted.
LEMMA DispatchKeepsFile ==
  ASSUME WatcherOK, FileInv, NEW g \in Goroutines, Dispatch(g)
  PROVE  FileInv'
<1>1. /\ at[g].step = "dispatch" /\ Rest(g) /\ UNCHANGED <<file, events, hashes, known>>
      /\ last' = [c \in Clients |-> IF c \in DOMAIN at[g].updates THEN at[g].updates[c] ELSE last[c]]
      /\ raced' <=> (raced \/ /\ File \in DOMAIN at[g].updates
                              /\ at[g].updates[File] # known[File]
                              /\ \A h \in Goroutines \ {g} : File \notin DOMAIN at[h].updates)
  BY DEF Dispatch
<1>2. /\ \A h \in Goroutines \ {g} : at'[h] = at[h]
      /\ at'[g].step = "idle" /\ ~Holds(g)'
  BY <1>1, PlaceFacts DEF Holds
<1>3. /\ Holds(g) => last'[File] = at[g].updates[File]
      /\ ~Holds(g) => last'[File] = last[File]
  BY <1>1, FileNames DEF Holds
<1>4. \A h \in Goroutines : Holds(h)' => h # g /\ Holds(h)
  BY <1>2 DEF Holds
<1>5. \A h \in Goroutines \ {g} : HoldsNew(h)' <=> HoldsNew(h)
  BY <1>1, <1>2 DEF Holds, HoldsNew
<1>6. \A h \in {"events", "reload"} : at'[h].step = at[h].step \/ (h = g /\ at'[h].step = "idle")
  BY <1>2, FileNames
<1>7. FileSteps'
  BY <1>1, <1>2, <1>4, <1>6, FileNames DEF FileInv, FileSteps
<1>8. FileTypes' /\ FreshReads' /\ LastChange' /\ NotScanned'
  BY <1>1, <1>2, <1>6, FileNames DEF FileInv, FileTypes, LastChange, FreshReads, NotScanned
<1>9. OneIsNew'
  BY <1>4, <1>5, FileNames DEF FileInv, OneIsNew
<1>10. ASSUME ~raced' PROVE Hashed' /\ KnownAsHashed' /\ QueuedAsKnown'
  <2>1. Coming' <=> Coming
    BY <1>1, <1>6, FileNames DEF Coming
  <2>2. at["reload"].step \in {"rescan", "snapshot", "merge"} => at'["reload"].step = at["reload"].step
    BY <1>1, <1>6
  <2>3. Hashed' /\ KnownAsHashed'
    BY <1>1, <1>10, <2>1, <2>2 DEF FileInv, Hashed, KnownAsHashed
  <2>4. CASE ~Holds(g)
    <3>1. HoldsNew("events") \/ HoldsNew("reload") => HoldsNew("events")' \/ HoldsNew("reload")'
      BY <1>5, <2>4, FileNames DEF HoldsNew
    <3> QED BY <1>1, <1>3, <1>10, <2>1, <2>3, <2>4, <3>1 DEF FileInv, QueuedAsKnown
  <2>5. CASE Holds(g) /\ at[g].updates[File] = known[File]
    BY <1>1, <1>3, <2>3, <2>5 DEF QueuedAsKnown
  <2>6. CASE Holds(g) /\ at[g].updates[File] # known[File]
    <3>1. PICK h \in Goroutines \ {g} : Holds(h)
      BY <1>1, <1>10, <2>6 DEF Holds
    <3>2. {g, h} = {"events", "reload"}
      BY <2>6, <3>1, FileNames DEF FileInv, FileSteps
    <3>3. HoldsNew(h)
      BY <2>6, <3>1, <3>2 DEF FileInv, OneIsNew, HoldsNew
    <3> QED BY <1>5, <2>3, <3>1, <3>2, <3>3 DEF QueuedAsKnown
  <2> QED BY <2>4, <2>5, <2>6
<1> QED BY <1>7, <1>8, <1>9, <1>10 DEF FileInv

LEMMA FileInvInit == Init => FileInv
<1> SUFFICES ASSUME Init PROVE FileInv
  OBVIOUS
<1>1. /\ at["events"].step = "idle" /\ at["reload"].step = "rescan"
      /\ \A g \in {"events", "reload", "connect", "disconnect"} : ~Holds(g)
  BY FileNames DEF Init, Resting, NoUpdates, Holds
<1>2. FileTypes
  BY EmptySeq, FileNames DEF Init, FileTypes
<1> QED BY <1>1, <1>2, FileNames
        DEF Init, FileInv, FileSteps, LastChange, FreshReads, OneIsNew, NotScanned,
            Hashed, KnownAsHashed, QueuedAsKnown

LEMMA FileInvKept == WatcherOK /\ FileInv /\ [Next]_vars => FileInv'
<1> SUFFICES ASSUME WatcherOK, FileInv, [Next]_vars PROVE FileInv'
  OBVIOUS
<1>0. ASSUME UNCHANGED <<watcherVars, last, raced>> PROVE FileInv'
  BY <1>0, FileLeft DEF watcherVars, FileInv, FileTypes, FileSteps, Holds
<1>1. ASSUME NEW content \in Contents, WriteFile(content) PROVE FileInv'
  BY <1>1, FileChanges, FileNames DEF WriteFile
<1>2. CASE RemoveFile
  BY <1>2, FileChanges, FileNames DEF RemoveFile
<1>3. CASE WindowEnds
  BY <1>3, FileLeft DEF WindowEnds, FileInv, FileTypes, FileSteps, Holds
<1>4. CASE Connect \/ Disconnect \/ Check
  <2>1. PICK g \in {"connect", "disconnect"} :
          /\ (\E step : Go(g, step)) \/ Rest(g)
          /\ UNCHANGED <<file, events, hashes, known, last, raced>>
    BY <1>4 DEF Connect, Disconnect, Check
  <2>2. /\ at'["events"] = at["events"] /\ at'["reload"] = at["reload"]
        /\ ~Holds("connect")' /\ ~Holds("disconnect")'
    BY <2>1, PlaceFacts, FileNames DEF Holds, FileInv, FileSteps
  <2> QED BY <2>1, <2>2, FileLeft DEF FileInv, FileTypes
<1>5. ASSUME NEW g \in {"connect", "disconnect"}, NEW step, NEW auth \in Values, Announce(g, step, auth)
      PROVE  FileInv'
  <2> DEFINE updates == [c \in {Relay} |-> auth]
  <2>1. /\ Hold(g, updates) /\ UNCHANGED <<file, events, hashes, last, raced>>
        /\ known' = [known EXCEPT ![Relay] = auth]
    BY <1>5 DEF Announce
  <2>2. File \notin DOMAIN updates
    BY FileNames
  <2> HIDE DEF updates
  <2>3. /\ at'["events"] = at["events"] /\ at'["reload"] = at["reload"]
        /\ ~Holds("connect")' /\ ~Holds("disconnect")'
    BY <2>1, <2>2, PlaceFacts, FileNames DEF Holds, FileInv, FileSteps
  <2>4. known' \in [Clients -> Values] /\ known'[File] = known[File]
    BY <2>1, FileNames DEF FileInv, FileTypes
  <2> QED BY <2>1, <2>3, <2>4, FileLeft
<1>6. ASSUME NEW force \in BOOLEAN, NEW affected \in BOOLEAN, ReloadConfig(force, affected) PROVE FileInv'
  BY <1>6, ConfigKeepsFile
<1>7. CASE EventStep
  BY <1>7, TakeKeepsFile, StatKeepsFile, CompareKeepsFile, ReopenKeepsFile, ApplyKeepsFile, ForgetKeepsFile
     DEF EventStep
<1>8. CASE ReloadStep
  BY <1>8, RescanKeepsFile, SnapshotKeepsFile, MergeKeepsFile DEF ReloadStep
<1>9. CASE RelayStep
  <2>1. RelayAuth \in Values /\ None \in Values
    BY DEF Values, Auths
  <2> QED BY <1>4, <1>5, <1>9, <2>1 DEF RelayStep
<1>10. ASSUME NEW g \in Goroutines, Dispatch(g) PROVE FileInv'
  BY <1>10, DispatchKeepsFile
<1>11. CASE Carry \/ Serve
  BY <1>0, <1>11 DEF Carry, NextBatch, Deliver, Serve, AddOrUpdate, RegisterModels, Removal, Disable
<1>12. ASSUME \/ \E c \in Clients, m \in Models : Send(c, m)
              \/ \E outcome \in {"ok", "quota", "refused"} : Answer(outcome)
              \/ MarkLate \/ ListModels \/ TimePasses
       PROVE  FileInv'
  BY <1>0, <1>12 DEF Send, Answer, MarkLate, ListModels, TimePasses
<1>13. CASE UNCHANGED vars
  BY <1>0, <1>13 DEF vars
<1> QED BY <1>1, <1>2, <1>3, <1>4, <1>6, <1>7, <1>8, <1>9, <1>10, <1>11, <1>12, <1>13 DEF Next

LEMMA FileInvariance == Spec => []FileInv
<1>1. IInv => WatcherOK
  BY DEF IInv, TypeInv
<1> QED BY <1>1, FileInvInit, FileInvKept, Invariance, PTL DEF Spec

\* When every event has been handled, nobody looks, holds or carries anything and none of
\* the four races has occurred, the service uses the auth as the file says: the hash stands
\* for the file, what is known is what the hash stands for, and that was queued last.
THEOREM FileReachesService == Spec => []FileIsServed
<1>1. FileInv /\ LastQueuedWins => FileIsServed
  <2> SUFFICES ASSUME FileInv, LastQueuedWins, Settled, ~raced PROVE Serves(File, file)
    BY DEF FileIsServed
  <2>1. events = <<>> /\ at["events"].step = "idle" /\ at["reload"].step = "idle" /\ Delivered(File)
    BY FileNames DEF Settled, Idle
  <2>2. ~Coming /\ ~Holds("events") /\ ~Holds("reload")
    BY <2>1 DEF Coming, FileInv, FileSteps
  <2>3. hashes = file /\ known[File] = hashes
    BY <2>1, <2>2 DEF FileInv, Hashed, KnownAsHashed
  <2>4. last[File] = known[File]
    <3>1. known[File] = None /\ hashes # None => FALSE
      BY <2>3
    <3> QED BY <2>2, <3>1 DEF FileInv, QueuedAsKnown, HoldsNew
  <2>5. Serves(File, last[File])
    BY <2>1, FileNames DEF LastQueuedWins
  <2> QED BY <2>3, <2>4, <2>5
<1> QED BY <1>1, FileInvariance, LastIsServed, PTL

-----------------------------------------------------------------------------
(* The references: a client's mentions of a model are its part of the      *)
(* registration's count and of its provider's; CountInv says that all of   *)
(* them together are the counts.                                            *)

\* Whose models count has a provider.
Provided == \A c \in Clients : clientModels[c] # <<>> => clientProvider[c] \in Providers

CountInv == CountsAgree /\ Provided

\* reg counts rest in total and others[p] for each provider, but also a for one provider
\* and b for another, which may be the same.
Accounts(reg, rest, others, from, a, to, b) ==
  /\ reg.count = rest + a + b
  /\ \A p \in Providers :
       reg.providers[p] = others[p] + (IF p = from THEN a ELSE 0) + (IF p = to THEN b ELSE 0)

LEMMA GainedAccounts ==
  ASSUME NEW reg \in Registration, NEW rest \in Nat, NEW others \in [Providers -> Nat], NEW from, NEW to \in Providers,
         NEW b \in Nat, NEW n \in Nat, Accounts(reg, rest, others, from, 0, to, b)
  PROVE  Accounts(Gained(reg, to, n), rest, others, from, 0, to, b + n)
<1>1. Gained(reg, to, n).count = reg.count + n
  BY DEF Gained, Registration
<1>2. ASSUME NEW p \in Providers
      PROVE  Gained(reg, to, n).providers[p] = IF p = to THEN reg.providers[p] + n ELSE reg.providers[p]
  BY DEF Gained, Registration
<1>3. ASSUME NEW p \in Providers
      PROVE  Gained(reg, to, n).providers[p] = others[p] + (IF p = from THEN 0 ELSE 0) + (IF p = to THEN b + n ELSE 0)
  <2>1. others[p] \in Nat
    OBVIOUS
  <2> QED BY <1>2, <2>1 DEF Accounts
<1> QED BY <1>1, <1>3 DEF Accounts

LEMMA DroppedAccounts ==
  ASSUME NEW reg \in Registration, NEW rest \in Nat, NEW others \in [Providers -> Nat], NEW from \in Providers, NEW to,
         NEW c \in Clients, NEW a \in Nat, NEW b \in Nat, Accounts(reg, rest, others, from, a, to, b),
         rest = 0 => \A p \in Providers : others[p] = 0
  PROVE  Accounts(Dropped(reg, c, from, a), rest, others, from, 0, to, b)
<1>1. CASE a = 0
  BY <1>1 DEF Dropped
<1>2. CASE a # 0 /\ reg.count <= a
  <2>1. rest = 0 /\ b = 0
    BY <1>2 DEF Accounts
  <2> QED BY <1>2, <2>1 DEF Dropped, NoRegistration, Accounts
<1>3. CASE a # 0 /\ ~(reg.count <= a)
  <2> DEFINE new == Dropped(reg, c, from, a)
  <2>1. /\ new.count = reg.count - a
        /\ \A p \in Providers : new.providers[p] = IF p = from THEN Less(reg.providers[p], a) ELSE reg.providers[p]
    BY <1>3 DEF Dropped, Lifted, Registration
  <2> HIDE DEF new
  <2>2. ASSUME NEW p \in Providers
        PROVE  new.providers[p] = others[p] + (IF p = from THEN 0 ELSE 0) + (IF p = to THEN b ELSE 0)
    <3>1. others[p] \in Nat
      OBVIOUS
    <3> QED BY <2>1, <3>1 DEF Accounts, Less
  <2>3. new.count = rest + 0 + b
    BY <2>1 DEF Accounts
  <2>4. Accounts(new, rest, others, from, 0, to, b)
    BY <2>2, <2>3 DEF Accounts
  <2> QED BY <2>4 DEF new
<1> QED BY <1>1, <1>2, <1>3

LEMMA MovedAccounts ==
  ASSUME NEW reg \in Registration, NEW rest \in Nat, NEW others \in [Providers -> Nat],
         NEW from \in Providers, NEW to \in Providers, from # to,
         NEW a \in Nat, NEW n \in Nat, n <= a, Accounts(reg, rest, others, from, a, to, 0)
  PROVE  Accounts(Moved(reg, from, to, n), rest, others, from, a - n, to, n)
<1> DEFINE new == Moved(reg, from, to, n)
<1>1. /\ new.count = reg.count
      /\ \A p \in Providers : new.providers[p] = IF p = to THEN reg.providers[p] + n
                                                 ELSE IF p = from THEN Less(reg.providers[p], n)
                                                 ELSE reg.providers[p]
  BY DEF Moved, Registration
<1> HIDE DEF new
<1>2. ASSUME NEW p \in Providers
      PROVE  new.providers[p] = others[p] + (IF p = from THEN a - n ELSE 0) + (IF p = to THEN n ELSE 0)
  <2>1. others[p] \in Nat
    OBVIOUS
  <2> QED BY <1>1, <2>1 DEF Accounts, Less
<1>3. new.count = rest + (a - n) + n
  BY <1>1 DEF Accounts
<1>4. Accounts(new, rest, others, from, a - n, to, n)
  BY <1>2, <1>3 DEF Accounts
<1> QED BY <1>4 DEF new

LEMMA LiftedAccounts ==
  ASSUME NEW reg \in Registration, NEW rest, NEW others, NEW from, NEW a, NEW to, NEW b, NEW c \in Clients,
         Accounts(reg, rest, others, from, a, to, b)
  PROVE  Accounts(Lifted(reg, c), rest, others, from, a, to, b)
<1> QED BY DEF Accounts, Lifted, Registration

\* What a client that is known mentions is replaced by what it mentions now.
LEMMA ReconciledAccounts ==
  ASSUME Registered, NEW m \in Models, NEW c \in Clients, NEW provider \in Providers, NEW list \in Seq(Models),
         clientProvider[c] \in Providers, NEW rest \in Nat, NEW others \in [Providers -> Nat],
         rest = 0 => \A p \in Providers : others[p] = 0,
         Accounts(models[m], rest, others, clientProvider[c], Occurrences(clientModels[c], m), provider, 0)
  PROVE  Accounts(Reconciled(m, c, provider, list), rest, others, clientProvider[c], 0, provider, Occurrences(list, m))
<1> DEFINE from == clientProvider[c]
           old == Occurrences(clientModels[c], m)
           new == Occurrences(list, m)
           both == Min({old, new})
           placed == IF from = provider THEN models[m] ELSE Moved(models[m], from, provider, both)
           cut == Dropped(placed, c, from, Less(old, new))
           resized == Gained(cut, provider, Less(new, old))
<1>1. Reconciled(m, c, provider, list) = IF new > 0 THEN Lifted(resized, c) ELSE resized
  BY DEF Reconciled
<1>2. models[m] \in Registration /\ old \in Nat /\ new \in Nat /\ from \in Providers
  BY OccurrencesType DEF Registered
<1>3. Accounts(models[m], rest, others, from, old, provider, 0)
  OBVIOUS
<1> SUFFICES Accounts(Reconciled(m, c, provider, list), rest, others, from, 0, provider, new)
  OBVIOUS
<1> HIDE DEF from, old, new
<1>4. /\ both \in Nat /\ both <= old /\ both <= new
      /\ Less(old, new) = old - both /\ Less(new, old) = new - both
      /\ old - both \in Nat /\ new - both \in Nat
  <2>1. both \in {old, new} /\ \A x \in {old, new} : both <= x
    BY <1>2, MinFacts
  <2> HIDE DEF both
  <2> QED BY <1>2, <2>1 DEF Less
<1> HIDE DEF both
<1>5. placed \in Registration /\ Accounts(placed, rest, others, from, old - both, provider, both)
  <2>1. CASE from = provider
    <3>1. Accounts(models[m], rest, others, from, old - both, provider, both)
      <4>1. ASSUME NEW p \in Providers
            PROVE  models[m].providers[p] = others[p] + (IF p = from THEN old - both ELSE 0) + (IF p = provider THEN both ELSE 0)
        <5>1. others[p] \in Nat
          OBVIOUS
        <5> QED BY <1>2, <1>3, <1>4, <2>1, <5>1 DEF Accounts
      <4> QED BY <1>2, <1>3, <1>4, <4>1 DEF Accounts
    <3> QED BY <1>2, <2>1, <3>1
  <2>2. CASE from # provider
    <3>1. Moved(models[m], from, provider, both) \in Registration
      BY <1>2, <1>4, RegistrationsKept
    <3>2. Accounts(Moved(models[m], from, provider, both), rest, others, from, old - both, provider, both)
      BY <1>2, <1>3, <1>4, <2>2, MovedAccounts
    <3> QED BY <2>2, <3>1, <3>2
  <2> QED BY <2>1, <2>2
<1> HIDE DEF placed
<1>6. cut \in Registration /\ Accounts(cut, rest, others, from, 0, provider, both)
  BY <1>2, <1>4, <1>5, DroppedAccounts, RegistrationsKept
<1> HIDE DEF cut
<1>7. resized \in Registration /\ Accounts(resized, rest, others, from, 0, provider, both + (new - both))
  BY <1>2, <1>4, <1>6, GainedAccounts, RegistrationsKept
<1> HIDE DEF resized
<1>8. both + (new - both) = new
  BY <1>2, <1>4
<1>9. Accounts(resized, rest, others, from, 0, provider, new)
  BY <1>7, <1>8
<1> QED BY <1>1, <1>7, <1>9, LiftedAccounts

LEMMA ClientsFinite == IsFiniteSet(Clients)
<1>1. Clients = ({} \cup {File}) \cup {Relay}
  BY WatcherConstants
<1>2. IsFiniteSet({} \cup {File})
  BY FS_EmptySet, FS_AddElement
<1> QED BY <1>1, <1>2, FS_AddElement

\* The mentions of a model by some clients are finitely many, and those by one of them are
\* as many as its occurrences in its list.
LEMMA MentionsFacts ==
  ASSUME NEW lists \in [Clients -> Seq(Models)], NEW m, NEW S \in SUBSET Clients
  PROVE  /\ IsFiniteSet(Mentions(lists, m, S)) /\ Cardinality(Mentions(lists, m, S)) \in Nat
         /\ \A c \in S : Cardinality(Mentions(lists, m, S)) = Cardinality(Mentions(lists, m, S \ {c})) + Occurrences(lists[c], m)
<1> DEFINE places(c) == {i \in DOMAIN lists[c] : lists[c][i] = m}
           pairs == [c \in Clients |-> {c} \X places(c)]
<1>1. \A c \in Clients : IsFiniteSet(places(c)) /\ Cardinality(places(c)) = Occurrences(lists[c], m)
  <2> SUFFICES ASSUME NEW c \in Clients
               PROVE  IsFiniteSet(places(c)) /\ Cardinality(places(c)) = Occurrences(lists[c], m)
    OBVIOUS
  <2>1. DOMAIN lists[c] = 1..Len(lists[c]) /\ Len(lists[c]) \in Nat
    BY LenProperties
  <2>2. IsFiniteSet(1..Len(lists[c]))
    BY <2>1, FS_Interval
  <2>3. IsFiniteSet(places(c))
    BY <2>1, <2>2, FS_Subset
  <2> QED BY <2>3 DEF Occurrences
<1>2. \A c \in Clients : Occurrences(lists[c], m) \in Nat
  BY OccurrencesType
<1>3. \A T : Mentions(lists, m, T) = UNION {{c} \X places(c) : c \in T}
  BY DEF Mentions
<1> HIDE DEF places
<1>4. \A c \in Clients : IsFiniteSet(pairs[c]) /\ Cardinality(pairs[c]) = Occurrences(lists[c], m)
  <2> SUFFICES ASSUME NEW c \in Clients
               PROVE  IsFiniteSet({c} \X places(c)) /\ Cardinality({c} \X places(c)) = Occurrences(lists[c], m)
    OBVIOUS
  <2>1. IsFiniteSet({c}) /\ Cardinality({c}) = 1
    BY FS_Singleton
  <2>2. IsFiniteSet({c} \X places(c)) /\ Cardinality({c} \X places(c)) = Cardinality({c}) * Cardinality(places(c))
    BY <1>1, <2>1, FS_Product
  <2>3. Cardinality({c}) * Cardinality(places(c)) = Occurrences(lists[c], m)
    BY <1>1, <1>2, <2>1
  <2> QED BY <2>2, <2>3
<1>5. \A c \in Clients : pairs[c] = {c} \X places(c) /\ \A e \in pairs[c] : e[1] = c
  OBVIOUS
<1> HIDE DEF pairs
<1>6. \A T \in SUBSET Clients : \A e : e \in Mentions(lists, m, T) <=> \E c \in T : e \in pairs[c]
  BY <1>3, <1>5
<1>7. ASSUME NEW T \in SUBSET Clients PROVE IsFiniteSet(Mentions(lists, m, T)) /\ Cardinality(Mentions(lists, m, T)) \in Nat
  <2> DEFINE sets == {pairs[c] : c \in T}
             f == [c \in T |-> pairs[c]]
  <2>1. IsFiniteSet(T)
    BY ClientsFinite, FS_Subset
  <2>2. f \in Surjection(T, sets)
    BY DEF Surjection
  <2>3. IsFiniteSet(sets)
    BY <2>1, <2>2, FS_Surjection
  <2>4. \A U \in sets : IsFiniteSet(U)
    BY <1>4
  <2>5. Mentions(lists, m, T) = UNION sets
    BY <1>6
  <2> HIDE DEF sets
  <2>6. IsFiniteSet(Mentions(lists, m, T))
    BY <2>3, <2>4, <2>5, FS_UNION
  <2> QED BY <2>6, FS_CardinalityType
<1>8. ASSUME NEW c \in S
      PROVE  Cardinality(Mentions(lists, m, S)) = Cardinality(Mentions(lists, m, S \ {c})) + Occurrences(lists[c], m)
  <2>1. Mentions(lists, m, S) = Mentions(lists, m, S \ {c}) \cup pairs[c]
    BY <1>6
  <2>2. Mentions(lists, m, S \ {c}) \cap pairs[c] = {}
    BY <1>5, <1>6
  <2>3. S \ {c} \in SUBSET Clients /\ c \in Clients
    OBVIOUS
  <2>4. /\ Cardinality(Mentions(lists, m, S)) = Cardinality(Mentions(lists, m, S \ {c})) + Cardinality(pairs[c])
                                         - Cardinality(Mentions(lists, m, S \ {c}) \cap pairs[c])
    BY <1>4, <1>7, <2>1, <2>3, FS_Union
  <2>5. Cardinality(Mentions(lists, m, S \ {c}) \cap pairs[c]) = 0
    BY <2>2, FS_EmptySet
  <2>6. Cardinality(Mentions(lists, m, S \ {c})) \in Nat /\ Occurrences(lists[c], m) \in Nat
    BY <1>2, <1>7, <2>3
  <2> QED BY <1>4, <2>3, <2>4, <2>5, <2>6
<1> QED BY <1>7, <1>8

RestOf(lists, m, c) == Cardinality(Mentions(lists, m, Clients \ {c}))
OthersOf(lists, provs, m, c) ==
  [p \in Providers |-> Cardinality(Mentions(lists, m, {d \in Clients : provs[d] = p} \ {c}))]
Agrees(reg, lists, provs, m) ==
  /\ reg.count = Cardinality(Mentions(lists, m, Clients))
  /\ \A p \in Providers : reg.providers[p] = Cardinality(Mentions(lists, m, {c \in Clients : provs[c] = p}))

\* A registration agrees with the clients if it accounts for one of them and the rest.
LEMMA AgreesIfAccounted ==
  ASSUME NEW lists \in [Clients -> Seq(Models)], NEW provs, NEW m, NEW c \in Clients, NEW reg, NEW q
  PROVE  /\ RestOf(lists, m, c) \in Nat
         /\ OthersOf(lists, provs, m, c) \in [Providers -> Nat]
         /\ RestOf(lists, m, c) = 0 => \A p \in Providers : OthersOf(lists, provs, m, c)[p] = 0
         /\ Agrees(reg, lists, provs, m) <=>
              Accounts(reg, RestOf(lists, m, c), OthersOf(lists, provs, m, c), q, 0, provs[c], Occurrences(lists[c], m))
<1> DEFINE rest == RestOf(lists, m, c)
           others == OthersOf(lists, provs, m, c)
           occ == Occurrences(lists[c], m)
           of(p) == {d \in Clients : provs[d] = p}
<1>1. occ \in Nat
  BY OccurrencesType
<1>2. rest \in Nat /\ others \in [Providers -> Nat]
  <2>1. \A p \in Providers : of(p) \ {c} \in SUBSET Clients
    OBVIOUS
  <2>2. \A p \in Providers : Cardinality(Mentions(lists, m, of(p) \ {c})) \in Nat
    BY <2>1, MentionsFacts
  <2>3. Clients \ {c} \in SUBSET Clients
    OBVIOUS
  <2>4. Cardinality(Mentions(lists, m, Clients \ {c})) \in Nat
    BY <2>3, MentionsFacts
  <2> QED BY <2>2, <2>4 DEF RestOf, OthersOf
<1>3. rest = 0 => \A p \in Providers : others[p] = 0
  <2> SUFFICES ASSUME rest = 0, NEW p \in Providers PROVE Cardinality(Mentions(lists, m, of(p) \ {c})) = 0
    BY DEF OthersOf
  <2>1. IsFiniteSet(Mentions(lists, m, Clients \ {c}))
    <3>1. Clients \ {c} \in SUBSET Clients
      OBVIOUS
    <3> QED BY <3>1, MentionsFacts
  <2>2. Mentions(lists, m, Clients \ {c}) = {}
    BY <2>1, FS_EmptySet DEF RestOf
  <2>3. Mentions(lists, m, of(p) \ {c}) = {}
    BY <2>2 DEF Mentions
  <2> QED BY <2>3, FS_EmptySet
<1>4. Cardinality(Mentions(lists, m, Clients)) = rest + occ
  BY MentionsFacts DEF RestOf
<1>5. ASSUME NEW p \in Providers
      PROVE  Cardinality(Mentions(lists, m, of(p))) = others[p] + (IF p = provs[c] THEN occ ELSE 0)
  <2>1. of(p) \in SUBSET Clients /\ others[p] = Cardinality(Mentions(lists, m, of(p) \ {c}))
    BY DEF OthersOf
  <2>2. p = provs[c] <=> c \in of(p)
    OBVIOUS
  <2>3. ~(c \in of(p)) => of(p) \ {c} = of(p)
    OBVIOUS
  <2>4. others[p] \in Nat
    BY <1>2
  <2> HIDE DEF of, others, occ
  <2>5. CASE c \in of(p)
    BY <2>1, <2>2, <2>5, MentionsFacts DEF occ
  <2>6. CASE ~(c \in of(p))
    <3>1. Cardinality(Mentions(lists, m, of(p))) = others[p]
      BY <2>1, <2>3, <2>6
    <3> QED BY <2>2, <2>4, <2>6, <3>1
  <2> QED BY <2>5, <2>6
<1> HIDE DEF rest, others, occ
<1>6. Agrees(reg, lists, provs, m) <=>
        /\ reg.count = rest + occ
        /\ \A p \in Providers : reg.providers[p] = others[p] + (IF p = provs[c] THEN occ ELSE 0)
  <2>1. Agrees(reg, lists, provs, m) <=>
          /\ reg.count = Cardinality(Mentions(lists, m, Clients))
          /\ \A p \in Providers : reg.providers[p] = Cardinality(Mentions(lists, m, of(p)))
    BY DEF Agrees
  <2> HIDE DEF of
  <2> QED BY <1>4, <1>5, <2>1
<1> HIDE DEF of
<1>7. Accounts(reg, rest, others, q, 0, provs[c], occ) <=>
        /\ reg.count = rest + occ
        /\ \A p \in Providers : reg.providers[p] = others[p] + (IF p = provs[c] THEN occ ELSE 0)
  <2>1. rest + 0 + occ = rest + occ
    BY <1>1, <1>2
  <2>2. \A p \in Providers : others[p] + (IF p = q THEN 0 ELSE 0) + (IF p = provs[c] THEN occ ELSE 0)
                               = others[p] + (IF p = provs[c] THEN occ ELSE 0)
    BY <1>1, <1>2
  <2> QED BY <2>1, <2>2 DEF Accounts
<1>8. Agrees(reg, lists, provs, m) <=> Accounts(reg, rest, others, q, 0, provs[c], occ)
  BY <1>6, <1>7
<1> QED BY <1>2, <1>3, <1>8 DEF rest, others, occ

\* Others' mentions and providers are as before.
LEMMA RestKept ==
  ASSUME NEW lists, NEW provs, NEW new, NEW newProvs, NEW m, NEW c \in Clients,
         \A d \in Clients \ {c} : new[d] = lists[d] /\ newProvs[d] = provs[d]
  PROVE  /\ RestOf(new, m, c) = RestOf(lists, m, c)
         /\ OthersOf(new, newProvs, m, c) = OthersOf(lists, provs, m, c)
<1>1. \A T \in SUBSET (Clients \ {c}) : Mentions(new, m, T) = Mentions(lists, m, T)
  <2> SUFFICES ASSUME NEW T \in SUBSET (Clients \ {c}) PROVE Mentions(new, m, T) = Mentions(lists, m, T)
    OBVIOUS
  <2>1. \A d \in T : new[d] = lists[d]
    OBVIOUS
  <2> QED BY <2>1 DEF Mentions
<1>2. Clients \ {c} \in SUBSET (Clients \ {c})
  OBVIOUS
<1>3. \A p \in Providers : /\ {d \in Clients : newProvs[d] = p} \ {c} = {d \in Clients : provs[d] = p} \ {c}
                           /\ {d \in Clients : provs[d] = p} \ {c} \in SUBSET (Clients \ {c})
  OBVIOUS
<1>4. \A p \in Providers : Mentions(new, m, {d \in Clients : newProvs[d] = p} \ {c})
                             = Mentions(lists, m, {d \in Clients : provs[d] = p} \ {c})
  BY <1>1, <1>3
<1> QED BY <1>1, <1>2, <1>4 DEF RestOf, OthersOf

LEMMA RegisterKeepsCounts ==
  ASSUME Registered, CountInv, NEW c \in Clients, NEW provider \in Providers, NEW list \in Seq(Models),
         clientProvider \in [Clients -> Providers \cup {None}], RegisterClient(c, provider, list)
  PROVE  CountInv'
<1>1. /\ clientModels' \in [Clients -> Seq(Models)] /\ clientModels'[c] = list
      /\ clientProvider' \in [Clients -> Providers \cup {None}] /\ clientProvider'[c] = provider
      /\ \A d \in Clients \ {c} : clientModels'[d] = clientModels[d] /\ clientProvider'[d] = clientProvider[d]
  BY DEF RegisterClient, Registered
<1>2. Provided'
  BY <1>1 DEF CountInv, Provided
<1>3. ASSUME NEW m \in Models PROVE Agrees(models'[m], clientModels', clientProvider', m)
  <2> DEFINE rest == RestOf(clientModels, m, c)
             others == OthersOf(clientModels, clientProvider, m, c)
             old == Occurrences(clientModels[c], m)
  <2>1. Agrees(models[m], clientModels, clientProvider, m)
    BY DEF CountInv, CountsAgree, Agrees
  <2>2. clientModels \in [Clients -> Seq(Models)] /\ models[m] \in Registration
    BY DEF Registered
  <2>3. /\ rest \in Nat /\ others \in [Providers -> Nat]
        /\ rest = 0 => \A p \in Providers : others[p] = 0
        /\ Accounts(models[m], rest, others, provider, 0, clientProvider[c], old)
    BY <2>1, <2>2, AgreesIfAccounted
  <2>4. old \in Nat /\ Occurrences(list, m) \in Nat
    BY <2>2, OccurrencesType
  <2>5. RestOf(clientModels', m, c) = rest /\ OthersOf(clientModels', clientProvider', m, c) = others
    BY <1>1, RestKept
  <2> HIDE DEF rest, others
  <2>6. PICK q : Accounts(models'[m], rest, others, q, 0, provider, Occurrences(list, m))
    <3>1. CASE clientModels[c] = <<>>
      <4>1. old = 0
        <5>1. {i \in DOMAIN clientModels[c] : clientModels[c][i] = m} = {}
          BY <3>1, EmptySeq
        <5> QED BY <5>1, FS_EmptySet DEF Occurrences
      <4>2. Accounts(models[m], rest, others, clientProvider[c], 0, provider, 0)
        BY <2>3, <4>1 DEF Accounts
      <4>3. Accounts(Gained(models[m], provider, Occurrences(list, m)), rest, others, clientProvider[c], 0,
                     provider, 0 + Occurrences(list, m))
        BY <2>2, <2>3, <2>4, <4>2, GainedAccounts
      <4>4. models'[m] = Gained(models[m], provider, Occurrences(list, m)) /\ 0 + Occurrences(list, m) = Occurrences(list, m)
        BY <2>4, <3>1 DEF RegisterClient
      <4> QED BY <4>3, <4>4
    <3>2. CASE clientModels[c] # <<>>
      <4>1. clientProvider[c] \in Providers
        BY <3>2 DEF CountInv, Provided
      <4>2. Accounts(models[m], rest, others, clientProvider[c], old, provider, 0)
        BY <2>3, <2>4 DEF Accounts
      <4>3. Accounts(Reconciled(m, c, provider, list), rest, others, clientProvider[c], 0, provider, Occurrences(list, m))
        BY <2>3, <4>1, <4>2, ReconciledAccounts
      <4>4. models'[m] = Reconciled(m, c, provider, list)
        BY <3>2 DEF RegisterClient
      <4> QED BY <4>3, <4>4
    <3> QED BY <3>1, <3>2
  <2>7. Accounts(models'[m], RestOf(clientModels', m, c), OthersOf(clientModels', clientProvider', m, c), q, 0,
                 clientProvider'[c], Occurrences(clientModels'[c], m))
    BY <1>1, <2>5, <2>6
  <2> QED BY <1>1, <2>7, AgreesIfAccounted
<1> QED BY <1>2, <1>3 DEF CountInv, CountsAgree, Agrees

LEMMA UnregisterKeepsCounts ==
  ASSUME Registered, CountInv, NEW c \in Clients,
         clientProvider \in [Clients -> Providers \cup {None}], UnregisterClient(c)
  PROVE  CountInv'
<1>1. /\ clientModels' \in [Clients -> Seq(Models)] /\ clientModels'[c] = <<>>
      /\ \A d \in Clients \ {c} : clientModels'[d] = clientModels[d] /\ clientProvider'[d] = clientProvider[d]
  BY EmptySeq DEF UnregisterClient, Registered
<1>2. Provided'
  BY <1>1 DEF CountInv, Provided
<1>3. ASSUME NEW m \in Models PROVE Agrees(models'[m], clientModels', clientProvider', m)
  <2> DEFINE rest == RestOf(clientModels, m, c)
             others == OthersOf(clientModels, clientProvider, m, c)
             from == clientProvider[c]
             to == clientProvider'[c]
             old == Occurrences(clientModels[c], m)
  <2>1. Agrees(models[m], clientModels, clientProvider, m)
    BY DEF CountInv, CountsAgree, Agrees
  <2>2. clientModels \in [Clients -> Seq(Models)] /\ models[m] \in Registration
    BY DEF Registered
  <2>3. /\ rest \in Nat /\ others \in [Providers -> Nat]
        /\ rest = 0 => \A p \in Providers : others[p] = 0
        /\ Accounts(models[m], rest, others, to, 0, from, old)
    BY <2>1, <2>2, AgreesIfAccounted
  <2>4. old \in Nat
    BY <2>2, OccurrencesType
  <2>5. RestOf(clientModels', m, c) = rest /\ OthersOf(clientModels', clientProvider', m, c) = others
    <3>1. \A d \in Clients \ {c} : clientModels'[d] = clientModels[d] /\ clientProvider'[d] = clientProvider[d]
      BY <1>1
    <3> QED BY <3>1, RestKept
  <2>6. Occurrences(clientModels'[c], m) = 0
    <3>1. {i \in DOMAIN clientModels'[c] : clientModels'[c][i] = m} = {}
      BY <1>1, EmptySeq
    <3> QED BY <3>1, FS_EmptySet DEF Occurrences
  <2>7. models'[m] = Dropped(models[m], c, from, old)
    BY DEF UnregisterClient
  <2>8. clientModels[c] # <<>> => from \in Providers
    BY DEF CountInv, Provided
  <2>9. clientModels[c] = <<>> => old = 0
    <3>1. clientModels[c] = <<>> => {i \in DOMAIN clientModels[c] : clientModels[c][i] = m} = {}
      BY EmptySeq
    <3> QED BY <3>1, FS_EmptySet DEF Occurrences
  <2> HIDE DEF rest, others, from, to, old
  <2>10. Accounts(models'[m], rest, others, from, 0, to, 0)
    <3>1. Accounts(models[m], rest, others, from, old, to, 0)
      BY <2>3, <2>4 DEF Accounts
    <3>2. CASE clientModels[c] = <<>>
      BY <2>7, <2>9, <3>1, <3>2 DEF Dropped
    <3>3. CASE clientModels[c] # <<>>
      BY <2>2, <2>3, <2>4, <2>7, <2>8, <3>1, <3>3, DroppedAccounts
    <3> QED BY <3>2, <3>3
  <2>11. Accounts(models'[m], RestOf(clientModels', m, c), OthersOf(clientModels', clientProvider', m, c), from, 0,
                  clientProvider'[c], Occurrences(clientModels'[c], m))
    BY <2>5, <2>6, <2>10 DEF to
  <2> QED BY <1>1, <2>11, AgreesIfAccounted
<1> QED BY <1>2, <1>3 DEF CountInv, CountsAgree, Agrees

\* Marks leave the counts alone.
LEMMA CountsLeft ==
  ASSUME CountInv, UNCHANGED <<clientModels, clientProvider>>,
         \A m \in Models : models'[m].count = models[m].count /\ models'[m].providers = models[m].providers
  PROVE  CountInv'
<1> QED BY DEF CountInv, CountsAgree, Provided

LEMMA MarkKeepsCounts ==
  ASSUME Registered, CountInv, NEW c \in Clients, NEW m \in Models,
         NEW call \in {"exceed", "clear", "resume", "suspend", "pause"}, Mark(c, m, call)
  PROVE  CountInv'
<1> DEFINE reg == IF Exists(m) THEN Marked(models[m], c, call) ELSE models[m]
<1>1. reg.count = models[m].count /\ reg.providers = models[m].providers
  BY DEF Marked, Registered, Registration
<1>2. models' = [models EXCEPT ![m] = reg] /\ UNCHANGED <<clientModels, clientProvider>>
  BY DEF Mark
<1> HIDE DEF reg
<1> QED BY <1>1, <1>2, CountsLeft DEF Registered

LEMMA TickKeepsCounts ==
  ASSUME Registered, CountInv, Tick
  PROVE  CountInv'
<1>1. ASSUME NEW m \in Models
      PROVE  models'[m].count = models[m].count /\ models'[m].providers = models[m].providers
  BY DEF Tick, Registered, Registration
<1> QED BY <1>1, CountsLeft DEF Tick

LEMMA CountInvInit == Init => CountInv
<1> SUFFICES ASSUME Init PROVE CountInv
  OBVIOUS
<1>1. \A c \in Clients : clientModels[c] = <<>>
  BY DEF Init, RegistryInit
<1>2. \A m \in Models, S \in SUBSET Clients : Mentions(clientModels, m, S) = {}
  BY <1>1, EmptySeq DEF Mentions
<1>3. Cardinality({}) = 0
  BY FS_EmptySet
<1>4. \A p \in Providers : {c \in Clients : clientProvider[c] = p} \in SUBSET Clients
  OBVIOUS
<1>5. CountsAgree
  BY <1>2, <1>3, <1>4 DEF CountsAgree, Init, RegistryInit, NoRegistration
<1> QED BY <1>1, <1>5 DEF CountInv, Provided

LEMMA CountInvKept == IInv /\ CountInv /\ [Next]_vars => CountInv'
<1> SUFFICES ASSUME IInv, CountInv, [Next]_vars PROVE CountInv'
  OBVIOUS
<1>1. /\ Registered /\ TypeInv
      /\ clientProvider \in [Clients -> Providers \cup {None}] /\ late \in Seq(Call)
  BY DEF IInv, ListInv, TypeInv, ServiceOK
<1>2. ASSUME UNCHANGED registryVars PROVE CountInv'
  BY <1>2, CountsLeft DEF registryVars
<1>3. CASE FindOut
  BY <1>2, <1>3, FindOutLeaves
<1>4. ASSUME NEW g \in Goroutines, Dispatch(g) PROVE CountInv'
  BY <1>2, <1>4 DEF Dispatch
<1>5. CASE Carry \/ AddOrUpdate \/ Disable
  BY <1>2, <1>5 DEF Carry, NextBatch, Deliver, AddOrUpdate, Disable
<1>6. CASE RegisterModels
  BY <1>1, <1>6, ModelsTypes, RegisterKeepsCounts DEF RegisterModels
<1>7. CASE Removal
  BY <1>1, <1>7, RemovalTypes, UnregisterKeepsCounts DEF Removal
<1>8. ASSUME NEW c \in Clients, NEW m \in Models, Send(c, m) PROVE CountInv'
  BY <1>2, <1>8 DEF Send
<1>9. ASSUME NEW outcome \in {"ok", "quota", "refused"}, Answer(outcome) PROVE CountInv'
  BY <1>2, <1>9 DEF Answer
<1>10. CASE MarkLate
  <2>1. Head(late) \in Call /\ Head(late).call # "answer"
    BY <1>1, <1>10, HeadTailProperties DEF MarkLate
  <2>2. /\ Head(late).client \in Clients /\ Head(late).model \in Models
        /\ Head(late).call \in {"exceed", "clear", "resume", "suspend", "pause"}
    BY <2>1 DEF Call
  <2> QED BY <1>1, <1>10, <2>2, MarkKeepsCounts DEF MarkLate
<1>11. CASE ListModels
  BY <1>11, CountsLeft DEF ListModels, GetAvailableModels
<1>12. CASE TimePasses
  BY <1>1, <1>12, TickKeepsCounts DEF TimePasses
<1>13. CASE UNCHANGED vars
  BY <1>2, <1>13 DEF vars
<1> QED BY <1>3, <1>4, <1>5, <1>6, <1>7, <1>8, <1>9, <1>10, <1>11, <1>12, <1>13 DEF Next, FindOut, Carry, Serve

\* The registry's counts never drift: a registration counts every mention of its model, in
\* total and for each provider, however often clients register again with repeated, other
\* or no models and with other providers, and however late results set marks.
THEOREM CountsAreExact == Spec => []CountsAgree
<1>1. CountInv => CountsAgree
  BY DEF CountInv
<1> QED BY <1>1, CountInvInit, CountInvKept, Invariance, PTL DEF Spec
=============================================================================
