----------------------- MODULE KiroTokenManagerProofs -----------------------
(***************************************************************************)
(* The inductive invariant of the token manager and what follows from it   *)
(* for every number of handlers, every list of credentials, every          *)
(* threshold and every bound on calls and environment events.  Each step   *)
(* writes the local variables of one task and perhaps the list, so         *)
(* OneTaskMoves says once what a step has to show and every action has one *)
(* lemma that shows it.                                                    *)
(*                                                                         *)
(* It begins with the list: what its critical sections preserve, for every *)
(* list, every threshold MaxFailures and every id.  An entry is sound when *)
(* its flag agrees with its reason and its counts agree with its flag.     *)
(***************************************************************************)
EXTENDS KiroTokenManager, TLAPS, FiniteSetTheorems

\* The third conjunct is what makes the second inductive: the self-healing
\* enables TooManyFailures entries without clearing refresh_failure_count.
Sound(e) ==
    /\ e.disabled <=> e.reason # "None"
    /\ ~e.disabled => e.fails < MaxFailures /\ e.refreshFails < MaxFailures
    /\ e.reason = "TooManyFailures" => e.refreshFails < MaxFailures

SoundEntry(e) == e \in Entry /\ Sound(e)

SoundPool(p) == IsPool(p) /\ \A s \in DOMAIN p : Sound(p[s])

-----------------------------------------------------------------------------
(* Single entries.                                                          *)

\* The fields the changes write, whatever is written to them.
LEMMA UpdatesTyped ==
  ASSUME NEW e \in Entry, NEW n \in Nat, NEW m \in Nat, NEW k \in Nat,
         NEW b \in BOOLEAN, NEW r \in Reasons \cup {"None"}
  PROVE  /\ [e EXCEPT !.fails = n] \in Entry
         /\ [e EXCEPT !.refreshFails = m] \in Entry
         /\ [e EXCEPT !.fails = n, !.refreshFails = m, !.successes = k] \in Entry
         /\ [e EXCEPT !.disabled = b, !.reason = r] \in Entry
         /\ [e EXCEPT !.disabled = b, !.reason = r, !.fails = n] \in Entry
         /\ [e EXCEPT !.fails = n, !.disabled = b, !.reason = r] \in Entry
         /\ [e EXCEPT !.refreshFails = m, !.disabled = b, !.reason = r] \in Entry
         /\ [e EXCEPT !.fails = n, !.refreshFails = m, !.disabled = b,
                      !.reason = r] \in Entry
BY DEF Entry

\* report_success, the reset of the refresh failures and reset_and_enable.
LEMMA ResetsKeepSound ==
  ASSUME NEW e, SoundEntry(e)
  PROVE  /\ SoundEntry(Succeeded(e)) /\ SoundEntry(RefreshCountReset(e))
         /\ SoundEntry(Reenabled(e))
<1>1. e \in Entry /\ e.successes + 1 \in Nat
  BY DEF SoundEntry, Entry
<1>2. Succeeded(e) \in Entry
  BY <1>1, UpdatesTyped DEF Succeeded
<1>6. RefreshCountReset(e) \in Entry
  BY <1>1, UpdatesTyped DEF RefreshCountReset
<1>7. Reenabled(e) \in Entry
  BY <1>1, UpdatesTyped DEF Reenabled
<1>3. Sound(Succeeded(e))
  BY MaxFailuresAssumption DEF SoundEntry, Sound, Entry, Succeeded
<1>4. Sound(RefreshCountReset(e))
  BY MaxFailuresAssumption DEF SoundEntry, Sound, Entry, RefreshCountReset
<1>5. Sound(Reenabled(e))
  BY MaxFailuresAssumption DEF SoundEntry, Sound, Entry, Reenabled
<1> QED BY <1>2, <1>3, <1>4, <1>5, <1>6, <1>7 DEF SoundEntry

\* The reports that may disable an entry, made about an enabled one.
LEMMA FailuresKeepSound ==
  ASSUME NEW e, SoundEntry(e), ~e.disabled
  PROVE  /\ SoundEntry(Failed(e)) /\ SoundEntry(QuotaExhausted(e))
         /\ SoundEntry(RefreshFailed(e)) /\ SoundEntry(RefreshTokenInvalid(e))
<1>1. /\ e \in Entry /\ MaxFailures \in Nat
      /\ e.fails + 1 \in Nat /\ e.refreshFails + 1 \in Nat
      /\ e.fails < MaxFailures /\ e.refreshFails < MaxFailures
      /\ e.reason = "None"
  BY MaxFailuresAssumption DEF SoundEntry, Sound, Entry
<1>2. Failed(e) \in Entry
  <2>1. CASE e.fails + 1 >= MaxFailures
    <3>1. Failed(e) = [e EXCEPT !.fails = e.fails + 1, !.disabled = TRUE,
                                !.reason = "TooManyFailures"]
      BY <2>1 DEF Failed
    <3> DEFINE n == e.fails + 1
    <3>2. n \in Nat
      BY <1>1
    <3> HIDE DEF n
    <3>3. [e EXCEPT !.fails = n, !.disabled = TRUE,
                    !.reason = "TooManyFailures"] \in Entry
      BY <1>1, <3>2, UpdatesTyped DEF Reasons
    <3> QED BY <3>1, <3>3 DEF n
  <2>2. CASE ~(e.fails + 1 >= MaxFailures)
    <3>1. Failed(e) = [e EXCEPT !.fails = e.fails + 1]
      BY <2>2 DEF Failed
    <3> QED BY <1>1, <3>1, UpdatesTyped
  <2> QED BY <2>1, <2>2
<1>3. QuotaExhausted(e) \in Entry
  BY <1>1, UpdatesTyped DEF QuotaExhausted, Reasons
<1>8. RefreshFailed(e) \in Entry
  BY <1>1, UpdatesTyped DEF RefreshFailed, Reasons
<1>9. RefreshTokenInvalid(e) \in Entry
  BY <1>1, UpdatesTyped DEF RefreshTokenInvalid, Reasons
<1>4. Sound(Failed(e))
  BY <1>1 DEF Sound, Entry, Failed
<1>5. Sound(QuotaExhausted(e))
  BY <1>1 DEF Sound, Entry, QuotaExhausted
<1>6. Sound(RefreshFailed(e))
  BY <1>1 DEF Sound, Entry, RefreshFailed
<1>7. Sound(RefreshTokenInvalid(e))
  BY <1>1 DEF Sound, Entry, RefreshTokenInvalid
<1> QED BY <1>2, <1>3, <1>4, <1>5, <1>6, <1>7, <1>8, <1>9 DEF SoundEntry

\* set_disabled and the self-healing.
LEMMA DisablingAndHealingKeepSound ==
  ASSUME NEW e, SoundEntry(e)
  PROVE  SoundEntry(ManuallyDisabled(e)) /\ SoundEntry(Healed(e))
<1>1. ManuallyDisabled(e) \in Entry
  BY UpdatesTyped DEF SoundEntry, ManuallyDisabled, Reasons
<1>4. Healed(e) \in Entry
  BY UpdatesTyped DEF SoundEntry, Healed
<1>2. Sound(ManuallyDisabled(e))
  BY DEF SoundEntry, Sound, Entry, ManuallyDisabled
<1>3. Sound(Healed(e))
  BY MaxFailuresAssumption DEF SoundEntry, Sound, Entry, Healed
<1> QED BY <1>1, <1>2, <1>3, <1>4 DEF SoundEntry

\* A new credential in the entry, by set_priority, a refresh, a usage reply
\* or add_credential.
LEMMA CredentialsKeepSound ==
  ASSUME NEW e, SoundEntry(e), NEW c \in Credential
  PROVE  /\ SoundEntry([e EXCEPT !.cred = c])
         /\ SoundEntry([e EXCEPT !.cred = c, !.refreshFails = 0])
         /\ SoundEntry(Merged(e, c))
<1>1. [e EXCEPT !.cred = c] \in Entry
  BY DEF SoundEntry, Entry
<1>2. [e EXCEPT !.cred = c, !.refreshFails = 0] \in Entry
  BY DEF SoundEntry, Entry
<1>3. Sound([e EXCEPT !.cred = c])
  BY DEF SoundEntry, Sound, Entry
<1>4. Sound([e EXCEPT !.cred = c, !.refreshFails = 0])
  BY MaxFailuresAssumption DEF SoundEntry, Sound, Entry
<1>5. SoundEntry(Merged(e, c))
  <2> DEFINE d == [c EXCEPT !.prio = e.cred.prio]
             m == [e EXCEPT !.cred = d]
  <2>1. d \in Credential
    BY DEF SoundEntry, Entry, Credential
  <2> HIDE DEF d
  <2>2. SoundEntry(m)
    <3>1. m \in Entry
      BY <2>1 DEF SoundEntry, Entry
    <3>2. Sound(m)
      BY DEF SoundEntry, Sound, Entry
    <3> QED BY <3>1, <3>2 DEF SoundEntry
  <2>3. Merged(e, c) = IF e.reason = "Manual" THEN ManuallyDisabled(m)
                                              ELSE Reenabled(m)
    BY DEF Merged, d
  <2> HIDE DEF m
  <2> QED BY <2>2, <2>3, ResetsKeepSound, DisablingAndHealingKeepSound
<1> QED BY <1>1, <1>2, <1>3, <1>4, <1>5 DEF SoundEntry

\* The entry add_credential pushes.
LEMMA NewEntrySound ==
  ASSUME NEW id \in Nat, NEW c \in Credential
  PROVE  SoundEntry(NewEntry(id, c))
BY MaxFailuresAssumption DEF SoundEntry, Sound, Entry, Reasons, NewEntry

-----------------------------------------------------------------------------
(* The list.                                                                *)

\* A list changed entry by entry stays sound if each new entry is.
LEMMA PointwiseSound ==
  ASSUME NEW p, SoundPool(p), NEW q, q = [s \in DOMAIN p |-> q[s]],
         \A s \in DOMAIN p : SoundEntry(q[s])
  PROVE  SoundPool(q)
BY DEF SoundPool, IsPool, SoundEntry

\* The entries of a sound list are sound.
LEMMA MembersSound ==
  ASSUME NEW p, SoundPool(p), NEW s \in DOMAIN p
  PROVE  SoundEntry(p[s])
BY DEF SoundPool, IsPool, SoundEntry

\* The critical sections that change the entry with one id.
LEMMA PatchesKeepSound ==
  ASSUME NEW p, SoundPool(p), NEW id
  PROVE  /\ SoundPool(Patch(p, id, Succeeded))
         /\ SoundPool(Patch(p, id, RefreshCountReset))
         /\ SoundPool(Patch(p, id, Reenabled))
         /\ SoundPool(Patch(p, id, ManuallyDisabled))
<1>1. SoundPool(Patch(p, id, Succeeded))
  BY MembersSound, ResetsKeepSound, PointwiseSound DEF Patch
<1>2. SoundPool(Patch(p, id, RefreshCountReset))
  BY MembersSound, ResetsKeepSound, PointwiseSound DEF Patch
<1>3. SoundPool(Patch(p, id, Reenabled))
  BY MembersSound, ResetsKeepSound, PointwiseSound DEF Patch
<1>4. SoundPool(Patch(p, id, ManuallyDisabled))
  BY MembersSound, DisablingAndHealingKeepSound, PointwiseSound DEF Patch
<1> QED BY <1>1, <1>2, <1>3, <1>4

\* The critical sections of the reports.
LEMMA ReportsKeepSound ==
  ASSUME NEW p, SoundPool(p), NEW id
  PROVE  /\ SoundPool(PatchEnabled(p, id, Failed))
         /\ SoundPool(PatchEnabled(p, id, QuotaExhausted))
         /\ SoundPool(PatchEnabled(p, id, RefreshFailed))
         /\ SoundPool(PatchEnabled(p, id, RefreshTokenInvalid))
<1>1. SoundPool(PatchEnabled(p, id, Failed))
  BY MembersSound, FailuresKeepSound, PointwiseSound DEF PatchEnabled
<1>2. SoundPool(PatchEnabled(p, id, QuotaExhausted))
  BY MembersSound, FailuresKeepSound, PointwiseSound DEF PatchEnabled
<1>3. SoundPool(PatchEnabled(p, id, RefreshFailed))
  BY MembersSound, FailuresKeepSound, PointwiseSound DEF PatchEnabled
<1>4. SoundPool(PatchEnabled(p, id, RefreshTokenInvalid))
  BY MembersSound, FailuresKeepSound, PointwiseSound DEF PatchEnabled
<1> QED BY <1>1, <1>2, <1>3, <1>4

\* The self-healing of acquire_context goes through the whole list.
LEMMA HealingKeepsSound ==
  ASSUME NEW p, SoundPool(p)
  PROVE  SoundPool([s \in DOMAIN p |-> Healed(p[s])])
BY MembersSound, DisablingAndHealingKeepSound, PointwiseSound

\* The critical section of set_priority.
LEMMA PrioritisedSound ==
  ASSUME NEW p, SoundPool(p), NEW id, NEW prio \in Nat
  PROVE  SoundPool(Prioritised(p, id, prio))
<1>1. ASSUME NEW e, SoundEntry(e)
      PROVE  SoundEntry([e EXCEPT !.cred.prio = prio])
  <2>1. [e.cred EXCEPT !.prio = prio] \in Credential
    BY <1>1 DEF SoundEntry, Entry, Credential
  <2>2. [e EXCEPT !.cred = [e.cred EXCEPT !.prio = prio]] \in Entry
    BY <1>1, <2>1 DEF SoundEntry, Entry
  <2> QED BY <1>1, <2>2 DEF SoundEntry, Sound, Entry
<1> QED BY <1>1, MembersSound, PointwiseSound DEF Prioritised

\* delete_credential and the push of add_credential.
LEMMA RemovedSound ==
  ASSUME NEW p, SoundPool(p), NEW id
  PROVE  SoundPool(Removed(p, id))
<1>1. DOMAIN Removed(p, id) \subseteq DOMAIN p
  BY DEF Removed
<1>2. IsFiniteSet(DOMAIN Removed(p, id))
  BY <1>1, FS_Subset DEF SoundPool, IsPool
<1> QED BY <1>1, <1>2 DEF SoundPool, IsPool, Removed

\* Appending a sound entry keeps the list sound.
LEMMA PushedSound ==
  ASSUME NEW p, SoundPool(p), NEW s \in Nat, NEW e, SoundEntry(e)
  PROVE  SoundPool(Pushed(p, s, e))
<1>1. DOMAIN Pushed(p, s, e) = DOMAIN p \cup {s}
  BY DEF Pushed
<1>2. IsFiniteSet(DOMAIN Pushed(p, s, e))
  BY <1>1, FS_AddElement DEF SoundPool, IsPool
<1> QED BY <1>1, <1>2 DEF SoundPool, IsPool, Pushed, SoundEntry

\* max(id) + 1 and the position of the push are numbers.
LEMMA NextTyped ==
  ASSUME NEW p, IsPool(p)
  PROVE  NextIds(p) \subseteq Nat /\ NextSlots(p) \subseteq Nat
BY DEF IsPool, Entry, NextIds, NextSlots

\* Choosing a credential yields the id of a listed one, or no change.
LEMMA SwitchTyped ==
  ASSUME NEW p, IsPool(p), NEW i \in Nat
  PROVE  Switch(p, i) \subseteq Nat /\ SwitchOver(p, i) \subseteq Nat
BY DEF IsPool, Entry, Switch, SwitchOver, First, Enabled

\* persist_credentials writes a file, new() loads a sound list from one.
LEMMA ImageTyped ==
  ASSUME NEW p, IsPool(p)
  PROVE  IsFile(Image(p))
BY DEF IsPool, IsFile, Image, Entry, FileEntry

\* MultiTokenManager::new makes a sound list of every credentials file.
LEMMA LoadedSound ==
  ASSUME NEW f, IsFile(f)
  PROVE  SoundPool(Loaded(f)) /\ DOMAIN Loaded(f) = DOMAIN f
<1>1. DOMAIN Loaded(f) = DOMAIN f
  BY DEF Loaded
<1>2. \A s \in DOMAIN f : SoundEntry(Loaded(f)[s])
  <2> SUFFICES ASSUME NEW s \in DOMAIN f
               PROVE  SoundEntry(Loaded(f)[s])
    OBVIOUS
  <2> DEFINE e == Loaded(f)[s]
             noKey == f[s].cred.kind = "noKey"
  <2>1. /\ f[s].id \in Nat /\ f[s].cred \in Credential
        /\ f[s].disabled \in BOOLEAN
    BY DEF IsFile, FileEntry
  <2>2. e = [id |-> f[s].id, cred |-> f[s].cred, fails |-> 0,
             refreshFails |-> 0, disabled |-> f[s].disabled \/ noKey,
             reason |-> IF noKey THEN "InvalidConfig"
                        ELSE IF f[s].disabled THEN "Manual" ELSE "None",
             successes |-> 0]
    BY DEF Loaded
  <2>3. e \in Entry
    BY <2>1, <2>2 DEF Entry, Reasons
  <2> HIDE DEF e
  <2>4. Sound(e)
    <3>1. CASE noKey
      BY <2>2, <3>1, MaxFailuresAssumption DEF Sound
    <3>2. CASE ~noKey /\ f[s].disabled
      BY <2>2, <3>2, MaxFailuresAssumption DEF Sound
    <3>3. CASE ~noKey /\ ~f[s].disabled
      <4>1. e.disabled = FALSE /\ e.reason = "None"
        BY <2>2, <3>3
      <4>2. e.fails = 0 /\ e.refreshFails = 0
        BY <2>2
      <4> QED BY <4>1, <4>2, MaxFailuresAssumption DEF Sound
    <3> QED BY <3>1, <3>2, <3>3
  <2> QED BY <2>3, <2>4 DEF SoundEntry, e
<1>3. Loaded(f) = [s \in DOMAIN f |-> Loaded(f)[s]]
  BY DEF Loaded
<1> QED BY <1>1, <1>2, <1>3 DEF IsFile, SoundPool, IsPool, SoundEntry

-----------------------------------------------------------------------------
(* The invariant.                                                           *)

\* A refresh of a listed credential holds the refresh lock.
LockHeld == \A t \in Task : Refreshing(t) => lock = t

\* The inductive invariant.
IInv == /\ TypeOK
        /\ \A s \in DOMAIN entries : Sound(entries[s])
        /\ LockHeld

-----------------------------------------------------------------------------
(* Types of the local variables.                                            *)

\* The placeholder for a credential not yet chosen is one.
LEMMA BlankTyped == Blank \in Credential
BY AccountAssumption DEF Blank, Credential, Kinds

\* An idle handler's local variables are typed, whatever it returned.
LEMMA IdleTyped ==
  ASSUME NEW result \in {"none", "ok", "err"}
  PROVE  TaskRecord(Idle(result))
<1>1. IsFile(NoFile)
  <2>1. DOMAIN NoFile = {}
    BY DEF NoFile
  <2> QED BY <2>1, FS_EmptySet DEF IsFile, NoFile
<1> QED BY <1>1, BlankTyped DEF TaskRecord, Idle, Steps

\* So are those of a handler that has just been called.
LEMMA BeginTyped ==
  ASSUME NEW t, NEW name \in OpNames, NEW step \in Steps
  PROVE  /\ TaskRecord(Begin(t, name, step))
         /\ Begin(t, name, step).pc = step /\ Begin(t, name, step).op = name
<1> DEFINE i == Idle("none")
<1>1. TaskRecord(i)
  BY IdleTyped
<1>2. Begin(t, name, step) = [i EXCEPT !.op = name, !.pc = step]
  BY DEF Begin
<1> HIDE DEF i
<1> QED BY <1>1, <1>2 DEF TaskRecord

\* A change of the local variables keeps their types and the step.
LEMMA LocalsTyped ==
  ASSUME NEW r, TaskRecord(r), NEW id \in Nat, NEW flag \in BOOLEAN
  PROVE  /\ TaskRecord([r EXCEPT !.id = id])
         /\ [r EXCEPT !.id = id].pc = r.pc
         /\ TaskRecord([r EXCEPT !.flag = flag])
         /\ [r EXCEPT !.flag = flag].pc = r.pc
         /\ TaskRecord([r EXCEPT !.id = id, !.flag = flag])
         /\ [r EXCEPT !.id = id, !.flag = flag].pc = r.pc
<1>1. TaskRecord([r EXCEPT !.id = id]) /\ [r EXCEPT !.id = id].pc = r.pc
  BY DEF TaskRecord
<1>2. TaskRecord([r EXCEPT !.flag = flag]) /\ [r EXCEPT !.flag = flag].pc = r.pc
  BY DEF TaskRecord
<1>3. /\ TaskRecord([r EXCEPT !.id = id, !.flag = flag])
      /\ [r EXCEPT !.id = id, !.flag = flag].pc = r.pc
  BY DEF TaskRecord
<1> QED BY <1>1, <1>2, <1>3

-----------------------------------------------------------------------------
(* The frame of the proof.                                                  *)

\* Task t, and no other, moves to step; its local variables stay typed.
Moves(t, step) ==
    \E r : /\ TaskRecord(r) /\ r.pc = step
           /\ task' = [task EXCEPT ![t] = r]

\* A step keeps the invariant if what it writes is typed and sound and if a
\* task gives back only its own lock and enters a refresh only with it.
LEMMA OneTaskMoves ==
  ASSUME IInv, NEW t \in Task, NEW step, Moves(t, step),
         SoundPool(entries'), IsFile(file'), current' \in Nat,
         balanced' \in BOOLEAN, savedMode' \in BOOLEAN, up' \in BOOLEAN,
         issued' \in [Account -> Nat], revoked' \subseteq Account,
         lostReply' \subseteq Account, calls' \in Nat, faults' \in Nat,
         \/ lock' = lock
         \/ lock' = Unlocked(t)
         \/ lock = NoTask /\ lock' = t,
         step \in {"refreshing", "store"} => lock' = t \/ task'[t].op = "add"
  PROVE  IInv'
<1>1. PICK r : /\ TaskRecord(r) /\ r.pc = step
               /\ task' = [task EXCEPT ![t] = r]
  BY DEF Moves
<1>2. lock' \in Task \cup {NoTask}
  BY DEF IInv, TypeOK, Unlocked
<1>3. task' = [u \in Task |-> task'[u]] /\ \A u \in Task : TaskRecord(task'[u])
  BY <1>1 DEF IInv, TypeOK
<1>4. TypeOK'
  BY <1>2, <1>3 DEF TypeOK, SoundPool
<1>5. \A s \in DOMAIN entries' : Sound(entries'[s])
  BY DEF SoundPool
<1>6. LockHeld'
  <2> SUFFICES ASSUME NEW u \in Task, Refreshing(u)'
               PROVE  lock' = u
    BY DEF LockHeld
  <2>1. CASE u = t
    BY <1>1, <2>1 DEF IInv, TypeOK, Refreshing
  <2>2. CASE u # t
    <3>1. Refreshing(u)
      BY <1>1, <2>2 DEF IInv, TypeOK, Refreshing
    <3>2. lock = u
      BY <3>1 DEF IInv, LockHeld
    <3> QED BY <2>2, <3>2, NoTaskAssumption DEF Unlocked
  <2> QED BY <2>1, <2>2
<1> QED BY <1>4, <1>5, <1>6 DEF IInv

\* What the steps need to know of the state they start in.
LEMMA Typed ==
  ASSUME IInv
  PROVE  /\ SoundPool(entries) /\ IsPool(entries) /\ IsFile(file)
         /\ \A s \in DOMAIN entries : /\ entries[s].id \in Nat
                                      /\ entries[s].cred \in Credential
         /\ \A t \in Task : /\ TaskRecord(task[t])
                            /\ task[t].id \in Nat /\ task[t].attempt \in Nat
                            /\ task[t].cred \in Credential
                            /\ task[t].flag \in BOOLEAN
                            /\ IsFile(task[t].snap)
<1>1. SoundPool(entries)
  BY DEF IInv, TypeOK, SoundPool
<1>2. \A s \in DOMAIN entries : /\ entries[s].id \in Nat
                                /\ entries[s].cred \in Credential
  BY DEF IInv, TypeOK, IsPool, Entry
<1>3. \A t \in Task : TaskRecord(task[t])
  BY DEF IInv, TypeOK
<1>4. \A t \in Task : /\ task[t].id \in Nat /\ task[t].attempt \in Nat
                      /\ task[t].cred \in Credential
                      /\ task[t].flag \in BOOLEAN
                      /\ IsFile(task[t].snap)
  BY <1>3 DEF TaskRecord
<1> QED BY <1>1, <1>2, <1>3, <1>4 DEF IInv, TypeOK

\* The same when the list, the file, the mode and the upstream stay.
LEMMA OnlyTaskMoves ==
  ASSUME IInv, NEW t \in Task, NEW step, Moves(t, step),
         UNCHANGED <<entries, current, balanced, savedMode, file, up, upstream>>,
         calls' \in Nat, faults' \in Nat,
         \/ lock' = lock
         \/ lock' = Unlocked(t)
         \/ lock = NoTask /\ lock' = t,
         step \in {"refreshing", "store"} => lock' = t \/ task'[t].op = "add"
  PROVE  IInv'
BY OneTaskMoves, Typed DEF IInv, TypeOK, upstream

\* The same when the list and current_id change with the task.
LEMMA ListMoves ==
  ASSUME IInv, NEW t \in Task, NEW step, Moves(t, step),
         SoundPool(entries'), current' \in Nat,
         UNCHANGED <<balanced, savedMode, lock, file, up, upstream>>,
         calls' \in Nat, faults' \in Nat,
         step \notin {"refreshing", "store"}
  PROVE  IInv'
BY OneTaskMoves, Typed DEF IInv, TypeOK, upstream

\* The ways a task moves.
LEMMA GotoMoves ==
  ASSUME IInv, NEW t \in Task, NEW step \in Steps, Goto(t, step)
  PROVE  Moves(t, step)
<1> DEFINE r == [task[t] EXCEPT !.pc = step]
<1>1. TaskRecord(r) /\ r.pc = step
  BY Typed DEF TaskRecord
<1>2. task' = [task EXCEPT ![t] = r]
  BY DEF Goto, IInv, TypeOK
<1> HIDE DEF r
<1> QED BY <1>1, <1>2 DEF Moves

\* A handler that ends drops its local variables.
LEMMA ReturnMoves ==
  ASSUME NEW t \in Task, NEW result \in {"none", "ok", "err"}, Return(t, result)
  PROVE  Moves(t, "idle")
<1>1. TaskRecord(Idle(result)) /\ Idle(result).pc = "idle"
  BY IdleTyped DEF Idle
<1> QED BY <1>1 DEF Moves, Return

\* A handler that takes the clone of a credential moves.
LEMMA BindMoves ==
  ASSUME IInv, NEW t \in Task, NEW id \in Nat, NEW c \in Credential,
         NEW step \in Steps, Bind(t, id, c, step)
  PROVE  Moves(t, step) /\ task'[t].op = task[t].op
<1> DEFINE r == [task[t] EXCEPT !.id = id, !.cred = c, !.pc = step]
<1>1. TaskRecord(task[t])
  BY Typed
<1>2. TaskRecord(r) /\ r.pc = step /\ r.op = task[t].op
  BY <1>1 DEF TaskRecord
<1>3. task' = [task EXCEPT ![t] = r]
  BY DEF Bind, IInv, TypeOK
<1> HIDE DEF r
<1>4. task'[t] = r
  BY <1>3 DEF IInv, TypeOK
<1> QED BY <1>2, <1>3, <1>4 DEF Moves

\* A step of a handler leaves the bounds alone, a call counts one.
LEMMA CountersTyped ==
  ASSUME IInv, UNCHANGED <<calls, faults>> \/ Counted
  PROVE  calls' \in Nat /\ faults' \in Nat
BY DEF IInv, TypeOK, Counted

-----------------------------------------------------------------------------
(* acquire_context.                                                         *)

\* acquire_context reads the number of credentials.
LEMMA AcquireKeeps ==
  ASSUME IInv, NEW t \in Task, NEW wantsOpus \in BOOLEAN,
         Acquire(t, wantsOpus), calls' \in Nat, faults' \in Nat
  PROVE  IInv'
<1> DEFINE total == Cardinality(DOMAIN entries)
           limit == IF total = 0 THEN 1 ELSE total * MaxFailures
           b == Begin(t, "acquire", "current")
           r == [b EXCEPT !.flag = wantsOpus, !.limit = limit]
<1>1. total \in Nat
  BY Typed, FS_CardinalityType DEF IsPool
<1>2. limit \in Nat
  BY <1>1, MaxFailuresAssumption
<1>3. task' = [task EXCEPT ![t] = r]
  BY DEF Acquire
<1> HIDE DEF limit
<1>4. TaskRecord(b) /\ b.pc = "current"
  BY BeginTyped DEF OpNames, Steps
<1> HIDE DEF b
<1>5. TaskRecord(r) /\ r.pc = "current"
  BY <1>2, <1>4 DEF TaskRecord
<1> HIDE DEF r
<1>6. Moves(t, "current")
  BY <1>3, <1>5 DEF Moves
<1> QED BY <1>6, OnlyTaskMoves DEF Acquire

\* The head of its loop takes the current credential or goes to select.
LEMMA TakeCurrentKeeps ==
  ASSUME IInv, NEW t \in Task, TakeCurrent(t), calls' \in Nat, faults' \in Nat
  PROVE  IInv'
<1>1. PICK step \in Steps \ {"refreshing", "store"} : Moves(t, step)
  <2>1. CASE Return(t, "err")
    BY <2>1, ReturnMoves DEF Steps
  <2>2. CASE Goto(t, "select")
    BY <2>2, GotoMoves DEF Steps
  <2>3. CASE \E s \in DOMAIN entries :
               Bind(t, entries[s].id, entries[s].cred, Ensure(entries[s].cred))
    <3>1. PICK s \in DOMAIN entries :
            Bind(t, entries[s].id, entries[s].cred, Ensure(entries[s].cred))
      BY <2>3
    <3>2. Ensure(entries[s].cred) \in Steps \ {"refreshing", "store"}
      BY DEF Ensure, Steps
    <3> QED BY <3>1, <3>2, Typed, BindMoves
  <2> QED BY <2>1, <2>2, <2>3 DEF TakeCurrent
<1> QED BY <1>1, OnlyTaskMoves DEF TakeCurrent

\* select_next_credential, in both places it is called.
LEMMA SelectKeeps ==
  ASSUME IInv, NEW t \in Task, SelectFirst(t) \/ SelectAgain(t),
         calls' \in Nat, faults' \in Nat
  PROVE  IInv'
<1>1. PICK step \in Steps \ {"refreshing", "store"} : Moves(t, step)
  <2>1. CASE Return(t, "err")
    BY <2>1, ReturnMoves DEF Steps
  <2>2. CASE Goto(t, "heal")
    BY <2>2, GotoMoves DEF Steps
  <2>3. CASE \E s \in DOMAIN entries :
               Bind(t, entries[s].id, entries[s].cred, "setCurrent")
    BY <2>3, Typed, BindMoves DEF Steps
  <2>4. SelectNext(entries, balanced, task[t].flag) \subseteq DOMAIN entries
    BY DEF SelectNext, LeastUsed, First, Eligible, Enabled
  <2> QED BY <2>1, <2>2, <2>3, <2>4 DEF SelectFirst, SelectAgain, Select
<1> QED BY <1>1, OnlyTaskMoves DEF SelectFirst, SelectAgain, Select

\* The self-healing brings back entries whose refresh failures are few.
LEMMA SelfHealKeeps ==
  ASSUME IInv, NEW t \in Task, SelfHeal(t), calls' \in Nat, faults' \in Nat
  PROVE  IInv'
<1>1. PICK step \in {"again", "idle"} : Moves(t, step)
  BY GotoMoves, ReturnMoves DEF SelfHeal, Steps
<1>2. SoundPool(entries')
  BY Typed, HealingKeepsSound DEF SelfHeal
<1> QED BY <1>1, <1>2, ListMoves DEF SelfHeal, IInv, TypeOK

\* current_id becomes the id the handler selected.
LEMMA SetCurrentKeeps ==
  ASSUME IInv, NEW t \in Task, SetCurrent(t), calls' \in Nat, faults' \in Nat
  PROVE  IInv'
<1>1. Ensure(task[t].cred) \in Steps \ {"refreshing", "store"}
  BY DEF Ensure, Steps
<1>2. Moves(t, Ensure(task[t].cred))
  BY <1>1, GotoMoves DEF SetCurrent
<1>3. SoundPool(entries') /\ current' \in Nat
  BY Typed DEF SetCurrent
<1> QED BY <1>1, <1>2, <1>3, ListMoves DEF SetCurrent

\* current_id stays a number when a report moves it.
LEMMA SwitchIfDisabledTyped ==
  ASSUME NEW p, NEW q, IsPool(q), NEW id, NEW c \in Nat
  PROVE  SwitchIfDisabled(p, q, id, c) \subseteq Nat
BY SwitchTyped DEF SwitchIfDisabled

\* The two reports of a refresh that failed inside acquire_context.
LEMMA ReportRefreshKeeps ==
  ASSUME IInv, NEW t \in Task,
         ReportRefreshFailure(t) \/ ReportRefreshTokenInvalid(t),
         calls' \in Nat, faults' \in Nat
  PROVE  IInv'
<1>1. SoundPool(entries')
  BY Typed, ReportsKeepSound
     DEF ReportRefreshFailure, ReportRefreshTokenInvalid, ReportRefresh
<1>2. current' \in Nat
  BY <1>1, SwitchIfDisabledTyped
     DEF ReportRefreshFailure, ReportRefreshTokenInvalid, ReportRefresh,
         SoundPool, IInv, TypeOK
<1>3. PICK step \in {"current", "idle"} : Moves(t, step)
  <2> DEFINE r == [task[t] EXCEPT !.attempt = task[t].attempt + 1, !.id = 0,
                                  !.cred = Blank, !.pc = "current"]
  <2>1. CASE Return(t, "err")
    BY <2>1, ReturnMoves
  <2>2. CASE task' = [task EXCEPT ![t] = r]
    <3>1. TaskRecord(task[t]) /\ task[t].attempt + 1 \in Nat
      BY Typed
    <3>2. TaskRecord(r)
      BY <3>1, BlankTyped DEF TaskRecord, Steps
    <3>3. r.pc = "current"
      BY <3>1 DEF TaskRecord
    <3> HIDE DEF r
    <3> QED BY <2>2, <3>2, <3>3 DEF Moves
  <2> QED BY <2>1, <2>2
          DEF ReportRefreshFailure, ReportRefreshTokenInvalid, ReportRefresh,
              IInv, TypeOK
<1> QED BY <1>1, <1>2, <1>3, ListMoves
        DEF ReportRefreshFailure, ReportRefreshTokenInvalid, ReportRefresh

\* The tail of try_ensure_token.
LEMMA ResetRefreshCountKeeps ==
  ASSUME IInv, NEW t \in Task, ResetRefreshCount(t),
         calls' \in Nat, faults' \in Nat
  PROVE  IInv'
<1>1. SoundPool(entries')
  BY Typed, PatchesKeepSound DEF ResetRefreshCount
<1>2. Moves(t, "ready")
  BY GotoMoves DEF ResetRefreshCount, Steps
<1> QED BY <1>1, <1>2, ListMoves DEF ResetRefreshCount, IInv, TypeOK

\* What the caller reports.
LEMMA RequestReportKeeps ==
  ASSUME IInv, NEW t \in Task, RequestReport(t), calls' \in Nat, faults' \in Nat
  PROVE  IInv'
<1>1. ASSUME NEW patched, SoundPool(patched), Report(t, patched)
      PROVE  IInv'
  <2>1. SoundPool(entries') /\ current' \in Nat
    BY <1>1, SwitchIfDisabledTyped DEF Report, SoundPool, IInv, TypeOK
  <2>2. Moves(t, "idle")
    BY <1>1, ReturnMoves DEF Report
  <2> QED BY <1>1, <2>1, <2>2, ListMoves DEF Report
<1>2. CASE ReportSuccess(t)
  BY <1>1, <1>2, Typed, PatchesKeepSound DEF ReportSuccess
<1>3. CASE ReportFailure(t)
  BY <1>1, <1>3, Typed, ReportsKeepSound DEF ReportFailure
<1>4. CASE ReportQuotaExhausted(t)
  BY <1>1, <1>4, Typed, ReportsKeepSound DEF ReportQuotaExhausted
<1>5. CASE Abandon(t)
  BY <1>5, ReturnMoves, OnlyTaskMoves DEF Abandon
<1> QED BY <1>2, <1>3, <1>4, <1>5 DEF RequestReport

-----------------------------------------------------------------------------
(* The refresh lock and the refresh.                                        *)

\* Taking the refresh lock, with the second check and without it.
LEMMA LockStepKeeps ==
  ASSUME IInv, NEW t \in Task, LockStep(t), calls' \in Nat, faults' \in Nat
  PROVE  IInv'
<1>1. CASE LockAndRecheck(t)
  <2>1. CASE /\ Goto(t, "refreshFailed") \/ Return(t, "err")
             /\ lock' = lock
    <3>1. PICK step \in {"refreshFailed", "idle"} : Moves(t, step)
      BY <2>1, GotoMoves, ReturnMoves DEF Steps
    <3> QED BY <1>1, <2>1, <3>1, OnlyTaskMoves DEF LockAndRecheck, Recheck
  <2>2. CASE \E s \in DOMAIN entries :
               /\ lock' = IF entries[s].cred.expired THEN t ELSE lock
               /\ Bind(t, task[t].id, entries[s].cred,
                       IF entries[s].cred.expired THEN "refreshing"
                       ELSE IF task[t].op = "acquire" THEN "resetCount"
                                                      ELSE "metadata")
    <3>1. PICK s \in DOMAIN entries :
               /\ lock' = IF entries[s].cred.expired THEN t ELSE lock
               /\ Bind(t, task[t].id, entries[s].cred,
                       IF entries[s].cred.expired THEN "refreshing"
                       ELSE IF task[t].op = "acquire" THEN "resetCount"
                                                      ELSE "metadata")
      BY <2>2
    <3>2. CASE entries[s].cred.expired
      <4>1. Moves(t, "refreshing")
        BY <3>1, <3>2, Typed, BindMoves DEF Steps
      <4> QED BY <1>1, <3>1, <3>2, <4>1, OnlyTaskMoves
              DEF LockAndRecheck, Recheck
    <3>3. CASE ~entries[s].cred.expired
      <4>1. PICK step \in {"resetCount", "metadata"} : Moves(t, step)
        BY <3>1, <3>3, Typed, BindMoves DEF Steps
      <4> QED BY <1>1, <3>1, <3>3, <4>1, OnlyTaskMoves
              DEF LockAndRecheck, Recheck
    <3> QED BY <3>2, <3>3
  <2>3. Find(entries, task[t].id) \subseteq DOMAIN entries
    BY DEF Find, Slots
  <2> QED BY <1>1, <2>1, <2>2, <2>3 DEF LockAndRecheck, Recheck
<1>2. CASE ForceLock(t)
  <2>1. CASE Goto(t, "refreshing") /\ lock' = t
    <3>1. Moves(t, "refreshing")
      BY <2>1, GotoMoves DEF Steps
    <3> QED BY <1>2, <2>1, <3>1, OnlyTaskMoves DEF ForceLock
  <2>2. CASE Return(t, "err") /\ lock' = lock
    <3>1. Moves(t, "idle")
      BY <2>2, ReturnMoves
    <3> QED BY <1>2, <2>2, <3>1, OnlyTaskMoves DEF ForceLock
  <2> QED BY <1>2, <2>1, <2>2 DEF ForceLock
<1> QED BY <1>1, <1>2 DEF LockStep

\* The upstream rotates the refresh token; the lock is still held.
LEMMA RefreshAcceptedKeeps ==
  ASSUME IInv, NEW t \in Task, RefreshAccepted(t),
         calls' \in Nat, faults' \in Nat
  PROVE  IInv'
<1> DEFINE c == task[t].cred
<1>1. /\ c \in Credential /\ c.account \in Account /\ c.rt \in Nat
      /\ c.known \in BOOLEAN /\ issued \in [Account -> Nat]
  BY Typed DEF IInv, TypeOK, Credential
<1>2. PICK rotated \in {0, 1}, named \in {c.known, TRUE} :
        /\ issued' = [issued EXCEPT ![c.account] = @ + rotated]
        /\ Bind(t, task[t].id,
                [c EXCEPT !.rt = c.rt + rotated, !.expired = FALSE,
                          !.known = named],
                IF task[t].op = "add" THEN "addMetadata" ELSE "store")
  BY DEF RefreshAccepted
<1> DEFINE d == [c EXCEPT !.rt = c.rt + rotated, !.expired = FALSE,
                          !.known = named]
<1>3. d \in Credential
  <2>1. c.rt + rotated \in Nat
    BY <1>1, <1>2
  <2>3. named \in BOOLEAN
    BY <1>1, <1>2, Zenon
  <2>2. ASSUME NEW n \in Nat, NEW k \in BOOLEAN
        PROVE  [c EXCEPT !.rt = n, !.expired = FALSE, !.known = k] \in Credential
    BY <1>1 DEF Credential
  <2> QED BY <2>1, <2>2, <2>3
<1>4. issued' \in [Account -> Nat]
  BY <1>1, <1>2
<1> HIDE DEF c, d
<1>5. CASE task[t].op = "add"
  <2>1. Moves(t, "addMetadata")
    BY <1>2, <1>3, <1>5, Typed, BindMoves DEF Steps, d
  <2> QED BY <1>4, <2>1, Typed, OneTaskMoves DEF RefreshAccepted, IInv, TypeOK
<1>6. CASE task[t].op # "add"
  <2>1. Moves(t, "store")
    BY <1>2, <1>3, <1>6, Typed, BindMoves DEF Steps, d
  <2>2. lock' = t
    BY <1>6 DEF RefreshAccepted, At, IInv, LockHeld, Refreshing
  <2> QED BY <1>4, <2>1, <2>2, Typed, OneTaskMoves
          DEF RefreshAccepted, IInv, TypeOK
<1> QED BY <1>5, <1>6

\* A refresh that fails gives the lock back and returns or is reported.
LEMMA RefreshFailsKeeps ==
  ASSUME IInv, NEW t \in Task, RefreshRejected(t) \/ RefreshErrors(t),
         calls' \in Nat, faults' \in Nat
  PROVE  IInv'
<1>1. PICK step \in {"refreshInvalid", "refreshFailed", "idle"} : Moves(t, step)
  <2>1. CASE Goto(t, "refreshInvalid")
    BY <2>1, GotoMoves DEF Steps
  <2>2. CASE Goto(t, "refreshFailed")
    BY <2>2, GotoMoves DEF Steps
  <2>3. CASE Return(t, "err")
    BY <2>3, ReturnMoves
  <2> QED BY <2>1, <2>2, <2>3 DEF RefreshRejected, RefreshErrors
<1>2. /\ UNCHANGED <<entries, current, balanced, savedMode, file, up, upstream>>
      /\ lock' = Unlocked(t)
  BY DEF RefreshRejected, RefreshErrors
<1> QED BY <1>1, <1>2, OnlyTaskMoves

\* The refreshed clone replaces the credential in the list.
LEMMA StoreRefreshedKeeps ==
  ASSUME IInv, NEW t \in Task, StoreRefreshed(t), calls' \in Nat, faults' \in Nat
  PROVE  IInv'
<1>1. \A s \in DOMAIN entries :
        /\ SoundEntry(entries[s])
        /\ SoundEntry(Refreshed(entries[s], task[t].cred))
        /\ SoundEntry(RefreshedAndReset(entries[s], task[t].cred))
  BY Typed, MembersSound, CredentialsKeepSound DEF Refreshed, RefreshedAndReset
<1>2. SoundPool(entries')
  BY <1>1, Typed, PointwiseSound DEF StoreRefreshed, Store
<1>3. Moves(t, "snapshot")
  BY GotoMoves DEF StoreRefreshed, Store, Steps
<1> QED BY <1>2, <1>3, ListMoves DEF StoreRefreshed, Store, IInv, TypeOK

\* The image that persist_credentials takes is typed.
LEMMA PersistSnapshotKeeps ==
  ASSUME IInv, NEW t \in Task, PersistSnapshot(t), calls' \in Nat, faults' \in Nat
  PROVE  IInv'
<1> DEFINE f == Image(entries)
           r == [task[t] EXCEPT !.snap = f, !.pc = "write"]
<1>1. IsFile(f)
  BY Typed, ImageTyped
<1> HIDE DEF f
<1>2. TaskRecord(task[t])
  BY Typed
<1>3. TaskRecord(r) /\ r.pc = "write"
  BY <1>1, <1>2 DEF TaskRecord, Steps
<1>4. task' = [task EXCEPT ![t] = r]
  BY DEF PersistSnapshot, f, IInv, TypeOK
<1> HIDE DEF r
<1>5. Moves(t, "write")
  BY <1>3, <1>4 DEF Moves
<1> QED BY <1>5, OnlyTaskMoves DEF PersistSnapshot

\* The write, successful or not, is a move that gives the lock back.
LEMMA AfterWriteMoves ==
  ASSUME IInv, NEW t \in Task, NEW result \in {"ok", "err"},
         AfterWrite(t, result)
  PROVE  \E step \in {"resetCount", "metadata", "switch", "idle"} :
             Moves(t, step)
<1>1. TaskRecord(task[t]) /\ IsFile(NoFile)
  BY Typed, IdleTyped DEF TaskRecord, Idle
<1>2. ASSUME NEW step \in {"resetCount", "metadata", "switch"},
             task' = [task EXCEPT ![t] =
                        [task[t] EXCEPT !.pc = step, !.snap = NoFile]]
      PROVE  Moves(t, step)
  <2> DEFINE r == [task[t] EXCEPT !.pc = step, !.snap = NoFile]
  <2>1. TaskRecord(r)
    BY <1>1 DEF TaskRecord, Steps
  <2>2. r.pc = step
    BY <1>1 DEF TaskRecord
  <2> HIDE DEF r
  <2> QED BY <1>2, <2>1, <2>2 DEF Moves, r
<1>3. ASSUME NEW res \in {"ok", "err"}, Return(t, res)
      PROVE  Moves(t, "idle")
  BY <1>3, ReturnMoves
<1>4. \/ \E step \in {"resetCount", "metadata", "switch"} :
            task' = [task EXCEPT ![t] =
                       [task[t] EXCEPT !.pc = step, !.snap = NoFile]]
      \/ \E res \in {"ok", "err"} : Return(t, res)
  BY DEF AfterWrite, Return
<1> QED BY <1>2, <1>3, <1>4

\* The file becomes the image, which is typed, or stays as it is.
LEMMA WriteKeeps ==
  ASSUME IInv, NEW t \in Task, NEW result \in {"ok", "err"},
         AfterWrite(t, result), IsFile(file'), calls' \in Nat, faults' \in Nat
  PROVE  IInv'
<1>1. PICK step \in {"resetCount", "metadata", "switch", "idle"} :
        Moves(t, step)
  BY AfterWriteMoves
<1> QED BY <1>1, Typed, OneTaskMoves DEF AfterWrite, IInv, TypeOK, upstream

\* Storing, taking the image and writing it, together.
LEMMA StoreStepKeeps ==
  ASSUME IInv, NEW t \in Task, StoreStep(t), calls' \in Nat, faults' \in Nat
  PROVE  IInv'
<1>1. CASE PersistWrite(t)
  <2>1. IsFile(file') /\ AfterWrite(t, "ok")
    BY <1>1, Typed DEF PersistWrite
  <2> QED BY <2>1, WriteKeeps
<1> QED BY <1>1, StoreRefreshedKeeps, PersistSnapshotKeeps DEF StoreStep

-----------------------------------------------------------------------------
(* The administration interface.                                            *)

\* Both directions of set_disabled.
LEMMA DisableEnableKeeps ==
  ASSUME IInv, NEW t \in Task, Disable(t) \/ Enable(t),
         calls' \in Nat, faults' \in Nat
  PROVE  IInv'
<1>1. SoundPool(entries')
  BY Typed, PatchesKeepSound DEF Disable, Enable, ApplyDisabled
<1>2. PICK step \in {"idle", "snapshot"} : Moves(t, step)
  BY GotoMoves, ReturnMoves DEF Disable, Enable, ApplyDisabled, Steps
<1>3. UNCHANGED <<current, balanced, savedMode, lock, file, up, upstream>>
  BY DEF Disable, Enable, ApplyDisabled, Unchanged
<1> QED BY <1>1, <1>2, <1>3, ListMoves DEF IInv, TypeOK

\* The steps that move current_id.
LEMMA CurrentStepsKeep ==
  ASSUME IInv, NEW t \in Task,
         SwitchToNext(t) \/ SelectHighestPriority(t) \/ ClearCurrent(t),
         calls' \in Nat, faults' \in Nat
  PROVE  IInv'
<1>1. PICK step \in {"idle", "emptied", "snapshot"} : Moves(t, step)
  BY GotoMoves, ReturnMoves
     DEF SwitchToNext, SelectHighestPriority, ClearCurrent, Steps
<1>2. current' \in Nat
  BY Typed, SwitchTyped
     DEF SwitchToNext, SelectHighestPriority, ClearCurrent, IInv, TypeOK
<1>3. UNCHANGED <<entries, balanced, savedMode, lock, file, up, upstream>>
  BY DEF SwitchToNext, SelectHighestPriority, ClearCurrent, Unchanged
<1> QED BY <1>1, <1>2, <1>3, Typed, ListMoves

\* A usage reply changes the metadata of one credential.
LEMMA UsageReplyKeeps ==
  ASSUME IInv, NEW t \in Task, UsageReply(t), calls' \in Nat, faults' \in Nat
  PROVE  IInv'
<1>1. ASSUME NEW c \in Credential, NEW opus \in BOOLEAN
      PROVE  WithMetadata(c, opus) \in Credential
  BY DEF WithMetadata, Credential
<1>2. SoundPool(entries')
  <2>1. CASE UNCHANGED entries
    BY <2>1, Typed
  <2>2. CASE \E opus \in BOOLEAN :
               entries' = [s \in DOMAIN entries |->
                    IF s \in Find(entries, task[t].id)
                    THEN Refreshed(entries[s],
                                   WithMetadata(entries[s].cred, opus))
                    ELSE entries[s]]
    <3>1. PICK opus \in BOOLEAN :
            entries' = [s \in DOMAIN entries |->
                    IF s \in Find(entries, task[t].id)
                    THEN Refreshed(entries[s],
                                   WithMetadata(entries[s].cred, opus))
                    ELSE entries[s]]
      BY <2>2
    <3>2. \A s \in DOMAIN entries :
            /\ SoundEntry(entries[s])
            /\ SoundEntry(Refreshed(entries[s],
                                    WithMetadata(entries[s].cred, opus)))
      BY <1>1, Typed, MembersSound, CredentialsKeepSound DEF Refreshed
    <3> QED BY <3>1, <3>2, Typed, PointwiseSound
  <2> QED BY <2>1, <2>2 DEF UsageReply
<1>3. PICK step \in {"idle", "snapshot"} : Moves(t, step)
  BY GotoMoves, ReturnMoves DEF UsageReply, Steps
<1>4. UNCHANGED <<current, balanced, savedMode, lock, file, up, upstream>>
  BY DEF UsageReply, Unchanged
<1> QED BY <1>2, <1>3, <1>4, ListMoves DEF IInv, TypeOK

\* The steps of add_credential that only read the list.
LEMMA AddReadsKeep ==
  ASSUME IInv, NEW t \in Task,
         AddMetadata(t) \/ FindIdentity(t) \/ AllocateId(t),
         calls' \in Nat, faults' \in Nat
  PROVE  IInv'
<1>1. PICK step \in {"identity", "alloc", "merge", "push"} : Moves(t, step)
  <2>1. CASE AddMetadata(t)
    <3>1. ASSUME NEW opus \in BOOLEAN
          PROVE  WithMetadata(task[t].cred, opus) \in Credential
      BY Typed DEF WithMetadata, Credential
    <3>2. PICK c \in Credential : Bind(t, task[t].id, c, "identity")
      BY <2>1, <3>1, Typed DEF AddMetadata
    <3> QED BY <3>2, Typed, BindMoves DEF Steps
  <2>2. CASE FindIdentity(t)
    <3>1. CASE Goto(t, "alloc")
      BY <3>1, GotoMoves DEF Steps
    <3>2. CASE \E s \in DOMAIN entries :
                 Bind(t, entries[s].id, task[t].cred, "merge")
      BY <3>2, Typed, BindMoves DEF Steps
    <3> QED BY <2>2, <3>1, <3>2 DEF FindIdentity
  <2>3. CASE AllocateId(t)
    <3>1. PICK n \in NextIds(entries) : Bind(t, n, task[t].cred, "push")
      BY <2>3 DEF AllocateId
    <3>2. n \in Nat
      BY Typed, NextTyped
    <3> QED BY <3>1, <3>2, Typed, BindMoves DEF Steps
  <2> QED BY <2>1, <2>2, <2>3
<1>2. UNCHANGED <<entries, current, balanced, savedMode, lock, file, up, upstream>>
  BY DEF AddMetadata, FindIdentity, AllocateId, Unchanged
<1> QED BY <1>1, <1>2, OnlyTaskMoves

\* The steps of add_credential that write it.
LEMMA AddWritesKeep ==
  ASSUME IInv, NEW t \in Task, MergeCredential(t) \/ PushEntry(t),
         calls' \in Nat, faults' \in Nat
  PROVE  IInv'
<1>1. SoundPool(entries')
  <2>1. CASE MergeCredential(t)
    <3>1. \A s \in DOMAIN entries :
            /\ SoundEntry(entries[s])
            /\ SoundEntry(Merged(entries[s], task[t].cred))
      BY Typed, MembersSound, CredentialsKeepSound
    <3> QED BY <2>1, <3>1, Typed, PointwiseSound DEF MergeCredential
  <2>2. CASE PushEntry(t)
    <3>1. PICK s \in NextSlots(entries) :
            entries' = Pushed(entries, s, NewEntry(task[t].id, task[t].cred))
      BY <2>2 DEF PushEntry
    <3>2. s \in Nat /\ SoundEntry(NewEntry(task[t].id, task[t].cred))
      BY Typed, NextTyped, NewEntrySound
    <3> QED BY <3>1, <3>2, Typed, PushedSound
  <2> QED BY <2>1, <2>2
<1>2. PICK step \in {"alloc", "snapshot"} : Moves(t, step)
  BY GotoMoves DEF MergeCredential, PushEntry, Steps
<1>3. UNCHANGED <<current, balanced, savedMode, lock, file, up, upstream>>
  BY DEF MergeCredential, PushEntry, Unchanged
<1> QED BY <1>1, <1>2, <1>3, ListMoves DEF IInv, TypeOK

\* set_load_balancing_mode, its failure to save included.
LEMMA ModeStepsKeep ==
  ASSUME IInv, NEW t \in Task,
         StoreMode(t) \/ SaveMode(t) \/ SaveModeFails(t),
         calls' \in Nat, faults' \in Nat
  PROVE  IInv'
<1>1. PICK step \in {"modeSave", "idle"} : Moves(t, step)
  BY GotoMoves, ReturnMoves DEF StoreMode, SaveMode, SaveModeFails, Steps
<1>2. balanced' \in BOOLEAN /\ savedMode' \in BOOLEAN
  BY Typed DEF StoreMode, SaveMode, SaveModeFails, IInv, TypeOK
<1>3. UNCHANGED <<entries, current, lock, file, up, upstream>>
  BY DEF StoreMode, SaveMode, SaveModeFails
<1> QED BY <1>1, <1>2, <1>3, Typed, OneTaskMoves DEF IInv, TypeOK, upstream

\* Every later step of the administration handlers.
LEMMA OperatorStepKeeps ==
  ASSUME IInv, NEW t \in Task, OperatorStep(t), calls' \in Nat, faults' \in Nat
  PROVE  IInv'
BY DisableEnableKeeps, CurrentStepsKeep, UsageReplyKeeps, AddReadsKeep,
   AddWritesKeep, ModeStepsKeep DEF OperatorStep

\* The calls that patch an entry at once.
LEMMA AdministerKeeps ==
  ASSUME IInv, NEW t \in Task, NEW id \in Nat, calls' \in Nat, faults' \in Nat,
         \/ \E prio \in Priorities : SetPriority(t, id, prio)
         \/ ResetAndEnable(t, id)
  PROVE  IInv'
<1>1. ASSUME NEW name \in OpNames, NEW step \in {"highest", "snapshot"},
             NEW patched, SoundPool(patched),
             Administer(t, name, id, step, patched)
      PROVE  IInv'
  <2> DEFINE b == Begin(t, name, step)
  <2>1. TaskRecord(b) /\ b.pc = step
    BY BeginTyped DEF Steps
  <2>2. task' = [task EXCEPT ![t] = [b EXCEPT !.id = id]]
    BY <1>1 DEF Administer
  <2> HIDE DEF b
  <2>3. Moves(t, step)
    BY <2>1, <2>2, LocalsTyped DEF Moves
  <2> QED BY <1>1, <2>3, ListMoves DEF Administer, Unchanged, IInv, TypeOK
<1>2. CASE \E prio \in Priorities : SetPriority(t, id, prio)
  <2>1. PICK prio \in Priorities : SetPriority(t, id, prio)
    BY <1>2
  <2>2. SoundPool(Prioritised(entries, id, prio))
    BY Typed, PrioritisedSound, InputAssumption
  <2> QED BY <1>1, <2>1, <2>2 DEF SetPriority, OpNames
<1>3. CASE ResetAndEnable(t, id)
  BY <1>1, <1>3, Typed, PatchesKeepSound DEF ResetAndEnable, OpNames
<1> QED BY <1>2, <1>3

\* delete_credential removes every entry that carries the id.
LEMMA DeleteKeeps ==
  ASSUME IInv, NEW t \in Task, NEW id \in Nat, calls' \in Nat, faults' \in Nat,
         DeleteCredential(t, id)
  PROVE  IInv'
<1> DEFINE step == IF current = id THEN "highest" ELSE "emptied"
           b == Begin(t, "delete", step)
<1>1. TaskRecord(b) /\ b.pc = step
  BY BeginTyped DEF Steps, OpNames
<1>2. task' = [task EXCEPT ![t] = [b EXCEPT !.id = id]]
  BY DEF DeleteCredential
<1> HIDE DEF b
<1>3. Moves(t, step)
  BY <1>1, <1>2, LocalsTyped DEF Moves
<1>4. SoundPool(entries')
  BY Typed, RemovedSound DEF DeleteCredential
<1>5. step \in {"highest", "emptied"}
  OBVIOUS
<1> HIDE DEF step
<1> QED BY <1>3, <1>4, <1>5, ListMoves
        DEF DeleteCredential, Unchanged, IInv, TypeOK

\* The calls that only read before they await or take the next lock.
LEMMA ReadingCallsKeep ==
  ASSUME IInv, NEW t \in Task, NEW id \in Nat, calls' \in Nat, faults' \in Nat,
         \/ \E disabled \in BOOLEAN : SetDisabled(t, id, disabled)
         \/ ForceRefresh(t, id)
         \/ GetUsageLimits(t, id)
         \/ \E mode \in BOOLEAN : SetMode(t, mode)
  PROVE  IInv'
<1>1. PICK step \in Steps \ {"refreshing", "store"} : Moves(t, step)
  <2>1. CASE \E disabled \in BOOLEAN : SetDisabled(t, id, disabled)
    <3>1. PICK disabled \in BOOLEAN : SetDisabled(t, id, disabled)
      BY <2>1
    <3> DEFINE step == IF disabled THEN "disable" ELSE "enable"
               b == Begin(t, "setDisabled", step)
               f == disabled /\ id = current
    <3>2. TaskRecord(b) /\ b.pc = step /\ f \in BOOLEAN
      BY BeginTyped DEF Steps, OpNames
    <3>3. task' = [task EXCEPT ![t] = [b EXCEPT !.id = id, !.flag = f]]
      BY <3>1 DEF SetDisabled
    <3> HIDE DEF b, f
    <3>4. Moves(t, step)
      BY <3>2, <3>3, LocalsTyped DEF Moves
    <3> QED BY <3>4 DEF Steps
  <2>2. CASE ForceRefresh(t, id)
    <3> DEFINE b == Begin(t, "force", "forceLock")
    <3>1. PICK s \in DOMAIN entries :
            task' = [task EXCEPT ![t] =
                       [b EXCEPT !.id = id, !.cred = entries[s].cred]]
      BY <2>2 DEF ForceRefresh, Find, Slots
    <3>2. TaskRecord(b) /\ b.pc = "forceLock"
      BY BeginTyped DEF Steps, OpNames
    <3> DEFINE c == entries[s].cred
               r == [b EXCEPT !.id = id, !.cred = c]
    <3>3. c \in Credential
      BY Typed
    <3>4. task' = [task EXCEPT ![t] = r]
      BY <3>1
    <3> HIDE DEF b, c
    <3>5. TaskRecord(r) /\ r.pc = "forceLock"
      BY <3>2, <3>3 DEF TaskRecord
    <3> HIDE DEF r
    <3> QED BY <3>4, <3>5 DEF Moves, Steps
  <2>3. CASE GetUsageLimits(t, id)
    <3>1. PICK step \in {"lock", "metadata"} :
            task' = [task EXCEPT ![t] =
                       [Begin(t, "usage", step) EXCEPT !.id = id]]
      BY <2>3 DEF GetUsageLimits
    <3> DEFINE b == Begin(t, "usage", step)
    <3>2. TaskRecord(b) /\ b.pc = step
      BY BeginTyped DEF Steps, OpNames
    <3> HIDE DEF b
    <3>3. Moves(t, step)
      BY <3>1, <3>2, LocalsTyped DEF Moves, b
    <3> QED BY <3>3 DEF Steps
  <2>4. CASE \E mode \in BOOLEAN : SetMode(t, mode)
    <3> DEFINE b == Begin(t, "setMode", "modeSet")
    <3>1. PICK mode \in BOOLEAN : task' = [task EXCEPT ![t] =
                                             [b EXCEPT !.flag = mode]]
      BY <2>4 DEF SetMode
    <3>2. TaskRecord(b) /\ b.pc = "modeSet"
      BY BeginTyped DEF Steps, OpNames
    <3> HIDE DEF b
    <3>3. Moves(t, "modeSet")
      BY <3>1, <3>2, LocalsTyped DEF Moves
    <3> QED BY <3>3 DEF Steps
  <2> QED BY <2>1, <2>2, <2>3, <2>4
<1>2. UNCHANGED <<entries, current, balanced, savedMode, lock, file, up, upstream>>
  BY DEF SetDisabled, ForceRefresh, GetUsageLimits, SetMode, Unchanged
<1> QED BY <1>1, <1>2, OnlyTaskMoves

\* add_credential sends its own refresh token without the lock.
LEMMA AddCallKeeps ==
  ASSUME IInv, NEW t \in Task, NEW c \in NewCredentials, AddCredential(t, c),
         calls' \in Nat, faults' \in Nat
  PROVE  IInv'
<1>1. PICK step \in {"identity", "refreshing"} :
        task' = [task EXCEPT ![t] = [Begin(t, "add", step) EXCEPT !.cred = c]]
  BY DEF AddCredential
<1> DEFINE b == Begin(t, "add", step)
           r == [b EXCEPT !.cred = c]
<1>2. TaskRecord(b) /\ b.pc = step /\ b.op = "add"
  <2>1. step \in Steps /\ "add" \in OpNames
    BY DEF Steps, OpNames
  <2> QED BY <2>1, BeginTyped
<1>3. c \in Credential
  BY InputAssumption
<1>4. task' = [task EXCEPT ![t] = r]
  BY <1>1
<1> HIDE DEF b
<1>5. TaskRecord(r) /\ r.pc = step /\ r.op = "add"
  BY <1>2, <1>3 DEF TaskRecord
<1> HIDE DEF r
<1>6. Moves(t, step) /\ task'[t].op = "add"
  BY <1>4, <1>5 DEF Moves, IInv, TypeOK
<1> QED BY <1>6, OnlyTaskMoves DEF AddCredential, Unchanged

\* Every call of the administration interface.
LEMMA OperatorCallKeeps ==
  ASSUME IInv, NEW t \in Task, OperatorCall(t)
  PROVE  IInv'
<1>1. calls' \in Nat /\ faults' \in Nat
  BY CountersTyped DEF OperatorCall
<1>2. Ids \subseteq Nat
  BY Typed DEF Ids
<1> QED BY <1>1, <1>2, AdministerKeeps, DeleteKeeps, ReadingCallsKeep,
           AddCallKeeps DEF OperatorCall

-----------------------------------------------------------------------------
(* The environment.                                                         *)

\* An access token expires in the list.
LEMMA TokenExpiresKeeps ==
  ASSUME IInv, NEW s \in DOMAIN entries, TokenExpires(s)
  PROVE  IInv'
<1> DEFINE c == [entries[s].cred EXCEPT !.expired = TRUE]
           e == [entries[s] EXCEPT !.cred = c]
<1>1. c \in Credential
  BY Typed DEF Credential
<1>2. SoundEntry(e)
  BY <1>1, Typed, MembersSound, CredentialsKeepSound
<1>3. entries' = [entries EXCEPT ![s] = e]
  BY Typed DEF TokenExpires, IsPool
<1> HIDE DEF e
<1>4. SoundPool(entries')
  BY <1>2, <1>3, Typed, MembersSound, PointwiseSound
<1>5. calls' \in Nat /\ faults' \in Nat
  BY DEF TokenExpires, Fault, IInv, TypeOK
<1>6. UNCHANGED <<current, balanced, savedMode, lock, file, task, up, upstream>>
  BY DEF TokenExpires, Unchanged
<1> QED BY <1>4, <1>5, <1>6
        DEF IInv, TypeOK, SoundPool, LockHeld, Refreshing, upstream

\* A withdrawn refresh token changes the upstream only.
LEMMA RevokeKeeps ==
  ASSUME IInv, NEW a \in Account, Revoke(a)
  PROVE  IInv'
BY DEF Revoke, Fault, IInv, TypeOK, LockHeld, Refreshing

\* A lost reply and a client that disconnects.
LEMMA LostKeeps ==
  ASSUME IInv, NEW t \in Task, RotatedReplyLost(t) \/ ClientGone(t)
  PROVE  IInv'
<1> DEFINE a == task[t].cred.account
<1>1. a \in Account
  BY Typed DEF Credential
<1>2. issued' \in [Account -> Nat] /\ lostReply' \subseteq Account
  <2>1. issued \in [Account -> Nat] /\ lostReply \subseteq Account
    BY DEF IInv, TypeOK
  <2>2. \/ UNCHANGED <<issued, lostReply>>
        \/ /\ issued' = [issued EXCEPT ![a] = @ + 1]
           /\ lostReply' = lostReply \cup {a}
    BY DEF RotatedReplyLost, ClientGone
  <2> HIDE DEF a
  <2> QED BY <1>1, <2>1, <2>2
<1>3. PICK step \in {"refreshFailed", "idle"} : Moves(t, step)
  BY GotoMoves, ReturnMoves DEF RotatedReplyLost, ClientGone, Steps
<1>4. calls' \in Nat /\ faults' \in Nat
  BY DEF RotatedReplyLost, ClientGone, Fault, IInv, TypeOK
<1>5. /\ UNCHANGED <<entries, current, balanced, savedMode, file, up, revoked>>
      /\ lock' = Unlocked(t)
  BY DEF RotatedReplyLost, ClientGone
<1> QED BY <1>2, <1>3, <1>4, <1>5, Typed, OneTaskMoves DEF IInv, TypeOK

\* A failed write of the credentials file or of the mode.
LEMMA WriteFaultsKeep ==
  ASSUME IInv, NEW t \in Task, PersistFails(t) \/ SaveModeFails(t)
  PROVE  IInv'
<1>1. calls' \in Nat /\ faults' \in Nat
  BY DEF PersistFails, SaveModeFails, Fault, IInv, TypeOK
<1>2. CASE PersistFails(t)
  BY <1>1, <1>2, Typed, WriteKeeps DEF PersistFails
<1>3. CASE SaveModeFails(t)
  BY <1>1, <1>3, ModeStepsKeep
<1> QED BY <1>2, <1>3

\* Nothing is left of the tasks, and the list is what the file makes of it.
LEMMA RestartKeeps ==
  ASSUME IInv, Restart
  PROVE  IInv'
<1>1. SoundPool(Loaded(file)) /\ DOMAIN Loaded(file) = DOMAIN file
  BY Typed, LoadedSound
<1>2. SoundPool(entries')
  <2>1. PICK n \in [DOMAIN file -> 0 .. MaxCalls] :
          entries' = [s \in DOMAIN file |->
                        [Loaded(file)[s] EXCEPT
                            !.successes = n[s],
                            !.cred.expired = @ \/ ExpiredBefore(file[s].id)]]
    BY DEF Restart
  <2>2. ASSUME NEW s \in DOMAIN file
        PROVE  SoundEntry(entries'[s])
    <3> DEFINE e == Loaded(file)[s]
               c == [e.cred EXCEPT !.expired = @ \/ ExpiredBefore(file[s].id)]
               d == [e EXCEPT !.successes = n[s], !.cred = c]
    <3>1. SoundEntry(e) /\ n[s] \in Nat
      <4>1. SoundEntry(e)
        BY <1>1, <2>2, MembersSound
      <4>2. n[s] \in Nat
        <5>1. MaxCalls \in Nat
          BY InputAssumption
        <5>2. n \in [DOMAIN file -> 0 .. MaxCalls]
          BY <2>1
        <5>3. n[s] \in 0 .. MaxCalls
          BY <5>2, <2>2
        <5> QED BY <5>1, <5>3
      <4> QED BY <4>1, <4>2
    <3>2. entries'[s] = d
      BY <2>1
    <3> HIDE DEF e
    <3>3. c \in Credential
      BY <3>1 DEF SoundEntry, Entry, Credential, ExpiredBefore
    <3> HIDE DEF c
    <3>4. d \in Entry
      BY <3>1, <3>3 DEF SoundEntry, Entry
    <3>5. Sound(d)
      BY <3>1 DEF SoundEntry, Sound, Entry
    <3> QED BY <3>2, <3>4, <3>5 DEF SoundEntry
  <2>3. entries' = [s \in DOMAIN Loaded(file) |-> entries'[s]]
    BY <1>1, <2>1
  <2> QED BY <1>1, <2>2, <2>3, PointwiseSound
<1>3. current' \in Nat
  BY <1>1, SwitchTyped DEF Restart, SoundPool
<1>4. /\ task' = [t \in Task |-> Idle("none")] /\ TaskRecord(Idle("none"))
      /\ Idle("none").pc = "idle"
  BY IdleTyped DEF Restart, Idle
<1>5. TypeOK'
  <2>1. /\ balanced' \in BOOLEAN /\ lock' = NoTask
        /\ calls' \in Nat /\ faults' \in Nat
    <3>1. balanced' = savedMode /\ lock' = NoTask
      BY DEF Restart
    <3>2. calls' = calls /\ faults' = faults + 1
      BY DEF Restart, Fault
    <3> QED BY <3>1, <3>2 DEF IInv, TypeOK
  <2>3. up' \in BOOLEAN
    BY Zenon DEF Restart, UniqueIds
  <2>2. UNCHANGED <<savedMode, file, issued, revoked, lostReply>>
    BY DEF Restart, upstream
  <2> QED BY <1>2, <1>3, <1>4, <2>1, <2>2, <2>3 DEF TypeOK, IInv, SoundPool
<1>6. LockHeld'
  BY <1>4 DEF LockHeld, Refreshing
<1> QED BY <1>2, <1>5, <1>6 DEF IInv, SoundPool

-----------------------------------------------------------------------------
(* The theorems.                                                            *)

\* What MultiTokenManager::new builds from the file satisfies it.
LEMMA InitEstablishes == Init => IInv
<1> SUFFICES ASSUME Init
             PROVE  IInv
  OBVIOUS
<1>1. IsFile(file)
  BY InputAssumption DEF Init
<1>2. SoundPool(entries)
  BY <1>1, LoadedSound DEF Init
<1>3. current \in Nat
  BY <1>2, SwitchTyped DEF Init, SoundPool
<1>4. TaskRecord(Idle("none")) /\ Idle("none").pc = "idle"
  BY IdleTyped DEF Idle
<1>5. TypeOK
  BY <1>1, <1>2, <1>3, <1>4 DEF Init, TypeOK, SoundPool
<1>6. LockHeld
  BY <1>4 DEF Init, LockHeld, Refreshing
<1> QED BY <1>2, <1>5, <1>6 DEF IInv, SoundPool

\* Every step of a handler between its call and its end.
LEMMA TaskStepKeeps ==
  ASSUME IInv, NEW t \in Task, TaskStep(t)
  PROVE  IInv'
<1> USE DEF At
<1>1. CASE AcquireStep(t)
  <2>1. UNCHANGED <<calls, faults>>
    BY <1>1 DEF AcquireStep, TakeCurrent, SelectFirst, SelfHeal, SelectAgain,
                Select, SetCurrent, ReportRefreshFailure,
                ReportRefreshTokenInvalid, ReportRefresh, ResetRefreshCount
  <2> QED BY <1>1, <2>1, CountersTyped, TakeCurrentKeeps, SelectKeeps,
             SelfHealKeeps, SetCurrentKeeps, ReportRefreshKeeps,
             ResetRefreshCountKeeps DEF AcquireStep
<1>2. CASE LockStep(t)
  <2>1. UNCHANGED <<calls, faults>>
    BY <1>2 DEF LockStep, LockAndRecheck, Recheck, ForceLock
  <2> QED BY <1>2, <2>1, CountersTyped, LockStepKeeps
<1>3. CASE RefreshStep(t)
  <2>1. UNCHANGED <<calls, faults>>
    BY <1>3 DEF RefreshStep, RefreshAccepted, RefreshRejected, RefreshErrors
  <2> QED BY <1>3, <2>1, CountersTyped, RefreshAcceptedKeeps,
             RefreshFailsKeeps DEF RefreshStep
<1>4. CASE StoreStep(t)
  <2>1. UNCHANGED <<calls, faults>>
    BY <1>4 DEF StoreStep, StoreRefreshed, Store, PersistSnapshot, PersistWrite
  <2> QED BY <1>4, <2>1, CountersTyped, StoreStepKeeps
<1>5. CASE OperatorStep(t)
  <2>1. UNCHANGED <<calls, faults>>
    BY <1>5 DEF OperatorStep, Disable, Enable, ApplyDisabled, SwitchToNext,
                SelectHighestPriority, ClearCurrent, UsageReply, AddMetadata,
                FindIdentity, MergeCredential, AllocateId, PushEntry,
                StoreMode, SaveMode
  <2> QED BY <1>5, <2>1, CountersTyped, OperatorStepKeeps
<1> QED BY <1>1, <1>2, <1>3, <1>4, <1>5 DEF TaskStep

\* Every step of the system, the environment and a stutter included.
LEMMA StepKeeps == IInv /\ [Next]_vars => IInv'
<1> SUFFICES ASSUME IInv, [Next]_vars
             PROVE  IInv'
  OBVIOUS
<1>1. CASE UNCHANGED vars
  BY <1>1 DEF vars, upstream, IInv, TypeOK, LockHeld, Refreshing
<1>2. CASE FaultStep
  BY <1>2, TokenExpiresKeeps, RevokeKeeps, LostKeeps, WriteFaultsKeep,
     RestartKeeps DEF FaultStep
<1>3. ASSUME NEW t \in Task, RequestCall(t)
      PROVE  IInv'
  <2>1. calls' \in Nat /\ faults' \in Nat
    BY <1>3, CountersTyped DEF RequestCall
  <2> QED BY <1>3, <2>1, AcquireKeeps, InputAssumption DEF RequestCall
<1>4. ASSUME NEW t \in Task, RequestReport(t)
      PROVE  IInv'
  <2>1. UNCHANGED <<calls, faults>>
    BY <1>4 DEF RequestReport, ReportSuccess, ReportFailure,
                ReportQuotaExhausted, Report, Abandon, At
  <2> QED BY <1>4, <2>1, CountersTyped, RequestReportKeeps
<1> QED BY <1>1, <1>2, <1>3, <1>4, OperatorCallKeeps, TaskStepKeeps
        DEF Next, Rest

\* The inductive invariant holds of every reachable state.
LEMMA Inductive == Spec => []IInv
BY InitEstablishes, StepKeeps, PTL DEF Spec

\* Type correctness: every critical section of every handler keeps the list,
\* the file, the image in flight and the local variables well formed.
THEOREM TypeCorrect == Spec => []TypeOK
<1>1. IInv => TypeOK
  BY DEF IInv
<1> QED BY <1>1, Inductive, PTL

\* The flag that selection reads and the reason that the self-healing and
\* reset_and_enable read agree after each of the places that write them.
THEOREM FlagAgreesWithReason == Spec => []DisabledIffReason
<1>1. IInv => DisabledIffReason
  BY DEF IInv, DisabledIffReason, Sound
<1> QED BY <1>1, Inductive, PTL

\* What selection may hand out is below both thresholds, whatever the
\* threshold: the self-healing may leave refresh_failure_count alone.
THEOREM EnabledIsBelowThreshold == Spec => []EnabledBelowThreshold
<1>1. IInv => EnabledBelowThreshold
  BY DEF IInv, EnabledBelowThreshold, Sound
<1> QED BY <1>1, Inductive, PTL

\* Mutual exclusion of refreshes, for every number of handlers, through
\* lost replies, disconnecting clients and restarts.
THEOREM RefreshesExclude == Spec => []OneRefreshAtATime
<1>1. IInv => OneRefreshAtATime
  BY DEF IInv, LockHeld, OneRefreshAtATime
<1> QED BY <1>1, Inductive, PTL
-----------------------------------------------------------------------------
(* Where a handler can be.                                                  *)

\* The steps each handler goes through; only those of Ops are called.
OnItsWay(r) ==
    /\ r.op \in Ops \cup {"none"}
    /\ \/ r.op = "none" /\ r.pc = "idle"
       \/ r.op = "acquire" /\ r.pc \in {"current", "select", "heal", "again", "setCurrent", "lock",
                                        "refreshing", "refreshFailed", "refreshInvalid", "store",
                                        "snapshot", "write", "resetCount", "ready"}
       \/ r.op = "force" /\ r.pc \in {"forceLock", "refreshing", "store", "snapshot", "write"}
       \/ r.op = "usage" /\ r.pc \in {"lock", "refreshing", "store", "snapshot", "write", "metadata"}
       \/ r.op = "setDisabled" /\ r.pc \in {"disable", "enable", "snapshot", "write", "switch"}
       \/ r.op = "setPriority" /\ r.pc \in {"highest", "snapshot", "write"}
       \/ r.op = "reset" /\ r.pc \in {"snapshot", "write"}
       \/ r.op = "delete" /\ r.pc \in {"highest", "emptied", "snapshot", "write"}
       \/ r.op = "add" /\ r.pc \in {"refreshing", "addMetadata", "identity", "merge", "alloc",
                                    "push", "snapshot", "write"}
       \/ r.op = "setMode" /\ r.pc \in {"modeSet", "modeSave"}

HandlerInv == \A t \in Task : OnItsWay(task[t])

Others(t) == \A u \in Task \ {t} : task'[u] = task[u]

\* The local variables of the one task that moves.
LEMMA PlaceOf ==
  ASSUME IInv, NEW t \in Task
  PROVE  /\ \A step : Goto(t, step) =>
              /\ Others(t) /\ task'[t].op = task[t].op /\ task'[t].pc = step
              /\ task'[t].id = task[t].id /\ task'[t].cred = task[t].cred
              /\ task'[t].snap = task[t].snap
         /\ \A id, c, step : Bind(t, id, c, step) =>
              /\ Others(t) /\ task'[t].op = task[t].op /\ task'[t].pc = step
              /\ task'[t].id = id /\ task'[t].cred = c
         /\ \A result : Return(t, result) =>
              Others(t) /\ task'[t].op = "none" /\ task'[t].pc = "idle"
         /\ \A r : task' = [task EXCEPT ![t] = r] => Others(t) /\ task'[t] = r
<1>1. task = [u \in Task |-> task[u]]
  BY DEF IInv, TypeOK
<1>2. TaskRecord(task[t])
  BY Typed
<1>3. ASSUME NEW r, task' = [task EXCEPT ![t] = r] PROVE Others(t) /\ task'[t] = r
  BY <1>1, <1>3 DEF Others
<1>4. ASSUME NEW step, Goto(t, step)
      PROVE  /\ Others(t) /\ task'[t].op = task[t].op /\ task'[t].pc = step
             /\ task'[t].id = task[t].id /\ task'[t].cred = task[t].cred
             /\ task'[t].snap = task[t].snap
  <2>1. Others(t) /\ task'[t] = [task[t] EXCEPT !.pc = step]
    BY <1>1, <1>4 DEF Goto, Others
  <2> QED BY <1>2, <2>1 DEF TaskRecord
<1>5. ASSUME NEW id, NEW c, NEW step, Bind(t, id, c, step)
      PROVE  /\ Others(t) /\ task'[t].op = task[t].op /\ task'[t].pc = step
             /\ task'[t].id = id /\ task'[t].cred = c
  <2>1. Others(t) /\ task'[t] = [task[t] EXCEPT !.id = id, !.cred = c, !.pc = step]
    BY <1>1, <1>5 DEF Bind, Others
  <2> QED BY <1>2, <2>1 DEF TaskRecord
<1>6. ASSUME NEW result, Return(t, result)
      PROVE  Others(t) /\ task'[t].op = "none" /\ task'[t].pc = "idle"
  <2>1. Others(t) /\ task'[t] = Idle(result)
    BY <1>3, <1>6 DEF Return
  <2> QED BY <2>1 DEF Idle
<1> QED BY <1>3, <1>4, <1>5, <1>6

\* The local variables of a handler that has just been called.
LEMMA PlaceOfCall ==
  ASSUME IInv, NEW t \in Task, NEW name, NEW step, NEW r, task' = [task EXCEPT ![t] = r],
         r.op = name /\ r.pc = step
  PROVE  Others(t) /\ task'[t] = r /\ task'[t].op = name /\ task'[t].pc = step
<1> QED BY PlaceOf

LEMMA CalledWith ==
  ASSUME NEW t, NEW name, NEW step, NEW id, NEW c, NEW f, NEW n, NEW b, b = Begin(t, name, step)
  PROVE  /\ [b EXCEPT !.flag = f, !.limit = n].op = name
         /\ [b EXCEPT !.flag = f, !.limit = n].pc = step
         /\ [b EXCEPT !.flag = f].op = name /\ [b EXCEPT !.flag = f].pc = step
         /\ [b EXCEPT !.cred = c].op = name /\ [b EXCEPT !.cred = c].pc = step
         /\ [b EXCEPT !.id = id].op = name /\ [b EXCEPT !.id = id].pc = step
         /\ [b EXCEPT !.id = id].id = id
         /\ [b EXCEPT !.id = id, !.flag = f].op = name
         /\ [b EXCEPT !.id = id, !.flag = f].pc = step
         /\ [b EXCEPT !.id = id, !.cred = c].op = name
         /\ [b EXCEPT !.id = id, !.cred = c].pc = step
         /\ [b EXCEPT !.id = id, !.cred = c].id = id
         /\ [b EXCEPT !.id = id, !.cred = c].cred = c
<1> QED BY DEF Begin, Idle

\* After a write a handler is done, or goes on as its kind of call does.
LEMMA PlaceAfterWrite ==
  ASSUME IInv, NEW t \in Task, NEW result, AfterWrite(t, result)
  PROVE  /\ Others(t)
         /\ \/ task'[t].op = "none" /\ task'[t].pc = "idle"
            \/ task[t].op = "acquire" /\ task'[t].op = "acquire" /\ task'[t].pc = "resetCount"
            \/ task[t].op = "usage" /\ task'[t].op = "usage" /\ task'[t].pc = "metadata"
            \/ task[t].op = "setDisabled" /\ task'[t].op = "setDisabled" /\ task'[t].pc = "switch"
<1>1. TaskRecord(task[t])
  BY Typed
<1>2. \A step : /\ [task[t] EXCEPT !.pc = step, !.snap = NoFile].op = task[t].op
                /\ [task[t] EXCEPT !.pc = step, !.snap = NoFile].pc = step
  BY <1>1 DEF TaskRecord
<1>3. \A res : Idle(res).op = "none" /\ Idle(res).pc = "idle"
  BY DEF Idle
<1>4. ASSUME NEW r, task' = [task EXCEPT ![t] = r] PROVE Others(t) /\ task'[t] = r
  BY <1>4, PlaceOf
<1>5. CASE task[t].op = "acquire"
  <2> DEFINE r == [task[t] EXCEPT !.pc = "resetCount", !.snap = NoFile]
  <2>1. task' = [task EXCEPT ![t] = r]
    BY <1>5 DEF AfterWrite
  <2>2. r.op = task[t].op /\ r.pc = "resetCount"
    BY <1>2
  <2> HIDE DEF r
  <2> QED BY <1>4, <1>5, <2>1, <2>2
<1>6. CASE task[t].op = "usage" /\ lock = t
  <2> DEFINE r == [task[t] EXCEPT !.pc = "metadata", !.snap = NoFile]
  <2>1. task' = [task EXCEPT ![t] = r]
    BY <1>6 DEF AfterWrite
  <2>2. r.op = task[t].op /\ r.pc = "metadata"
    BY <1>2
  <2> HIDE DEF r
  <2> QED BY <1>4, <1>6, <2>1, <2>2
<1>7. CASE task[t].op = "setDisabled" /\ task[t].flag /\ result = "ok"
  <2> DEFINE r == [task[t] EXCEPT !.pc = "switch", !.snap = NoFile]
  <2>1. task' = [task EXCEPT ![t] = r]
    BY <1>7 DEF AfterWrite
  <2>2. r.op = task[t].op /\ r.pc = "switch"
    BY <1>2
  <2> HIDE DEF r
  <2> QED BY <1>4, <1>7, <2>1, <2>2
<1>8. CASE \E res : task' = [task EXCEPT ![t] = Idle(res)]
  BY <1>3, <1>4, <1>8
<1> QED BY <1>5, <1>6, <1>7, <1>8 DEF AfterWrite

\* Each handler goes on from step to step of its own.
LEMMA TasksOnTheirWay ==
  ASSUME IInv, HandlerInv, NEW t \in Task, TaskStep(t) \/ RequestReport(t)
  PROVE  Others(t) /\ OnItsWay(task'[t])
<1> DEFINE Going(op, pc) == Others(t) /\ task'[t].op = op /\ task'[t].pc = pc
<1>1. /\ \A step : Goto(t, step) => Going(task[t].op, step)
      /\ \A id, c, step : Bind(t, id, c, step) => Going(task[t].op, step)
      /\ \A result : Return(t, result) => Going("none", "idle")
  BY PlaceOf
<1>2. Going("none", "idle") => Others(t) /\ OnItsWay(task'[t])
  BY DEF OnItsWay
<1>3. \A c : Ensure(c) \in {"ready", "refreshFailed", "lock", "resetCount"}
  BY DEF Ensure
<1>4. OnItsWay(task[t])
  BY DEF HandlerInv
<1> HIDE DEF Going
<1>5. CASE RequestReport(t)
  <2>1. \E result : Return(t, result)
    BY <1>5 DEF RequestReport, ReportSuccess, ReportFailure, ReportQuotaExhausted, Report, Abandon
  <2> QED BY <1>1, <1>2, <2>1
<1>6. CASE AcquireStep(t)
  <2>1. task[t].op = "acquire"
    BY <1>4, <1>6 DEF OnItsWay, AcquireStep, At, TakeCurrent, SelectFirst, SelfHeal, SelectAgain,
                      Select, SetCurrent, ReportRefreshFailure, ReportRefreshTokenInvalid,
                      ReportRefresh, ResetRefreshCount
  <2>2. CASE ReportRefreshFailure(t) \/ ReportRefreshTokenInvalid(t)
    <3> DEFINE r == [task[t] EXCEPT !.attempt = task[t].attempt + 1, !.id = 0,
                                    !.cred = Blank, !.pc = "current"]
    <3>1. task' = [task EXCEPT ![t] = r] \/ Return(t, "err")
      <4>1. task = [u \in Task |-> task[u]]
        BY DEF IInv, TypeOK
      <4> QED BY <2>2, <4>1 DEF ReportRefreshFailure, ReportRefreshTokenInvalid, ReportRefresh
    <3>2. r.op = "acquire" /\ r.pc = "current"
      BY <2>1, Typed DEF TaskRecord
    <3> HIDE DEF r
    <3>3. CASE task' = [task EXCEPT ![t] = r]
      <4>1. Others(t) /\ task'[t] = r
        BY <3>3, PlaceOf
      <4> QED BY <1>4, <2>1, <3>2, <4>1 DEF OnItsWay
    <3> QED BY <1>1, <1>2, <3>1, <3>3
  <2>3. CASE ~(ReportRefreshFailure(t) \/ ReportRefreshTokenInvalid(t))
    <3>1. \/ Going("none", "idle")
          \/ \E pc \in {"ready", "refreshFailed", "lock", "resetCount", "select", "heal", "again",
                        "setCurrent"} : Going("acquire", pc)
      BY <1>1, <1>3, <1>6, <2>1, <2>3
         DEF AcquireStep, TakeCurrent, SelectFirst, SelfHeal, SelectAgain, Select, SetCurrent,
             ResetRefreshCount
    <3> QED BY <1>2, <1>4, <2>1, <3>1 DEF Going, OnItsWay
  <2> QED BY <2>2, <2>3
<1>7. CASE LockAndRecheck(t)
  <2>1. task[t].op \in {"acquire", "usage"}
    BY <1>4, <1>7 DEF OnItsWay, LockAndRecheck, Recheck, At
  <2>2. \/ Going("none", "idle")
        \/ task[t].op = "acquire" /\ \E pc \in {"refreshFailed", "refreshing", "resetCount"} : Going("acquire", pc)
        \/ task[t].op = "usage" /\ \E pc \in {"refreshing", "metadata"} : Going("usage", pc)
    BY <1>1, <1>7, <2>1 DEF LockAndRecheck, Recheck
  <2> QED BY <1>2, <1>4, <2>2 DEF Going, OnItsWay
<1>8. CASE ForceLock(t)
  <2>1. task[t].op = "force"
    BY <1>4, <1>8 DEF OnItsWay, ForceLock, At
  <2>2. Going("none", "idle") \/ Going("force", "refreshing")
    BY <1>1, <1>8, <2>1 DEF ForceLock
  <2> QED BY <1>2, <1>4, <2>1, <2>2 DEF Going, OnItsWay
<1>9. CASE RefreshStep(t)
  <2>1. task[t].op \in {"acquire", "usage", "force", "add"}
    BY <1>4, <1>9 DEF OnItsWay, RefreshStep, RefreshAccepted, RefreshRejected, RefreshErrors, At
  <2>2. \/ Going("none", "idle")
        \/ task[t].op = "acquire" /\ \E pc \in {"refreshFailed", "refreshInvalid"} : Going("acquire", pc)
        \/ task[t].op = "add" /\ Going("add", "addMetadata")
        \/ task[t].op # "add" /\ Going(task[t].op, "store")
    BY <1>1, <1>9, <2>1 DEF RefreshStep, RefreshAccepted, RefreshRejected, RefreshErrors
  <2> QED BY <1>2, <1>4, <2>1, <2>2 DEF Going, OnItsWay
<1>10. CASE StoreRefreshed(t) \/ PersistSnapshot(t)
  <2>1. task[t].op \notin {"none", "setMode"}
    BY <1>4, <1>10 DEF OnItsWay, StoreRefreshed, Store, PersistSnapshot, At
  <2>2. \E pc \in {"snapshot", "write"} : Going(task[t].op, pc)
    <3>1. CASE StoreRefreshed(t)
      BY <1>1, <3>1 DEF StoreRefreshed, Store
    <3>2. CASE PersistSnapshot(t)
      <4> DEFINE r == [task[t] EXCEPT !.snap = Image(entries), !.pc = "write"]
      <4>1. task' = [task EXCEPT ![t] = r]
        BY <3>2 DEF PersistSnapshot, IInv, TypeOK
      <4>2. r.op = task[t].op /\ r.pc = "write"
        BY Typed DEF TaskRecord
      <4> HIDE DEF r
      <4>3. Others(t) /\ task'[t] = r
        BY <4>1, PlaceOf
      <4> QED BY <4>2, <4>3 DEF Going
    <3> QED BY <1>10, <3>1, <3>2
  <2> QED BY <1>4, <2>1, <2>2 DEF Going, OnItsWay
<1>11. CASE PersistWrite(t)
  <2>1. AfterWrite(t, "ok")
    BY <1>11 DEF PersistWrite
  <2> QED BY <1>4, <2>1, PlaceAfterWrite DEF OnItsWay
<1>12. CASE OperatorStep(t)
  <2>1. CASE Disable(t) \/ Enable(t) \/ SwitchToNext(t)
    <3>1. task[t].op = "setDisabled"
      BY <1>4, <2>1 DEF OnItsWay, Disable, Enable, ApplyDisabled, SwitchToNext, At
    <3>2. Going("none", "idle") \/ Going("setDisabled", "snapshot")
      BY <1>1, <2>1, <3>1 DEF Disable, Enable, ApplyDisabled, SwitchToNext
    <3> QED BY <1>2, <1>4, <3>1, <3>2 DEF Going, OnItsWay
  <2>2. CASE SelectHighestPriority(t)
    <3>1. task[t].op \in {"setPriority", "delete"}
      BY <1>4, <2>2 DEF OnItsWay, SelectHighestPriority, At
    <3>2. \/ task[t].op = "delete" /\ Going("delete", "emptied")
          \/ task[t].op = "setPriority" /\ Going("setPriority", "snapshot")
      BY <1>1, <2>2, <3>1 DEF SelectHighestPriority
    <3> QED BY <1>4, <3>2 DEF Going, OnItsWay
  <2>3. CASE ClearCurrent(t)
    <3>1. task[t].op = "delete" /\ Going(task[t].op, "snapshot")
      BY <1>1, <1>4, <2>3 DEF OnItsWay, ClearCurrent, At
    <3> QED BY <1>4, <3>1 DEF Going, OnItsWay
  <2>4. CASE UsageReply(t)
    <3>1. task[t].op = "usage"
      BY <1>4, <2>4 DEF OnItsWay, UsageReply, At
    <3>2. Going("none", "idle") \/ Going("usage", "snapshot")
      BY <1>1, <2>4, <3>1 DEF UsageReply
    <3> QED BY <1>2, <1>4, <3>1, <3>2 DEF Going, OnItsWay
  <2>5. CASE AddMetadata(t) \/ FindIdentity(t) \/ MergeCredential(t) \/ AllocateId(t) \/ PushEntry(t)
    <3>1. task[t].op = "add"
      BY <1>4, <2>5 DEF OnItsWay, AddMetadata, FindIdentity, MergeCredential, AllocateId, PushEntry, At
    <3>2. \E pc \in {"identity", "merge", "alloc", "push", "snapshot"} : Going("add", pc)
      BY <1>1, <2>5, <3>1 DEF AddMetadata, FindIdentity, MergeCredential, AllocateId, PushEntry
    <3> QED BY <1>4, <3>1, <3>2 DEF Going, OnItsWay
  <2>6. CASE StoreMode(t) \/ SaveMode(t)
    <3>1. task[t].op = "setMode"
      BY <1>4, <2>6 DEF OnItsWay, StoreMode, SaveMode, At
    <3>2. Going("none", "idle") \/ Going("setMode", "modeSave")
      BY <1>1, <2>6, <3>1 DEF StoreMode, SaveMode
    <3> QED BY <1>2, <1>4, <3>1, <3>2 DEF Going, OnItsWay
  <2> QED BY <1>12, <2>1, <2>2, <2>3, <2>4, <2>5, <2>6 DEF OperatorStep
<1> QED BY <1>5, <1>6, <1>7, <1>8, <1>9, <1>10, <1>11, <1>12 DEF TaskStep, LockStep, StoreStep

\* A call starts a handler of Ops at its first step.
LEMMA CallsOnTheirWay ==
  ASSUME IInv, HandlerInv, NEW t \in Task, RequestCall(t) \/ OperatorCall(t)
  PROVE  /\ Others(t) /\ OnItsWay(task'[t]) /\ task'[t].op \in Ops /\ task'[t].op # "none"
         /\ task'[t].op = "acquire" => task'[t].pc = "current"
         /\ task'[t].op = "force" => task'[t].pc = "forceLock"
         /\ task'[t].op = "force" => \E id \in Ids : ForceRefresh(t, id)
         /\ task'[t].op = "usage" => \E id \in Ids : GetUsageLimits(t, id)
<1> DEFINE Starting(op, pc) == op \in Ops /\ Others(t) /\ task'[t].op = op /\ task'[t].pc = pc
<1>1. ASSUME NEW name, NEW step, NEW r, name \in Ops, r.op = name /\ r.pc = step,
             task' = [task EXCEPT ![t] = r]
      PROVE  Starting(name, step)
  BY <1>1, PlaceOfCall
<1>2. ASSUME NEW wantsOpus, Acquire(t, wantsOpus) PROVE Starting("acquire", "current")
  <2> DEFINE total == Cardinality(DOMAIN entries)
             limit == IF total = 0 THEN 1 ELSE total * MaxFailures
             b == Begin(t, "acquire", "current")
             r == [b EXCEPT !.flag = wantsOpus, !.limit = limit]
  <2>1. task' = [task EXCEPT ![t] = r] /\ "acquire" \in Ops
    BY <1>2 DEF Acquire, Call
  <2>2. r.op = "acquire" /\ r.pc = "current"
    BY CalledWith
  <2> HIDE DEF r
  <2> QED BY <1>1, <2>1, <2>2
<1>3. ASSUME NEW id, NEW disabled, SetDisabled(t, id, disabled)
      PROVE  Starting("setDisabled", "disable") \/ Starting("setDisabled", "enable")
  <2>1. PICK step \in {"disable", "enable"} :
          task' = [task EXCEPT ![t] = [Begin(t, "setDisabled", step) EXCEPT !.id = id, !.flag = disabled /\ id = current]]
    BY <1>3 DEF SetDisabled
  <2> DEFINE b == Begin(t, "setDisabled", step)
             r == [b EXCEPT !.id = id, !.flag = disabled /\ id = current]
  <2>2. task' = [task EXCEPT ![t] = r] /\ "setDisabled" \in Ops
    BY <1>3, <2>1 DEF SetDisabled, Call
  <2>3. r.op = "setDisabled" /\ r.pc = step
    BY CalledWith
  <2> HIDE DEF r
  <2>4. Starting("setDisabled", step)
    BY <1>1, <2>2, <2>3
  <2> QED BY <2>4
<1>4. ASSUME NEW id, NEW prio, SetPriority(t, id, prio) PROVE Starting("setPriority", "highest")
  <2> DEFINE b == Begin(t, "setPriority", "highest")
             r == [b EXCEPT !.id = id]
  <2>1. task' = [task EXCEPT ![t] = r] /\ "setPriority" \in Ops
    BY <1>4 DEF SetPriority, Administer, Call
  <2>2. r.op = "setPriority" /\ r.pc = "highest"
    BY CalledWith
  <2> HIDE DEF r
  <2> QED BY <1>1, <2>1, <2>2
<1>5. ASSUME NEW id, ResetAndEnable(t, id) PROVE Starting("reset", "snapshot")
  <2> DEFINE b == Begin(t, "reset", "snapshot")
             r == [b EXCEPT !.id = id]
  <2>1. task' = [task EXCEPT ![t] = r] /\ "reset" \in Ops
    BY <1>5 DEF ResetAndEnable, Administer, Call
  <2>2. r.op = "reset" /\ r.pc = "snapshot"
    BY CalledWith
  <2> HIDE DEF r
  <2> QED BY <1>1, <2>1, <2>2
<1>6. ASSUME NEW id, DeleteCredential(t, id)
      PROVE  Starting("delete", "highest") \/ Starting("delete", "emptied")
  <2>1. PICK step \in {"highest", "emptied"} :
          task' = [task EXCEPT ![t] = [Begin(t, "delete", step) EXCEPT !.id = id]]
    BY <1>6 DEF DeleteCredential
  <2> DEFINE b == Begin(t, "delete", step)
             r == [b EXCEPT !.id = id]
  <2>2. task' = [task EXCEPT ![t] = r] /\ "delete" \in Ops
    BY <1>6, <2>1 DEF DeleteCredential, Call
  <2>3. r.op = "delete" /\ r.pc = step
    BY CalledWith
  <2> HIDE DEF r
  <2>4. Starting("delete", step)
    BY <1>1, <2>2, <2>3
  <2> QED BY <2>4
<1>7. ASSUME NEW id, ForceRefresh(t, id) PROVE Starting("force", "forceLock")
  <2> DEFINE b == Begin(t, "force", "forceLock")
  <2>1. PICK c : task' = [task EXCEPT ![t] = [b EXCEPT !.id = id, !.cred = c]] /\ "force" \in Ops
    BY <1>7 DEF ForceRefresh, Call
  <2> DEFINE r == [b EXCEPT !.id = id, !.cred = c]
  <2>2. r.op = "force" /\ r.pc = "forceLock"
    BY CalledWith
  <2> HIDE DEF r
  <2> QED BY <1>1, <2>1, <2>2 DEF r
<1>8. ASSUME NEW id, GetUsageLimits(t, id)
      PROVE  Starting("usage", "lock") \/ Starting("usage", "metadata")
  <2>1. PICK step \in {"lock", "metadata"} :
          task' = [task EXCEPT ![t] = [Begin(t, "usage", step) EXCEPT !.id = id]]
    BY <1>8 DEF GetUsageLimits
  <2> DEFINE b == Begin(t, "usage", step)
             r == [b EXCEPT !.id = id]
  <2>2. task' = [task EXCEPT ![t] = r] /\ "usage" \in Ops
    BY <1>8, <2>1 DEF GetUsageLimits, Call
  <2>3. r.op = "usage" /\ r.pc = step
    BY CalledWith
  <2> HIDE DEF r
  <2>4. Starting("usage", step)
    BY <1>1, <2>2, <2>3
  <2> QED BY <2>4
<1>9. ASSUME NEW c, AddCredential(t, c)
      PROVE  Starting("add", "identity") \/ Starting("add", "refreshing")
  <2>1. PICK step \in {"identity", "refreshing"} :
          task' = [task EXCEPT ![t] = [Begin(t, "add", step) EXCEPT !.cred = c]]
    BY <1>9 DEF AddCredential
  <2> DEFINE b == Begin(t, "add", step)
             r == [b EXCEPT !.cred = c]
  <2>2. task' = [task EXCEPT ![t] = r] /\ "add" \in Ops
    BY <1>9, <2>1 DEF AddCredential, Call
  <2>3. r.op = "add" /\ r.pc = step
    BY CalledWith
  <2> HIDE DEF r
  <2>4. Starting("add", step)
    BY <1>1, <2>2, <2>3
  <2> QED BY <2>4
<1>10. ASSUME NEW mode, SetMode(t, mode) PROVE Starting("setMode", "modeSet")
  <2> DEFINE b == Begin(t, "setMode", "modeSet")
             r == [b EXCEPT !.flag = mode]
  <2>1. task' = [task EXCEPT ![t] = r] /\ "setMode" \in Ops
    BY <1>10 DEF SetMode, Call
  <2>2. r.op = "setMode" /\ r.pc = "modeSet"
    BY CalledWith
  <2> HIDE DEF r
  <2> QED BY <1>1, <2>1, <2>2
<1> HIDE DEF Starting
<1>11. \E op \in {"acquire", "setDisabled", "setPriority", "reset", "delete", "force", "usage",
                  "add", "setMode"}, pc \in Steps :
          /\ Starting(op, pc) /\ OnItsWay(task'[t])
          /\ op = "acquire" => pc = "current"
          /\ op = "force" => pc = "forceLock"
  <2>1. \/ Starting("acquire", "current")
        \/ Starting("setDisabled", "disable") \/ Starting("setDisabled", "enable")
        \/ Starting("setPriority", "highest") \/ Starting("reset", "snapshot")
        \/ Starting("delete", "highest") \/ Starting("delete", "emptied")
        \/ Starting("force", "forceLock")
        \/ Starting("usage", "lock") \/ Starting("usage", "metadata")
        \/ Starting("add", "identity") \/ Starting("add", "refreshing")
        \/ Starting("setMode", "modeSet")
    BY <1>2, <1>3, <1>4, <1>5, <1>6, <1>7, <1>8, <1>9, <1>10 DEF RequestCall, OperatorCall
  <2> QED BY <2>1 DEF Starting, OnItsWay, Steps
<1>12. /\ task'[t].op = "force" => \E id \in Ids : ForceRefresh(t, id)
       /\ task'[t].op = "usage" => \E id \in Ids : GetUsageLimits(t, id)
  <2>1. \/ Starting("acquire", "current")
        \/ Starting("setDisabled", "disable") \/ Starting("setDisabled", "enable")
        \/ Starting("setPriority", "highest") \/ Starting("reset", "snapshot")
        \/ Starting("delete", "highest") \/ Starting("delete", "emptied")
        \/ Starting("force", "forceLock") /\ \E id \in Ids : ForceRefresh(t, id)
        \/ /\ Starting("usage", "lock") \/ Starting("usage", "metadata")
           /\ \E id \in Ids : GetUsageLimits(t, id)
        \/ Starting("add", "identity") \/ Starting("add", "refreshing")
        \/ Starting("setMode", "modeSet")
    BY <1>2, <1>3, <1>4, <1>5, <1>6, <1>7, <1>8, <1>9, <1>10 DEF RequestCall, OperatorCall
  <2> QED BY <2>1 DEF Starting
<1> QED BY <1>11, <1>12 DEF Starting

LEMMA FaultsOnTheirWay ==
  ASSUME IInv, HandlerInv, FaultStep
  PROVE  HandlerInv'
<1>1. CASE Restart
  <2>1. \A t \in Task : task'[t] = Idle("none")
    BY <1>1 DEF Restart
  <2> QED BY <2>1 DEF HandlerInv, OnItsWay, Idle
<1>2. CASE UNCHANGED task
  BY <1>2 DEF HandlerInv
<1>3. ASSUME NEW t \in Task,
             RotatedReplyLost(t) \/ ClientGone(t) \/ PersistFails(t) \/ SaveModeFails(t)
      PROVE  HandlerInv'
  <2>1. OnItsWay(task[t])
    BY DEF HandlerInv
  <2>2. /\ Others(t)
        /\ \/ task'[t].op = "none" /\ task'[t].pc = "idle"
           \/ task[t].op = "acquire" /\ task'[t].op = "acquire" /\ task'[t].pc = "refreshFailed"
           \/ task[t].op = "acquire" /\ task'[t].op = "acquire" /\ task'[t].pc = "resetCount"
           \/ task[t].op = "usage" /\ task'[t].op = "usage" /\ task'[t].pc = "metadata"
           \/ task[t].op = "setDisabled" /\ task'[t].op = "setDisabled" /\ task'[t].pc = "switch"
    <3>1. CASE PersistFails(t)
      BY <3>1, PlaceAfterWrite DEF PersistFails
    <3>2. CASE ~PersistFails(t)
      BY <1>3, <3>2, PlaceOf DEF RotatedReplyLost, ClientGone, SaveModeFails
    <3> QED BY <3>1, <3>2
  <2>3. OnItsWay(task'[t])
    BY <2>1, <2>2 DEF OnItsWay
  <2> QED BY <2>2, <2>3 DEF HandlerInv, Others
<1> QED BY <1>1, <1>2, <1>3 DEF FaultStep, TokenExpires, Revoke

LEMMA HandlersKept == IInv /\ HandlerInv /\ [Next]_vars => HandlerInv'
<1> SUFFICES ASSUME IInv, HandlerInv, [Next]_vars PROVE HandlerInv'
  OBVIOUS
<1>1. CASE UNCHANGED task
  BY <1>1 DEF HandlerInv
<1>2. ASSUME NEW t \in Task,
             RequestCall(t) \/ RequestReport(t) \/ OperatorCall(t) \/ TaskStep(t)
      PROVE  HandlerInv'
  <2>1. Others(t) /\ OnItsWay(task'[t])
    BY <1>2, TasksOnTheirWay, CallsOnTheirWay
  <2> QED BY <2>1 DEF HandlerInv, Others
<1> QED BY <1>1, <1>2, FaultsOnTheirWay DEF Next, Rest, vars

LEMMA HandlersOnTheirWay == Spec => []HandlerInv
<1>1. Init => HandlerInv
  BY DEF Init, HandlerInv, OnItsWay, Idle
<1> QED BY <1>1, HandlersKept, Inductive, PTL DEF Spec

-----------------------------------------------------------------------------
(* Who disables and who revives a credential.                               *)

\* A change that revives nothing but what the self-healing may, and one that
\* disables nothing except for the operator.
NotRevived(e, f) == e.disabled /\ e.reason # "TooManyFailures" => f.disabled
NotDisabled(e, f) == f.disabled /\ f.reason # "Manual" => e.disabled

ListNotRevived ==
    \A s \in DOMAIN entries \cap DOMAIN entries' : NotRevived(entries[s], entries'[s])
ListNotDisabled ==
    \A s \in DOMAIN entries \cap DOMAIN entries' : NotDisabled(entries[s], entries'[s])

\* The changes of one entry that are neither a report nor an operator's.
LEMMA QuietChanges ==
  ASSUME NEW e \in Entry, NEW c, NEW prio
  PROVE  /\ NotRevived(e, Succeeded(e)) /\ NotDisabled(e, Succeeded(e))
         /\ NotRevived(e, RefreshCountReset(e)) /\ NotDisabled(e, RefreshCountReset(e))
         /\ NotRevived(e, Healed(e)) /\ NotDisabled(e, Healed(e))
         /\ NotRevived(e, Refreshed(e, c)) /\ NotDisabled(e, Refreshed(e, c))
         /\ NotRevived(e, RefreshedAndReset(e, c)) /\ NotDisabled(e, RefreshedAndReset(e, c))
         /\ NotRevived(e, [e EXCEPT !.cred.prio = prio])
         /\ NotDisabled(e, [e EXCEPT !.cred.prio = prio])
         /\ NotRevived(e, [e EXCEPT !.cred.expired = TRUE])
         /\ NotDisabled(e, [e EXCEPT !.cred.expired = TRUE])
<1>1. NotRevived(e, Succeeded(e)) /\ NotDisabled(e, Succeeded(e))
  BY DEF Entry, NotRevived, NotDisabled, Succeeded
<1>2. NotRevived(e, RefreshCountReset(e)) /\ NotDisabled(e, RefreshCountReset(e))
  BY DEF Entry, NotRevived, NotDisabled, RefreshCountReset
<1>3. NotRevived(e, Healed(e)) /\ NotDisabled(e, Healed(e))
  BY DEF Entry, NotRevived, NotDisabled, Healed
<1>4. NotRevived(e, Refreshed(e, c)) /\ NotDisabled(e, Refreshed(e, c))
  BY DEF Entry, NotRevived, NotDisabled, Refreshed
<1>5. NotRevived(e, RefreshedAndReset(e, c)) /\ NotDisabled(e, RefreshedAndReset(e, c))
  BY DEF Entry, NotRevived, NotDisabled, RefreshedAndReset
<1>6. /\ NotRevived(e, [e EXCEPT !.cred.prio = prio])
      /\ NotDisabled(e, [e EXCEPT !.cred.prio = prio])
  BY DEF Entry, NotRevived, NotDisabled
<1>7. /\ NotRevived(e, [e EXCEPT !.cred.expired = TRUE])
      /\ NotDisabled(e, [e EXCEPT !.cred.expired = TRUE])
  BY DEF Entry, NotRevived, NotDisabled
<1> QED BY <1>1, <1>2, <1>3, <1>4, <1>5, <1>6, <1>7

\* What an operator changes disables nothing for another reason than his.
LEMMA OperatorChanges ==
  ASSUME NEW e \in Entry, NEW c
  PROVE  /\ NotDisabled(e, Reenabled(e)) /\ NotDisabled(e, Merged(e, c))
         /\ NotRevived(e, ManuallyDisabled(e)) /\ NotDisabled(e, ManuallyDisabled(e))
<1>1. NotDisabled(e, Reenabled(e))
  BY DEF Entry, NotDisabled, Reenabled
<1>2. NotRevived(e, ManuallyDisabled(e)) /\ NotDisabled(e, ManuallyDisabled(e))
  BY DEF Entry, NotRevived, NotDisabled, ManuallyDisabled
<1>3. NotDisabled(e, Merged(e, c))
  <2> DEFINE m == [e EXCEPT !.cred = [c EXCEPT !.prio = e.cred.prio]]
  <2>1. m.disabled = e.disabled /\ m.reason = e.reason
    BY DEF Entry
  <2>2. [m EXCEPT !.disabled = TRUE, !.reason = "Manual"].reason = "Manual"
    BY DEF Entry
  <2>3. [m EXCEPT !.fails = 0, !.refreshFails = 0, !.disabled = FALSE, !.reason = "None"].disabled = FALSE
    BY DEF Entry
  <2>4. Merged(e, c) = IF e.reason = "Manual" THEN ManuallyDisabled(m) ELSE Reenabled(m)
    BY DEF Merged
  <2> HIDE DEF m
  <2> QED BY <2>2, <2>3, <2>4 DEF NotDisabled, ManuallyDisabled, Reenabled
<1> QED BY <1>1, <1>2, <1>3

\* Every step but a report, a restart and an operator's that may revive.
LEMMA QuietSteps ==
  ASSUME IInv, NEW t \in Task,
         \/ AcquireStep(t) /\ ~ReportRefreshFailure(t) /\ ~ReportRefreshTokenInvalid(t)
         \/ LockStep(t) \/ RefreshStep(t) \/ StoreStep(t)
         \/ OperatorStep(t) /\ ~Enable(t) /\ ~MergeCredential(t)
         \/ RequestCall(t)
         \/ OperatorCall(t) /\ ~\E id \in Ids : ResetAndEnable(t, id)
         \/ ReportSuccess(t) \/ Abandon(t)
  PROVE  ListNotRevived /\ ListNotDisabled
<1>0. \A s \in DOMAIN entries : entries[s] \in Entry
  BY DEF IInv, TypeOK, IsPool
<1>1. CASE UNCHANGED entries
  BY <1>0, <1>1 DEF ListNotRevived, ListNotDisabled, NotRevived, NotDisabled
<1>2. ASSUME NEW q, entries' = [s \in DOMAIN entries |-> q[s]],
             \A s \in DOMAIN entries : NotRevived(entries[s], q[s]) /\ NotDisabled(entries[s], q[s])
      PROVE  ListNotRevived /\ ListNotDisabled
  BY <1>2 DEF ListNotRevived, ListNotDisabled
<1>3. \A s \in DOMAIN entries : NotRevived(entries[s], entries[s]) /\ NotDisabled(entries[s], entries[s])
  BY <1>0 DEF NotRevived, NotDisabled
<1>4. CASE SelfHeal(t)
  BY <1>0, <1>1, <1>4, QuietChanges DEF SelfHeal, ListNotRevived, ListNotDisabled
<1>5. CASE ResetRefreshCount(t)
  BY <1>0, <1>3, <1>5, QuietChanges DEF ResetRefreshCount, Patch, ListNotRevived, ListNotDisabled
<1>6. CASE ReportSuccess(t)
  BY <1>0, <1>3, <1>6, QuietChanges DEF ReportSuccess, Report, Patch, ListNotRevived, ListNotDisabled
<1>7. CASE StoreRefreshed(t)
  BY <1>0, <1>3, <1>7, QuietChanges DEF StoreRefreshed, Store, ListNotRevived, ListNotDisabled
<1>8. CASE Disable(t)
  BY <1>0, <1>3, <1>8, OperatorChanges DEF Disable, ApplyDisabled, Patch, ListNotRevived, ListNotDisabled
<1>9. CASE UsageReply(t)
  <2>1. CASE ~UNCHANGED entries
    <3>1. PICK opus \in BOOLEAN :
            entries' = [s \in DOMAIN entries |->
              IF s \in Find(entries, task[t].id)
              THEN Refreshed(entries[s], WithMetadata(entries[s].cred, opus)) ELSE entries[s]]
      BY <1>9, <2>1 DEF UsageReply
    <3> DEFINE q == [s \in DOMAIN entries |->
              IF s \in Find(entries, task[t].id)
              THEN Refreshed(entries[s], WithMetadata(entries[s].cred, opus)) ELSE entries[s]]
    <3>2. \A s \in DOMAIN entries : NotRevived(entries[s], q[s]) /\ NotDisabled(entries[s], q[s])
      BY <1>0, <1>3, QuietChanges
    <3>3. entries' = [s \in DOMAIN entries |-> q[s]]
      BY <3>1
    <3> HIDE DEF q
    <3> QED BY <1>2, <3>2, <3>3
  <2> QED BY <1>1, <2>1
<1>10. CASE PushEntry(t)
  <2>1. PICK s \in NextSlots(entries) : \E e : entries' = Pushed(entries, s, e)
    BY <1>10 DEF PushEntry
  <2>2. PICK e : entries' = Pushed(entries, s, e)
    BY <2>1
  <2>3. s \notin DOMAIN entries
    BY Typed DEF NextSlots, IsPool
  <2>4. \A u \in DOMAIN entries : u \in DOMAIN entries' /\ entries'[u] = entries[u]
    BY <2>2, <2>3 DEF Pushed
  <2> QED BY <1>3, <2>4 DEF ListNotRevived, ListNotDisabled
<1>11. ASSUME NEW id, NEW prio, SetPriority(t, id, prio) PROVE ListNotRevived /\ ListNotDisabled
  BY <1>0, <1>3, <1>11, QuietChanges
     DEF SetPriority, Administer, Prioritised, ListNotRevived, ListNotDisabled
<1>12. ASSUME NEW id, DeleteCredential(t, id) PROVE ListNotRevived /\ ListNotDisabled
  BY <1>3, <1>12 DEF DeleteCredential, Removed, ListNotRevived, ListNotDisabled
<1>13. CASE \/ AcquireStep(t) /\ ~ReportRefreshFailure(t) /\ ~ReportRefreshTokenInvalid(t)
            \/ LockStep(t) \/ RefreshStep(t) \/ StoreStep(t)
  BY <1>1, <1>4, <1>5, <1>7, <1>13
     DEF AcquireStep, TakeCurrent, SelectFirst, SelectAgain, Select, SetCurrent, LockStep,
         LockAndRecheck, Recheck, ForceLock, RefreshStep, RefreshAccepted, RefreshRejected,
         RefreshErrors, StoreStep, PersistSnapshot, PersistWrite, AfterWrite
<1>14. CASE OperatorStep(t) /\ ~Enable(t) /\ ~MergeCredential(t)
  BY <1>1, <1>8, <1>9, <1>10, <1>14
     DEF OperatorStep, SwitchToNext, SelectHighestPriority, ClearCurrent, AddMetadata, FindIdentity,
         AllocateId, StoreMode, SaveMode
<1>15. CASE OperatorCall(t) /\ ~\E id \in Ids : ResetAndEnable(t, id)
  <2>1. CASE \E id \in Ids, prio \in Priorities : SetPriority(t, id, prio)
    BY <1>11, <2>1
  <2>2. CASE \E id \in Ids : DeleteCredential(t, id)
    BY <1>12, <2>2
  <2>3. CASE \/ \E id \in Ids, disabled \in BOOLEAN : SetDisabled(t, id, disabled)
             \/ \E id \in Ids : ForceRefresh(t, id) \/ GetUsageLimits(t, id)
             \/ \E c \in NewCredentials : AddCredential(t, c)
             \/ \E mode \in BOOLEAN : SetMode(t, mode)
    BY <1>1, <2>3 DEF SetDisabled, ForceRefresh, GetUsageLimits, AddCredential, SetMode
  <2> QED BY <1>15, <2>1, <2>2, <2>3 DEF OperatorCall
<1>16. CASE RequestCall(t) \/ Abandon(t)
  BY <1>1, <1>16 DEF RequestCall, Acquire, Abandon
<1> QED BY <1>6, <1>13, <1>14, <1>15, <1>16

\* The faults, except for the restart.
LEMMA QuietFaults ==
  ASSUME IInv, FaultStep, ~Restart
  PROVE  ListNotRevived /\ ListNotDisabled
<1>0. \A s \in DOMAIN entries : entries[s] \in Entry
  BY DEF IInv, TypeOK, IsPool
<1>1. \A s \in DOMAIN entries : NotRevived(entries[s], entries[s]) /\ NotDisabled(entries[s], entries[s])
  BY <1>0 DEF NotRevived, NotDisabled
<1>2. CASE UNCHANGED entries
  BY <1>1, <1>2 DEF ListNotRevived, ListNotDisabled
<1>3. ASSUME NEW s \in DOMAIN entries, TokenExpires(s) PROVE ListNotRevived /\ ListNotDisabled
  <2> DEFINE e == [entries[s] EXCEPT !.cred.expired = TRUE]
  <2>1. NotRevived(entries[s], e) /\ NotDisabled(entries[s], e)
    BY <1>0, QuietChanges
  <2>2. entries' = [entries EXCEPT ![s] = e]
    BY <1>3, Typed DEF TokenExpires, IsPool
  <2> HIDE DEF e
  <2>3. \A u \in DOMAIN entries : entries'[u] = IF u = s THEN e ELSE entries[u]
    BY <2>2
  <2> QED BY <1>1, <2>1, <2>3 DEF ListNotRevived, ListNotDisabled
<1> QED BY <1>2, <1>3 DEF FaultStep, Revoke, RotatedReplyLost, ClientGone, PersistFails, SaveModeFails,
                         AfterWrite

\* A report changes the entry it is about, which is enabled, and moves
\* current_id if it disables it.
LEMMA ReportFacts ==
  ASSUME IInv, NEW t \in Task,
         \/ ReportRefreshFailure(t) \/ ReportRefreshTokenInvalid(t)
         \/ ReportFailure(t) \/ ReportQuotaExhausted(t)
  PROVE  LET id == task[t].id
         IN  /\ DOMAIN entries' = DOMAIN entries
             /\ \A s \in DOMAIN entries : s \notin Find(entries, id) => entries'[s] = entries[s]
             /\ \A s \in DOMAIN entries : entries[s].disabled => entries'[s] = entries[s]
             /\ current' \in SwitchIfDisabled(entries, entries', id, current)
<1>1. ASSUME NEW Change(_), NEW id, entries' = PatchEnabled(entries, id, Change)
      PROVE  /\ DOMAIN entries' = DOMAIN entries
             /\ \A s \in DOMAIN entries : s \notin Find(entries, id) => entries'[s] = entries[s]
             /\ \A s \in DOMAIN entries : entries[s].disabled => entries'[s] = entries[s]
  BY <1>1 DEF PatchEnabled
<1> QED BY <1>1 DEF ReportRefreshFailure, ReportRefreshTokenInvalid, ReportRefresh,
                   ReportFailure, ReportQuotaExhausted, Report

LEMMA FoundOnce ==
  ASSUME IInv, NEW id, NEW s \in Find(entries, id), NEW u \in Find(entries, id)
  PROVE  s = u
<1>1. s \in Nat /\ u \in Nat
  BY Typed DEF Find, Slots, IsPool
<1> QED BY <1>1 DEF Find

LEMMA ReportSwitches ==
  ASSUME IInv, NEW t \in Task,
         \/ ReportRefreshFailure(t) \/ ReportRefreshTokenInvalid(t)
         \/ ReportFailure(t) \/ ReportQuotaExhausted(t),
         NEW s \in DOMAIN entries, ~entries[s].disabled, entries'[s].disabled
  PROVE  /\ \A u \in DOMAIN entries \ {s} : entries'[u] = entries[u]
         /\ HasEnabled(entries') => \E u \in Enabled(entries') : entries'[u].id = current'
<1> DEFINE id == task[t].id
<1>1. /\ \A u \in DOMAIN entries : u \notin Find(entries, id) => entries'[u] = entries[u]
      /\ current' \in SwitchIfDisabled(entries, entries', id, current)
  BY ReportFacts
<1> HIDE DEF id
<1>2. s \in Find(entries, id)
  BY <1>1
<1>3. \A u \in DOMAIN entries \ {s} : entries'[u] = entries[u]
  BY <1>1, <1>2, FoundOnce
<1>4. current' \in Switch(entries', current)
  BY <1>1, <1>2 DEF SwitchIfDisabled
<1>5. HasEnabled(entries') => \E u \in Enabled(entries') : entries'[u].id = current'
  BY <1>4 DEF Switch, First
<1> QED BY <1>3, <1>5

\* The operator's steps that may revive say so in their call.
LEMMA RevivingSteps ==
  ASSUME IInv, HandlerInv, NEW t \in Task,
         Enable(t) \/ MergeCredential(t) \/ \E id \in Ids : Counted /\ ResetAndEnable(t, id)
  PROVE  /\ ListNotDisabled
         /\ UNCHANGED entries \/ (task'[t] # task[t] /\ task'[t].op \in {"setDisabled", "reset", "add"})
<1>0. \A s \in DOMAIN entries : entries[s] \in Entry /\ NotDisabled(entries[s], entries[s])
  BY DEF IInv, TypeOK, IsPool, NotDisabled
<1>1. OnItsWay(task[t])
  BY DEF HandlerInv
<1>2. CASE Enable(t)
  <2>1. task[t].op = "setDisabled" /\ task[t].pc = "enable"
    BY <1>1, <1>2 DEF Enable, ApplyDisabled, At, OnItsWay
  <2>2. ListNotDisabled
    BY <1>0, <1>2, OperatorChanges DEF Enable, ApplyDisabled, Patch, ListNotDisabled
  <2>3. CASE Find(entries, task[t].id) = {}
    <3>1. entries' = [s \in DOMAIN entries |-> entries[s]]
      BY <1>2, <2>3 DEF Enable, ApplyDisabled, Patch
    <3> QED BY <2>2, <3>1, Typed DEF IsPool
  <2>4. CASE Find(entries, task[t].id) # {}
    <3>1. task'[t].op = "setDisabled" /\ task'[t].pc = "snapshot"
      BY <1>2, <2>1, <2>4, PlaceOf DEF Enable, ApplyDisabled
    <3> QED BY <2>1, <2>2, <3>1
  <2> QED BY <2>3, <2>4
<1>3. CASE MergeCredential(t)
  <2>1. task[t].op = "add" /\ task[t].pc = "merge"
    BY <1>1, <1>3 DEF MergeCredential, At, OnItsWay
  <2>2. ListNotDisabled
    BY <1>0, <1>3, OperatorChanges DEF MergeCredential, ListNotDisabled
  <2>3. task'[t].op = "add" /\ task'[t].pc \in {"alloc", "snapshot"}
    BY <1>3, <2>1, PlaceOf DEF MergeCredential
  <2> QED BY <2>1, <2>2, <2>3
<1>4. ASSUME NEW id, Counted, ResetAndEnable(t, id)
      PROVE  ListNotDisabled /\ task'[t] # task[t] /\ task'[t].op = "reset"
  <2>1. ListNotDisabled
    BY <1>0, <1>4, OperatorChanges DEF ResetAndEnable, Administer, Patch, ListNotDisabled
  <2> DEFINE b == Begin(t, "reset", "snapshot")
             r == [b EXCEPT !.id = id]
  <2>2. task' = [task EXCEPT ![t] = r] /\ task[t].pc = "idle"
    BY <1>4 DEF ResetAndEnable, Administer, Call
  <2>3. r.op = "reset" /\ r.pc = "snapshot"
    BY CalledWith
  <2> HIDE DEF r
  <2>4. task'[t].op = "reset" /\ task'[t].pc = "snapshot"
    BY <2>2, <2>3, PlaceOfCall
  <2> QED BY <2>1, <2>2, <2>4
<1> QED BY <1>2, <1>3, <1>4

\* Every step is quiet, a report, an operator's or the restart.
LEMMA StepKinds ==
  ASSUME IInv, HandlerInv, [Next]_vars
  PROVE  \/ ListNotRevived /\ ListNotDisabled
         \/ \E t \in Task : \/ ReportRefreshFailure(t) \/ ReportRefreshTokenInvalid(t)
                            \/ ReportFailure(t) \/ ReportQuotaExhausted(t)
         \/ /\ ListNotDisabled
            /\ \E t \in Task : task'[t] # task[t] /\ task'[t].op \in {"setDisabled", "reset", "add"}
         \/ Restart
<1>1. CASE UNCHANGED entries
  <2>1. \A s \in DOMAIN entries : NotRevived(entries[s], entries[s]) /\ NotDisabled(entries[s], entries[s])
    BY DEF IInv, TypeOK, IsPool, NotRevived, NotDisabled
  <2> QED BY <1>1, <2>1 DEF ListNotRevived, ListNotDisabled
<1>2. CASE FaultStep
  BY <1>2, QuietFaults
<1>3. ASSUME NEW t \in Task,
             Enable(t) \/ MergeCredential(t) \/ \E id \in Ids : Counted /\ ResetAndEnable(t, id),
             ~UNCHANGED entries
      PROVE  /\ ListNotDisabled
             /\ task'[t] # task[t] /\ task'[t].op \in {"setDisabled", "reset", "add"}
  BY <1>3, RevivingSteps
<1>4. ASSUME NEW t \in Task,
             RequestCall(t) \/ RequestReport(t) \/ OperatorCall(t) \/ TaskStep(t)
      PROVE  \/ \/ AcquireStep(t) /\ ~ReportRefreshFailure(t) /\ ~ReportRefreshTokenInvalid(t)
                \/ LockStep(t) \/ RefreshStep(t) \/ StoreStep(t)
                \/ OperatorStep(t) /\ ~Enable(t) /\ ~MergeCredential(t)
                \/ RequestCall(t)
                \/ OperatorCall(t) /\ ~\E id \in Ids : ResetAndEnable(t, id)
                \/ ReportSuccess(t) \/ Abandon(t)
             \/ \/ ReportRefreshFailure(t) \/ ReportRefreshTokenInvalid(t)
                \/ ReportFailure(t) \/ ReportQuotaExhausted(t)
             \/ Enable(t) \/ MergeCredential(t) \/ \E id \in Ids : Counted /\ ResetAndEnable(t, id)
  <2>1. OperatorCall(t) => Counted
    BY DEF OperatorCall
  <2> QED BY <1>4, <2>1 DEF RequestReport, TaskStep
<1> QED BY <1>1, <1>2, <1>3, <1>4, QuietSteps DEF Next, Rest, vars

\* A credential that is disabled for any reason but too many failures is brought back by
\* an operator's call or a restart, never by a request that heals or a refresh that ends late.
THEOREM OnlyOperatorsRevive == Spec => RevivedByOperator
<1> DEFINE A == \A s \in DOMAIN entries \cap DOMAIN entries' :
         (/\ entries[s].id = entries'[s].id
          /\ entries[s].disabled /\ ~entries'[s].disabled
          /\ entries[s].reason # "TooManyFailures")
         => \/ Restart
            \/ \E t \in Task : /\ task'[t] # task[t]
                             /\ task'[t].op \in {"setDisabled", "reset", "add"}
<1>1. IInv /\ HandlerInv /\ [Next]_vars => A
  <2> SUFFICES ASSUME IInv, HandlerInv, [Next]_vars PROVE A
    OBVIOUS
  <2>1. CASE ListNotRevived
    BY <2>1 DEF ListNotRevived, NotRevived
  <2>2. ASSUME NEW t \in Task,
               \/ ReportRefreshFailure(t) \/ ReportRefreshTokenInvalid(t)
               \/ ReportFailure(t) \/ ReportQuotaExhausted(t)
        PROVE  A
    BY <2>2, ReportFacts
  <2> QED BY <2>1, <2>2, StepKinds
<1>2. [][A]_vars => RevivedByOperator
  BY PTL DEF RevivedByOperator
<1> HIDE DEF A
<1> QED BY <1>1, <1>2, Inductive, HandlersOnTheirWay, PTL DEF Spec

\* A report disables at most the credential it is about, and current_id leaves it if any
\* other is enabled.
THEOREM ReportsSwitchAway == Spec => SwitchedAway
<1> DEFINE A == \A s \in DOMAIN entries \cap DOMAIN entries' :
         (/\ ~entries[s].disabled /\ entries'[s].disabled
          /\ entries'[s].reason # "Manual" /\ ~Restart)
         => /\ \A u \in DOMAIN entries \ {s} : entries'[u] = entries[u]
            /\ HasEnabled(entries') =>
                  \E u \in Enabled(entries') : entries'[u].id = current'
<1>1. IInv /\ HandlerInv /\ [Next]_vars => A
  <2> SUFFICES ASSUME IInv, HandlerInv, [Next]_vars,
                      NEW s \in DOMAIN entries \cap DOMAIN entries',
                      ~entries[s].disabled, entries'[s].disabled,
                      entries'[s].reason # "Manual", ~Restart
               PROVE  /\ \A u \in DOMAIN entries \ {s} : entries'[u] = entries[u]
                      /\ HasEnabled(entries') =>
                            \E u \in Enabled(entries') : entries'[u].id = current'
    OBVIOUS
  <2>1. ~ListNotDisabled
    BY DEF ListNotDisabled, NotDisabled
  <2> QED BY <2>1, StepKinds, ReportSwitches
<1>2. [][A]_vars => SwitchedAway
  BY PTL DEF SwitchedAway
<1> HIDE DEF A
<1> QED BY <1>1, <1>2, Inductive, HandlersOnTheirWay, PTL DEF Spec
-----------------------------------------------------------------------------
(* Refresh tokens in the list and in the file.                              *)

\* A change that is not about the refresh token, and one that condemns nothing.
SameToken(e, f) ==
    /\ f.id = e.id /\ f.cred.account = e.cred.account
    /\ f.cred.kind = e.cred.kind /\ f.cred.rt = e.cred.rt
NotCondemned(e, f) ==
    f.reason = "InvalidRefreshToken" => e.reason = "InvalidRefreshToken"

Keeps(e, f) == SameToken(e, f) /\ NotCondemned(e, f)

SameTokens ==
    /\ DOMAIN entries' = DOMAIN entries
    /\ \A s \in DOMAIN entries : SameToken(entries[s], entries'[s])
NoneCondemned ==
    \A s \in DOMAIN entries \cap DOMAIN entries' : NotCondemned(entries[s], entries'[s])

LEMMA TokenChanges ==
  ASSUME NEW e \in Entry, NEW prio, NEW opus
  PROVE  /\ Keeps(e, e) /\ Keeps(e, Succeeded(e)) /\ Keeps(e, Failed(e))
         /\ Keeps(e, QuotaExhausted(e)) /\ Keeps(e, RefreshFailed(e))
         /\ SameToken(e, RefreshTokenInvalid(e)) /\ Keeps(e, RefreshCountReset(e))
         /\ Keeps(e, Healed(e)) /\ Keeps(e, Reenabled(e)) /\ Keeps(e, ManuallyDisabled(e))
         /\ Keeps(e, [e EXCEPT !.cred.prio = prio])
         /\ Keeps(e, [e EXCEPT !.cred.expired = TRUE])
         /\ Keeps(e, Refreshed(e, WithMetadata(e.cred, opus)))
<1> USE DEF Entry, Keeps, SameToken, NotCondemned
<1>1. Keeps(e, e)
  OBVIOUS
<1>2. Keeps(e, Succeeded(e)) /\ Keeps(e, Failed(e)) /\ Keeps(e, QuotaExhausted(e))
  BY DEF Succeeded, Failed, QuotaExhausted
<1>3. Keeps(e, RefreshFailed(e)) /\ SameToken(e, RefreshTokenInvalid(e))
  BY DEF RefreshFailed, RefreshTokenInvalid
<1>4. Keeps(e, RefreshCountReset(e)) /\ Keeps(e, Healed(e))
  BY DEF RefreshCountReset, Healed
<1>5. Keeps(e, Reenabled(e)) /\ Keeps(e, ManuallyDisabled(e))
  BY DEF Reenabled, ManuallyDisabled
<1>6. Keeps(e, [e EXCEPT !.cred.prio = prio]) /\ Keeps(e, [e EXCEPT !.cred.expired = TRUE])
  BY DEF Credential
<1>7. Keeps(e, Refreshed(e, WithMetadata(e.cred, opus)))
  <2>1. ASSUME NEW c, c.account = e.cred.account, c.kind = e.cred.kind, c.rt = e.cred.rt
        PROVE  Keeps(e, Refreshed(e, c))
    BY <2>1 DEF Refreshed
  <2>2. LET c == WithMetadata(e.cred, opus)
        IN  c.account = e.cred.account /\ c.kind = e.cred.kind /\ c.rt = e.cred.rt
    BY DEF WithMetadata, Credential
  <2> HIDE DEF Keeps
  <2> QED BY <2>1, <2>2
<1> QED BY <1>1, <1>2, <1>3, <1>4, <1>5, <1>6, <1>7

\* The steps of a handler that neither store a refreshed credential nor add or delete one.
LEMMA TokensStay ==
  ASSUME IInv, NEW t \in Task,
         \/ AcquireStep(t) \/ LockStep(t) \/ RefreshStep(t)
         \/ PersistSnapshot(t) \/ PersistWrite(t)
         \/ OperatorStep(t) /\ ~MergeCredential(t) /\ ~PushEntry(t)
         \/ RequestCall(t) \/ RequestReport(t)
         \/ OperatorCall(t) /\ ~\E id \in Ids : DeleteCredential(t, id)
  PROVE  SameTokens /\ (ReportRefreshTokenInvalid(t) \/ NoneCondemned)
<1>0. \A s \in DOMAIN entries : entries[s] \in Entry
  BY DEF IInv, TypeOK, IsPool
<1>1. \A s \in DOMAIN entries : Keeps(entries[s], entries[s])
  BY <1>0, TokenChanges
<1>2. CASE UNCHANGED entries
  BY <1>1, <1>2 DEF SameTokens, NoneCondemned, Keeps
<1>3. ASSUME NEW q, entries' = [s \in DOMAIN entries |-> q[s]],
             \A s \in DOMAIN entries : Keeps(entries[s], q[s])
      PROVE  SameTokens /\ NoneCondemned
  BY <1>3 DEF SameTokens, NoneCondemned, Keeps
<1>4. CASE SelfHeal(t)
  BY <1>0, <1>2, <1>4, TokenChanges DEF SelfHeal, SameTokens, NoneCondemned, Keeps
<1>5. CASE ResetRefreshCount(t)
  BY <1>0, <1>1, <1>5, TokenChanges DEF ResetRefreshCount, Patch, SameTokens, NoneCondemned, Keeps
<1>6. CASE ReportRefreshFailure(t)
  BY <1>0, <1>1, <1>6, TokenChanges
     DEF ReportRefreshFailure, ReportRefresh, PatchEnabled, SameTokens, NoneCondemned, Keeps
<1>7. CASE ReportRefreshTokenInvalid(t)
  BY <1>0, <1>1, <1>7, TokenChanges
     DEF ReportRefreshTokenInvalid, ReportRefresh, PatchEnabled, SameTokens, Keeps
<1>8. CASE RequestReport(t)
  <2>1. CASE ReportSuccess(t)
    BY <1>0, <1>1, <2>1, TokenChanges DEF ReportSuccess, Report, Patch, SameTokens, NoneCondemned, Keeps
  <2>2. CASE ReportFailure(t)
    BY <1>0, <1>1, <2>2, TokenChanges DEF ReportFailure, Report, PatchEnabled, SameTokens, NoneCondemned, Keeps
  <2>3. CASE ReportQuotaExhausted(t)
    BY <1>0, <1>1, <2>3, TokenChanges
       DEF ReportQuotaExhausted, Report, PatchEnabled, SameTokens, NoneCondemned, Keeps
  <2> QED BY <1>2, <1>8, <2>1, <2>2, <2>3 DEF RequestReport, Abandon
<1>9. CASE Disable(t) \/ Enable(t)
  BY <1>0, <1>1, <1>9, TokenChanges
     DEF Disable, Enable, ApplyDisabled, Patch, SameTokens, NoneCondemned, Keeps
<1>10. CASE UsageReply(t)
  <2>1. CASE ~UNCHANGED entries
    <3>1. PICK opus \in BOOLEAN :
            entries' = [s \in DOMAIN entries |->
              IF s \in Find(entries, task[t].id)
              THEN Refreshed(entries[s], WithMetadata(entries[s].cred, opus)) ELSE entries[s]]
      BY <1>10, <2>1 DEF UsageReply
    <3> DEFINE q == [s \in DOMAIN entries |->
              IF s \in Find(entries, task[t].id)
              THEN Refreshed(entries[s], WithMetadata(entries[s].cred, opus)) ELSE entries[s]]
    <3>2. \A s \in DOMAIN entries : Keeps(entries[s], q[s])
      BY <1>0, <1>1, TokenChanges
    <3>3. entries' = [s \in DOMAIN entries |-> q[s]]
      BY <3>1
    <3> HIDE DEF q
    <3> QED BY <1>3, <3>2, <3>3
  <2> QED BY <1>2, <2>1
<1>11. ASSUME NEW id, NEW prio, SetPriority(t, id, prio) PROVE SameTokens /\ NoneCondemned
  BY <1>0, <1>1, <1>11, TokenChanges
     DEF SetPriority, Administer, Prioritised, SameTokens, NoneCondemned, Keeps
<1>12. ASSUME NEW id, ResetAndEnable(t, id) PROVE SameTokens /\ NoneCondemned
  BY <1>0, <1>1, <1>12, TokenChanges
     DEF ResetAndEnable, Administer, Patch, SameTokens, NoneCondemned, Keeps
<1>13. CASE AcquireStep(t)
  BY <1>2, <1>4, <1>5, <1>6, <1>7, <1>13
     DEF AcquireStep, TakeCurrent, SelectFirst, SelectAgain, Select, SetCurrent
<1>14. CASE LockStep(t) \/ RefreshStep(t) \/ PersistSnapshot(t) \/ PersistWrite(t)
  BY <1>2, <1>14
     DEF LockStep, LockAndRecheck, Recheck, ForceLock, RefreshStep, RefreshAccepted,
         RefreshRejected, RefreshErrors, PersistSnapshot, PersistWrite, AfterWrite
<1>15. CASE OperatorStep(t) /\ ~MergeCredential(t) /\ ~PushEntry(t)
  BY <1>2, <1>9, <1>10, <1>15
     DEF OperatorStep, SwitchToNext, SelectHighestPriority, ClearCurrent, AddMetadata, FindIdentity,
         AllocateId, StoreMode, SaveMode
<1>16. CASE OperatorCall(t) /\ ~\E id \in Ids : DeleteCredential(t, id)
  <2>1. CASE \/ \E id \in Ids, prio \in Priorities : SetPriority(t, id, prio)
             \/ \E id \in Ids : ResetAndEnable(t, id)
    BY <1>11, <1>12, <2>1
  <2>2. CASE \/ \E id \in Ids, disabled \in BOOLEAN : SetDisabled(t, id, disabled)
             \/ \E id \in Ids : ForceRefresh(t, id) \/ GetUsageLimits(t, id)
             \/ \E c \in NewCredentials : AddCredential(t, c)
             \/ \E mode \in BOOLEAN : SetMode(t, mode)
    BY <1>2, <2>2 DEF SetDisabled, ForceRefresh, GetUsageLimits, AddCredential, SetMode
  <2> QED BY <1>16, <2>1, <2>2 DEF OperatorCall
<1>17. CASE RequestCall(t)
  BY <1>2, <1>17 DEF RequestCall, Acquire
<1> QED BY <1>8, <1>13, <1>14, <1>15, <1>16, <1>17

\* The environment changes no token in the list but by a restart.
LEMMA TokensStayInFaults ==
  ASSUME IInv, FaultStep, ~Restart
  PROVE  SameTokens /\ NoneCondemned
<1>0. \A s \in DOMAIN entries : entries[s] \in Entry
  BY DEF IInv, TypeOK, IsPool
<1>1. \A s \in DOMAIN entries : Keeps(entries[s], entries[s])
  BY <1>0, TokenChanges
<1>2. CASE UNCHANGED entries
  BY <1>1, <1>2 DEF SameTokens, NoneCondemned, Keeps
<1>3. ASSUME NEW s \in DOMAIN entries, TokenExpires(s) PROVE SameTokens /\ NoneCondemned
  <2> DEFINE e == [entries[s] EXCEPT !.cred.expired = TRUE]
  <2>1. Keeps(entries[s], e)
    BY <1>0, TokenChanges
  <2>2. entries' = [entries EXCEPT ![s] = e]
    BY <1>3, Typed DEF TokenExpires, IsPool
  <2> HIDE DEF e
  <2>3. DOMAIN entries' = DOMAIN entries /\ entries'[s] = e
        /\ \A u \in DOMAIN entries \ {s} : entries'[u] = entries[u]
    BY <2>2, Typed DEF IsPool
  <2> QED BY <1>1, <2>1, <2>3 DEF SameTokens, NoneCondemned, Keeps
<1> QED BY <1>2, <1>3
        DEF FaultStep, Revoke, RotatedReplyLost, ClientGone, PersistFails, AfterWrite, SaveModeFails

\* The file as it is written for requests and forced refreshes.  With them alone an image is
\* taken and written under the refresh lock; an operator's call takes and writes one without.
RequestsOnly == Ops \subseteq {"acquire", "force"} /\ "writeFails" \notin Faults

Covers(f) ==
    \A s \in DOMAIN entries : \E u \in DOMAIN f :
        f[u].id = entries[s].id /\ f[u].cred.rt = entries[s].cred.rt

Saving(r) == r.pc \in {"snapshot", "write"}

SavedInv ==
    /\ \A t \in Task : Saving(task[t]) => lock = t
    /\ \A t \in Task : task[t].pc = "write" => Covers(task[t].snap)
    /\ (\A t \in Task : ~Saving(task[t])) => Covers(file)

\* Nobody but its holder gives the refresh lock back, and nobody takes it from another.
LEMMA LockIsOwned ==
  ASSUME NEW t \in Task, NEW u \in Task \ {t}, lock = u,
         \/ RequestCall(t) \/ RequestReport(t) \/ OperatorCall(t) \/ TaskStep(t)
         \/ RotatedReplyLost(t) \/ ClientGone(t)
  PROVE  lock' = u
<1>1. Unlocked(t) = lock /\ lock # NoTask
  BY NoTaskAssumption DEF Unlocked
<1>2. CASE AcquireStep(t) \/ RequestCall(t) \/ RequestReport(t)
  BY <1>2 DEF AcquireStep, TakeCurrent, SelectFirst, SelfHeal, SelectAgain, Select, SetCurrent,
              ReportRefreshFailure, ReportRefreshTokenInvalid, ReportRefresh, ResetRefreshCount,
              RequestCall, Acquire, RequestReport, ReportSuccess, ReportFailure,
              ReportQuotaExhausted, Report, Abandon
<1>3. CASE LockStep(t) \/ RefreshStep(t) \/ StoreStep(t)
  BY <1>1, <1>3 DEF LockStep, LockAndRecheck, Recheck, ForceLock, RefreshStep, RefreshAccepted,
              RefreshRejected, RefreshErrors, StoreStep, StoreRefreshed, Store, PersistSnapshot,
              PersistWrite, AfterWrite
<1>4. CASE OperatorStep(t)
  BY <1>4 DEF OperatorStep, Disable, Enable, ApplyDisabled, SwitchToNext, SelectHighestPriority,
              ClearCurrent, UsageReply, AddMetadata, FindIdentity, MergeCredential, AllocateId,
              PushEntry, StoreMode, SaveMode, Unchanged
<1>5. CASE OperatorCall(t)
  BY <1>5 DEF OperatorCall, SetDisabled, SetPriority, ResetAndEnable, Administer, DeleteCredential,
              ForceRefresh, GetUsageLimits, AddCredential, SetMode, Unchanged
<1>6. CASE RotatedReplyLost(t) \/ ClientGone(t)
  BY <1>1, <1>6 DEF RotatedReplyLost, ClientGone
<1> QED BY <1>2, <1>3, <1>4, <1>5, <1>6 DEF TaskStep

\* A step that is no part of a write leaves what has to be written alone.
LEMMA SavedIfAsideStep ==
  ASSUME SavedInv, NEW t \in Task, Others(t), SameTokens, file' = file,
         ~Saving(task[t]), ~Saving(task'[t]),
         \A u \in Task \ {t} : lock = u => lock' = u
  PROVE  SavedInv'
<1>1. \A f : Covers(f) => \A s \in DOMAIN entries' : \E u \in DOMAIN f :
        f[u].id = entries'[s].id /\ f[u].cred.rt = entries'[s].cred.rt
  BY DEF Covers, SameTokens, SameToken
<1>2. \A u \in Task : Saving(task'[u]) => u # t /\ task'[u] = task[u]
  BY DEF Others
<1>3. \A u \in Task : Saving(task'[u]) => lock' = u
  BY <1>2 DEF SavedInv
<1>4. \A u \in Task : task'[u].pc = "write" => Covers(task[u].snap) /\ task'[u] = task[u]
  BY <1>2 DEF SavedInv, Saving
<1>5. (\A u \in Task : ~Saving(task'[u])) => Covers(file)
  BY DEF SavedInv, Others
<1>6. ASSUME NEW u \in Task, task'[u].pc = "write" PROVE Covers(task[u].snap)'
  <2>1. Covers(task[u].snap) /\ task'[u].snap = task[u].snap
    BY <1>4, <1>6
  <2> DEFINE f == task[u].snap
  <2>2. \A s \in DOMAIN entries' : \E v \in DOMAIN f :
          f[v].id = entries'[s].id /\ f[v].cred.rt = entries'[s].cred.rt
    BY <1>1, <2>1
  <2> QED BY <2>1, <2>2 DEF Covers
<1>7. (\A u \in Task : ~Saving(task'[u])) => Covers(file)'
  BY <1>1, <1>5 DEF Covers
<1>8. SavedInv' <=> /\ \A u \in Task : Saving(task'[u]) => lock' = u
                    /\ \A u \in Task : task'[u].pc = "write" => Covers(task[u].snap)'
                    /\ (\A u \in Task : ~Saving(task'[u])) => Covers(file)'
  BY DEF SavedInv, Saving
<1> QED BY <1>3, <1>6, <1>7, <1>8

\* The three steps of a write: the token is stored, the image taken, the image written.
LEMMA SavedByWriteSteps ==
  ASSUME RequestsOnly, IInv, HandlerInv, SavedInv, NEW t \in Task, StoreStep(t)
  PROVE  SavedInv'
<1>0. task[t].op \in {"acquire", "force"} \/ task[t].pc = "idle"
  BY DEF HandlerInv, OnItsWay, RequestsOnly
<1>1. task[t].pc \in {"store", "snapshot", "write"} /\ task[t].op \in {"acquire", "force"}
  BY <1>0 DEF StoreStep, StoreRefreshed, Store, PersistSnapshot, PersistWrite, At
<1>2. lock = t
  <2>1. task[t].pc = "store" => Refreshing(t)
    BY <1>1 DEF Refreshing
  <2> QED BY <1>1, <2>1 DEF IInv, LockHeld, SavedInv, Saving
<1>3. \A u \in Task \ {t} : ~Saving(task[u])
  BY <1>2 DEF SavedInv
<1>4. CASE StoreRefreshed(t)
  <2>1. Others(t) /\ task'[t].pc = "snapshot" /\ lock' = t
    BY <1>2, <1>4, PlaceOf DEF StoreRefreshed, Store
  <2> QED BY <1>3, <2>1 DEF SavedInv, Others, Saving
<1>5. CASE PersistSnapshot(t)
  <2> DEFINE r == [task[t] EXCEPT !.snap = Image(entries), !.pc = "write"]
  <2>1. task' = [task EXCEPT ![t] = r]
    BY <1>5 DEF PersistSnapshot, IInv, TypeOK
  <2>2. r.pc = "write" /\ r.snap = Image(entries)
    BY Typed DEF TaskRecord
  <2> HIDE DEF r
  <2>3. Others(t) /\ task'[t].pc = "write" /\ task'[t].snap = Image(entries) /\ lock' = t
    BY <1>2, <1>5, <2>1, <2>2, PlaceOf DEF PersistSnapshot
  <2>4. UNCHANGED entries
    BY <1>5 DEF PersistSnapshot
  <2>5. \A s \in DOMAIN entries : s \in DOMAIN Image(entries)
                                  /\ Image(entries)[s].id = entries[s].id
                                  /\ Image(entries)[s].cred.rt = entries[s].cred.rt
    BY DEF Image
  <2>6. Covers(task[t].snap)'
    BY <2>3, <2>4, <2>5 DEF Covers
  <2> QED BY <1>3, <2>3, <2>6 DEF SavedInv, Others, Saving
<1>6. CASE PersistWrite(t)
  <2>1. Covers(task[t].snap) /\ file' = task[t].snap /\ UNCHANGED entries
    BY <1>6 DEF PersistWrite, At, SavedInv, AfterWrite
  <2>2. Others(t) /\ ~Saving(task'[t])
    BY <1>6, PlaceAfterWrite DEF PersistWrite, Saving
  <2>3. \A u \in Task : ~Saving(task'[u])
    BY <1>3, <2>2 DEF Others
  <2>4. Covers(file)'
    BY <2>1 DEF Covers
  <2> QED BY <2>3, <2>4 DEF SavedInv, Saving
<1> QED BY <1>4, <1>5, <1>6 DEF StoreStep

\* Every other step of a request, and of the environment, keeps aside.
LEMMA SavedByHandlers ==
  ASSUME RequestsOnly, IInv, HandlerInv, SavedInv, NEW t \in Task,
         \/ RequestCall(t) \/ RequestReport(t) \/ OperatorCall(t)
         \/ TaskStep(t) /\ ~StoreStep(t)
  PROVE  SavedInv'
<1>1. Others(t) /\ OnItsWay(task'[t])
  BY TasksOnTheirWay, CallsOnTheirWay
<1>2. \A u \in Task \ {t} : lock = u => lock' = u
  BY LockIsOwned
<1>3. OnItsWay(task[t])
  BY DEF HandlerInv
<1>4. ~OperatorStep(t)
  BY <1>3 DEF OnItsWay, RequestsOnly, OperatorStep, Disable, Enable, ApplyDisabled, SwitchToNext,
              SelectHighestPriority, ClearCurrent, UsageReply, AddMetadata, FindIdentity,
              MergeCredential, AllocateId, PushEntry, StoreMode, SaveMode, At
<1>5. ~\E id \in Ids : DeleteCredential(t, id)
  BY DEF DeleteCredential, Call, RequestsOnly
<1>6. SameTokens
  BY <1>4, <1>5, TokensStay DEF TaskStep
<1>7. file' = file /\ ~Saving(task[t]) /\ ~Saving(task'[t])
  <2>1. CASE RequestCall(t) \/ OperatorCall(t)
    <3>1. task[t].pc = "idle" /\ file' = file
      BY <2>1 DEF RequestCall, Acquire, OperatorCall, SetDisabled, SetPriority, ResetAndEnable,
                  Administer, DeleteCredential, ForceRefresh, GetUsageLimits, AddCredential,
                  SetMode, Unchanged, Call
    <3>2. task'[t].pc \in {"current", "forceLock"}
      BY <2>1, CallsOnTheirWay DEF RequestsOnly
    <3> QED BY <3>1, <3>2 DEF Saving
  <2>2. CASE RequestReport(t)
    <3>1. task[t].pc = "ready" /\ file' = file /\ \E result : Return(t, result)
      BY <2>2 DEF RequestReport, ReportSuccess, ReportFailure, ReportQuotaExhausted, Report,
                  Abandon, At
    <3> QED BY <3>1, PlaceOf DEF Saving
  <2>3. CASE AcquireStep(t)
    <3>1. file' = file /\ ~Saving(task[t])
      BY <2>3 DEF AcquireStep, TakeCurrent, SelectFirst, SelfHeal, SelectAgain, Select, SetCurrent,
                  ReportRefreshFailure, ReportRefreshTokenInvalid, ReportRefresh,
                  ResetRefreshCount, At, Saving
    <3>2. CASE ReportRefreshFailure(t) \/ ReportRefreshTokenInvalid(t)
      <4> DEFINE r == [task[t] EXCEPT !.attempt = task[t].attempt + 1, !.id = 0,
                                      !.cred = Blank, !.pc = "current"]
      <4>1. task' = [task EXCEPT ![t] = r] \/ Return(t, "err")
        <5>1. task = [u \in Task |-> task[u]]
          BY DEF IInv, TypeOK
        <5> QED BY <3>2, <5>1 DEF ReportRefreshFailure, ReportRefreshTokenInvalid, ReportRefresh
      <4>2. r.pc = "current"
        BY Typed DEF TaskRecord
      <4> HIDE DEF r
      <4> QED BY <3>1, <4>1, <4>2, PlaceOf DEF Saving
    <3>3. CASE ~(ReportRefreshFailure(t) \/ ReportRefreshTokenInvalid(t))
      <4>1. \A c : Ensure(c) \in {"ready", "refreshFailed", "lock", "resetCount"}
        BY DEF Ensure
      <4>2. \E step \in {"ready", "refreshFailed", "lock", "resetCount", "select", "heal", "again",
                         "setCurrent", "idle"} : task'[t].pc = step
        BY <2>3, <3>3, <4>1, PlaceOf
           DEF AcquireStep, TakeCurrent, SelectFirst, SelfHeal, SelectAgain, Select, SetCurrent,
               ResetRefreshCount
      <4> QED BY <3>1, <4>2 DEF Saving
    <3> QED BY <3>2, <3>3
  <2>4. CASE LockStep(t) \/ RefreshStep(t)
    <3>1. file' = file /\ ~Saving(task[t])
      BY <2>4 DEF LockStep, LockAndRecheck, Recheck, ForceLock, RefreshStep, RefreshAccepted,
                  RefreshRejected, RefreshErrors, At, Saving
    <3>2. task'[t].pc \in {"refreshFailed", "refreshInvalid", "refreshing", "resetCount",
                           "metadata", "store", "addMetadata", "idle"}
      BY <2>4, PlaceOf DEF LockStep, LockAndRecheck, Recheck, ForceLock, RefreshStep,
                  RefreshAccepted, RefreshRejected, RefreshErrors
    <3> QED BY <3>1, <3>2 DEF Saving
  <2> QED BY <1>4, <2>1, <2>2, <2>3, <2>4 DEF TaskStep
<1> QED BY <1>1, <1>2, <1>6, <1>7, SavedIfAsideStep

LEMMA SavedInFaults ==
  ASSUME RequestsOnly, IInv, HandlerInv, SavedInv, FaultStep
  PROVE  SavedInv'
<1>1. CASE Restart
  <2>1. \A t \in Task : task'[t] = Idle("none")
    BY <1>1 DEF Restart
  <2>2. \A t \in Task : task'[t].pc = "idle"
    BY <2>1 DEF Idle
  <2>3. PICK n \in [DOMAIN file -> 0 .. MaxCalls] :
          entries' = [s \in DOMAIN file |->
                        [Loaded(file)[s] EXCEPT
                            !.successes = n[s],
                            !.cred.expired = @ \/ ExpiredBefore(file[s].id)]]
    BY <1>1 DEF Restart
  <2>4. ASSUME NEW s \in DOMAIN entries'
        PROVE  entries'[s].id = file[s].id /\ entries'[s].cred.rt = file[s].cred.rt
    <3> DEFINE e == Loaded(file)[s]
    <3>1. s \in DOMAIN file /\ e.id = file[s].id /\ e.cred = file[s].cred /\ e \in Entry
      BY <2>3, <2>4, Typed, LoadedSound DEF Loaded, SoundPool, IsPool
    <3>2. entries'[s] = [e EXCEPT !.successes = n[s],
                                  !.cred.expired = @ \/ ExpiredBefore(file[s].id)]
      BY <2>3, <3>1
    <3> HIDE DEF e
    <3>3. \A m, b : /\ [e EXCEPT !.successes = m, !.cred.expired = b].id = e.id
                    /\ [e EXCEPT !.successes = m, !.cred.expired = b].cred.rt = e.cred.rt
      BY <3>1 DEF Entry, Credential
    <3> QED BY <3>1, <3>2, <3>3
  <2>5. Covers(file)'
    BY <1>1, <2>3, <2>4 DEF Covers, Restart
  <2> QED BY <2>2, <2>5 DEF SavedInv, Saving
<1>2. ASSUME ~Restart, UNCHANGED <<file, task>>, UNCHANGED lock PROVE SavedInv'
  <2>1. SameTokens
    BY <1>2, TokensStayInFaults
  <2>2. \A f : Covers(f) => \A s \in DOMAIN entries' : \E u \in DOMAIN f :
          f[u].id = entries'[s].id /\ f[u].cred.rt = entries'[s].cred.rt
    BY <2>1 DEF Covers, SameTokens, SameToken
  <2> QED BY <1>2, <2>2 DEF SavedInv, Covers
<1>3. ASSUME NEW t \in Task, RotatedReplyLost(t) \/ ClientGone(t) PROVE SavedInv'
  <2>1. Others(t) /\ ~Saving(task[t]) /\ ~Saving(task'[t]) /\ file' = file /\ UNCHANGED entries
    BY <1>3, PlaceOf DEF RotatedReplyLost, ClientGone, Saving
  <2>2. SameTokens
    BY <2>1 DEF SameTokens, SameToken
  <2>3. \A u \in Task \ {t} : lock = u => lock' = u
    BY <1>3, LockIsOwned
  <2> QED BY <2>1, <2>2, <2>3, SavedIfAsideStep
<1>4. ASSUME NEW t \in Task PROVE ~PersistFails(t) /\ ~SaveModeFails(t)
  BY DEF PersistFails, SaveModeFails, Fault, RequestsOnly
<1>5. CASE \/ \E s \in DOMAIN entries : TokenExpires(s)
           \/ \E a \in Account : Revoke(a)
  <2>1. UNCHANGED <<file, task>> /\ UNCHANGED lock
    BY <1>5 DEF TokenExpires, Revoke, Unchanged
  <2> QED BY <1>1, <1>2, <2>1
<1> QED BY <1>1, <1>3, <1>4, <1>5 DEF FaultStep

\* As long as only requests and forced refreshes run and no write fails, the file holds the
\* refresh token in memory whenever nobody is about to write, across every restart.
THEOREM FileKeepsUp ==
  ASSUME RequestsOnly
  PROVE  Spec => []FileHasNewestToken
<1>1. Init => SavedInv
  <2> SUFFICES ASSUME Init PROVE SavedInv
    OBVIOUS
  <2>1. \A t \in Task : task[t].pc = "idle"
    BY DEF Init, Idle
  <2>2. Covers(file)
    BY DEF Init, Loaded, Covers
  <2> QED BY <2>1, <2>2 DEF SavedInv, Saving
<1>2. IInv /\ HandlerInv /\ SavedInv /\ [Next]_vars => SavedInv'
  <2> SUFFICES ASSUME IInv, HandlerInv, SavedInv, [Next]_vars PROVE SavedInv'
    OBVIOUS
  <2>1. CASE UNCHANGED vars
    BY <2>1 DEF vars, SavedInv, Covers
  <2>2. ASSUME NEW t \in Task,
               RequestCall(t) \/ RequestReport(t) \/ OperatorCall(t) \/ TaskStep(t)
        PROVE  SavedInv'
    BY <2>2, SavedByWriteSteps, SavedByHandlers DEF TaskStep
  <2> QED BY <2>1, <2>2, SavedInFaults DEF Next, Rest
<1>3. SavedInv => FileHasNewestToken
  BY DEF SavedInv, Saving, Covers, FileHasNewestToken
<1> QED BY <1>1, <1>2, <1>3, Inductive, HandlersOnTheirWay, PTL DEF Spec
-----------------------------------------------------------------------------
(* Why a credential is condemned.                                           *)

\* What lets a token be traced to the upstream: no credential is pasted, the process does not
\* fall back to its file, and each account is in the file once, with its first token.
TokensTraceable ==
    /\ "add" \notin Ops /\ "restart" \notin Faults
    /\ \A f \in InitialFiles : \A s, u \in DOMAIN f :
         f[s].cred.kind = "oauth" =>
            /\ f[s].cred.rt = 0
            /\ f[u].cred.kind = "oauth" /\ f[u].cred.account = f[s].cred.account => u = s

OAuth == {s \in DOMAIN entries : entries[s].cred.kind = "oauth"}

Lost == revoked \cup lostReply

\* The refresh token an entry shows is the one the upstream expects, or a rotated one was
\* lost, or a task is about to store it.
Traced(s) ==
    LET a == entries[s].cred.account
    IN  \/ entries[s].cred.rt = issued[a]
        \/ a \in lostReply
        \/ \E t \in Task : task[t].pc = "store" /\ task[t].id = entries[s].id

\* What a handler between its choice and its store knows of the entry it calls id.
Knows(r) ==
    LET named == {s \in DOMAIN entries : entries[s].id = r.id}
        claims == r.pc \in {"forceLock", "refreshing", "store"}
    IN  /\ r.pc = "setCurrent" => \A s \in named : entries[s].cred.kind = r.cred.kind
        /\ r.pc = "lock" => \A s \in named : entries[s].cred.kind = "oauth"
        /\ claims => \A s \in named : /\ entries[s].cred.kind = r.cred.kind
                                      /\ entries[s].cred.account = r.cred.account
        /\ r.pc \in {"refreshing", "store"} => r.cred.kind = "oauth"
        /\ claims /\ r.cred.kind = "oauth" =>
              \A s \in OAuth : entries[s].cred.account = r.cred.account => entries[s].id = r.id
        /\ r.pc = "refreshing" /\ r.op # "force" =>
              \A s \in named : entries[s].cred.rt = r.cred.rt
        /\ r.pc = "store" => \/ r.cred.rt = issued[r.cred.account]
                             \/ r.cred.account \in lostReply
        /\ r.pc = "refreshInvalid" => \A s \in named : entries[s].cred.account \in Lost

TokensInv ==
    /\ UniqueIds(entries)
    /\ \A s, u \in OAuth : entries[s].cred.account = entries[u].cred.account => s = u
    /\ \A s \in OAuth : Traced(s)
    /\ \A t \in Task : Knows(task[t])
    /\ CondemnedOnlyIfLost

\* The steps after which a handler has nothing to know.
Careless == Steps \ {"setCurrent", "lock", "forceLock", "refreshing", "store", "refreshInvalid"}

LEMMA CarelessKnows ==
  ASSUME NEW t, task'[t].pc \in Careless
  PROVE  Knows(task[t])'
BY DEF Knows, Careless

\* The list keeps its tokens, or loses entries.
NoNewTokens ==
    /\ DOMAIN entries' \subseteq DOMAIN entries
    /\ \A s \in DOMAIN entries' : SameToken(entries[s], entries'[s])

\* What a handler that stays knows remains true while the upstream and the list do.
LEMMA OthersKnow ==
  ASSUME TokensInv, NoNewTokens, UNCHANGED upstream, NEW u \in Task, task'[u] = task[u]
  PROVE  Knows(task[u])'
<1>1. Knows(task[u])
  BY DEF TokensInv
<1>2. \A s \in DOMAIN entries' : /\ s \in DOMAIN entries /\ entries'[s].id = entries[s].id
                                 /\ entries'[s].cred.account = entries[s].cred.account
                                 /\ entries'[s].cred.kind = entries[s].cred.kind
                                 /\ entries'[s].cred.rt = entries[s].cred.rt
  BY DEF NoNewTokens, SameToken
<1> QED BY <1>1, <1>2 DEF Knows, OAuth, Lost, upstream

\* A step that brings no token.
LEMMA QuietTokens ==
  ASSUME IInv, TokensInv, NoNewTokens, UNCHANGED upstream, CondemnedOnlyIfLost',
         \A u \in Task : task'[u] = task[u] \/ (task[u].pc # "store" /\ Knows(task[u])')
  PROVE  TokensInv'
<1>1. \A s \in DOMAIN entries' : /\ s \in DOMAIN entries /\ entries'[s].id = entries[s].id
                                 /\ entries'[s].cred.account = entries[s].cred.account
                                 /\ entries'[s].cred.kind = entries[s].cred.kind
                                 /\ entries'[s].cred.rt = entries[s].cred.rt
  BY DEF NoNewTokens, SameToken
<1>2. UniqueIds(entries)'
  BY <1>1 DEF TokensInv, UniqueIds
<1>3. \A s \in OAuth' : s \in OAuth
  BY <1>1 DEF OAuth
<1>4. (\A s, u \in OAuth : entries[s].cred.account = entries[u].cred.account => s = u)'
  BY <1>1, <1>3 DEF TokensInv, OAuth
<1>5. ASSUME NEW s \in OAuth' PROVE Traced(s)'
  <2>1. Traced(s) /\ s \in DOMAIN entries'
    BY <1>3, <1>5 DEF TokensInv, OAuth
  <2>2. \A u \in Task : task[u].pc = "store" => task'[u] = task[u]
    OBVIOUS
  <2> QED BY <1>1, <2>1, <2>2 DEF Traced, upstream
<1>6. (\A u \in Task : Knows(task[u]))'
  BY OthersKnow
<1> QED BY <1>2, <1>4, <1>5, <1>6 DEF TokensInv

\* Nothing new is condemned.
LEMMA NoneNewlyCondemned ==
  ASSUME TokensInv, NoNewTokens, NoneCondemned, revoked \subseteq revoked', lostReply \subseteq lostReply'
  PROVE  CondemnedOnlyIfLost'
BY DEF TokensInv, NoNewTokens, NoneCondemned, NotCondemned, SameToken, CondemnedOnlyIfLost

\* What a handler knows of the credential it has just read.
LEMMA JustRead ==
  ASSUME IInv, TokensInv, NEW t, NEW s \in DOMAIN entries, UNCHANGED <<entries, upstream>>,
         task'[t].id = entries[s].id,
         \/ task'[t].pc = "setCurrent" /\ task'[t].cred = entries[s].cred
         \/ task'[t].pc = "lock" /\ entries[s].cred.kind = "oauth"
         \/ task'[t].pc = "forceLock" /\ task'[t].cred = entries[s].cred
         \/ /\ task'[t].pc = "refreshing" /\ task'[t].cred = entries[s].cred
            /\ entries[s].cred.kind = "oauth"
  PROVE  Knows(task[t])'
<1>1. \A u \in DOMAIN entries : entries[u].id = entries[s].id => u = s
  BY DEF TokensInv, UniqueIds
<1>2. \A u \in OAuth : /\ entries[s].cred.kind = "oauth"
                       /\ entries[u].cred.account = entries[s].cred.account
                       => u = s
  BY DEF TokensInv, OAuth
<1> QED BY <1>1, <1>2 DEF Knows, OAuth

\* The choice of a credential.
LEMMA ChoiceKnows ==
  ASSUME IInv, TokensInv, NEW t \in Task,
         TakeCurrent(t) \/ SelectFirst(t) \/ SelectAgain(t) \/ SetCurrent(t)
  PROVE  Knows(task[t])'
<1>1. \A c \in Credential : \/ Ensure(c) \in Careless
                            \/ Ensure(c) = "lock" /\ c.kind = "oauth"
  BY DEF Ensure, Credential, Kinds, Careless, Steps
<1>2. UNCHANGED <<entries, upstream>>
  BY DEF TakeCurrent, SelectFirst, SelectAgain, Select, SetCurrent
<1>3. CASE TakeCurrent(t)
  <2>1. CASE Return(t, "err") \/ Goto(t, "select")
    <3>1. task'[t].pc \in Careless
      BY <2>1, PlaceOf DEF Careless, Steps
    <3> QED BY <3>1, CarelessKnows
  <2>2. ASSUME NEW s \in DOMAIN entries, Bind(t, entries[s].id, entries[s].cred, Ensure(entries[s].cred))
        PROVE  Knows(task[t])'
    <3>1. /\ task'[t].id = entries[s].id /\ task'[t].cred = entries[s].cred
          /\ task'[t].pc = Ensure(entries[s].cred) /\ entries[s].cred \in Credential
      BY <2>2, PlaceOf, Typed
    <3> QED BY <1>1, <1>2, <3>1, JustRead, CarelessKnows
  <2> QED BY <1>3, <2>1, <2>2 DEF TakeCurrent
<1>4. CASE SelectFirst(t) \/ SelectAgain(t)
  <2>1. CASE Return(t, "err") \/ Goto(t, "heal")
    <3>1. task'[t].pc \in Careless
      BY <2>1, PlaceOf DEF Careless, Steps
    <3> QED BY <3>1, CarelessKnows
  <2>2. ASSUME NEW s \in DOMAIN entries, Bind(t, entries[s].id, entries[s].cred, "setCurrent")
        PROVE  Knows(task[t])'
    <3>1. task'[t].id = entries[s].id /\ task'[t].cred = entries[s].cred /\ task'[t].pc = "setCurrent"
      BY <2>2, PlaceOf
    <3> QED BY <1>2, <3>1, JustRead
  <2>3. SelectNext(entries, balanced, task[t].flag) \subseteq DOMAIN entries
    BY DEF SelectNext, LeastUsed, First, Eligible, Enabled
  <2> QED BY <1>4, <2>1, <2>2, <2>3 DEF SelectFirst, SelectAgain, Select
<1>5. CASE SetCurrent(t)
  <2>1. /\ task[t].pc = "setCurrent" /\ task[t].cred \in Credential
        /\ task'[t].pc = Ensure(task[t].cred) /\ task'[t].id = task[t].id
    BY <1>5, PlaceOf, Typed DEF SetCurrent, At
  <2>2. CASE task'[t].pc \in Careless
    BY <2>2, CarelessKnows
  <2>3. CASE task'[t].pc = "lock" /\ task[t].cred.kind = "oauth"
    <3>1. \A s \in DOMAIN entries : entries[s].id = task[t].id => entries[s].cred.kind = "oauth"
      BY <2>1, <2>3 DEF TokensInv, Knows
    <3> QED BY <1>2, <2>1, <2>3, <3>1 DEF Knows
  <2> QED BY <1>1, <2>1, <2>2, <2>3
<1> QED BY <1>3, <1>4, <1>5

\* The wait for the lock and the refused refreshes.
LEMMA LockKnows ==
  ASSUME IInv, HandlerInv, TokensInv, NEW t \in Task, "add" \notin Ops,
         LockStep(t) \/ RefreshRejected(t) \/ RefreshErrors(t)
  PROVE  Knows(task[t])'
<1>0. UNCHANGED <<entries, upstream>>
  BY DEF LockStep, LockAndRecheck, Recheck, ForceLock, RefreshRejected, RefreshErrors
<1>1. Knows(task[t]) /\ OnItsWay(task[t])
  BY DEF TokensInv, HandlerInv
<1>2. (\E result : Return(t, result)) \/ Goto(t, "refreshFailed") \/ Goto(t, "resetCount") \/ Goto(t, "metadata")
      => Knows(task[t])'
  <2>1. ASSUME (\E result : Return(t, result)) \/ Goto(t, "refreshFailed") \/ Goto(t, "resetCount") \/ Goto(t, "metadata")
        PROVE  task'[t].pc \in Careless
    BY <2>1, PlaceOf DEF Careless, Steps
  <2> QED BY <2>1, CarelessKnows
<1>3. CASE LockAndRecheck(t)
  <2>1. ASSUME NEW s \in Find(entries, task[t].id), NEW step \in {"refreshing", "resetCount", "metadata"},
               Bind(t, task[t].id, entries[s].cred, step)
        PROVE  Knows(task[t])'
    <3>1. /\ task'[t].id = entries[s].id /\ task'[t].cred = entries[s].cred /\ task'[t].pc = step
          /\ s \in DOMAIN entries
      BY <2>1, PlaceOf DEF Find, Slots
    <3>2. entries[s].cred.kind = "oauth"
      BY <1>1, <1>3, <2>1 DEF Knows, LockAndRecheck, Recheck, At, Find, Slots
    <3>3. CASE step # "refreshing"
      BY <3>1, <3>3, CarelessKnows DEF Careless, Steps
    <3> QED BY <1>0, <3>1, <3>2, <3>3, JustRead
  <2>2. \/ (\E result : Return(t, result)) \/ Goto(t, "refreshFailed")
        \/ \E s \in Find(entries, task[t].id) : \E step \in {"refreshing", "resetCount", "metadata"} :
             Bind(t, task[t].id, entries[s].cred, step)
    BY <1>3 DEF LockAndRecheck, Recheck
  <2> QED BY <1>2, <2>1, <2>2
<1>4. CASE ForceLock(t)
  <2>1. CASE task[t].cred.kind = "oauth"
    <3>1. task[t].pc = "forceLock" /\ task[t].op = "force"
      BY <1>1, <1>4 DEF ForceLock, At, OnItsWay
    <3>2. /\ task'[t].pc = "refreshing" /\ task'[t].op = task[t].op
          /\ task'[t].id = task[t].id /\ task'[t].cred = task[t].cred
      BY <1>4, <2>1, PlaceOf DEF ForceLock
    <3> QED BY <1>0, <1>1, <2>1, <3>1, <3>2 DEF Knows, OAuth
  <2> QED BY <1>2, <1>4, <2>1 DEF ForceLock
<1>5. CASE RefreshRejected(t)
  <2>1. CASE task[t].op = "acquire"
    <3>1. /\ task[t].pc = "refreshing" /\ task'[t].pc = "refreshInvalid" /\ task'[t].id = task[t].id
          /\ \/ task[t].cred.rt # issued[task[t].cred.account]
             \/ task[t].cred.account \in revoked
      BY <1>5, <2>1, PlaceOf DEF RefreshRejected, At
    <3>2. ASSUME NEW s \in DOMAIN entries, entries[s].id = task[t].id
          PROVE  entries[s].cred.account \in Lost
      <4>1. /\ entries[s].cred.account = task[t].cred.account /\ s \in OAuth
            /\ entries[s].cred.rt = task[t].cred.rt
        BY <1>1, <2>1, <3>1, <3>2 DEF Knows, OAuth
      <4>2. ASSUME NEW u \in Task, task[u].pc = "store" PROVE FALSE
        <5>1. Refreshing(t) /\ Refreshing(u)
          BY <2>1, <3>1, <4>2 DEF Refreshing, HandlerInv, OnItsWay
        <5>2. u = t
          BY <5>1 DEF IInv, LockHeld
        <5> QED BY <3>1, <4>2, <5>2
      <4>3. Traced(s)
        BY <4>1 DEF TokensInv
      <4> QED BY <3>1, <4>1, <4>2, <4>3 DEF Traced, Lost
    <3> QED BY <1>0, <3>1, <3>2 DEF Knows, Lost, upstream
  <2> QED BY <1>2, <1>5, <2>1 DEF RefreshRejected
<1>6. CASE RefreshErrors(t)
  BY <1>2, <1>6 DEF RefreshErrors
<1> QED BY <1>3, <1>4, <1>5, <1>6 DEF LockStep

\* The calls: only a forced refresh and a query of the usage take a credential.
LEMMA CallKnows ==
  ASSUME IInv, HandlerInv, TokensInv, NEW t \in Task, "add" \notin Ops,
         RequestCall(t) \/ OperatorCall(t)
  PROVE  Knows(task[t])'
<1>1. Others(t) /\ OnItsWay(task'[t]) /\ task'[t].op # "add"
  BY CallsOnTheirWay
<1>0. ASSUME NEW r, task' = [task EXCEPT ![t] = r] PROVE task'[t] = r
  BY <1>0 DEF IInv, TypeOK
<1>2. ASSUME NEW id, ForceRefresh(t, id) PROVE Knows(task[t])'
  <2>1. PICK s \in Find(entries, id) :
          task' = [task EXCEPT ![t] = [Begin(t, "force", "forceLock") EXCEPT !.id = id, !.cred = entries[s].cred]]
    BY <1>2 DEF ForceRefresh
  <2>2. s \in DOMAIN entries /\ entries[s].id = id
    BY DEF Find, Slots
  <2> DEFINE b == Begin(t, "force", "forceLock")
             r == [b EXCEPT !.id = id, !.cred = entries[s].cred]
  <2>3. task' = [task EXCEPT ![t] = r]
    BY <2>1
  <2>4. r.pc = "forceLock" /\ r.id = id /\ r.cred = entries[s].cred
    BY CalledWith
  <2> HIDE DEF r
  <2>5. task'[t].pc = "forceLock" /\ task'[t].id = id /\ task'[t].cred = entries[s].cred
    <3>1. task'[t] = r
      BY <1>0, <2>3
    <3> QED BY <2>4, <3>1
  <2>6. UNCHANGED <<entries, upstream>>
    BY <1>2 DEF ForceRefresh
  <2> QED BY <2>2, <2>5, <2>6, JustRead
<1>3. ASSUME NEW id, GetUsageLimits(t, id) PROVE Knows(task[t])'
  <2>1. PICK s \in Find(entries, id) : \E step \in {"lock", "metadata"} :
          /\ step = "lock" => entries[s].cred.kind = "oauth"
          /\ task' = [task EXCEPT ![t] = [Begin(t, "usage", step) EXCEPT !.id = id]]
    BY <1>3 DEF GetUsageLimits
  <2>2. PICK step \in {"lock", "metadata"} :
          /\ step = "lock" => entries[s].cred.kind = "oauth"
          /\ task' = [task EXCEPT ![t] = [Begin(t, "usage", step) EXCEPT !.id = id]]
    BY <2>1
  <2>3. s \in DOMAIN entries /\ entries[s].id = id
    BY DEF Find, Slots
  <2> DEFINE b == Begin(t, "usage", step)
             r == [b EXCEPT !.id = id]
  <2>4. task' = [task EXCEPT ![t] = r]
    BY <2>2
  <2>5. r.pc = step /\ r.id = id
    BY CalledWith
  <2> HIDE DEF r
  <2>6. task'[t].pc = step /\ task'[t].id = id
    <3>1. task'[t] = r
      BY <1>0, <2>4
    <3> QED BY <2>5, <3>1
  <2>7. UNCHANGED <<entries, upstream>>
    BY <1>3 DEF GetUsageLimits, Unchanged
  <2>8. CASE step = "lock"
    BY <2>2, <2>3, <2>6, <2>7, <2>8, JustRead
  <2>9. CASE step = "metadata"
    BY <2>6, <2>9, CarelessKnows DEF Careless, Steps
  <2> QED BY <2>8, <2>9
<1>4. task'[t].op \in {"acquire", "setDisabled", "setPriority", "reset", "delete", "setMode"} => Knows(task[t])'
  <2> SUFFICES ASSUME task'[t].op \in {"acquire", "setDisabled", "setPriority", "reset", "delete", "setMode"}
               PROVE  task'[t].pc \in Careless
    BY CarelessKnows
  <2>1. task'[t].op = "acquire" => task'[t].pc = "current"
    BY CallsOnTheirWay
  <2> QED BY <1>1, <2>1 DEF OnItsWay, Careless, Steps
<1>5. task'[t].op = "force" => \E id \in Ids : ForceRefresh(t, id)
  BY CallsOnTheirWay
<1>6. task'[t].op = "usage" => \E id \in Ids : GetUsageLimits(t, id)
  BY CallsOnTheirWay
<1>7. task'[t].op # "none"
  BY CallsOnTheirWay
<1> QED BY <1>1, <1>2, <1>3, <1>4, <1>5, <1>6, <1>7 DEF OnItsWay

\* The reports of a request, the writes, and the steps of an operator's call.
LEMMA CarelessSteps ==
  ASSUME IInv, HandlerInv, NEW t \in Task, "add" \notin Ops,
         \/ RequestReport(t) \/ SelfHeal(t) \/ ReportRefreshFailure(t)
         \/ ReportRefreshTokenInvalid(t) \/ ResetRefreshCount(t)
         \/ PersistSnapshot(t) \/ PersistWrite(t) \/ OperatorStep(t)
  PROVE  task'[t].pc \in Careless /\ task[t].pc # "store"
<1>1. OnItsWay(task'[t]) /\ OnItsWay(task[t])
  BY TasksOnTheirWay DEF TaskStep, AcquireStep, StoreStep, HandlerInv
<1>2. CASE RequestReport(t)
  <2>1. (\E result : Return(t, result)) /\ task[t].pc = "ready"
    BY <1>2 DEF RequestReport, ReportSuccess, ReportFailure, ReportQuotaExhausted, Report, Abandon, At
  <2> QED BY <2>1, PlaceOf DEF Careless, Steps
<1>3. CASE SelfHeal(t) \/ ResetRefreshCount(t)
  <2>1. /\ Goto(t, "again") \/ Return(t, "err") \/ Goto(t, "ready")
        /\ task[t].pc # "store"
    BY <1>3 DEF SelfHeal, ResetRefreshCount, At
  <2> QED BY <2>1, PlaceOf DEF Careless, Steps
<1>4. CASE ReportRefreshFailure(t) \/ ReportRefreshTokenInvalid(t)
  <2> DEFINE r == [task[t] EXCEPT !.attempt = task[t].attempt + 1, !.id = 0,
                                  !.cred = Blank, !.pc = "current"]
  <2>1. task' = [task EXCEPT ![t] = r] \/ Return(t, "err")
    <3>1. task = [u \in Task |-> task[u]]
      BY DEF IInv, TypeOK
    <3> QED BY <1>4, <3>1 DEF ReportRefreshFailure, ReportRefreshTokenInvalid, ReportRefresh
  <2>2. r.pc = "current"
    BY Typed DEF TaskRecord
  <2>3. task[t].pc # "store"
    BY <1>4 DEF ReportRefreshFailure, ReportRefreshTokenInvalid, ReportRefresh, At
  <2> HIDE DEF r
  <2> QED BY <2>1, <2>2, <2>3, PlaceOf DEF Careless, Steps
<1>5. CASE PersistSnapshot(t)
  <2> DEFINE r == [task[t] EXCEPT !.snap = Image(entries), !.pc = "write"]
  <2>1. task' = [task EXCEPT ![t] = r]
    BY <1>5 DEF PersistSnapshot, IInv, TypeOK
  <2>2. r.pc = "write"
    BY Typed DEF TaskRecord
  <2>3. task[t].pc # "store"
    BY <1>5 DEF PersistSnapshot, At
  <2> HIDE DEF r
  <2> QED BY <2>1, <2>2, <2>3, PlaceOf DEF Careless, Steps
<1>6. CASE PersistWrite(t)
  BY <1>6, PlaceAfterWrite DEF PersistWrite, At, Careless, Steps
<1>7. CASE OperatorStep(t)
  <2>1. task[t].op \in {"setDisabled", "setPriority", "delete", "setMode"} \/ UsageReply(t)
    BY <1>1, <1>7 DEF OnItsWay, OperatorStep, Disable, Enable, ApplyDisabled, SwitchToNext,
         SelectHighestPriority, ClearCurrent, AddMetadata, FindIdentity, MergeCredential,
         AllocateId, PushEntry, StoreMode, SaveMode, At
  <2>2. CASE UsageReply(t)
    <3>1. task[t].pc = "metadata"
      BY <2>2 DEF UsageReply, At
    <3>2. (\E result : Return(t, result)) \/ Goto(t, "snapshot")
      BY <2>2 DEF UsageReply
    <3> QED BY <3>1, <3>2, PlaceOf DEF Careless, Steps
  <2>3. CASE task[t].op \in {"setDisabled", "setPriority", "delete", "setMode"}
    <3>1. task[t].pc # "store"
      BY <1>1, <2>3 DEF OnItsWay
    <3>2. task'[t].op \in {"setDisabled", "setPriority", "delete", "setMode"} \/ task'[t].pc = "idle"
      <4>1. ~UsageReply(t)
        BY <1>1, <2>3 DEF UsageReply, At, OnItsWay
      <4>2. ~\/ AddMetadata(t) \/ FindIdentity(t) \/ MergeCredential(t) \/ AllocateId(t) \/ PushEntry(t)
        BY <1>1, <2>3 DEF AddMetadata, FindIdentity, MergeCredential, AllocateId, PushEntry, At, OnItsWay
      <4>3. (\E result : Return(t, result)) \/ \E step : Goto(t, step)
        BY <1>7, <4>1, <4>2 DEF OperatorStep, Disable, Enable, ApplyDisabled, SwitchToNext,
             SelectHighestPriority, ClearCurrent, StoreMode, SaveMode
      <4> QED BY <2>3, <4>3, PlaceOf
    <3> QED BY <1>1, <3>1, <3>2 DEF OnItsWay, Careless, Steps
  <2> QED BY <2>1, <2>2, <2>3
<1> QED BY <1>2, <1>3, <1>4, <1>5, <1>6, <1>7

\* The upstream accepts the token: what the entry shows is about to be replaced.
LEMMA AcceptedTokens ==
  ASSUME IInv, HandlerInv, TokensInv, NEW t \in Task, "add" \notin Ops, RefreshAccepted(t)
  PROVE  TokensInv'
<1> DEFINE c == task[t].cred
<1>1. /\ task[t].pc = "refreshing" /\ task[t].op # "add" /\ c.rt = issued[c.account]
      /\ c \in Credential /\ c.account \in Account /\ c.rt \in Nat
  BY Typed DEF RefreshAccepted, At, HandlerInv, OnItsWay, Credential
<1>2. \A u \in Task : task[u].pc # "store"
  <2> SUFFICES ASSUME NEW u \in Task, task[u].pc = "store" PROVE FALSE
    OBVIOUS
  <2>1. Refreshing(t) /\ Refreshing(u)
    BY <1>1 DEF Refreshing, HandlerInv, OnItsWay
  <2>2. u = t
    BY <2>1 DEF IInv, LockHeld
  <2> QED BY <1>1, <2>2
<1>3. PICK rotated \in {0, 1}, named \in {c.known, TRUE} :
        /\ issued' = [issued EXCEPT ![c.account] = @ + rotated]
        /\ Bind(t, task[t].id, [c EXCEPT !.rt = c.rt + rotated, !.expired = FALSE, !.known = named], "store")
  BY <1>1 DEF RefreshAccepted
<1>4. UNCHANGED <<entries, revoked, lostReply>>
  BY DEF RefreshAccepted
<1> DEFINE d == [c EXCEPT !.rt = c.rt + rotated, !.expired = FALSE, !.known = named]
<1>5. d.account = c.account /\ d.kind = c.kind /\ d.rt = c.rt + rotated
  BY <1>1 DEF Credential
<1>6. Bind(t, task[t].id, d, "store")
  BY <1>3
<1> HIDE DEF c, d
<1>7. Others(t) /\ task'[t].pc = "store" /\ task'[t].id = task[t].id /\ task'[t].cred = d
  BY <1>6, PlaceOf
<1>8. /\ issued'[c.account] = c.rt + rotated
      /\ \A a \in Account \ {c.account} : issued'[a] = issued[a]
  BY <1>1, <1>3 DEF IInv, TypeOK
<1>9. Knows(task[t])
  BY DEF TokensInv
<1>10. Knows(task[t])'
  BY <1>1, <1>4, <1>5, <1>7, <1>8, <1>9 DEF Knows, OAuth, c
<1>11. ASSUME NEW u \in Task \ {t} PROVE Knows(task[u])'
  <2>1. Knows(task[u]) /\ task'[u] = task[u] /\ task[u].pc # "store"
    BY <1>2, <1>7 DEF TokensInv, Others
  <2> QED BY <1>4, <2>1 DEF Knows, OAuth, Lost
<1>12. ASSUME NEW s \in OAuth' PROVE Traced(s)'
  <2>1. s \in OAuth /\ Traced(s) /\ entries[s].cred.account \in Account
    BY <1>4, <1>12, Typed DEF OAuth, TokensInv, Credential
  <2>2. CASE entries[s].cred.account = c.account
    <3>1. entries[s].id = task[t].id
      BY <1>1, <1>9, <2>1, <2>2 DEF Knows, c
    <3> QED BY <1>4, <1>7, <3>1 DEF Traced
  <2>3. CASE entries[s].cred.account # c.account
    BY <1>2, <1>4, <1>8, <2>1, <2>3 DEF Traced
  <2> QED BY <2>2, <2>3
<1>13. /\ UniqueIds(entries)' /\ CondemnedOnlyIfLost'
       /\ (\A s, u \in OAuth : entries[s].cred.account = entries[u].cred.account => s = u)'
  BY <1>4 DEF TokensInv, UniqueIds, CondemnedOnlyIfLost, OAuth
<1> QED BY <1>10, <1>11, <1>12, <1>13 DEF TokensInv

\* A rotated token is lost with its reply: the account is noted.
LEMMA LostTokens ==
  ASSUME IInv, HandlerInv, TokensInv, NEW t \in Task, RotatedReplyLost(t) \/ ClientGone(t)
  PROVE  TokensInv'
<1> DEFINE a == task[t].cred.account
<1>1. UNCHANGED <<entries, revoked>> /\ task[t].pc # "store"
  BY DEF RotatedReplyLost, ClientGone
<1>2. \/ UNCHANGED <<issued, lostReply>>
      \/ issued' = [issued EXCEPT ![a] = @ + 1] /\ lostReply' = lostReply \cup {a}
  BY DEF RotatedReplyLost, ClientGone
<1>3. a \in Account
  BY Typed DEF Credential
<1> HIDE DEF a
<1>4. /\ lostReply \subseteq lostReply'
      /\ \A b \in Account : issued'[b] = issued[b] \/ b \in lostReply'
  BY <1>2, <1>3 DEF IInv, TypeOK
<1>5. Others(t) /\ task'[t].pc \in Careless
  BY PlaceOf DEF RotatedReplyLost, ClientGone, Careless, Steps
<1>6. Knows(task[t])'
  BY <1>5, CarelessKnows
<1>7. ASSUME NEW u \in Task \ {t} PROVE Knows(task[u])'
  <2>1. Knows(task[u]) /\ task'[u] = task[u] /\ task[u].cred.account \in Account
    BY <1>5, Typed DEF TokensInv, Others, Credential
  <2> QED BY <1>1, <1>4, <2>1 DEF Knows, OAuth, Lost
<1>8. ASSUME NEW s \in OAuth' PROVE Traced(s)'
  <2>1. s \in OAuth /\ Traced(s) /\ entries[s].cred.account \in Account
    BY <1>1, <1>8, Typed DEF OAuth, TokensInv, Credential
  <2>2. \A u \in Task : task[u].pc = "store" => task'[u] = task[u]
    BY <1>1, <1>5 DEF Others
  <2> QED BY <1>1, <1>4, <2>1, <2>2 DEF Traced
<1>9. /\ UniqueIds(entries)' /\ CondemnedOnlyIfLost'
      /\ (\A s, u \in OAuth : entries[s].cred.account = entries[u].cred.account => s = u)'
  BY <1>1, <1>4 DEF TokensInv, UniqueIds, CondemnedOnlyIfLost, OAuth
<1> QED BY <1>6, <1>7, <1>8, <1>9 DEF TokensInv

\* The store: the entry shows what the upstream expects.
LEMMA StoredTokens ==
  ASSUME IInv, HandlerInv, TokensInv, NEW t \in Task, "add" \notin Ops, StoreRefreshed(t)
  PROVE  TokensInv'
<1> DEFINE c == task[t].cred
<1>1. /\ task[t].pc = "store" /\ Others(t) /\ task'[t].pc = "snapshot" /\ UNCHANGED upstream
  BY PlaceOf DEF StoreRefreshed, Store, At
<1>2. \A u \in Task \ {t} : task[u].pc \notin {"refreshing", "store"}
  <2> SUFFICES ASSUME NEW u \in Task \ {t}, task[u].pc \in {"refreshing", "store"} PROVE FALSE
    OBVIOUS
  <2>1. Refreshing(t) /\ Refreshing(u)
    BY <1>1 DEF Refreshing, HandlerInv, OnItsWay
  <2> QED BY <2>1 DEF IInv, LockHeld
<1>3. Knows(task[t])
  BY DEF TokensInv
<1>4. \A s \in DOMAIN entries : s \in Find(entries, task[t].id) <=> entries[s].id = task[t].id
  BY Typed DEF Find, Slots, TokensInv, UniqueIds, IsPool
<1>5. DOMAIN entries' = DOMAIN entries
  BY DEF StoreRefreshed, Store
<1>6. ASSUME NEW s \in DOMAIN entries
      PROVE  /\ entries'[s].id = entries[s].id /\ entries'[s].reason = entries[s].reason
             /\ entries'[s].cred = IF entries[s].id = task[t].id THEN c ELSE entries[s].cred
  <2>1. entries[s] \in Entry
    BY DEF IInv, TypeOK, IsPool
  <2>2. entries'[s] = IF entries[s].id # task[t].id THEN entries[s]
                      ELSE IF task[t].op = "force" THEN RefreshedAndReset(entries[s], c)
                                                   ELSE Refreshed(entries[s], c)
    BY <1>4 DEF StoreRefreshed, Store
  <2> DEFINE e == entries[s]
  <2>3. /\ Refreshed(e, c).id = e.id /\ Refreshed(e, c).reason = e.reason /\ Refreshed(e, c).cred = c
        /\ RefreshedAndReset(e, c).id = e.id /\ RefreshedAndReset(e, c).reason = e.reason
        /\ RefreshedAndReset(e, c).cred = c
    BY <2>1 DEF Entry, Refreshed, RefreshedAndReset
  <2> QED BY <2>2, <2>3
<1>7. \A s \in DOMAIN entries : /\ entries'[s].cred.account = entries[s].cred.account
                                /\ entries'[s].cred.kind = entries[s].cred.kind
  BY <1>1, <1>3, <1>6 DEF Knows
<1>8. /\ UniqueIds(entries)' /\ CondemnedOnlyIfLost' /\ OAuth' = OAuth
      /\ (\A s, u \in OAuth : entries[s].cred.account = entries[u].cred.account => s = u)'
  <2>1. OAuth' = OAuth
    BY <1>5, <1>7 DEF OAuth
  <2>2. UniqueIds(entries)'
    BY <1>5, <1>6 DEF TokensInv, UniqueIds
  <2>3. CondemnedOnlyIfLost'
    BY <1>1, <1>5, <1>6, <1>7 DEF TokensInv, CondemnedOnlyIfLost, upstream
  <2>4. \A s \in OAuth : s \in DOMAIN entries
    BY DEF OAuth
  <2>5. \A s, u \in OAuth : entries'[s].cred.account = entries'[u].cred.account => s = u
    BY <1>7, <2>4 DEF TokensInv
  <2> QED BY <2>1, <2>2, <2>3, <2>5
<1>9. ASSUME NEW s \in OAuth PROVE Traced(s)'
  <2>1. s \in DOMAIN entries /\ Traced(s)
    BY <1>9 DEF OAuth, TokensInv
  <2>2. CASE entries[s].id = task[t].id
    BY <1>1, <1>3, <1>6, <2>1, <2>2 DEF Traced, Knows, upstream
  <2>3. CASE entries[s].id # task[t].id
    <3>1. entries[s].cred.rt = issued[entries[s].cred.account] \/ entries[s].cred.account \in lostReply
      BY <1>2, <2>1, <2>3 DEF Traced
    <3> QED BY <1>1, <1>6, <2>1, <2>3, <3>1 DEF Traced, upstream
  <2> QED BY <2>2, <2>3
<1>10. ASSUME NEW u \in Task \ {t} PROVE Knows(task[u])'
  <2>1. Knows(task[u]) /\ task'[u] = task[u] /\ task[u].pc \notin {"refreshing", "store"}
    BY <1>1, <1>2 DEF TokensInv, Others
  <2> QED BY <1>1, <1>5, <1>6, <1>7, <1>8, <2>1 DEF Knows, OAuth, Lost, upstream
<1>11. Knows(task[t])'
  BY <1>1, CarelessKnows DEF Careless, Steps
<1> QED BY <1>8, <1>9, <1>10, <1>11 DEF TokensInv

\* A handler's step keeps what is known of the tokens.
LEMMA TokensKeptByHandlers ==
  ASSUME TokensTraceable, IInv, HandlerInv, TokensInv, NEW t \in Task,
         RequestCall(t) \/ RequestReport(t) \/ OperatorCall(t) \/ TaskStep(t)
  PROVE  TokensInv'
<1>1. "add" \notin Ops
  BY DEF TokensTraceable
<1>2. Others(t) /\ OnItsWay(task'[t]) /\ OnItsWay(task[t])
  BY TasksOnTheirWay, CallsOnTheirWay DEF HandlerInv
<1>3. ASSUME NoNewTokens, UNCHANGED upstream, CondemnedOnlyIfLost', task[t].pc # "store", Knows(task[t])'
      PROVE  TokensInv'
  <2>1. \A u \in Task : task'[u] = task[u] \/ (task[u].pc # "store" /\ Knows(task[u])')
    BY <1>2, <1>3 DEF Others
  <2> QED BY <1>3, <2>1, QuietTokens
<1>4. ASSUME SameTokens, NoneCondemned, UNCHANGED upstream PROVE NoNewTokens /\ CondemnedOnlyIfLost'
  <2>1. NoNewTokens
    BY <1>4 DEF SameTokens, NoNewTokens
  <2> QED BY <1>4, <2>1, NoneNewlyCondemned DEF upstream
<1>5. CASE RequestCall(t) \/ OperatorCall(t)
  <2>1. UNCHANGED upstream /\ task[t].pc # "store"
    BY <1>5 DEF RequestCall, Acquire, OperatorCall, SetDisabled, SetPriority, ResetAndEnable,
                Administer, DeleteCredential, ForceRefresh, GetUsageLimits, AddCredential,
                SetMode, Unchanged, Call
  <2>2. Knows(task[t])'
    BY <1>1, <1>5, CallKnows
  <2>3. CASE \E id \in Ids : DeleteCredential(t, id)
    <3>1. NoNewTokens /\ NoneCondemned
      BY <2>3, TokenChanges, Typed
         DEF DeleteCredential, Removed, NoNewTokens, NoneCondemned, SameToken, NotCondemned
    <3> QED BY <1>3, <2>1, <2>2, <3>1, NoneNewlyCondemned DEF upstream
  <2>4. CASE ~\E id \in Ids : DeleteCredential(t, id)
    <3>1. SameTokens /\ (ReportRefreshTokenInvalid(t) \/ NoneCondemned)
      BY <1>5, <2>4, TokensStay
    <3>2. ~ReportRefreshTokenInvalid(t)
      BY <1>5 DEF RequestCall, Acquire, OperatorCall, SetDisabled, SetPriority, ResetAndEnable,
                  Administer, DeleteCredential, ForceRefresh, GetUsageLimits, AddCredential,
                  SetMode, Call, ReportRefreshTokenInvalid, ReportRefresh, At
    <3> QED BY <1>3, <1>4, <2>1, <2>2, <3>1, <3>2
  <2> QED BY <2>3, <2>4
<1>6. CASE ReportRefreshTokenInvalid(t)
  <2>1. SameTokens
    BY <1>6, TokensStay DEF AcquireStep
  <2>2. NoNewTokens /\ UNCHANGED upstream /\ task[t].pc = "refreshInvalid"
    BY <1>6, <2>1 DEF SameTokens, NoNewTokens, ReportRefreshTokenInvalid, ReportRefresh, At
  <2>3. \A s \in DOMAIN entries : entries[s].id # task[t].id => entries'[s] = entries[s]
    BY <1>6 DEF ReportRefreshTokenInvalid, ReportRefresh, PatchEnabled, Find, Slots
  <2>4. \A s \in DOMAIN entries : entries[s].id = task[t].id => entries[s].cred.account \in Lost
    BY <2>2 DEF TokensInv, Knows
  <2>5. CondemnedOnlyIfLost'
    BY <2>1, <2>2, <2>3, <2>4
       DEF CondemnedOnlyIfLost, SameTokens, SameToken, TokensInv, Lost, upstream
  <2>6. Knows(task[t])'
    BY <1>1, <1>6, CarelessSteps, CarelessKnows
  <2> QED BY <1>3, <2>2, <2>5, <2>6
<1>7. CASE \/ AcquireStep(t) /\ ~ReportRefreshTokenInvalid(t)
           \/ LockStep(t) \/ RefreshRejected(t) \/ RefreshErrors(t)
           \/ PersistSnapshot(t) \/ PersistWrite(t) \/ OperatorStep(t) \/ RequestReport(t)
  <2>1. UNCHANGED upstream
    BY <1>7 DEF AcquireStep, TakeCurrent, SelectFirst, SelfHeal, SelectAgain, Select, SetCurrent,
         ReportRefreshFailure, ReportRefresh, ResetRefreshCount, LockStep, LockAndRecheck, Recheck,
         ForceLock, RefreshRejected, RefreshErrors, PersistSnapshot, PersistWrite, AfterWrite,
         OperatorStep, Disable, Enable, ApplyDisabled, SwitchToNext, SelectHighestPriority,
         ClearCurrent, UsageReply, AddMetadata, FindIdentity, MergeCredential, AllocateId,
         PushEntry, StoreMode, SaveMode, Unchanged, RequestReport, ReportSuccess, ReportFailure,
         ReportQuotaExhausted, Report, Abandon
  <2>2. Knows(task[t])'
    BY <1>1, <1>7, ChoiceKnows, LockKnows, CarelessSteps, CarelessKnows DEF AcquireStep
  <2>3. task[t].pc # "store"
    BY <1>1, <1>7, CarelessSteps
       DEF AcquireStep, TakeCurrent, SelectFirst, SelectAgain, Select, SetCurrent, LockStep,
           LockAndRecheck, Recheck, ForceLock, RefreshRejected, RefreshErrors, At
  <2>4. ~MergeCredential(t) /\ ~PushEntry(t)
    BY <1>1, <1>2 DEF MergeCredential, PushEntry, At, OnItsWay
  <2>5. SameTokens /\ (ReportRefreshTokenInvalid(t) \/ NoneCondemned)
    BY <1>7, <2>4, TokensStay DEF RefreshStep
  <2>6. ~ReportRefreshTokenInvalid(t)
    BY <1>7 DEF LockStep, LockAndRecheck, Recheck, ForceLock, RefreshRejected, RefreshErrors,
         PersistSnapshot, PersistWrite, OperatorStep, Disable, Enable, ApplyDisabled, SwitchToNext,
         SelectHighestPriority, ClearCurrent, UsageReply, AddMetadata, FindIdentity,
         MergeCredential, AllocateId, PushEntry, StoreMode, SaveMode, RequestReport, ReportSuccess,
         ReportFailure, ReportQuotaExhausted, Report, Abandon, ReportRefreshTokenInvalid,
         ReportRefresh, At
  <2> QED BY <1>3, <1>4, <2>1, <2>2, <2>3, <2>5, <2>6
<1> QED BY <1>1, <1>5, <1>6, <1>7, AcceptedTokens, StoredTokens DEF TaskStep, RefreshStep, StoreStep

LEMMA TokensKeptInFaults ==
  ASSUME TokensTraceable, IInv, HandlerInv, TokensInv, FaultStep
  PROVE  TokensInv'
<1>1. ~Restart
  BY DEF TokensTraceable, Restart, Fault
<1>2. SameTokens /\ NoneCondemned
  BY <1>1, TokensStayInFaults
<1>3. NoNewTokens
  BY <1>2 DEF SameTokens, NoNewTokens
<1>4. CASE \E s \in DOMAIN entries : TokenExpires(s)
  <2>1. UNCHANGED upstream /\ UNCHANGED task
    BY <1>4 DEF TokenExpires, Unchanged
  <2>2. CondemnedOnlyIfLost'
    BY <1>2, <1>3, <2>1, NoneNewlyCondemned DEF upstream
  <2>3. \A u \in Task : task'[u] = task[u] \/ (task[u].pc # "store" /\ Knows(task[u])')
    BY <2>1
  <2> QED BY <1>3, <2>1, <2>2, <2>3, QuietTokens
<1>5. ASSUME NEW a \in Account, Revoke(a) PROVE TokensInv'
  <2>1. UNCHANGED <<entries, task, issued, lostReply>> /\ revoked \subseteq revoked'
    BY <1>5 DEF Revoke
  <2>2. CondemnedOnlyIfLost'
    BY <1>2, <1>3, <2>1, NoneNewlyCondemned
  <2>3. \A u \in Task : Knows(task[u])'
    BY <2>1 DEF TokensInv, Knows, OAuth, Lost
  <2>4. UniqueIds(entries)' /\ (\A s \in OAuth : Traced(s))'
        /\ (\A s, u \in OAuth : entries[s].cred.account = entries[u].cred.account => s = u)'
    BY <2>1 DEF TokensInv, UniqueIds, OAuth, Traced
  <2> QED BY <2>2, <2>3, <2>4 DEF TokensInv
<1>6. ASSUME NEW t \in Task, PersistFails(t) \/ SaveModeFails(t) PROVE TokensInv'
  <2>1. UNCHANGED upstream /\ task[t].pc # "store"
    BY <1>6 DEF PersistFails, SaveModeFails, AfterWrite
  <2>2. Others(t) /\ task'[t].pc \in Careless
    BY <1>6, PlaceAfterWrite, PlaceOf DEF PersistFails, SaveModeFails, Careless, Steps
  <2>3. CondemnedOnlyIfLost'
    BY <1>2, <1>3, <2>1, NoneNewlyCondemned DEF upstream
  <2>4. Knows(task[t])'
    BY <2>2, CarelessKnows
  <2>5. \A u \in Task : task'[u] = task[u] \/ (task[u].pc # "store" /\ Knows(task[u])')
    BY <2>1, <2>2, <2>4 DEF Others
  <2> QED BY <1>3, <2>1, <2>3, <2>5, QuietTokens
<1> QED BY <1>1, <1>4, <1>5, <1>6, LostTokens DEF FaultStep

\* As long as no credential is added and the process does not restart, one is condemned as
\* InvalidRefreshToken only if the upstream withdrew its token or a rotated one was lost,
\* whatever requests, forced refreshes, queries of the usage and operators do meanwhile.
THEOREM CondemnedForALoss ==
  ASSUME TokensTraceable
  PROVE  Spec => []CondemnedOnlyIfLost
<1>1. Init => TokensInv
  <2> SUFFICES ASSUME Init PROVE TokensInv
    OBVIOUS
  <2>1. \A t \in Task : task[t].pc = "idle"
    BY DEF Init, Idle
  <2>2. /\ DOMAIN entries = DOMAIN file
        /\ \A s \in DOMAIN entries : entries[s].id = file[s].id /\ entries[s].cred = file[s].cred
                                     /\ entries[s].reason # "InvalidRefreshToken"
    BY DEF Init, Loaded
  <2>3. UniqueIds(file) /\ IsFile(file)
    BY InputAssumption DEF Init
  <2>4. \A s \in OAuth : entries[s].cred.account \in Account /\ entries[s].cred.rt = 0
    BY <2>2, <2>3 DEF OAuth, IsFile, FileEntry, Credential, TokensTraceable, Init
  <2>5. \A s, u \in OAuth : entries[s].cred.account = entries[u].cred.account => s = u
    BY <2>2 DEF OAuth, TokensTraceable, Init
  <2>6. \A s \in OAuth : Traced(s)
    BY <2>4 DEF Traced, Init
  <2>7. UniqueIds(entries)
    BY <2>2, <2>3 DEF UniqueIds
  <2>8. \A t \in Task : Knows(task[t])
    BY <2>1 DEF Knows
  <2>9. CondemnedOnlyIfLost
    BY <2>2 DEF CondemnedOnlyIfLost
  <2> QED BY <2>5, <2>6, <2>7, <2>8, <2>9 DEF TokensInv
<1>2. IInv /\ HandlerInv /\ TokensInv /\ [Next]_vars => TokensInv'
  <2> SUFFICES ASSUME IInv, HandlerInv, TokensInv, [Next]_vars PROVE TokensInv'
    OBVIOUS
  <2>1. CASE UNCHANGED vars
    BY <2>1 DEF vars, upstream, TokensInv, UniqueIds, OAuth, Traced, Knows, Lost, CondemnedOnlyIfLost
  <2> QED BY <2>1, TokensKeptByHandlers, TokensKeptInFaults DEF Next, Rest
<1>3. TokensInv => CondemnedOnlyIfLost
  BY DEF TokensInv
<1> QED BY <1>1, <1>2, <1>3, Inductive, HandlersOnTheirWay, PTL DEF Spec

=============================================================================
