-------------------------- MODULE KiroTokenManager --------------------------
(***************************************************************************)
(* MultiTokenManager of kiro-rs: the tasks of a multi-threaded runtime     *)
(* select credentials, refresh their tokens under the refresh lock, report *)
(* outcomes, administer the list and write it back to the credentials      *)
(* file, while tokens expire, replies get lost and the process restarts.   *)
(*                                                                         *)
(* One action is one critical section of the entries mutex (with whatever  *)
(* the same thread does before it takes the mutex again or awaits): the    *)
(* handlers release it between steps, and so do the actions here.          *)
(***************************************************************************)
EXTENDS KiroPool

CONSTANTS
    Task,          \* the concurrent HTTP handlers
    NoTask,        \* nobody holds the refresh lock
    InitialFiles,  \* the credentials files the process may start with
    Models,        \* {TRUE, FALSE}: requests for an opus model, for another
    Priorities,    \* inputs of set_priority
    NewCredentials,\* inputs of add_credential
    Ops,           \* the handlers this instance calls
    Faults,        \* what the environment may do
    MaxCalls,      \* bound: handler calls
    MaxFaults      \* bound: environment events

ASSUME NoTaskAssumption == NoTask \notin Task
ASSUME InputAssumption ==
    /\ \A f \in InitialFiles : IsFile(f) /\ UniqueIds(f)
    /\ Models \subseteq BOOLEAN
    /\ Priorities \subseteq Nat
    /\ NewCredentials \subseteq Credential
    /\ MaxCalls \in Nat /\ MaxFaults \in Nat

OpNames == {"acquire", "force", "usage", "setDisabled", "setPriority",
            "reset", "delete", "add", "setMode"}

Steps == {"idle", "current", "select", "heal", "again", "setCurrent", "lock",
          "forceLock", "refreshing", "refreshFailed", "refreshInvalid",
          "store", "snapshot", "write", "resetCount", "ready", "highest",
          "emptied", "metadata", "addMetadata", "identity", "merge", "alloc",
          "push", "modeSet", "modeSave", "disable", "enable", "switch"}

VARIABLES
    entries,    \* Mutex<Vec<CredentialEntry>>
    current,    \* Mutex<u64> current_id; 0 is no credential
    balanced,   \* load_balancing_mode = "balanced"
    savedMode,  \* the mode in the configuration file
    lock,       \* the holder of refresh_lock
    file,       \* the credentials file on disk
    task,       \* where each handler stands, with its local variables
    up,         \* the process is running
    issued,     \* upstream: the refresh token generation of each account
    revoked,    \* upstream: accounts whose refresh token was withdrawn
    lostReply,  \* accounts of which a rotated token never reached the code
    calls,      \* handler calls so far
    faults      \* environment events so far

vars == <<entries, current, balanced, savedMode, lock, file, task, up,
          issued, revoked, lostReply, calls, faults>>

upstream == <<issued, revoked, lostReply>>

-----------------------------------------------------------------------------

Blank == [prio |-> 0, kind |-> "oauth", opus |-> FALSE, expired |-> TRUE,
          account |-> CHOOSE a \in Account : TRUE, rt |-> 0, known |-> FALSE]

\* flag is the opus filter of a request or the mode an operator asked for;
\* result is what the last call returned.
Idle(result) == [op |-> "none", pc |-> "idle", id |-> 0, cred |-> Blank,
                 flag |-> FALSE, attempt |-> 0, limit |-> 0, snap |-> NoFile,
                 result |-> result]

TaskRecord(r) ==
    /\ r \in [op : OpNames \cup {"none"}, pc : Steps, id : Nat,
              cred : Credential, flag : BOOLEAN, attempt : Nat, limit : Nat,
              snap : {r.snap}, result : {"none", "ok", "err"}]
    /\ IsFile(r.snap)

Begin(t, name, step) ==
    [Idle("none") EXCEPT !.op = name, !.pc = step]

Init ==
    /\ file \in InitialFiles
    /\ entries = Loaded(file)
    /\ current \in Switch(Loaded(file), 0)
    /\ balanced \in BOOLEAN /\ savedMode = balanced
    /\ lock = NoTask
    /\ task = [t \in Task |-> Idle("none")]
    /\ up = TRUE
    /\ issued = [a \in Account |-> 0]
    /\ revoked = {} /\ lostReply = {}
    /\ calls = 0 /\ faults = 0

\* Task t moves to step, keeping its other local variables.
Goto(t, step) == task' = [task EXCEPT ![t].pc = step]

\* Task t goes to step with the clone cred of the credential it calls id.
Bind(t, id, cred, step) ==
    task' = [task EXCEPT ![t] = [@ EXCEPT !.id = id, !.cred = cred, !.pc = step]]

Return(t, result) == task' = [task EXCEPT ![t] = Idle(result)]

\* A handler call starts in an idle task; who calls it counts the calls.
Call(t, name) ==
    /\ up /\ task[t].pc = "idle" /\ name \in Ops

\* Task t, running the handler, takes its next step.
At(t, step) ==
    /\ up /\ task[t].pc = step
    /\ UNCHANGED <<calls, faults>>

-----------------------------------------------------------------------------
(* acquire_context                                                          *)

Acquire(t, wantsOpus) ==
    /\ Call(t, "acquire")
    /\ LET total == Cardinality(DOMAIN entries)
       IN  task' = [task EXCEPT ![t] =
               [Begin(t, "acquire", "current") EXCEPT
                   !.flag = wantsOpus,
                   !.limit = IF total = 0 THEN 1 ELSE total * MaxFailures]]
    /\ UNCHANGED <<entries, current, balanced, savedMode, lock, file, up,
                   upstream>>

\* try_ensure_token before its first await, given the clone it was passed.
\* A credential that is not about to expire has its access token.
Ensure(c) == IF c.kind = "apiKey" THEN "ready"
             ELSE IF c.kind = "noKey" THEN "refreshFailed"
             ELSE IF c.expired THEN "lock" ELSE "resetCount"

\* The head of the loop: give up, keep current_id, or go and select.  The
\* clone of the current credential is taken whatever model was asked for.
TakeCurrent(t) ==
    LET hit == {s \in DOMAIN entries :
                  entries[s].id = current /\ ~entries[s].disabled /\ ~balanced}
    IN  /\ At(t, "current")
        /\ \/ /\ task[t].attempt >= task[t].limit
              /\ Return(t, "err")
           \/ /\ task[t].attempt < task[t].limit
              /\ hit = {}
              /\ Goto(t, "select")
           \/ /\ task[t].attempt < task[t].limit
              /\ \E s \in hit :
                   /\ \A u \in hit : s <= u
                   /\ Bind(t, entries[s].id, entries[s].cred,
                           Ensure(entries[s].cred))
        /\ UNCHANGED <<entries, current, balanced, savedMode, lock, file, up,
                       upstream>>

\* select_next_credential; with nothing eligible the task goes on to otherwise.
Select(t, step, otherwise) ==
    LET best == SelectNext(entries, balanced, task[t].flag)
    IN  /\ At(t, step)
        /\ \/ /\ best = {}
              /\ otherwise
           \/ \E s \in best :
                Bind(t, entries[s].id, entries[s].cred, "setCurrent")
        /\ UNCHANGED <<entries, current, balanced, savedMode, lock, file, up,
                       upstream>>

SelectFirst(t) == Select(t, "select", Goto(t, "heal"))

SelectAgain(t) == Select(t, "again", Return(t, "err"))

\* Nothing was eligible: bring back the credentials that too many failures
\* disabled and select again, or give up.
SelfHeal(t) ==
    /\ At(t, "heal")
    /\ \/ /\ \E s \in DOMAIN entries : entries[s].disabled
                                     /\ entries[s].reason = "TooManyFailures"
          /\ entries' = [s \in DOMAIN entries |-> Healed(entries[s])]
          /\ Goto(t, "again")
       \/ /\ \A s \in DOMAIN entries : entries[s].disabled =>
                                       entries[s].reason # "TooManyFailures"
          /\ Return(t, "err")
          /\ UNCHANGED entries
    /\ UNCHANGED <<current, balanced, savedMode, lock, file, up, upstream>>

SetCurrent(t) ==
    /\ At(t, "setCurrent")
    /\ current' = task[t].id
    /\ Goto(t, Ensure(task[t].cred))
    /\ UNCHANGED <<entries, balanced, savedMode, lock, file, up, upstream>>

\* The refresh failed inside acquire_context: count it against the
\* credential, or disable it at once when the refresh token is invalid, and
\* try again unless nothing is enabled any more.
ReportRefresh(t, step, Change(_)) ==
    /\ At(t, step)
    /\ LET patched == PatchEnabled(entries, task[t].id, Change)
       IN  /\ entries' = patched
           /\ current' \in SwitchIfDisabled(entries, patched, task[t].id,
                                            current)
           /\ IF HasEnabled(patched)
              THEN task' = [task EXCEPT ![t] =
                     [@ EXCEPT !.attempt = task[t].attempt + 1, !.id = 0,
                               !.cred = Blank, !.pc = "current"]]
              ELSE Return(t, "err")
    /\ UNCHANGED <<balanced, savedMode, lock, file, up, upstream>>

ReportRefreshFailure(t) ==
    ReportRefresh(t, "refreshFailed", RefreshFailed)

ReportRefreshTokenInvalid(t) ==
    ReportRefresh(t, "refreshInvalid", RefreshTokenInvalid)

\* The tail of try_ensure_token: a usable token clears the refresh failures.
ResetRefreshCount(t) ==
    /\ At(t, "resetCount")
    /\ entries' = Patch(entries, task[t].id, RefreshCountReset)
    /\ Goto(t, "ready")
    /\ UNCHANGED <<current, balanced, savedMode, lock, file, up, upstream>>
-----------------------------------------------------------------------------
(* What the caller of acquire_context reports about the call it made.      *)

Report(t, patched) ==
    /\ At(t, "ready")
    /\ entries' = patched
    /\ current' \in SwitchIfDisabled(entries, patched, task[t].id, current)
    /\ Return(t, IF HasEnabled(patched) THEN "ok" ELSE "err")
    /\ UNCHANGED <<balanced, savedMode, lock, file, up, upstream>>

ReportSuccess(t) == Report(t, Patch(entries, task[t].id, Succeeded))

ReportFailure(t) == Report(t, PatchEnabled(entries, task[t].id, Failed))

ReportQuotaExhausted(t) ==
    Report(t, PatchEnabled(entries, task[t].id, QuotaExhausted))

\* The caller reports nothing: a network error, a transient status, a 4xx.
Abandon(t) ==
    /\ At(t, "ready")
    /\ Return(t, "ok")
    /\ UNCHANGED <<entries, current, balanced, savedMode, lock, file, up,
                   upstream>>

-----------------------------------------------------------------------------
(* The refresh lock and the refresh itself.                                 *)

\* The wait for refresh_lock ends and the entry is read again: it may be
\* gone, another task may have refreshed it, or this task refreshes it.
Recheck(t, holder, read) ==
    LET found == Find(entries, task[t].id)
        leave == IF task[t].op = "acquire" THEN "resetCount" ELSE "metadata"
    IN  /\ At(t, "lock")
        /\ lock = NoTask
        /\ \/ /\ found = {} /\ lock' = lock
              /\ IF task[t].op = "acquire" THEN Goto(t, "refreshFailed")
                                           ELSE Return(t, "err")
           \/ \E s \in found :
                LET c == read[s].cred
                IN  /\ lock' = IF c.expired THEN holder ELSE lock
                    /\ Bind(t, task[t].id, c,
                            IF c.expired THEN "refreshing" ELSE leave)
        /\ UNCHANGED <<entries, current, balanced, savedMode, file, up,
                       upstream>>

\* Mutants: the guard is dropped at once (`let _ = lock`); the clone taken
\* before the wait is used instead of reading again.
LockDropped(t) == Recheck(t, NoTask, entries)

NotRereadAfterLock(t) == Recheck(t, t, [s \in DOMAIN entries |-> task[t]])

LockAndRecheck(t) == Recheck(t, t, entries)

\* force_refresh_token_for took its clone before it waited for the lock.
ForceRefresh(t, id) ==
    /\ Call(t, "force")
    /\ \E s \in Find(entries, id) :
         task' = [task EXCEPT ![t] =
             [Begin(t, "force", "forceLock") EXCEPT !.id = id,
                                                    !.cred = entries[s].cred]]
    /\ UNCHANGED <<entries, current, balanced, savedMode, lock, file, up,
                   upstream>>

ForceLock(t) ==
    /\ At(t, "forceLock")
    /\ lock = NoTask
    /\ IF task[t].cred.kind = "oauth"
       THEN lock' = t /\ Goto(t, "refreshing")
       ELSE lock' = lock /\ Return(t, "err")
    /\ UNCHANGED <<entries, current, balanced, savedMode, file, up, upstream>>

Unlocked(t) == IF lock = t THEN NoTask ELSE lock

\* The upstream accepts the refresh token, perhaps rotates it, and perhaps
\* names the profile the account was not known by.
RefreshAccepted(t) ==
    LET c == task[t].cred
    IN  /\ At(t, "refreshing")
        /\ c.rt = issued[c.account] /\ c.account \notin revoked
        /\ \E rotated \in {0, 1}, named \in {c.known, TRUE} :
             /\ issued' = [issued EXCEPT ![c.account] = @ + rotated]
             /\ Bind(t, task[t].id,
                     [c EXCEPT !.rt = c.rt + rotated, !.expired = FALSE,
                               !.known = named],
                     IF task[t].op = "add" THEN "addMetadata" ELSE "store")
        /\ UNCHANGED <<entries, current, balanced, savedMode, lock, file, up,
                       revoked, lostReply>>

\* invalid_grant: the refresh token was rotated away or withdrawn.
RefreshRejected(t) ==
    LET c == task[t].cred
    IN  /\ At(t, "refreshing")
        /\ c.rt # issued[c.account] \/ c.account \in revoked
        /\ lock' = Unlocked(t)
        /\ IF task[t].op = "acquire" THEN Goto(t, "refreshInvalid")
                                     ELSE Return(t, "err")
        /\ UNCHANGED <<entries, current, balanced, savedMode, file, up,
                       upstream>>

\* Any other failure of the call: network, 429, 5xx.
RefreshErrors(t) ==
    /\ At(t, "refreshing")
    /\ lock' = Unlocked(t)
    /\ IF task[t].op = "acquire" THEN Goto(t, "refreshFailed")
                                 ELSE Return(t, "err")
    /\ UNCHANGED <<entries, current, balanced, savedMode, file, up, upstream>>

Refreshed(e, c) == [e EXCEPT !.cred = c]

RefreshedAndReset(e, c) == [e EXCEPT !.cred = c, !.refreshFails = 0]

\* The whole credential is replaced by the refreshed clone; the lock is kept
\* until the file is written.
Store(t, holder) ==
    /\ At(t, "store")
    /\ entries' = [s \in DOMAIN entries |->
                     IF s \notin Find(entries, task[t].id) THEN entries[s]
                     ELSE IF task[t].op = "force"
                          THEN RefreshedAndReset(entries[s], task[t].cred)
                          ELSE Refreshed(entries[s], task[t].cred)]
    /\ lock' = holder
    /\ Goto(t, "snapshot")
    /\ UNCHANGED <<current, balanced, savedMode, file, up, upstream>>

\* Mutant: the lock is given back before the file is written.
StoreAndUnlock(t) == Store(t, Unlocked(t))

StoreRefreshed(t) == Store(t, lock)

-----------------------------------------------------------------------------
(* persist_credentials: the image is taken under the entries mutex and      *)
(* written after it is released.                                            *)

PersistSnapshot(t) ==
    /\ At(t, "snapshot")
    /\ task' = [task EXCEPT ![t] =
                   [@ EXCEPT !.snap = Image(entries), !.pc = "write"]]
    /\ UNCHANGED <<entries, current, balanced, savedMode, lock, file, up,
                   upstream>>

\* After the write (or its failure): refreshes only warn about a failure and
\* release the lock; an operator's call returns it.
AfterWrite(t, result) ==
    /\ lock' = Unlocked(t)
    /\ task' = [task EXCEPT ![t] =
         IF task[t].op = "acquire"
         THEN [task[t] EXCEPT !.pc = "resetCount", !.snap = NoFile]
         ELSE IF task[t].op = "usage" /\ lock = t
         THEN [task[t] EXCEPT !.pc = "metadata", !.snap = NoFile]
         ELSE IF task[t].op = "setDisabled" /\ task[t].flag /\ result = "ok"
         THEN [task[t] EXCEPT !.pc = "switch", !.snap = NoFile]
         ELSE IF task[t].op \in {"usage", "force"} THEN Idle("ok")
         ELSE Idle(result)]
    /\ UNCHANGED <<entries, current, balanced, savedMode, up, upstream>>

PersistWrite(t) ==
    /\ At(t, "write")
    /\ file' = task[t].snap
    /\ AfterWrite(t, "ok")

-----------------------------------------------------------------------------
(* The handlers of the administration interface.                            *)

Unchanged == UNCHANGED <<balanced, savedMode, lock, file, up, upstream>>

\* A handler that first patches the entry with this id and goes on to step.
Administer(t, name, id, step, patched) ==
    /\ Call(t, name)
    /\ Find(entries, id) # {}
    /\ entries' = patched
    /\ task' = [task EXCEPT ![t] = [Begin(t, name, step) EXCEPT !.id = id]]
    /\ Unchanged /\ UNCHANGED current

\* The service remembers whether id was current, sets the flag, and after a
\* successful save leaves the credential it has just disabled.
SetDisabled(t, id, disabled) ==
    /\ Call(t, "setDisabled")
    /\ task' = [task EXCEPT ![t] =
         [Begin(t, "setDisabled", IF disabled THEN "disable" ELSE "enable")
            EXCEPT !.id = id, !.flag = disabled /\ id = current]]
    /\ Unchanged /\ UNCHANGED <<entries, current>>

ApplyDisabled(t, step, Change(_)) ==
    /\ At(t, step)
    /\ entries' = Patch(entries, task[t].id, Change)
    /\ IF Find(entries, task[t].id) = {} THEN Return(t, "err")
                                         ELSE Goto(t, "snapshot")
    /\ Unchanged /\ UNCHANGED current

Disable(t) == ApplyDisabled(t, "disable", ManuallyDisabled)

Enable(t) == ApplyDisabled(t, "enable", Reenabled)

SwitchToNext(t) ==
    /\ At(t, "switch")
    /\ current' \in SwitchOver(entries, current)
    /\ Return(t, "ok")
    /\ Unchanged /\ UNCHANGED entries

SetPriority(t, id, prio) ==
    Administer(t, "setPriority", id, "highest",
               Prioritised(entries, id, prio))

ResetAndEnable(t, id) ==
    /\ \A s \in Find(entries, id) : entries[s].reason # "InvalidConfig"
    /\ Administer(t, "reset", id, "snapshot", Patch(entries, id, Reenabled))

\* Only a disabled credential can be deleted; retain drops every entry that
\* carries the id.
DeleteCredential(t, id) ==
    /\ Call(t, "delete")
    /\ \E s \in Find(entries, id) : entries[s].disabled
    /\ entries' = Removed(entries, id)
    /\ task' = [task EXCEPT ![t] =
         [Begin(t, "delete", IF current = id THEN "highest" ELSE "emptied")
            EXCEPT !.id = id]]
    /\ Unchanged /\ UNCHANGED current

SelectHighestPriority(t) ==
    /\ At(t, "highest")
    /\ current' \in Switch(entries, current)
    /\ Goto(t, IF task[t].op = "delete" THEN "emptied" ELSE "snapshot")
    /\ Unchanged /\ UNCHANGED entries

ClearCurrent(t) ==
    /\ At(t, "emptied")
    /\ current' = IF DOMAIN entries = {} THEN 0 ELSE current
    /\ Goto(t, "snapshot")
    /\ Unchanged /\ UNCHANGED entries

\* get_usage_limits_for, up to its first await.
GetUsageLimits(t, id) ==
    /\ Call(t, "usage")
    /\ \E s \in Find(entries, id) :
         LET c == entries[s].cred
         IN  /\ c.kind # "noKey"
             /\ task' = [task EXCEPT ![t] =
                   [Begin(t, "usage", IF c.kind = "oauth" /\ c.expired
                                      THEN "lock" ELSE "metadata")
                      EXCEPT !.id = id]]
    /\ Unchanged /\ UNCHANGED <<entries, current>>

WithMetadata(c, opus) == [c EXCEPT !.opus = opus, !.known = TRUE]

\* The usage reply fills in the subscription and the account identity, and
\* is written back only if that changed something.
UsageReply(t) ==
    /\ At(t, "metadata")
    /\ \/ Return(t, "err") /\ UNCHANGED entries
       \/ \E opus \in BOOLEAN :
            LET patched == [s \in DOMAIN entries |->
                    IF s \in Find(entries, task[t].id)
                    THEN Refreshed(entries[s],
                                   WithMetadata(entries[s].cred, opus))
                    ELSE entries[s]]
            IN  /\ entries' = patched
                /\ IF patched = entries THEN Return(t, "ok")
                                        ELSE Goto(t, "snapshot")
    /\ Unchanged /\ UNCHANGED current

-----------------------------------------------------------------------------
(* add_credential                                                           *)

\* A credential whose key is in the list already is refused.
AddCredential(t, c) ==
    /\ Call(t, "add") /\ c.kind # "noKey"
    /\ \A s \in DOMAIN entries :
         LET d == entries[s].cred
         IN  ~(d.kind = c.kind /\ d.account = c.account /\ d.rt = c.rt)
    /\ task' = [task EXCEPT ![t] =
         [Begin(t, "add", IF c.kind = "apiKey" THEN "identity"
                                               ELSE "refreshing")
            EXCEPT !.cred = c]]
    /\ Unchanged /\ UNCHANGED <<entries, current>>

\* The metadata of the new account, or the warning that it is missing.
AddMetadata(t) ==
    /\ At(t, "addMetadata")
    /\ \E c \in {task[t].cred} \cup
                 {WithMetadata(task[t].cred, opus) : opus \in BOOLEAN} :
         Bind(t, task[t].id, c, "identity")
    /\ Unchanged /\ UNCHANGED <<entries, current>>

\* The first entry that is known to belong to the same account.
FindIdentity(t) ==
    LET same == {s \in DOMAIN entries :
                   /\ task[t].cred.known /\ entries[s].cred.known
                   /\ entries[s].cred.account = task[t].cred.account}
    IN  /\ At(t, "identity")
        /\ \/ same = {} /\ Goto(t, "alloc")
           \/ \E s \in same :
                /\ \A u \in same : s <= u
                /\ Bind(t, entries[s].id, task[t].cred, "merge")
        /\ Unchanged /\ UNCHANGED <<entries, current>>

\* The entry found is updated, unless it was deleted in the meantime.
MergeCredential(t) ==
    /\ At(t, "merge")
    /\ entries' = [s \in DOMAIN entries |->
                     IF s \in Find(entries, task[t].id)
                     THEN Merged(entries[s], task[t].cred) ELSE entries[s]]
    /\ Goto(t, IF Find(entries, task[t].id) = {} THEN "alloc" ELSE "snapshot")
    /\ Unchanged /\ UNCHANGED current

AllocateId(t) ==
    /\ At(t, "alloc")
    /\ \E n \in NextIds(entries) :
         Bind(t, n, task[t].cred, "push")
    /\ Unchanged /\ UNCHANGED <<entries, current>>

PushEntry(t) ==
    /\ At(t, "push")
    /\ \E s \in NextSlots(entries) :
         entries' = Pushed(entries, s, NewEntry(task[t].id, task[t].cred))
    /\ Goto(t, "snapshot")
    /\ Unchanged /\ UNCHANGED current

-----------------------------------------------------------------------------
(* set_load_balancing_mode                                                  *)

SetMode(t, mode) ==
    /\ Call(t, "setMode")
    /\ balanced # mode
    /\ task' = [task EXCEPT ![t] =
                   [Begin(t, "setMode", "modeSet") EXCEPT !.flag = mode]]
    /\ Unchanged /\ UNCHANGED <<entries, current>>

StoreMode(t) ==
    /\ At(t, "modeSet")
    /\ balanced' = task[t].flag
    /\ Goto(t, "modeSave")
    /\ UNCHANGED <<entries, current, savedMode, lock, file, up, upstream>>

SaveMode(t) ==
    /\ At(t, "modeSave")
    /\ savedMode' = task[t].flag
    /\ Return(t, "ok")
    /\ UNCHANGED <<entries, current, balanced, lock, file, up, upstream>>
-----------------------------------------------------------------------------
(* The environment.                                                         *)

Fault(kind) ==
    /\ up /\ kind \in Faults
    /\ faults < MaxFaults /\ faults' = faults + 1
    /\ UNCHANGED calls

\* Time passes and an access token expires.
TokenExpires(s) ==
    /\ Fault("expire")
    /\ s \in DOMAIN entries
    /\ entries[s].cred.kind = "oauth" /\ ~entries[s].cred.expired
    /\ entries' = [entries EXCEPT ![s].cred.expired = TRUE]
    /\ Unchanged /\ UNCHANGED <<current, task>>

\* The owner of an account withdraws the refresh token.
Revoke(a) ==
    /\ Fault("revoke")
    /\ a \notin revoked /\ revoked' = revoked \cup {a}
    /\ UNCHANGED <<entries, current, balanced, savedMode, lock, file, task, up,
                   issued, lostReply>>

\* The upstream rotates the refresh token and its reply is lost, or carries
\* no expiry, which acquire_context treats as a failed refresh.
RotatedReplyLost(t) ==
    LET c == task[t].cred
    IN  /\ Fault("lostReply")
        /\ task[t].pc = "refreshing"
        /\ c.rt = issued[c.account] /\ c.account \notin revoked
        /\ issued' = [issued EXCEPT ![c.account] = @ + 1]
        /\ lostReply' = lostReply \cup {c.account}
        /\ lock' = Unlocked(t)
        /\ IF task[t].op = "acquire" THEN Goto(t, "refreshFailed")
                                     ELSE Return(t, "err")
        /\ UNCHANGED <<entries, current, balanced, savedMode, file, up,
                       revoked>>

\* The client disconnects and the server drops the handler at the await it
\* stands at: the lock guard is dropped with it, and a refresh token that the
\* upstream has just rotated is lost.
ClientGone(t) ==
    LET c == task[t].cred
    IN  /\ Fault("cancel")
        /\ task[t].pc \in {"lock", "forceLock", "refreshing", "metadata",
                           "addMetadata", "ready"}
        /\ \/ UNCHANGED <<issued, lostReply>>
           \/ /\ task[t].pc = "refreshing"
              /\ c.rt = issued[c.account] /\ c.account \notin revoked
              /\ issued' = [issued EXCEPT ![c.account] = @ + 1]
              /\ lostReply' = lostReply \cup {c.account}
        /\ lock' = Unlocked(t)
        /\ Return(t, "err")
        /\ UNCHANGED <<entries, current, balanced, savedMode, file, up,
                       revoked>>

PersistFails(t) ==
    /\ Fault("writeFails")
    /\ task[t].pc = "write" /\ file' = file
    /\ AfterWrite(t, "err")

\* The configuration cannot be saved: the mode is rolled back to what it was
\* when the call began.
SaveModeFails(t) ==
    /\ Fault("writeFails")
    /\ task[t].pc = "modeSave"
    /\ balanced' = ~task[t].flag
    /\ Return(t, "err")
    /\ UNCHANGED <<entries, current, savedMode, lock, file, up, upstream>>

\* An access token that had expired in memory has expired in the file too.
ExpiredBefore(id) == \E u \in Slots(entries, id) : entries[u].cred.expired

\* The process stops wherever it is and starts again from its files.  The
\* statistics file gives each credential a success count it once had.  Two
\* credentials with one id keep the process from starting.
Restart ==
    /\ Fault("restart")
    /\ up' = UniqueIds(file)
    /\ \E n \in [DOMAIN file -> 0 .. MaxCalls] :
         /\ \A s \in DOMAIN file : n[s] = 0 \/
                \E u \in Slots(entries, file[s].id) :
                    n[s] <= entries[u].successes
         /\ entries' = [s \in DOMAIN file |->
                          [Loaded(file)[s] EXCEPT
                              !.successes = n[s],
                              !.cred.expired = @ \/ ExpiredBefore(file[s].id)]]
    /\ current' \in Switch(Loaded(file), 0)
    /\ balanced' = savedMode
    /\ lock' = NoTask
    /\ task' = [t \in Task |-> Idle("none")]
    /\ UNCHANGED <<savedMode, file, upstream>>

-----------------------------------------------------------------------------

Ids == {entries[s].id : s \in DOMAIN entries}

Counted == calls < MaxCalls /\ calls' = calls + 1 /\ UNCHANGED faults

\* A request: it starts by acquiring a credential and ends with a report.
RequestCall(t) == Counted /\ \E opus \in Models : Acquire(t, opus)

RequestReport(t) ==
    \/ ReportSuccess(t) \/ ReportFailure(t) \/ ReportQuotaExhausted(t)
    \/ Abandon(t)

OperatorCall(t) ==
    /\ Counted
    /\ \/ \E id \in Ids :
            \/ \E disabled \in BOOLEAN : SetDisabled(t, id, disabled)
            \/ \E prio \in Priorities : SetPriority(t, id, prio)
            \/ ResetAndEnable(t, id)
            \/ DeleteCredential(t, id)
            \/ ForceRefresh(t, id)
            \/ GetUsageLimits(t, id)
       \/ \E c \in NewCredentials : AddCredential(t, c)
       \/ \E mode \in BOOLEAN : SetMode(t, mode)

AcquireStep(t) ==
    \/ TakeCurrent(t) \/ SelectFirst(t) \/ SelfHeal(t) \/ SelectAgain(t)
    \/ SetCurrent(t) \/ ReportRefreshFailure(t)
    \/ ReportRefreshTokenInvalid(t) \/ ResetRefreshCount(t)

LockStep(t) == LockAndRecheck(t) \/ ForceLock(t)

RefreshStep(t) ==
    \/ RefreshAccepted(t) \/ RefreshRejected(t) \/ RefreshErrors(t)

StoreStep(t) == StoreRefreshed(t) \/ PersistSnapshot(t) \/ PersistWrite(t)

OperatorStep(t) ==
    \/ Disable(t) \/ Enable(t) \/ SwitchToNext(t)
    \/ SelectHighestPriority(t) \/ ClearCurrent(t) \/ UsageReply(t)
    \/ AddMetadata(t) \/ FindIdentity(t) \/ MergeCredential(t)
    \/ AllocateId(t) \/ PushEntry(t) \/ StoreMode(t) \/ SaveMode(t)

TaskStep(t) ==
    \/ AcquireStep(t) \/ LockStep(t) \/ RefreshStep(t) \/ StoreStep(t)
    \/ OperatorStep(t)

FaultStep ==
    \/ \E s \in DOMAIN entries : TokenExpires(s)
    \/ \E a \in Account : Revoke(a)
    \/ \E t \in Task :
         \/ RotatedReplyLost(t) \/ ClientGone(t)
         \/ PersistFails(t) \/ SaveModeFails(t)
    \/ Restart

\* Nothing is under way, or the process could not start: it may stay so.
Rest == /\ ~up \/ \A t \in Task : task[t].pc = "idle"
        /\ UNCHANGED vars

Next ==
    \/ \E t \in Task : \/ RequestCall(t) \/ RequestReport(t)
                      \/ OperatorCall(t) \/ TaskStep(t)
    \/ FaultStep
    \/ Rest

Spec == Init /\ [][Next]_vars
-----------------------------------------------------------------------------
(* Properties.                                                              *)

\* Every variable keeps its type, the local variables of the handlers and
\* the image of the credentials file included.
TypeOK ==
    /\ IsPool(entries) /\ IsFile(file)
    /\ current \in Nat
    /\ balanced \in BOOLEAN /\ savedMode \in BOOLEAN /\ up \in BOOLEAN
    /\ lock \in Task \cup {NoTask}
    /\ task = [t \in Task |-> task[t]]
    /\ \A t \in Task : TaskRecord(task[t])
    /\ issued \in [Account -> Nat]
    /\ revoked \subseteq Account /\ lostReply \subseteq Account
    /\ calls \in Nat /\ faults \in Nat

\* A credential is disabled exactly when a reason for it is recorded: the
\* self-healing and reset_and_enable decide on the reason, selection on the
\* flag, and eleven places write them.
DisabledIffReason ==
    \A s \in DOMAIN entries :
        entries[s].disabled <=> entries[s].reason # "None"

\* No credential that selection can hand out has used up its failures of
\* either kind, although the self-healing clears only one of the two counts.
EnabledBelowThreshold ==
    \A s \in DOMAIN entries :
        ~entries[s].disabled => /\ entries[s].fails < MaxFailures
                                /\ entries[s].refreshFails < MaxFailures

Refreshing(t) == /\ task[t].op # "add"
                 /\ task[t].pc \in {"refreshing", "store"}

\* At most one task is between sending a refresh token of a listed
\* credential and storing what came back (the refresh_lock of
\* try_ensure_token, get_usage_limits_for and force_refresh_token_for).
OneRefreshAtATime ==
    \A t, u \in Task : Refreshing(t) /\ Refreshing(u) => t = u

\* A credential is condemned as InvalidRefreshToken only when the upstream
\* withdrew its token or a rotated one was lost on the way, never because two
\* tasks of this process used the same refresh token one after the other.
CondemnedOnlyIfLost ==
    \A s \in DOMAIN entries :
        entries[s].reason = "InvalidRefreshToken" =>
            entries[s].cred.account \in revoked \cup lostReply

\* When no handler is about to write, the file holds the refresh token that
\* is in memory: a restart does not fall back to one that was rotated away.
FileHasNewestToken ==
    (\A t \in Task : task[t].pc \notin {"snapshot", "write"}) =>
        \A s \in DOMAIN entries : \E f \in DOMAIN file :
            /\ file[f].id = entries[s].id
            /\ file[f].cred.rt = entries[s].cred.rt

\* A credential disabled for any reason but too many failures comes back
\* only by an operator's call or a restart, never by a request's
\* self-healing or by a refresh that ends late.
RevivedByOperator ==
    [][\A s \in DOMAIN entries \cap DOMAIN entries' :
         (/\ entries[s].id = entries'[s].id
          /\ entries[s].disabled /\ ~entries'[s].disabled
          /\ entries[s].reason # "TooManyFailures")
         => \/ Restart
            \/ \E t \in Task : /\ task'[t] # task[t]
                             /\ task'[t].op \in {"setDisabled", "reset", "add"}
      ]_vars

\* A report disables at most the credential it is about, and then no enabled
\* credential is left behind while current_id stays on the disabled one.
SwitchedAway ==
    [][\A s \in DOMAIN entries \cap DOMAIN entries' :
         (/\ ~entries[s].disabled /\ entries'[s].disabled
          /\ entries'[s].reason # "Manual" /\ ~Restart)
         => /\ \A u \in DOMAIN entries \ {s} : entries'[u] = entries[u]
            /\ HasEnabled(entries') =>
                  \E u \in Enabled(entries') : entries'[u].id = current'
      ]_vars
=============================================================================
