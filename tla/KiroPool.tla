------------------------------ MODULE KiroPool ------------------------------
(***************************************************************************)
(* The credential list of kiro-rs (src/kiro-rs/src/kiro/token_manager.rs)  *)
(* and the critical sections that read or change it, as operators without  *)
(* state.  The Rust Vec<CredentialEntry> is a function from positions to   *)
(* entries: positions only give the order in which `find` and `min_by_key` *)
(* see the entries, so that two entries may (wrongly) carry the same id.   *)
(***************************************************************************)
EXTENDS Naturals, FiniteSets

CONSTANTS
    Account,      \* the upstream accounts a credential can belong to
    MaxFailures   \* MAX_FAILURES_PER_CREDENTIAL

ASSUME AccountAssumption == Account # {}
ASSUME MaxFailuresAssumption == MaxFailures \in Nat \ {0}

Reasons == {"Manual", "TooManyFailures", "TooManyRefreshFailures",
            "QuotaExceeded", "InvalidRefreshToken", "InvalidConfig"}

\* "noKey" is authMethod = api_key without a kiroApiKey.
Kinds == {"oauth", "apiKey", "noKey"}

\* What selection, refresh and deduplication look at in KiroCredentials:
\* opus = supports_opus(), rt = the generation of the account's refresh token,
\* known = the stable identity (account hash or profile ARN) is filled in.
Credential == [prio : Nat, kind : Kinds, opus : BOOLEAN, expired : BOOLEAN,
               account : Account, rt : Nat, known : BOOLEAN]

Entry == [id : Nat, cred : Credential, fails : Nat, refreshFails : Nat,
          disabled : BOOLEAN, reason : Reasons \cup {"None"}, successes : Nat]

FileEntry == [id : Nat, cred : Credential, disabled : BOOLEAN]

IsPool(p) == /\ p = [s \in DOMAIN p |-> p[s]]
             /\ DOMAIN p \subseteq Nat /\ IsFiniteSet(DOMAIN p)
             /\ \A s \in DOMAIN p : p[s] \in Entry

IsFile(f) == /\ f = [s \in DOMAIN f |-> f[s]]
             /\ DOMAIN f \subseteq Nat /\ IsFiniteSet(DOMAIN f)
             /\ \A s \in DOMAIN f : f[s] \in FileEntry

NoFile == [s \in {} |-> s]

-----------------------------------------------------------------------------
(* Reading the list.  The operators that stand for `find`, `min_by_key` or *)
(* `max` return a set with at most one element.                            *)

Slots(p, id) == {s \in DOMAIN p : p[s].id = id}

\* iter().find(|e| e.id == id): the first position that carries the id.
Find(p, id) == {s \in Slots(p, id) : \A u \in Slots(p, id) : s <= u}

Enabled(p) == {s \in DOMAIN p : ~p[s].disabled}

HasEnabled(p) == Enabled(p) # {}

\* The first position, among those in S, with the least priority.
First(p, S) ==
    {s \in S : \A u \in S : \/ p[s].cred.prio < p[u].cred.prio
                            \/ p[s].cred.prio = p[u].cred.prio /\ s <= u}

\* The first position, among those in S, with the least (successes, priority).
LeastUsed(p, S) ==
    {s \in S : \A u \in S :
        \/ p[s].successes < p[u].successes
        \/ /\ p[s].successes = p[u].successes
           /\ \/ p[s].cred.prio < p[u].cred.prio
              \/ p[s].cred.prio = p[u].cred.prio /\ s <= u}

\* The entries select_next_credential may choose from.
Eligible(p, wantsOpus) ==
    {s \in Enabled(p) : wantsOpus => p[s].cred.opus}

SelectNext(p, balanced, wantsOpus) ==
    IF balanced THEN LeastUsed(p, Eligible(p, wantsOpus))
                ELSE First(p, Eligible(p, wantsOpus))

\* The values current_id may take after a switch to the highest priority
\* enabled credential; it stays as it is when there is none.
Switch(p, current) ==
    IF HasEnabled(p) THEN {p[s].id : s \in First(p, Enabled(p))} ELSE {current}

\* The same for switch_to_next, which looks for another credential.
SwitchOver(p, current) ==
    LET others == {s \in Enabled(p) : p[s].id # current}
    IN  IF others # {} THEN {p[s].id : s \in First(p, others)} ELSE {current}

\* max(id) + 1, and the position a push appends at.
NextIds(p) ==
    IF DOMAIN p = {} THEN {1}
    ELSE {p[s].id + 1 : s \in {x \in DOMAIN p :
                                  \A u \in DOMAIN p : p[u].id <= p[x].id}}

NextSlots(p) ==
    IF DOMAIN p = {} THEN {1}
    ELSE {s + 1 : s \in {x \in DOMAIN p : \A u \in DOMAIN p : u <= x}}

-----------------------------------------------------------------------------
(* Changing one entry.                                                      *)

Succeeded(e) == [e EXCEPT !.fails = 0, !.refreshFails = 0,
                          !.successes = e.successes + 1]

Failed(e) ==
    IF e.fails + 1 >= MaxFailures
    THEN [e EXCEPT !.fails = e.fails + 1, !.disabled = TRUE,
                   !.reason = "TooManyFailures"]
    ELSE [e EXCEPT !.fails = e.fails + 1]

QuotaExhausted(e) == [e EXCEPT !.disabled = TRUE, !.reason = "QuotaExceeded",
                               !.fails = MaxFailures]

RefreshFailed(e) ==
    IF e.refreshFails + 1 >= MaxFailures
    THEN [e EXCEPT !.refreshFails = e.refreshFails + 1, !.disabled = TRUE,
                   !.reason = "TooManyRefreshFailures"]
    ELSE [e EXCEPT !.refreshFails = e.refreshFails + 1]

RefreshTokenInvalid(e) ==
    [e EXCEPT !.disabled = TRUE, !.reason = "InvalidRefreshToken"]

RefreshCountReset(e) == [e EXCEPT !.refreshFails = 0]

\* Mutant: the reason is left behind.
ReenabledFlagOnly(e) == [e EXCEPT !.fails = 0, !.refreshFails = 0,
                                  !.disabled = FALSE]

Reenabled(e) == [e EXCEPT !.fails = 0, !.refreshFails = 0,
                          !.disabled = FALSE, !.reason = "None"]

\* Mutant: a reason no reader of disabled_reason knows.
UnknownReason(e) == [e EXCEPT !.disabled = TRUE, !.reason = "Disabled"]

ManuallyDisabled(e) == [e EXCEPT !.disabled = TRUE, !.reason = "Manual"]

\* Mutants: the count stays; every disabled credential comes back.
HealedKeepingCount(e) ==
    IF e.reason = "TooManyFailures"
    THEN [e EXCEPT !.disabled = FALSE, !.reason = "None"] ELSE e

HealedAll(e) == [e EXCEPT !.disabled = FALSE, !.reason = "None", !.fails = 0]

\* The self-healing of acquire_context leaves refresh_failure_count alone.
Healed(e) ==
    IF e.reason = "TooManyFailures"
    THEN [e EXCEPT !.disabled = FALSE, !.reason = "None", !.fails = 0]
    ELSE e

\* add_credential met an account it already has: the stored priority stays,
\* a manual disable stays, any other disable is lifted.
Merged(e, c) ==
    LET merged == [e EXCEPT !.cred = [c EXCEPT !.prio = e.cred.prio]]
    IN  IF e.reason = "Manual" THEN ManuallyDisabled(merged)
                               ELSE Reenabled(merged)

NewEntry(id, c) == [id |-> id, cred |-> c, fails |-> 0, refreshFails |-> 0,
                    disabled |-> FALSE, reason |-> "None", successes |-> 0]

\* The entry with this id, if there is one, changed by Change.
Patch(p, id, Change(_)) ==
    [s \in DOMAIN p |-> IF s \in Find(p, id) THEN Change(p[s]) ELSE p[s]]

\* The report_* handlers do nothing to a credential that is disabled already.
PatchEnabled(p, id, Change(_)) ==
    [s \in DOMAIN p |-> IF s \in Find(p, id) /\ ~p[s].disabled
                        THEN Change(p[s]) ELSE p[s]]

Prioritised(p, id, prio) ==
    [s \in DOMAIN p |-> IF s \in Find(p, id)
                        THEN [p[s] EXCEPT !.cred.prio = prio] ELSE p[s]]

\* Mutant: current_id is never moved.
NeverSwitch(p, q, id, current) == {current}

\* current_id after a report_* handler: it moves only when this very report
\* disabled the credential.
SwitchIfDisabled(p, q, id, current) ==
    IF \E s \in Find(p, id) : ~p[s].disabled /\ q[s].disabled
    THEN Switch(q, current) ELSE {current}

Removed(p, id) == [s \in DOMAIN p \ Slots(p, id) |-> p[s]]

Pushed(p, s, e) == [u \in DOMAIN p \cup {s} |-> IF u = s THEN e ELSE p[u]]

-----------------------------------------------------------------------------
(* The credentials file.                                                    *)

\* What persist_credentials writes.
Image(p) == [s \in DOMAIN p |-> [id |-> p[s].id, cred |-> p[s].cred,
                                 disabled |-> p[s].disabled]]

UniqueIds(p) == \A s, u \in DOMAIN p : p[s].id = p[u].id => s = u

\* MultiTokenManager::new on a file whose credentials all have ids.
Loaded(f) ==
    [s \in DOMAIN f |->
        [id |-> f[s].id, cred |-> f[s].cred, fails |-> 0, refreshFails |-> 0,
         disabled |-> f[s].disabled \/ f[s].cred.kind = "noKey",
         reason |-> IF f[s].cred.kind = "noKey" THEN "InvalidConfig"
                    ELSE IF f[s].disabled THEN "Manual" ELSE "None",
         successes |-> 0]]
=============================================================================
