---------------------------- MODULE KiroProvider ----------------------------
(***************************************************************************)
(* KiroProvider of kiro-rs: call_api_with_retry and call_mcp_with_retry,   *)
(* the retry loop that drives MultiTokenManager.  A request acquires a     *)
(* credential, sends, and reports, forces a refresh, retries or gives up   *)
(* by what came back.  The manager's steps are KiroTokenManager's own.     *)
(***************************************************************************)
EXTENDS KiroTokenManager, Sequences

CONSTANTS
    Answers,          \* what the upstream may answer for each account
    RetriesPerCredential,  \* MAX_RETRIES_PER_CREDENTIAL
    MaxTotalRetries        \* MAX_TOTAL_RETRIES

AnswerKinds ==
    {"success", "noEndpoint", "noClient", "network", "transient", "quota",
     "refused", "denied", "badToken"}

ASSUME ProviderAssumption ==
    /\ Answers \in [Account -> SUBSET AnswerKinds]
    /\ RetriesPerCredential \in Nat \ {0} /\ MaxTotalRetries \in Nat \ {0}

VARIABLES
    rq,     \* the local variables of the request each task runs
    blame   \* per credential id, answers that spoke against the credential
            \* since one for it succeeded (kept for the properties)

providerVars == <<vars, rq, blame>>

NoRequest(result) ==
    [pc |-> "idle", opus |-> FALSE, attempt |-> 0, retries |-> 0,
     forced |-> {}, id |-> 0, tried |-> <<>>, result |-> result]

ProviderInit ==
    /\ Init
    /\ rq = [t \in Task |-> NoRequest("none")]
    /\ blame = [n \in Ids |-> 0]

\* Mutant: going round again costs nothing.
ContinueFree(t) == rq' = [rq EXCEPT ![t].id = 0, ![t].pc = "loop"]

\* How the request of t goes on: another attempt, or its end.
Continue(t) == rq' = [rq EXCEPT ![t].attempt = rq[t].attempt + 1,
                                ![t].id = 0, ![t].pc = "loop"]

\* What a request leaves behind: how it ended, its budget and its history.
Ended(t, result, tried) ==
    [NoRequest(result) EXCEPT !.retries = rq[t].retries, !.tried = tried]

Finish(t, result) ==
    rq' = [rq EXCEPT ![t] = Ended(t, result, rq[t].tried)]

\* Both loops read the number of credentials once, before they start.
Start(t, opus, wanted) ==
    /\ up /\ rq[t].pc = "idle" /\ Counted
    /\ rq' = [rq EXCEPT ![t] =
         [NoRequest("none") EXCEPT
            !.pc = "loop", !.opus = opus,
            !.retries = IF wanted < MaxTotalRetries
                        THEN wanted ELSE MaxTotalRetries]]
    /\ UNCHANGED <<entries, current, balanced, savedMode, lock, file, task, up,
                   upstream, blame>>

\* Mutant: the budget of one credential, however many there are.
StartForOne(t, opus) == Start(t, opus, RetriesPerCredential)

StartRequest(t, opus) ==
    Start(t, opus, Cardinality(DOMAIN entries) * RetriesPerCredential)

NextAttempt(t) ==
    /\ up /\ rq[t].pc = "loop"
    /\ rq[t].attempt < rq[t].retries
    /\ Acquire(t, rq[t].opus)
    /\ rq' = [rq EXCEPT ![t].pc = "acquiring"]
    /\ UNCHANGED <<calls, faults, blame>>

OutOfAttempts(t) ==
    /\ up /\ rq[t].pc = "loop"
    /\ rq[t].attempt >= rq[t].retries
    /\ Finish(t, "err")
    /\ UNCHANGED <<vars, blame>>

\* One step of acquire_context; an error costs an attempt.
AcquireProceeds(t) ==
    /\ rq[t].pc = "acquiring"
    /\ AcquireStep(t) \/ LockStep(t) \/ RefreshStep(t) \/ StoreStep(t)
    /\ \/ task'[t].pc = "idle" /\ Continue(t)
       \/ task'[t].pc = "ready" /\ rq' = [rq EXCEPT ![t].pc = "send"]
       \/ task'[t].pc \notin {"idle", "ready"} /\ UNCHANGED rq
    /\ UNCHANGED blame

Got(t, answer) ==
    /\ rq[t].pc = "send"
    /\ answer \in Answers[task[t].cred.account]

\* rq with what the request tried, used for the history in tried.
Note(t, answer) == Append(rq[t].tried, <<task[t].id, answer>>)

ContinueAfter(t, answer) ==
    rq' = [rq EXCEPT ![t].attempt = rq[t].attempt + 1, ![t].pc = "loop",
                     ![t].tried = Note(t, answer)]

FinishAfter(t, answer, result) ==
    rq' = [rq EXCEPT ![t] = Ended(t, result, Note(t, answer))]

Blame(id) == blame' = [blame EXCEPT ![id] = @ + 1]

Succeeds(t) ==
    /\ Got(t, "success")
    /\ ReportSuccess(t)
    /\ blame' = [blame EXCEPT ![task[t].id] = 0]
    /\ FinishAfter(t, "success", "ok")

\* The credential names an endpoint that is not registered: nothing is sent,
\* a failure is counted, and whether anything is left is not asked.
UnknownEndpoint(t) ==
    /\ Got(t, "noEndpoint")
    /\ ReportFailure(t)
    /\ Blame(task[t].id)
    /\ ContinueAfter(t, "noEndpoint")

\* The HTTP client cannot be built: the error leaves the whole loop.
NoClient(t) ==
    /\ Got(t, "noClient")
    /\ Abandon(t)
    /\ FinishAfter(t, "noClient", "err")
    /\ UNCHANGED blame

\* Mutant: a transient failure counts against the credential.
TransientCounted(t) ==
    /\ \E answer \in {"network", "transient"} :
         Got(t, answer) /\ ContinueAfter(t, answer)
    /\ ReportFailure(t)
    /\ UNCHANGED blame

\* A network error, 408, 429, 5xx or an unknown status: sleep and try again.
Transient(t) ==
    /\ \E answer \in {"network", "transient"} :
         Got(t, answer) /\ ContinueAfter(t, answer)
    /\ Abandon(t)
    /\ UNCHANGED blame

QuotaUsedUp(t) ==
    /\ Got(t, "quota")
    /\ ReportQuotaExhausted(t)
    /\ IF HasEnabled(entries') THEN ContinueAfter(t, "quota")
                               ELSE FinishAfter(t, "quota", "err")
    /\ UNCHANGED blame

\* 400 and the other 4xx: the request itself is at fault.
Refused(t) ==
    /\ Got(t, "refused")
    /\ Abandon(t)
    /\ FinishAfter(t, "refused", "err")
    /\ UNCHANGED blame

\* 401 and 403, and an invalid bearer token after its one forced refresh.
Denied(t) ==
    /\ \E answer \in {"denied", "badToken"} :
         /\ Got(t, answer)
         /\ answer = "badToken" => task[t].id \in rq[t].forced
         /\ ReportFailure(t)
         /\ IF HasEnabled(entries') THEN ContinueAfter(t, answer)
                                    ELSE FinishAfter(t, answer, "err")
    /\ Blame(task[t].id)

\* The upstream rejects the bearer token: force one refresh per credential.
BearerRejected(t, remembered) ==
    /\ Got(t, "badToken")
    /\ task[t].id \notin rq[t].forced
    /\ Abandon(t)
    /\ rq' = [rq EXCEPT ![t].forced = remembered, ![t].pc = "force",
                        ![t].id = task[t].id, ![t].tried = Note(t, "badToken")]
    /\ UNCHANGED blame

\* Mutant: the forced refresh is not remembered.
BadTokenForgotten(t) == BearerRejected(t, rq[t].forced)

BadToken(t) == BearerRejected(t, rq[t].forced \cup {task[t].id})

StartForce(t) ==
    /\ rq[t].pc = "force"
    /\ ForceRefresh(t, rq[t].id)
    /\ rq' = [rq EXCEPT ![t].pc = "forcing",
                        ![t].tried = Append(@, <<rq[t].id, "force">>)]
    /\ UNCHANGED <<calls, faults, blame>>

ForceProceeds(t) ==
    /\ rq[t].pc = "forcing"
    /\ LockStep(t) \/ RefreshStep(t) \/ StoreStep(t)
    /\ \/ task'[t].pc # "idle" /\ UNCHANGED rq
       \/ task'[t].pc = "idle" /\ task'[t].result = "ok" /\ Continue(t)
       \/ /\ task'[t].pc = "idle" /\ task'[t].result = "err"
          /\ rq' = [rq EXCEPT ![t].pc = "report"]
    /\ UNCHANGED blame

\* The forced refresh failed: the failure counts after all.
ReportAfterForce(t) ==
    LET patched == PatchEnabled(entries, rq[t].id, Failed)
    IN  /\ up /\ rq[t].pc = "report"
        /\ entries' = patched
        /\ current' \in SwitchIfDisabled(entries, patched, rq[t].id, current)
        /\ IF HasEnabled(patched) THEN Continue(t) ELSE Finish(t, "err")
        /\ Blame(rq[t].id)
        /\ UNCHANGED <<balanced, savedMode, lock, file, task, up, upstream,
                       calls, faults>>

Answer(t) ==
    \/ Succeeds(t) \/ UnknownEndpoint(t) \/ NoClient(t) \/ Transient(t)
    \/ QuotaUsedUp(t) \/ Refused(t) \/ Denied(t) \/ BadToken(t)

RequestStep(t) ==
    \/ NextAttempt(t) \/ OutOfAttempts(t) \/ Answer(t) \/ StartForce(t)
    \/ ReportAfterForce(t)

ProviderRest ==
    /\ \A t \in Task : rq[t].pc = "idle"
    /\ UNCHANGED providerVars

\* Tokens expire while requests run.
ProviderFault ==
    /\ \E s \in DOMAIN entries : TokenExpires(s)
    /\ UNCHANGED <<rq, blame>>

ProviderNext ==
    \/ \E t \in Task :
         \/ \E opus \in Models : StartRequest(t, opus)
         \/ RequestStep(t) \/ AcquireProceeds(t) \/ ForceProceeds(t)
    \/ ProviderFault
    \/ ProviderRest

ProviderSpec == ProviderInit /\ [][ProviderNext]_providerVars

\* As for the manager: tasks are scheduled, the upstream answers or times
\* out, back-off sleeps end, the refresh lock is granted in order.
ProviderFairSpec ==
    /\ ProviderSpec
    /\ \A t \in Task :
         /\ WF_providerVars(RequestStep(t))
         /\ SF_providerVars(AcquireProceeds(t))
         /\ SF_providerVars(ForceProceeds(t))
-----------------------------------------------------------------------------
(* Properties.                                                              *)

Count(tried, p) == Cardinality({i \in DOMAIN tried : tried[i] = p})

Sends(tried) == {i \in DOMAIN tried : tried[i][2] # "force"}

\* A request never sends more often than the budget it computed when it
\* started, also when a forced refresh makes it repeat a send and when other
\* requests disable and heal credentials meanwhile (MAX_TOTAL_RETRIES).
SendsWithinBudget ==
    \A t \in Task : Cardinality(Sends(rq[t].tried)) <= rq[t].retries

\* A request forces at most one refresh of a credential, however often the
\* upstream rejects its bearer token.
ForcedOncePerCredential ==
    \A t \in Task, s \in DOMAIN entries :
        Count(rq[t].tried, <<entries[s].id, "force">>) <= 1

\* A credential is disabled for too many failures only after that many
\* answers in a row spoke against it: network errors, 408, 429 and 5xx of
\* any number of requests never lock a credential out.
BlamedBeforeDisabled ==
    [][\A s \in DOMAIN entries :
         entries[s].reason # "TooManyFailures"
         /\ entries'[s].reason = "TooManyFailures"
            => blame'[entries[s].id] >= MaxFailures]_providerVars

\* Failover: no request fails while some listed credential would serve it,
\* even if every other credential has to be tried until it is disabled and
\* other requests do the same at the same time.
FailoverReachesHealthy ==
    \A t \in Task : rq[t].result = "err" =>
        \A s \in DOMAIN entries :
            Answers[entries[s].cred.account] # {"success"}

\* Every request ends, whatever the upstream answers.
EveryRequestEnds ==
    \A t \in Task : rq[t].pc # "idle" ~> rq[t].pc = "idle"
=============================================================================
