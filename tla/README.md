# cpa-pro: a TLA+ development beside the code

The repository holds two servers and the scripts that install them:

- **cli-proxy-api** (Go, port 8317): a gateway. It keeps a list of upstream
  accounts ("auths"), picks one for each request, tracks cooldowns and quotas,
  refreshes tokens, follows a directory of auth files and a relay websocket.
- **kiro-rs** (Rust, port 8990): an Anthropic-compatible API over Kiro
  accounts. It keeps a list of credentials, picks one for each request,
  refreshes OAuth tokens, retries and fails over, decodes the upstream's binary
  event stream and turns it into server-sent events. The gateway can use it as
  one of its Claude upstreams; the two share nothing but HTTP.

This directory holds TLA+ modules that model the code, TLC configurations that
check them on small instances, and theorems that TLAPS proves for every value
of the constants. `PROJECT.json` lists the components, the runs, which source
lines each definition stands for, the hazards and the theorems.

## 1. Inventory

### kiro-rs

| component | state | operations | interacts with |
|---|---|---|---|
| token manager (`kiro/token_manager.rs`) | `entries` (credential, failure counts, flag, reason, successes), `current_id`, `load_balancing_mode`, `refresh_lock`, the credentials file, the statistics file | `acquire_context`, `try_ensure_token`, `report_success/failure/quota_exhausted/refresh_failure/refresh_token_invalid`, `force_refresh_token_for`, `get_usage_limits_for`, `set_disabled`, `set_priority`, `reset_and_enable`, `add_credential`, `delete_credential`, `set_load_balancing_mode`, `persist_credentials` | called by provider and admin service from a multi-threaded runtime; calls the refresh endpoints |
| provider (`kiro/provider.rs`) | per request: attempt, the credentials it already force-refreshed | `call_api_with_retry`, `call_mcp_with_retry` | acquires, sends, reports |
| admin service (`admin/`) | balance cache | thin wrappers of the manager | manager |
| event-stream decoder (`kiro/parser/`) | buffer, four states, error count | `feed`, `decode`, `reset`, recovery | fed by the response stream |
| SSE conversion (`anthropic/stream.rs`, driven by `anthropic/handlers.rs`) | open and closed content blocks, the text held back for a tag, tool calls, stop reason, token counts | one handler per upstream event, `generate_initial_events`, `generate_final_events` | reads decoded events, feeds the client's response |
| request conversion, endpoints, start-up, web interface | none that outlives a call | - | - |

What makes the token manager hard: every handler is a sequence of critical
sections of `entries` with awaits between them, so each of them acts on clones
that another handler may have made stale; a refresh token can be used once,
because the upstream rotates it; the file is written by whoever comes last;
automatic disables and self-healing work on counts while selection works on a
flag; ids are computed in one critical section and used in another.

Properties that make it correct: a flag and a reason that agree; nothing
selectable above the failure threshold; one refresh at a time; a token
condemned only when it really is lost; the newest token on disk; what an
operator disabled stays disabled; a switch away from a disabled credential;
unique ids. For the provider: a bounded number of sends, one forced refresh per
credential, no credential locked out by transient errors, failover that reaches
a healthy credential, and an end to every request. For the SSE conversion: a
well-formed message, with all of the text in it, and the same answer as without
streaming, wherever the upstream cut its text.

### cli-proxy-api

| component | state | hard behaviour |
|---|---|---|
| auth manager (`sdk/cliproxy/auth/conductor.go`) | the map of auths with status, cooldowns and per-model state | `MarkResult` of many requests, `Update` of whole clones by a refresh that began earlier, retry and cooldown |
| auto-refresh loop (`auto_refresh_loop.go`) | a heap of due times, dirty set, worker channel | a blocking send to workers, rescheduling while a refresh is under way |
| scheduler and selectors | a copy of the auths, kept by `upsertAuth` | copies that arrive late and out of order, resynchronisation on a failed pick |
| model registry (`internal/registry/model_registry.go`) | clients, models with reference counts, suspended and quota marks, a cached list | counts against mentions, a cache against marks that lapse by themselves |
| service (`sdk/cliproxy/service.go`) | - | one consumer of auth updates against the callback for changed model definitions; websocket connect and disconnect |
| watcher (`internal/watcher/`) | per-file hashes, current and runtime auths, pending updates | comparing under one lock and dispatching under another, coalescing by id, a bounded channel |
| websocket relay (`internal/wsrelay/`) | sessions, pending requests with channels | send on a channel another goroutine closes, cleanup against register, a full channel of eight |
| memory concurrency limiter (`internal/api/memory_concurrency.go`) | limit, in flight, waiters | limit changed while requests wait |
| OAuth sessions, usage manager, API handlers, stores, executors and translators, management API, terminal interface | small or none | sequential or pure input and output |

Properties that make them correct: a request is turned away only if no auth
was available, and every request ends; a removed auth is not selected, whatever
arrives late; a due auth is refreshed, once; the update queued last is the one
that is served; the file is served as it is; counts and cached list of the
registry are exact; a relay request returns, and complete; a slot is neither
lost nor given twice.

`PROJECT.json` "components" lists every part with its files and what is or is
not modelled; "hazards" lists, line by line, what a test would hardly reach.

Calls between the two halves of the gateway: the watcher and the relay produce
auth updates, the service applies them to the auth manager, the registry and
the scheduler; API handlers ask the auth manager to execute, which selects
through the scheduler, calls an executor and reports with `MarkResult`; the
auto-refresh loop calls the manager's refresh and update. Every API request
passes the memory limiter first.

## 2. Plan

Order, most important first. All but the last are done.

1. **KiroPool, KiroTokenManager**: the credential pool of kiro-rs, every
   handler cut at its awaits and critical sections.
2. **KiroProvider**: the retry loops over KiroTokenManager's own actions.
3. **WsRelay**: the relay's goroutines and channels.
4. **MemoryLimiter**: the limiter.
5. **GatewayAuth**: manager, scheduler and the service's handlers over one
   auth's state, which is kept three times.
6. **GatewayRefresh**: the auto-refresh loop and the methods of the manager it
   works on.
7. **KiroStream**, with **SseMessage** as the abstract specification it
   implements.
8. **GatewayRegistry** and **GatewayWatcher**, which extends it: how a change of
   a file or a session reaches the requests.
9. Left: **KiroDecoder**, the decoder's state machine with its recovery scan and
   error limit (section 6 tells what reading it showed).

## 3. Modules

| module | models | code |
|---|---|---|
| `KiroPool` | a credential entry and what one critical section of `entries` does to the list: selection, counting, disabling, healing, switching, merging, deleting; file entries and loading | `token_manager.rs`, `credentials.rs` |
| `KiroTokenManager` | the handlers as processes over the list, the lock, the file and the upstream's view of each account; EXTENDS KiroPool | `token_manager.rs`, `admin/service.rs` |
| `KiroProvider` | retry loops; EXTENDS KiroTokenManager and takes its actions as they are | `provider.rs` |
| `KiroStream` | one answer on its way from upstream events to server-sent events | `anthropic/stream.rs`, `anthropic/handlers.rs` |
| `SseMessage` | what a client may expect of the events of an answer; KiroStream implements it | head of `SseStateManager` |
| `GatewayAuth` | requests, the service, the catalog callback and writers over manager, scheduler and registry, for one model | `conductor.go`, `scheduler.go`, `service.go` |
| `GatewayRefresh` | the refresh loop, workers and callers | `auto_refresh_loop.go`, `conductor.go` |
| `GatewayRegistry` | registrations, marks, the cached list | `model_registry.go` |
| `GatewayWatcher` | file events, reloads, the relay's callbacks, the update queue, the service's consumer, late results; EXTENDS GatewayRegistry | `internal/watcher/`, `service.go`, `conductor.go` |
| `WsRelay` | connections, dispatch, requests, cancellation, cleanup, Stop | `internal/wsrelay/` |
| `MemoryLimiter` | acquire, release, reload, monitor, close | `internal/api/memory_concurrency.go` |
| `KiroTokenManagerProofs`, `KiroProviderProofs`, `KiroStreamProofs`, `GatewayAuthProofs`, `GatewayRefreshProofs`, `GatewayWatcherProofs`, `WsRelayProofs`, `MemoryLimiterProofs` | theorems | - |
| `MC*` | small instances for TLC | - |

Definitions called a *mutant* in their comment model a plausible mistake in the
definition after them (a dropped guard, a wrong order). No specification uses
them; they show that a property can fail.

### KiroTokenManager

State. `entries` is the `Vec` behind the mutex, in the order of the file;
`current` is `current_id`; `lock` is the owner of `refresh_lock`; `file` is the
credentials file, `task[t]` the local variables of handler `t`, among them
its clone of a credential, the image of the file it is about to write and the
step it has reached (`pc`). `issued`, `revoked` and `lostReply` are external:
which generation of the refresh token the upstream accepts for each account,
and whether it withdrew it or its reply got lost. A token is an account and a generation.

Atomicity. One action is one critical section of `entries` with the pure
computation around it; every `await` on the refresh lock, on the upstream and
every file operation separates two actions. Two merged steps lose nothing: the
first expiry test of `try_ensure_token` works on the clone that selection just
made, so it is part of the selecting action; taking the refresh lock and the
re-read under it touch `entries` once, so they are one action. A handler whose
client disconnects is dropped by the HTTP server at its next await, with the
lock released (`Faults`: `cancel`). `persist_credentials` takes an image and
writes it in a second step; the write may fail, and the handlers differ in what
they do then. A restart loses every handler and loads the file. The statistics
file appears as success counts chosen freely at a restart.

Data. Times are "expires soon" or not; strings are model values; a credential
keeps account, kind (OAuth or API key), the generation of its refresh token,
whether it is about to expire, priority and whether it supports opus. Identity
in `add_credential` is the account. All credentials of a file have ids, and the
file is the multiple-credential format, the one that is written back.

### KiroProvider

Each request is a handler with an attempt counter and the set of credentials it
has forced a refresh for. An attempt acquires (with the whole of
KiroTokenManager's acquisition), sends, and meets an answer chosen from the
classes that the status and body tests of the loop tell apart; the report that
follows is again KiroTokenManager's action. The MCP loop differs only in how it
chooses its endpoint and is the same state machine.

### KiroStream and SseMessage

State. `ctx` is the `StreamContext` with its `SseStateManager`: the buffer of
text held back, where the answer stands (`before`, `inside` or `done` with its
thinking block), the block map as a sequence, the indexes of the current text,
thinking and tool blocks, stop reason and token count, and the events that were
produced but not sent. `upstream` is what may still come, `client` what a client
has made of the events it received; `fed`, `split` and `notes` are history.

Actions. `ReceiveText`, `ReceiveToolUse`, `ReceiveNote` are
`process_kiro_event` for each kind of event; `Finish` is
`generate_final_events` after the upstream ended or failed; `Deliver` sends one
event. A `buffered` answer (`create_buffered_sse_stream`) sends nothing before
its end and corrects the token count in its first event.

Data. Text is a sequence of `Units`: letters, blanks, a quote, and tags of two
units each, so that a chunk can end within a tag. What is held back scales with
it. The token estimate is one value, what the upstream reports another.

Refinement. `SendsAMessage` is `SseMessage!Spec` under the mapping of `client`:
every event the client receives is a step of the abstract message, every other
step of KiroStream stutters.

### WsRelay

Goroutines: one per request, one that watches the request's context, one reader
per session, and the one that runs a session's `cleanup`. A request's channel is
a bounded sequence with a closed flag; a send on a closed channel ends the
process (`crashed`), except in the handler's goroutine, where gin recovers it
and the request ends with an error. `LoadAndDelete` followed by `close` is one
action (whoever deletes is the only one to close), the closed-check and the
write of a request are one; looking up a channel and sending on it are two, in
the reader and in `cleanup`, and storing, re-loading and sending a request are
three. `stream_start` and `stream_chunk` are one kind of message, so are
`http_response` and `stream_end`. Pings and payloads are left out, so is the
service's `onConnected`/`onDisconnected`. The heartbeat may fail at any moment
after the session runs.

### MemoryLimiter

Each request slot is somewhere in `acquire`, waiting, or served with or without
a slot of the limiter. A waiter on the current channel is `blocked`, one whose
channel has been closed is `woken`, so that closing and replacing the channel is
one assignment. Memory is nondeterministic. Configurations are those
`LoadConfigOptional` lets through: positive bounds in order, the first limit
between them, off without a target.

### GatewayAuth

State. The state of an auth is kept three times: `auths` is the manager's map
(`m.mu`), `sched` what the scheduler's shard of the model has of it (`s.mu`),
`registered` what the registry says (a lock of its own). For one model an auth
has a status, whether its model state is missing, clean or in error,
`NextRetryAfter`, `Quota.NextRecoverAt` and the cooldown its backoff level
stands for. `req[r]` are the locals of `executeMixedOnce` and its retry loop.

Processes. Requests, the service's consumer of auth updates, the callback for
changed model definitions, and writers (refresh workers and management
handlers, which read a copy, take their time, and `Update`). Each has the steps
it has left to do in `todo` and what it holds in `held`; one step is one
critical section. So the code's central hazard shows: whoever changes the map
clones the entry under `m.mu` and calls `scheduler.upsertAuth` after unlocking
(`Post`), and the clones arrive late and in any order. `Register` and `Update`
hand the scheduler the very object they put into the map: while it is there and
not yet handed over (`shared`), a result recorded in place shows in it.

Requests pick through the scheduler; a failed pick lists the map, rebuilds the
scheduler and asks once more (`PickFails`, `List`, `Rebuild`, `repick`), which
is `pickNextMixed` with `syncScheduler`. A route that needs an alias picks from
the map without the scheduler (`Legacy`). `Answer` is `MarkResult`, with one
class of outcome for each cooldown it computes. `RegisterModels`, `Reconcile`,
`Snapshot` are `registerModelsForAuth`, `ReconcileRegistryModelStates` and
`RefreshSchedulerEntry`.

Data. Priorities and the strategies of the selectors are left out: any
available auth may be picked. Times are ticks until an instant. `doubt` is
history: which auths a request may rightly have missed since its rebuild.

### GatewayRefresh

State. The manager's `auths` (disabled, `NextRefreshAfter`, ticks until the
token expires); the loop's `heap` of due times, `dirty` set, wake-up channel of
one, bounded `jobs`; where the loop is in its round, and what each goroutine
holds and has left to do.

Actions. `Publish`, `Rebuild` are `StartAutoRefresh`, which publishes the loop
before it takes its picture of the auths; `WakeUp`, `TimerFires` the select;
`HandleDue`, `MarkPending`, `Reread`, `SendJob` are `handleDueAuth` with
`markRefreshPending`, cut at each lock of the manager; `Drain`, `Apply`, `Put`
are `applyDirty`; `TakeJob`, `RefreshFails`, `RefreshSucceeds` a worker with
`refreshAuth`; `Store` a caller's `Register` or `Update` with a copy of any age.
Every write of an auth adds its id to the dirty set and posts a wake-up, each in
a step of its own. `Reload` turns refreshing on and off.

Time is relative: each timer counts down with `Tick`. A round of the loop uses
the clock reading of its beginning, so a round may lag behind by `MaxLag`
ticks. A refresh carries, as history, how much is left of the pending back-off
it was marked with, and loses it when the entry is written over.

### GatewayRegistry and GatewayWatcher

Every operation of the registry runs under one mutex and is one step. A client
may name a model more than once and then counts as often; registering again
works by differences: references that stay move to the new provider, then
removals, then additions, and the marks of the models named are lifted. Marks
are a suspension with its first reason and a quota mark that lapses after
`Window` ticks. `GetAvailableModels` fills a cache that every change drops and
that expires with the first mark.

The watcher has one auth file and one runtime auth, that of a websocket
provider. Four goroutines find out what has changed (file events, start-up and
reload, the relay's two callbacks). Each reads first, compares with `known`
(`currentAuths`) under `clientsMutex`, and queues the differences under
`dispatchMu` after it (`Dispatch`), so that two can queue in the other order
than they compared in. The dispatch loop takes all that is pending as a batch
(`NextBatch`) and puts it into a channel of bounded capacity (`Deliver`); the
service's consumer applies one update after another, an addition to the manager
first and then to the registry, a removal the other way round. A request that
ends late sets its marks whatever has become of its auth.

Abstractions: one reload at a time, one auth to a file, each update of the
service applied without the scheduler (which is GatewayAuth's). `raced` is
history: one of four races has occurred that can leave the service with an old
file (section 6).

### Steps merged or left out

Each of these was judged not to change what a property can tell:

- `KiroTokenManager.Ensure`: a credential that is not about to expire has its
  access token. `try_ensure_token` fails for one without (`token_manager.rs:987-990`),
  which takes a file edited by hand; the failure would be counted as a failed
  refresh is.
- `KiroStream.ReceiveToolUse`: the upstream sends nothing for a tool call after
  its stop. A delta that came would be dropped with a warning
  (`stream.rs:413-421`): `NothingSwallowed` assumes this of the upstream.
- `WsRelay.Register`: the heartbeat runs from `newSession` on (`session.go:61`),
  so a session could be cleaned up before it is connected; in the model only
  afterwards. The first heartbeat is due after thirty seconds. The exit for a
  provider factory that fails (`manager.go:133-136`) closes a session nobody
  knows of.
- `GatewayAuth.Reconcile` reads the registry (`conductor.go:277`) and changes the
  manager's map under `m.mu` (`:293`) in one step.
- `GatewayRefresh.TakeJob`: the receive from the channel
  (`auto_refresh_loop.go:78-91`) with the clone that `refreshAuth` takes under
  the lock (`conductor.go:3415`). In between the worker holds only an id.
- `GatewayWatcher.ReloadConfig`: reloads do not overlap, although the timer of
  `scheduleConfigReload` may fire again during one (`config_reload.go:35`).
- `GatewayWatcher.Stat`: `os.Stat` and the first `ReadFile` are one step (a second
  read, `Reopen`, is one of its own), and a file is never empty or invalid
  (`clients.go:155-169`).

## 4. Runs

| run | question | result |
|---|---|---|
| `kiro_requests` | two requests over two OAuth accounts, with expiry, withdrawn tokens, lost replies, disconnects: do lock, counters, condemnation and file stay right? | passes |
| `kiro_handlers` | every pair of handlers, with a failed write or a restart: do flag and reason agree, does only an operator revive, does a disabling report switch away? | passes |
| `provider_failover` | two requests race over three keys of which two fail, thresholds as in the code: does each reach the third within its attempts? | passes |
| `provider_answers` | every class of answer: is the send budget kept, a refresh forced once, nobody disabled without blame, and does every request end? | passes |
| `stream_answers` | texts with tags cut anywhere, tool calls and reports between them, streamed and buffered: is the answer a well-formed message with everything in it, the same as in one piece but for a closing tag that leaks? | passes |
| `gateway_auth_requests` | two requests over two auths, results racing to the scheduler, cooldowns, retries: is anybody turned away without a reason, does every request end? | passes |
| `gateway_auth_updates` | an auth added, removed, registered again and written back by whoever read it earlier, used by a request: can it be selected after its removal? | passes |
| `gateway_auth_catalog` | a removal meets the callback for changed model definitions: does the registry agree with the manager afterwards? | violated |
| `gateway_refresh` | loop, worker and caller in every order: is anything looked at too late, a wake-up lost, an auth refreshed twice at a time, a due auth never refreshed? | passes |
| `gateway_files` | a file written, replaced and removed while the watcher starts and reloads, a websocket provider comes and goes, results arrive late: is what was queued last served, the file served, the registry exact? | passes |
| `relay_requests` | a connection breaks, is replaced or stopped, channels fill, clients leave: does the request return, and with the right result? | passes |
| `limiter_waiters` | three requests for up to two slots with reloads and stop: lost wakeups, leaked slots, starvation? | passes |

### What the violated run shows

`gateway_auth_catalog`: `refreshModelRegistrationForAuth` registers the models
of the auth it has read, reads the auth again and registers what it finds then
(`service.go:1080`), under no lock that `applyCoreAuthRemoval` takes. Its
comment says that concurrent updates cannot leave stale registrations behind
(`:1076`). A removal whose two steps fall around the second registration leaves
the models of a disabled auth registered: model lists name them, and requests
for them find no auth. `RemovedStaysOut` holds all the same: the scheduler looks
at the auth's status too.

### Bounds, and why they are enough

- kiro-rs handlers: two handlers and a bound `MaxCalls` of two or three calls.
  Each hazard listed is between two handlers or between a handler and the
  environment, and a third call is what meets the state that two have left.
  Handlers are symmetric (`SYMMETRY`, not in `provider_answers`, where liveness
  is checked). `MaxFaults = 1`: one expiry, lost reply, withdrawal, disconnect,
  failed write or restart per behaviour; two are not combined.
- `MaxFailures` is 3 in the code: 3 in `provider_failover`, where the arithmetic
  of attempts and thresholds matters; 1 or 2 elsewhere, so that the threshold is
  reached within the calls. Three accounts where switching or merging matters,
  otherwise two.
- `RetriesPerCredential` and `MaxTotalRetries` are 3 and 9 in the code and in
  `provider_failover`; 2 and 2 in `provider_answers`, where the boundary has to
  be reached with more kinds of answers.
- `stream_answers`: up to four words of an open tag with a letter, a closing
  tag, a blank line, another blank, a letter and a quote, cut at every unit; with one tool call
  or report beside three words, two beside two words, and buffered answers of
  one word with two. A tag, what goes before it and what decides whether it
  counts fit into four words. Two tools, so that one call can begin while
  another is open. Four words are also enough for a closing tag with three blanks
  behind it, one more than is held back with it. The other blank is a tab, not a
  space: every definition treats the two alike, but the code adds a space of its
  own to an answer with nothing but thinking, and `StopReasonMatches` could not
  tell it from one that was received.
- `gateway_auth_requests`: two auths, two requests, one retry; outcomes with a
  short cooldown, with a time the upstream asks for, and success. The other
  outcomes are met in `gateway_auth_updates`, with one auth, one request and one
  process of each other kind: a request, a writer and the catalog callback can
  each hold an older copy while the service removes the auth and adds it again.
  In both, processes that read and write go on for ever. `Legacy` is empty in
  the runs; the theorems hold for any.
- `gateway_refresh`: one auth (the heap's order among several is the only thing
  several share), one worker, one caller, a job channel of one (so that the
  loop's send blocks), durations of one or two ticks, and a round that may take
  one.
- `gateway_files`: three acts of the environment (a write, a removal, a reload,
  a session, a request), each of which sets off a chain of steps of several
  goroutines; two contents with different providers and models, one of which
  names a model twice; a channel of one.
- Relay: one request, two connections of one provider, a channel of one (eight
  in the code), one part of a stream, one Stop. Requests meet only through the
  reader, which takes one message after another. Two connections share a
  provider only with a `ProviderFactory`; without one each has a name of its own
  (`manager.go:131-145`). The service builds the relay without one
  (`service.go:210`), so a replacement, and what `ConnectedIsRegistered` says of
  it, is a promise of `Manager` to another user of the package.
- Limiter: unbounded in time; three slots, limits of one and two, and three
  configurations.

Deadlock is checked except in the GatewayAuth runs and `gateway_files`, where
the system may come to rest with nothing to do. In the others `Rest` (WsRelay,
KiroTokenManager) and `Ended` (KiroStream) are the explicit step of a system
that has nothing left to do within the bounds; any other stop is an error.

### Fairness

- Provider (`ProviderFairSpec`): weak fairness of each request's steps (the HTTP
  clients have timeouts, back-off sleeps end, the runtime schedules every ready
  task) and strong fairness of taking the refresh lock (tokio's mutex is first
  come, first served; the lock is free again and again, but not continuously).
- GatewayAuth: weak fairness of time and of each request's own steps; upstream
  calls have timeouts. Nothing is assumed of the service, the callback and the
  writers.
- GatewayRefresh: Go's select chooses among its ready cases at random, so
  neither of the loop's two cases starves: strong fairness of `WakeUp` and
  `TimerFires`. Weak fairness of the loop's other steps, the workers, the posts
  and time. `EveryDueAuthIsRefreshed` excepts behaviours in which callers never
  stop writing auths.
- Relay: weak fairness of each goroutine; writes have a deadline of ten seconds.
  Nothing is assumed of the peer or the client.
- Limiter: weak fairness of time passing and of a waiter whose timer has fired
  or who has been woken (Go's mutex does not starve). No fairness for handlers:
  they may run for ever.
- KiroStream and GatewayWatcher: safety (and the refinement) only.

## 5. Proofs

Assumptions, all named and evaluated by TLC in the runs: `AccountAssumption`,
`MaxFailuresAssumption`, `NoTaskAssumption`, `InputAssumption` (KiroPool,
KiroTokenManager), `ProviderAssumption`, `RequestAssumption`,
`ConfigAssumption` (MemoryLimiter), `SessionAssumption`, `BoundAssumption`
(WsRelay), `AuthConstants`, `RefreshConstants`, `RegistryConstants`,
`WatcherConstants`, `StreamConstants`, `ToolsAreNoText`. They say no more than what the code's
constants and the sets of identifiers satisfy; `ToolsAreNoText` keeps the ids that stand for
pieces of a tool's input apart from the units of a text, which are other fields of other events.

**Token manager.** `IInv` is the type invariant, `Sound` of every entry, and
`LockHeld`.

- `TypeCorrect`: every critical section keeps the list, the file, images in
  flight and local variables well formed.
- `FlagAgreesWithReason` (`DisabledIffReason`): disabled exactly if there is a
  reason.
- `EnabledIsBelowThreshold` (`EnabledBelowThreshold`): not inductive as it
  stands, because the self-healing clears the failure count of entries
  disabled by too many failures and leaves their refresh failures alone. It
  needs that an entry disabled for that reason has few refresh failures, the
  third conjunct of `Sound`.
- `RefreshesExclude` (`OneRefreshAtATime`): from `LockHeld`, which says that
  whoever is between sending a refresh token and storing the reply owns the
  lock; a forced refresh and an ordinary one take the same lock.

- `OnlyOperatorsRevive` (`RevivedByOperator`) and `ReportsSwitchAway`
  (`SwitchedAway`): action properties. They need which step belongs to which
  handler (`HandlerInv`: the steps each operation can have reached), because the
  same steps (`write`, `store`) end calls of requests and of operators.
- `FileKeepsUp` (`FileHasNewestToken`), under `RequestsOnly`: requests and forced
  refreshes only, and no write fails. An operator takes an image of the list
  without the lock and may write it after a refresh (section 6), so it does not
  hold with them. `SavedInv`: whoever is about to take or write an image owns
  the lock, the image covers the list's tokens, and so does the file when nobody
  is.
- `CondemnedForALoss` (`CondemnedOnlyIfLost`), under `TokensTraceable`: nobody
  adds a credential, the process is not restarted, and the initial file names
  every OAuth account once with its first token. A pasted token or an older file
  can carry a token the upstream has replaced, which nobody lost: then it does
  not hold. `TokensInv` traces the token of each entry to the one the upstream
  expects, to a lost reply, or to a handler about to store it, and says what a
  handler knows of the credential between its choice and its store.

Layout: first one lemma per operation on the list (types and `Sound` preserved),
then `OneTaskMoves`, which states once what a step of one handler has to show,
then one lemma per action.

**Provider.** `ProviderInv` is the manager's `IInv`, with `Requests` (every
request within its `Budget`, every forced refresh in what it `Remembered`) and
`Blamed`. `SendsWithinBudget` and `ForcedOncePerCredential` follow from
`Requests`. `BlamedBeforeDisabled` needs that an enabled credential's count is
no higher than the number of answers that spoke against it since its last
success, and a lemma on what a step of the manager may do to the counts
(`Harmless`: keep an enabled credential's count or set it to zero).
`ManagerUnharmed` carries `OneRefreshAtATime` over to the composition.
`HealthyIsReached` (`FailoverReachesHealthy`) is proved under `SteadyUpstream`:
no token expires; each account either serves or fails in a way that counts
(denied, no endpoint, quota); and in the initial file whoever serves is enabled
and may serve every model, and failing credentials times threshold is below both
bounds of the budget. That is what the code relies on: with its constants it
holds of lists with at most two failing credentials, and for longer ones nine
attempts may not suffice; a transient error costs an attempt and counts against
nobody. `FailoverInv` relates a request's history to the list: every attempt is
a try of a failing credential, and the tries of one never exceed what is charged
to its entry (its failures, or the threshold once it is disabled), whoever
reported them. What is handed out was enabled, so that its charge left room for
one more try (`EnabledHasRoom`), and where a credential serves the self-healing,
which takes charges back, never runs (`OneIsChosen`). By `Pigeons` a history in
which no id of a finite set occurs more than `MaxFailures` times is no longer
than their product, so a request is never out of attempts (`NotOutOfAttempts`).
The run has a token that expires beside; TLC covers that.

**GatewayAuth.** `TypeCorrect` includes that an auth without an error has no
cooldown and no quota on record, in the manager and in every copy. The invariant says of every kind of process which steps it can
have left and what it then holds (`WellFormed`). `RemovedIsNotSelected`
(`RemovedStaysOut`): the scheduler asks the registry when it takes a copy in, so
an entry can only be stale by an unregistration after that; whoever unregisters
still has a final step to take, which posts again, finds that the manager has no
such auth, or reads it again and starts over. That the lists of the handlers
end with such a step is what makes it inductive. `NoRefusalWithoutReason`
(`RefusedForAReason`) adds `Reasons`: a request asks again only after its own
rebuild; from the moment its rebuild begins it is in doubt about every auth that
cannot be used or of which an older copy is on its way; and when it asks, every
other auth is ready in the scheduler.

**GatewayRefresh.** `IInv` is `Base` (types; every id in heap, dirty set, jobs
and hands is one the manager has; whoever adds an id posts a wake-up next),
`WakeFollows` (a noted change is drained by the round under way or by one that a
wake-up will start), `Bounded` (a refresh that is younger than its mark has an
entry that backs off for at least as long) and `Alone` (there are no two such
refreshes of one auth, among jobs and in hands). `Bounded` is what keeps the
loop from marking the auth once more. `Rounds` and `AllInTime` are there for
`NothingIsLate` (`NeverLate`): an auth somebody is still to look at, or to tell
the loop of, is `Promised`; for any other the time the heap holds, or will hold
once the loop has put what it has read, is early enough. `NoWakeIsLost`,
`MarksExclude` and `NothingIsLate` follow for any number of auths, workers and
callers and for any durations that satisfy `RefreshConstants`.

**GatewayWatcher with GatewayRegistry.** `IInv` has three parts: types, with the
rule that a removal half applied is one the registry has already forgotten;
`WayInv`, which follows the updates of one auth along pending, batch, channel
and job and says that the last of them is the last one queued; and `ListInv`,
which says that the cache expires no later than any mark and that a list from
it is the one that would be built. `LastIsServed` and `ListIsCurrent` hold for
any contents, models, providers and capacity. `FileReachesService`
(`FileIsServed`) needs `FileInv` beside it: what was read after the last event is
what the file says; of two goroutines that hold an update of the file one has
looked last; and as long as none of the four races has occurred, the hash stands
for the file, the known auth for the hash and the last queued update for the
known auth, each unless somebody is on the way to see to it. `CountsAreExact`
(`CountsAgree`) adds `CountInv`, which says also that whoever has models has a
provider. The counts are sums over clients, but one registration changes the
part of one client only: `Accounts` splits a registration into the rest and two
shares of the client, that of its old and that of its new provider, and each of
the four passes of a registration (move, drop, gain, lift) has a lemma that says
what it does to them. That dropping the last reference may reset the whole
registration follows from the rest being none. `AgreesIfAccounted` leads back
from the shares to the mentions, as cardinalities of sets of mentions.

**Relay.** `Delivery`: a request under way is in its session's pending map or
its channel is closed, and a cleanup that has begun has yet to tell those that
wait. `RegisteredIsKnown`: a session that is not closed is the registered one,
or is about to be replaced or stopped by somebody who knows it. `Truncation`:
whoever closes a channel has put the last message in or has met a full channel. `PendingIsOpen` bounds where the process can crash on
a closed channel: only between looking a request up and sending to it.

**Limiter.** `IInv` is the conjunction of its four safety invariants: the exact
count makes the release's test for a positive count superfluous, and the
bounds keep the limit positive while the limiter is on.

**Stream.** `SendsMessages` is the refinement: `Init` implies the initial state
of SseMessage, `Deliver` is one of its steps and every other step leaves `client`
alone. What it needs is an invariant about events that were produced and not yet
sent. `Consistent` relates a sequence of events and a list of blocks to the
client, which knows the first `n` blocks and has those of `open` open: the
events start the other blocks in order and each once, use only blocks that are
open when the event comes, and leave open exactly those the context has open.
There is one lemma for each way in which events are appended (`StartConsistent`,
`DeltaConsistent`, `StopsConsistent`) and one for taking the first away
(`DeliveredConsistent`). Above them every operator of `StreamContext` is shown to
keep `Sound`: events consistent, the indexes of the current text, thinking and
tool blocks right (`IndexesPoint`), the thinking block open exactly inside of the
thinking. That is what makes `ThinkingDelta`, which does not ask the state
manager, right. `MessageInTurn` places the events of the message: message_start
first until it is sent, message_delta and message_stop last two once the answer
is finished; with `Consistent`, and every block closed at the end, the client has
nothing open when message_delta comes (`ClosedAtTheEnd`). `Counted` carries the
token count for `BufferedAgree` (`BufferedTokensAgree`), and `TypeCorrect`
(`TypeOK`) follows from `IndexesPoint`. `StopReasonTold` proves
`StopReasonMatches` from `Told`: what the client was and will be told of the blocks
has the kinds the context has them under (`KindsFit`); message_delta carries the
context's own stop reason (`ReasonTold`); and either the texts are received ones
and the reason set, if any, is that of the last limit among the notes (`Plain`,
`Reported`), or there was nothing but thinking, the reason is max_tokens and the
one text, told or still to be told, is the space that the code adds (`Filled`).

`NothingLost` proves `NothingSwallowed` from `Handed`. What of a sequence is in a set
of letters, `Keep`, is a function of its own, because what `SelectSeq` computes would
need induction: that there is exactly one such function is argued by the least index
at which there would not be (`KeptOnce`, `KeptExists`), and from that it follows that
of two sequences in a row it keeps what it keeps of each (`KeepBoth`). `Spells` is what the
events not yet sent say together, `Says` what a step adds to that, and `Carries` the
balance of a step: what was held back and what came in is what is said and what is
held back then. `HandedOn` is the same balance over the whole answer: what the client
has, what it will be sent and what is held back is what was received. Every operator
of `StreamContext` keeps it for the visible letters and for the tools' inputs apart,
because all it cuts out of a text are tags and blanks (`CutOut`). For both together
it needs that a tool's input never overtakes text held back: where no tag was received
the context waits for one (`Waits`) and a call flushes the buffer first; with a tag it
may, which is why the last clause of the property asks for none. A delta for a tool
whose block is closed would be dropped: calls that go on have an open block, each its
own (`CallsOpen`, `OwnBlocks`), and what else is closed is text (`SparesTools`).
All five hold for any set of units, any texts
and pieces, any tools, notes and numbers of events.

**Only model-checked.** All liveness (`EveryRequestEnds` of the provider and of
the gateway, `EveryRequestReturns`, `EveryWaiterIsAnswered`,
`EveryDueAuthIsRefreshed`): liveness under fairness and ENABLED are outside what
the proof system handles. What filters and folds over data compute for
every input is proved only where the least counterexample can be argued about in
place of an induction, as for `Keep`. `StreamMatchesExtract` is left to TLC: it
compares the pieces of a text cut anywhere with the tags found in the whole of it,
by first positions in both.

## 6. Met while modelling, without a property

What a doc or comment denies and one more run could show is listed first; of the
rest nothing in the repository promises otherwise.

**kiro-rs, credentials** (`token_manager.rs` unless named)

- In priority mode the current credential is handed out without asking whether
  it serves the model (`:813`), which the doc of the selection says (`:790`).
- A comment calls the self-healing equivalent to a restart (`:834`), but an
  automatic disable is written with the next save as `disabled: true` (`:1038`),
  and the next start reads that as a manual one, which nothing heals.
- Two concurrent additions compute the same id (`:1896`), and the saved file is
  one that `new` refuses (`:672`).
- An operator's image of the list, taken before a refresh and written after it,
  puts the used-up refresh token back into the file (`:1049`; `README.md:318`
  promises the write-back of rotated tokens). Without operators it cannot
  happen: a refresh writes while it holds the lock.
- The self-healing runs when no credential is available *for the model*, even
  with enabled ones that do not support opus.
- `set_priority` can be undone by a refresh that took its clone before (`:967`
  against `:1531`); the same store, by id, can put one account's credential over
  another's if the id was deleted and given again (`:966`).
- `set_disabled(false)` enables a credential with an invalid configuration
  (`:1514`), `reset_and_enable` refuses to (`:1557`).
- A forced refresh reads the credential before it takes the lock
  (`:1996-2010`); a reply without a lifetime discards the rotated token
  (`:960-962`).
- `set_load_balancing_mode` of two operators can leave memory and file apart
  (`:2063`); `save_stats` clears the dirty flag after writing an older image
  (`:1132`).
- `std::fs::write` truncates first: a crash in it leaves a torn file. Torn
  writes are not modelled.
- Attempts are capped at nine, so with four or more failing credentials a
  request can run out of attempts before the healthy one.
- The balance cache may keep a value for an id given to a new account
  (`admin/service.rs:147-175`).

**kiro-rs, answers**

- The answer in one piece is said to detect tags as the stream does, so as to be
  consistent with it (`stream.rs:176`). It does not for a closing tag that ends
  the answer with more than two blanks behind it, not led by a blank line. Inside
  the thinking the stream holds back a closing tag and a blank line, 13 bytes
  (`:805-820`), because a tag counts only with a blank line behind it; but at the
  end a tag counts with blanks of any kind and number behind it (`:115-143`). By
  then the tag's beginning has been sent as thinking, the rest of it is no tag
  any more and is sent as thinking too: `<thinking>b</thinking>` and three spaces
  become "b</thinking>" and the blanks, where the answer in one piece has "b"
  (`:191-199`). It does not depend on where the text is cut.
  `StreamMatchesExtract` says exactly this: the case is `EndLeaks`, and then the
  closing tag, whole, is the only difference. Without `EndLeaks` TLC refutes the
  property in the run `stream_answers`.
- Whether a tag next to a quoting character counts depends on where the text was
  cut: the character before it may have left the buffer (`stream.rs:735-750`),
  while the answer in one piece is said to use the same detection (`:176`).
  `StreamMatchesExtract` leaves quoted tags out.
- A tool call may begin while the thinking block is open, although a comment
  says that it must not (`:921`).
- An upstream that fails or is cut off is ended like a complete answer.
- Thinking without an answer turns `model_context_window_exceeded` into
  `max_tokens`.
- The answer in one piece puts text from before and after a tool call into one
  block.
- The decoder: after an error the iterator stops until more bytes are fed
  (`decoder.rs:306`), so the answer in one piece, which feeds once
  (`handlers.rs:482-498`), loses everything behind the first corrupt frame; the
  length of a frame is believed before its checksum is looked at
  (`frame.rs:104-113`), so a corrupt length makes the decoder wait for bytes
  that are not to come; when the buffer overflows the handlers only warn.

**Gateway, auths** (`conductor.go` unless named)

- When a reload turns refreshing off while the loop runs, a due auth is put back
  for the same instant and the loop spins (`auto_refresh_loop.go:244` with
  `:3195`): `service.go:736` looks at the setting only when it starts the loop.
  The steps are in GatewayRefresh (`Reload`, then `TimerFires` and `HandleDue`
  without end).
- `Register` and `Update` share an object between map and scheduler until the
  next upsert (`:1177`, `:1208`): a pick clones it under the scheduler's mutex
  while `MarkResult` changes it under the manager's (a data race; its outcomes
  are those of an older or a newer copy).
- A copy posted late stays in the scheduler until the auth's next result or a
  pick that fails (`RefusedForAReason` is about the latter).
- A management handler's disabling, or a removal, is undone by a refresh's
  `Update` with an older clone (`:3471`). `RemovedStaysOut` still holds: the
  models are gone.
- An unknown or transient error replaces a longer cooldown by a shorter one;
  two refusals for quota at once raise the back-off by two levels; adding an auth
  again clears its cooldowns.
- The scheduler blocks an auth until `Quota.NextRecoverAt`, the manager only
  until `NextRetryAfter`; a pick that fails rebuilds the scheduler.

**Gateway, registry and watcher**

- `GetAvailableModels` is to return the models with at least one available
  client (`model_registry.go:752`), but it counts marks and not clients: one
  that is suspended and over quota counts twice, and hides a model another
  client could serve.
- A late result marks a client that was unregistered (`conductor.go:2243`). If it
  registers again without having mentioned models before, the mark stays
  (`model_registry.go:392-394` lifts marks only where there was a registration).
- Four races can leave the service with an old file; `FileIsServed` excepts
  them. A second removal within a second is dropped
  (`events.go:93`). A reload's snapshot is read before the lock and may
  overwrite what an event has found after it (`dispatcher.go:80-99`). Differences are
  queued after the lock and may be queued in the other order
  (`dispatcher.go:139`). The hashes know nothing of what a reload delivered
  (`events.go:127`): a file made between the rescan and the snapshot and removed
  before its event, one whose provider's auths a reload has dropped from
  `currentAuths`, and one whose old content comes back.
- `wsOnConnected` leaves out the addition if the auth is still enabled
  (`service.go:228-233`), also when its deletion is queued already: the provider
  is connected and has no auth. `LastQueuedWins` is about what was queued.
- Relay: `cleanup` and `dispatch` can send on a channel that its request closes
  in between (`session.go:176`, `:109`), which ends the process;
  `OpenWhilePending` bounds the window. Stop between registration and
  `onConnected` leaves the service with the auth of a dead session
  (`manager.go:157`).
- Limiter: requests admitted while it was off are not counted when a reload
  switches it on; waiters are not served in order, only within their deadline.

## 7. Not modelled

Planned: the decoder of kiro-rs (section 2).

Left out of modelled components: the debounced statistics file of kiro-rs and
its balance cache; in the auth manager streaming with its bootstrap, model pools
and aliases beyond `Legacy`, the switch that turns cooldowns off,
`syncExecutionAuth` (what it does is a `Writer`'s step), persistence and hooks;
the strategies of the selectors (choice is a set); in the registry descriptions,
clients without a provider and queries by provider; in the watcher the auths of
the configuration file, files with several auths, reloads that overlap, Stop.
`PROJECT.json` says so component by component.

Left out for good: request and response translation, executors of the single
providers, stores, API handlers, management API, terminal and browser
interfaces, OAuth logins and sessions, the usage manager, start-up and
deployment scripts. They are pure data transformation, or input and output, or
a map under one mutex, with little control of their own; they are also most of
the repository's lines, so the definitions here stand for a small share of it.
