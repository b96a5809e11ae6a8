-------------------------- MODULE GatewayRegistry --------------------------
(***************************************************************************)
(* The gateway's model registry (model_registry.go): which client provides *)
(* which models, the references each model has in total and per provider,  *)
(* the marks of clients over quota or suspended, and the list of available *)
(* models with its cache.  Every operation runs under one mutex, so each   *)
(* is one step; who calls them, and when, is GatewayWatcher's.             *)
(*                                                                         *)
(* A client may name a model more than once and then counts as often.      *)
(* Times are ticks until an instant.                                       *)
(***************************************************************************)
EXTENDS Integers, Sequences, FiniteSets, FiniteSetsExt

CONSTANTS
  Clients,     \* client ids, which are auth ids
  Models,      \* model ids
  Providers,   \* provider names
  Window,      \* modelQuotaExceededWindow
  None         \* neither a provider nor an auth

ASSUME RegistryConstants == Window \in Nat \ {0} /\ None \notin Providers

VARIABLES
  clientModels,     \* the models of each client, as it named them
  clientProvider,   \* its provider
  models,           \* the registration of each model
  cache             \* availableModelsCache: the list and when it expires

registryVars == <<clientModels, clientProvider, models, cache>>

\* A model nobody provides.  A mark in quota is the time until it lapses.
NoRegistration ==
  [count |-> 0, providers |-> [p \in Providers |-> 0],
   quota |-> [c \in Clients |-> 0], suspended |-> [c \in Clients |-> "no"]]

NoCache == [valid |-> FALSE, list |-> {}, expires |-> 0]

RegistryInit ==
  /\ clientModels = [c \in Clients |-> <<>>]
  /\ clientProvider = [c \in Clients |-> None]
  /\ models = [m \in Models |-> NoRegistration]
  /\ cache = NoCache

-----------------------------------------------------------------------------
(* Registration                                                            *)

Occurrences(list, m) == Cardinality({i \in DOMAIN list : list[i] = m})
Less(n, k) == IF n > k THEN n - k ELSE 0

Lifted(reg, c) == [reg EXCEPT !.quota[c] = 0, !.suspended[c] = "no"]

\* addModelRegistration, n times
Gained(reg, provider, n) == [reg EXCEPT !.count = @ + n, !.providers[provider] = @ + n]

\* removeModelRegistration, n times: the last client takes the registration with it
Dropped(reg, c, provider, n) ==
  IF n = 0 THEN reg
  ELSE IF reg.count <= n THEN NoRegistration
  ELSE [Lifted(reg, c) EXCEPT !.count = @ - n, !.providers[provider] = Less(@, n)]

\* The references a client keeps move to its new provider
Moved(reg, from, to, n) ==
  LET left == [reg.providers EXCEPT ![from] = Less(@, n)]
  IN [reg EXCEPT !.providers = [left EXCEPT ![to] = @ + n]]

\* Mutant: references that stay keep the old provider.
ReconciledInPlace(m, c, provider, list) ==
  LET old == Occurrences(clientModels[c], m)
      new == Occurrences(list, m)
      resized == Gained(Dropped(models[m], c, clientProvider[c], Less(old, new)), provider, Less(new, old))
  IN IF new > 0 THEN Lifted(resized, c) ELSE resized

\* What the registration of m becomes when a client that is known registers again: first the
\* provider of what it keeps, then removals, then additions, then its marks are lifted
Reconciled(m, c, provider, list) ==
  LET old == Occurrences(clientModels[c], m)
      new == Occurrences(list, m)
      both == Min({old, new})
      placed == IF clientProvider[c] = provider THEN models[m]
                ELSE Moved(models[m], clientProvider[c], provider, both)
      resized == Gained(Dropped(placed, c, clientProvider[c], Less(old, new)), provider, Less(new, old))
  IN IF new > 0 THEN Lifted(resized, c) ELSE resized

\* RegisterClient, with at least one model
RegisterClient(c, provider, list) ==
  /\ models' = [m \in Models |->
                  IF clientModels[c] = <<>> THEN Gained(models[m], provider, Occurrences(list, m))
                  ELSE Reconciled(m, c, provider, list)]
  /\ clientModels' = [clientModels EXCEPT ![c] = list]
  /\ clientProvider' = [clientProvider EXCEPT ![c] = provider]
  /\ cache' = NoCache

UnregisterClient(c) ==
  /\ models' = [m \in Models |-> Dropped(models[m], c, clientProvider[c], Occurrences(clientModels[c], m))]
  /\ clientModels' = [clientModels EXCEPT ![c] = <<>>]
  /\ clientProvider' = [clientProvider EXCEPT ![c] = None]
  /\ cache' = NoCache

-----------------------------------------------------------------------------
(* Marks and the list                                                      *)

Exists(m) == models[m].count > 0

\* SetModelQuotaExceeded, ClearModelQuotaExceeded, SuspendClientModel, ResumeClientModel.
\* A suspension keeps its first reason.
Marked(reg, c, call) ==
  CASE call = "exceed"  -> [reg EXCEPT !.quota[c] = Window]
    [] call = "clear"   -> [reg EXCEPT !.quota[c] = 0]
    [] call = "resume"  -> [reg EXCEPT !.suspended[c] = "no"]
    [] call = "suspend" -> [reg EXCEPT !.suspended[c] = IF @ = "no" THEN "other" ELSE @]
    [] call = "pause"   -> [reg EXCEPT !.suspended[c] = IF @ = "no" THEN "quota" ELSE @]

\* Mutant: the list is kept.
MarkOnly(c, m, call) ==
  /\ models' = IF Exists(m) THEN [models EXCEPT ![m] = Marked(@, c, call)] ELSE models
  /\ UNCHANGED <<clientModels, clientProvider, cache>>

Mark(c, m, call) ==
  LET reg == IF Exists(m) THEN Marked(models[m], c, call) ELSE models[m]
      touched == Exists(m) /\ (call \in {"exceed", "clear"} \/ reg # models[m])
  IN /\ models' = [models EXCEPT ![m] = reg]
     /\ cache' = IF touched THEN NoCache ELSE cache
     /\ UNCHANGED <<clientModels, clientProvider>>

OverQuota(m) == {c \in Clients : models[m].quota[c] > 0}
SuspendedFor(m, reason) == {c \in Clients : models[m].suspended[c] = reason}

Listed(m) ==
  \/ models[m].count > Cardinality(OverQuota(m)) + Cardinality(SuspendedFor(m, "other"))
  \/ /\ Exists(m) /\ OverQuota(m) \cup SuspendedFor(m, "quota") # {}
     /\ SuspendedFor(m, "other") = {}

\* buildAvailableModelsLocked
AvailableModels == {m \in Models : Listed(m)}

\* When the first mark lapses, 0 if there is none
FirstLapse ==
  LET lapses == {models[m].quota[c] : m \in Models, c \in Clients} \ {0}
  IN IF lapses = {} THEN 0 ELSE Min(lapses)

\* GetAvailableModels, when the cache does not serve
GetAvailableModels ==
  /\ ~cache.valid
  /\ cache' = [valid |-> TRUE, list |-> AvailableModels, expires |-> FirstLapse]
  /\ UNCHANGED <<clientModels, clientProvider, models>>

Tick ==
  /\ models' = [m \in Models |-> [models[m] EXCEPT !.quota = [c \in Clients |-> Less(@[c], 1)]]]
  /\ cache' = IF cache.expires = 1 THEN NoCache ELSE [cache EXCEPT !.expires = Less(@, 1)]
  /\ UNCHANGED <<clientModels, clientProvider>>

-----------------------------------------------------------------------------
\* Where clients name the model
Mentions(lists, m, clients) == UNION {{c} \X {i \in DOMAIN lists[c] : lists[c][i] = m} : c \in clients}

\* The references kept by differences are those the clients make: as many as there are
\* mentions of the model, in total and by the clients of each provider, whatever a client
\* adds, drops, repeats or moves between providers.
CountsAgree ==
  \A m \in Models :
    /\ models[m].count = Cardinality(Mentions(clientModels, m, Clients))
    /\ \A p \in Providers :
         models[m].providers[p] = Cardinality(Mentions(clientModels, m, {c \in Clients : clientProvider[c] = p}))

\* A list that is still served from the cache is the one that would be built now, although
\* marks are set by late results and lapse by themselves.
CachedListIsCurrent == cache.valid => cache.list = AvailableModels
=============================================================================
