---------------------------- MODULE WsRelayProofs ----------------------------
(***************************************************************************)
(* Proofs about WsRelay, for any number of sessions, providers and         *)
(* requests and any capacity.  IInv is inductive: it relates the pending   *)
(* maps, the channels and the cleanups (Delivery), the manager's map and   *)
(* the connections (RegisteredIsKnown), and the channels and what their    *)
(* readers report (Truncation).  What a step may do to each of these is    *)
(* stated once, as moves, so that the invariant is argued about the moves  *)
(* and not about the actions.                                              *)
(***************************************************************************)
EXTENDS WsRelay, SequenceTheorems, TLAPS

\* A channel holds the message that ends its request.
HasTerminal(r) == \E i \in DOMAIN ch[r].buf : ch[r].buf[i] \in Terminal

\* A request is pending only with the session it was sent to, and not before.
PendingIsOwn ==
  \A s \in Session : \A r \in pending[s] : req[r].s = s /\ req[r].at \notin {"idle", "store"}

ToldIsOwn ==
  \A s \in Session : cleaner[s].at = "tell" =>
    LET r == cleaner[s].r IN req[r].s = s /\ req[r].at \notin {"idle", "store"}

\* Channels are closed after their requests have been stored.
ClosedIsStored == \A r \in Request : ch[r].closed => req[r].at \notin {"idle", "store"}

\* The first step of the cleanup closes the session.
ClosedByCleanup == \A s \in Session : closed[s] <=> cleaner[s].at # "off"

\* Until the sweep, a request under way is pending, or its channel is closed ...
PendingOrClosed ==
  \A r \in Request :
    req[r].at \in {"send", "wait"} /\ cleaner[req[r].s].at \notin {"swept", "done"}
      => r \in pending[req[r].s] \/ ch[r].closed

\* ... and a cleanup that has begun has yet to tell those that wait.
StillToTell ==
  \A r \in Request :
    LET c == cleaner[req[r].s]
    IN req[r].at = "wait" /\ ~ch[r].closed /\ c.at \in {"range", "tell"}
         => r \in c.due \/ (c.at = "tell" /\ c.r = r)

\* ConnectedIsRegistered, from the moment the session is registered.
RegisteredIsKnown ==
  \A s \in Session :
    conn[s] # "absent" /\ ~closed[s] =>
      \/ sessions[ProviderOf[s]] = s
      \/ s \in toStop
      \/ \E u \in Session : conn[u] = "registered" /\ replaced[u] = s

\* Whoever closes a channel has put the last message in, or has tried to.
ClosedWithTerminal ==
  \A r \in Request :
    req[r].at # "done" /\ ch[r].closed /\ r \notin missed \cup cancelled => HasTerminal(r)

AnsweredWithTerminal ==
  \A s \in Session :
    LET r == reader[s].msg.r
    IN reader[s].at = "answered" /\ req[r].at # "done" /\ ~ch[r].closed /\ r \notin missed
         => HasTerminal(r)

ResultIsLast == \A r \in Request : req[r].result # "none" => req[r].at = "done"

Delivery == PendingIsOwn /\ ToldIsOwn /\ ClosedIsStored /\ ClosedByCleanup /\ PendingOrClosed /\ StillToTell
Truncation == ClosedWithTerminal /\ AnsweredWithTerminal /\ ResultIsLast

IInv ==
  /\ TypeOK
  /\ Delivery /\ OpenWhilePending /\ NoneLeftBehind
  /\ RegisteredIsKnown
  /\ Truncation /\ TruncatedOnlyIfFull

-----------------------------------------------------------------------------
(* What the two ways to touch a channel do.                                 *)

\* What a send does: to the one channel, never over its capacity, and losing
\* nothing that is queued.
LEMMA OfferFacts ==
  ASSUME TypeOK, NEW r \in Request, NEW kind \in Kinds, NEW andClose \in BOOLEAN, NEW culprit,
         Offer(r, kind, andClose, culprit)
  PROVE  /\ ch' \in [Request -> Channels] /\ missed' \subseteq Request /\ missed \subseteq missed'
         /\ \A q \in Request : Len(ch'[q].buf) <= Cap
         /\ \A q \in Request \ {r} : ch'[q] = ch[q]
         /\ ch[r].closed => ch' = ch
         /\ ~ch[r].closed => ch'[r].closed = andClose
         /\ HasTerminal(r) => HasTerminal(r)'
         /\ kind \in Terminal /\ ~ch[r].closed /\ r \notin missed' => HasTerminal(r)'
<1>1. CASE ch[r].closed
  BY <1>1 DEF Offer, TypeOK, ChannelsOK, HasTerminal
<1>2. CASE ~ch[r].closed
  <2> DEFINE buf == ch[r].buf
             new == IF Room(r) THEN Append(buf, kind) ELSE buf
  <2>1. buf \in Seq(Kinds) /\ Len(buf) \in Nat /\ Len(buf) <= Cap /\ Cap \in Nat
    BY BoundAssumption DEF TypeOK, ChannelsOK, Channels
  <2>2. /\ new \in Seq(Kinds) /\ Len(new) <= Cap
        /\ \A i \in DOMAIN buf : i \in DOMAIN new /\ new[i] = buf[i]
        /\ Room(r) => Len(buf) + 1 \in DOMAIN new /\ new[Len(buf) + 1] = kind
    <3>1. CASE Room(r)
      BY <2>1, <3>1 DEF Room
    <3>2. CASE ~Room(r)
      BY <2>1, <3>2
    <3> QED BY <3>1, <3>2
  <2>3. /\ ch' = [ch EXCEPT ![r] = [buf |-> new, closed |-> andClose]]
        /\ missed' = IF Room(r) THEN missed ELSE missed \cup {r}
    BY <1>2 DEF Offer, TypeOK, ChannelsOK
  <2> HIDE DEF new, buf
  <2>4. ch'[r] = [buf |-> new, closed |-> andClose] /\ \A q \in Request \ {r} : ch'[q] = ch[q]
    BY <2>3 DEF TypeOK, ChannelsOK
  <2>5. ch' \in [Request -> Channels]
    BY <2>2, <2>3 DEF TypeOK, ChannelsOK, Channels
  <2>6. missed' \subseteq Request /\ missed \subseteq missed'
    BY <2>3 DEF TypeOK, ChannelsOK
  <2>7. \A q \in Request : Len(ch'[q].buf) <= Cap
    BY <2>2, <2>4 DEF TypeOK, ChannelsOK
  <2>8. HasTerminal(r) => HasTerminal(r)'
    BY <2>2, <2>4 DEF HasTerminal, buf
  <2>9. kind \in Terminal /\ r \notin missed' => HasTerminal(r)'
    BY <2>2, <2>3, <2>4 DEF HasTerminal
  <2> QED BY <1>2, <2>4, <2>5, <2>6, <2>7, <2>8, <2>9
<1> QED BY <1>1, <1>2

\* What LoadAndDelete and close do: to the one entry and its channel.
LEMMA ForgetFacts ==
  ASSUME TypeOK, NEW s \in Session, NEW r \in Request, Forget(s, r)
  PROVE  /\ pending' \in [Session -> SUBSET Request]
         /\ pending'[s] = pending[s] \ {r}
         /\ \A u \in Session \ {s} : pending'[u] = pending[u]
         /\ ch' \in [Request -> Channels]
         /\ \A q \in Request :
              /\ ch'[q].buf = ch[q].buf
              /\ ch'[q].closed <=> ch[q].closed \/ (q = r /\ r \in pending[s])
<1>1. /\ pending' = [pending EXCEPT ![s] = @ \ {r}]
      /\ ch' = IF r \in pending[s] THEN [ch EXCEPT ![r].closed = TRUE] ELSE ch
  BY DEF Forget
<1>2. \A q \in Request : ch[q].buf \in Seq(Kinds) /\ ch[q].closed \in BOOLEAN
  BY DEF TypeOK, ChannelsOK, Channels
<1>3. ch' \in [Request -> Channels]
  BY <1>1 DEF TypeOK, ChannelsOK, Channels
<1> QED BY <1>1, <1>2, <1>3 DEF TypeOK, ChannelsOK
-----------------------------------------------------------------------------
(* Types.                                                                   *)

\* No step puts anything but a session into the manager's map.
LEMMA LinksKept ==
  ASSUME TypeOK, Next
  PROVE  LinksOK'
<1>1. ASSUME NEW s \in Session, Register(s)
      PROVE  LinksOK'
  BY <1>1, SessionAssumption DEF TypeOK, LinksOK, Register
<1>2. ASSUME NEW s \in Session, Connected(s)
      PROVE  LinksOK'
  BY <1>2 DEF TypeOK, LinksOK, Connected
<1>3. CASE Stop
  BY <1>3 DEF TypeOK, LinksOK, Stop
<1>4. ASSUME NEW s \in Session, Unregister(s)
      PROVE  LinksOK'
  BY <1>4 DEF TypeOK, LinksOK, Unregister, Without
<1>5. CASE UNCHANGED links
  BY <1>5 DEF TypeOK, LinksOK, links
<1>6. ASSUME NEW s \in Session, SessionStep(s) PROVE LinksOK'
  BY <1>2, <1>4, <1>5, <1>6
     DEF SessionStep, Cleanup, Dispatch, Answered, CloseSession, Visit, Tell, Sweep
<1>7. ASSUME NEW r \in Request, RequestStep(r) PROVE LinksOK'
  BY <1>5, <1>7 DEF RequestStep, Store, Load, SendFails, SendSucceeds, ContextDone,
                    SessionDone, Receive, ReceiveClosed, GiveUp
<1>8. CASE Environment
  BY <1>1, <1>3, <1>5, <1>8 DEF Environment, Call, Cancel, Read, CloseSession
<1>9. CASE Rest
  BY <1>5, <1>9 DEF Rest, vars
<1> QED BY <1>6, <1>7, <1>8, <1>9 DEF Next

\* One lemma per step that touches a session's reader or cleanup.
LEMMA RegisterKeepsLife ==
  ASSUME TypeOK, NEW s \in Session, Connected(s)
  PROVE  LifeOK'
BY DEF TypeOK, LifeOK, Connected, Readers

LEMMA CloseKeepsLife ==
  ASSUME TypeOK, NEW s \in Session, NEW cause \in Causes, CloseSession(s, cause)
  PROVE  LifeOK'
BY DEF TypeOK, LifeOK, CloseSession, Cleaners, Cleaner

LEMMA CleanerKept ==
  ASSUME LifeOK, NEW s \in Session, NEW c \in Cleaners, cleaner' = [cleaner EXCEPT ![s] = c],
         c.at = "tell" => c.r \in Request, UNCHANGED <<closed, reader>>
  PROVE  LifeOK'
<1>1. cleaner' \in [Session -> Cleaners]
  BY DEF LifeOK
<1>2. cleaner'[s] = c /\ \A u \in Session \ {s} : cleaner'[u] = cleaner[u]
  BY DEF LifeOK
<1> QED BY <1>1, <1>2 DEF LifeOK

LEMMA VisitKeepsLife ==
  ASSUME TypeOK, NEW s \in Session, NEW r \in Request, Visit(s, r)
  PROVE  LifeOK'
<1> DEFINE d == cleaner[s]
           c == [d EXCEPT !.at = "tell", !.r = r, !.due = @ \ {r}]
<1>1. d \in Cleaners
  BY DEF TypeOK, LifeOK
<1>2. c \in Cleaners /\ c.r = r
  <2> HIDE DEF d
  <2> QED BY <1>1 DEF Cleaners
<1>3. cleaner' = [cleaner EXCEPT ![s] = c] /\ UNCHANGED <<closed, reader>>
  BY DEF Visit
<1> HIDE DEF c
<1> QED BY <1>2, <1>3, CleanerKept DEF TypeOK

LEMMA CleanupKeepsLife ==
  ASSUME TypeOK, NEW s \in Session, Tell(s) \/ Sweep(s) \/ Unregister(s)
  PROVE  LifeOK'
<1> DEFINE d == cleaner[s]
           told == [d EXCEPT !.at = "range", !.r = None]
           swept == [d EXCEPT !.at = "swept", !.due = {}]
           done == [d EXCEPT !.at = "done"]
<1>1. d \in Cleaners
  BY DEF TypeOK, LifeOK
<1>2. \A c \in {told, swept, done} : c \in Cleaners /\ c.at # "tell"
  <2> HIDE DEF d
  <2>1. told \in Cleaners /\ told.at = "range"
    BY <1>1 DEF Cleaners
  <2>2. swept \in Cleaners /\ swept.at = "swept"
    BY <1>1 DEF Cleaners
  <2>3. done \in Cleaners /\ done.at = "done"
    BY <1>1 DEF Cleaners
  <2> HIDE DEF told, swept, done
  <2> QED BY <2>1, <2>2, <2>3
<1>3. /\ \E c \in {told, swept, done} : cleaner' = [cleaner EXCEPT ![s] = c]
      /\ UNCHANGED <<closed, reader>>
  BY DEF Tell, Sweep, Unregister
<1> HIDE DEF told, swept, done
<1> QED BY <1>2, <1>3, CleanerKept DEF TypeOK

LEMMA ReadKeepsLife ==
  ASSUME TypeOK, NEW s \in Session, NEW r \in Request, NEW kind \in Kinds, Read(s, r, kind)
  PROVE  LifeOK'
BY DEF TypeOK, LifeOK, Read, Readers, Messages

LEMMA DispatchKeepsLife ==
  ASSUME TypeOK, NEW s \in Session, Dispatch(s)
  PROVE  LifeOK'
BY DEF TypeOK, LifeOK, Dispatch, Readers

LEMMA AnsweredKeepsLife ==
  ASSUME TypeOK, NEW s \in Session, Answered(s)
  PROVE  LifeOK'
BY DEF TypeOK, LifeOK, Answered, Readers

\* A step that gives one request a well-formed caller keeps all callers so.
LEMMA CallerKept ==
  ASSUME CallsOK, NEW r \in Request, NEW c, c \in Callers, req' = [req EXCEPT ![r] = c],
         c.at \in {"store", "load", "send", "wait"} \/ r \in watching' => c.s \in Session,
         watching' \subseteq watching \cup {r}, cancelled' = cancelled
  PROVE  CallsOK'
<1>1. req' \in [Request -> Callers]
  BY DEF CallsOK
<1>2. req'[r] = c /\ \A q \in Request \ {r} : req'[q] = req[q]
  BY DEF CallsOK
<1>3. watching' \subseteq Request
  BY DEF CallsOK
<1> QED BY <1>1, <1>2, <1>3 DEF CallsOK

\* Callers stay well formed, and only accepted requests have a session.
LEMMA CallsKept ==
  ASSUME TypeOK, Next
  PROVE  CallsOK'
<1>0. \A r \in Request : req[r] \in Callers /\ (req[r].at \in {"store", "load", "send", "wait"} => req[r].s \in Session)
  BY DEF TypeOK, CallsOK
<1>1. ASSUME NEW r \in Request, NEW p \in Provider, NEW mode \in {"NonStream", "Stream"}, Call(r, p, mode)
      PROVE  CallsOK'
  <2> DEFINE refused == [req[r] EXCEPT !.at = "done", !.result = "err"]
             accepted == [req[r] EXCEPT !.at = "store", !.s = sessions[p], !.mode = mode]
  <2>1. refused \in Callers /\ refused.s = req[r].s /\ refused.at = "done"
    <3> DEFINE c == req[r]
    <3>1. c \in Callers
      BY <1>0
    <3> SUFFICES LET d == [c EXCEPT !.at = "done", !.result = "err"] IN d \in Callers /\ d.s = c.s /\ d.at = "done"
      OBVIOUS
    <3> HIDE DEF c
    <3> QED BY <3>1 DEF Callers
  <2>2. sessions[p] # None => sessions[p] \in Session
    BY DEF TypeOK, LinksOK
  <2>3. sessions[p] # None => accepted \in Callers /\ accepted.s = sessions[p]
    BY <1>0, <2>2 DEF Callers
  <2>4. req' = [req EXCEPT ![r] = IF sessions[p] = None THEN refused ELSE accepted] /\ UNCHANGED <<watching, cancelled>>
    BY <1>1 DEF Call
  <2>5. r \in watching => req[r].s \in Session
    BY DEF TypeOK, CallsOK
  <2> HIDE DEF refused, accepted
  <2>6. CASE sessions[p] = None
    BY <2>1, <2>4, <2>5, <2>6, CallerKept DEF TypeOK
  <2>7. CASE sessions[p] # None
    BY <2>2, <2>3, <2>4, <2>7, CallerKept DEF TypeOK
  <2> QED BY <2>6, <2>7
<1>2. ASSUME NEW r \in Request, Cancel(r)
      PROVE  CallsOK'
  BY <1>2 DEF TypeOK, CallsOK, Cancel
<1>3. ASSUME NEW r \in Request, RequestStep(r)
      PROVE  CallsOK'
  <2> DEFINE At(at) == [req[r] EXCEPT !.at = at]
             Done(result) == [req[r] EXCEPT !.at = "done", !.result = result]
  <2> DEFINE c == req[r]
  <2>0. c \in Callers
    BY <1>0
  <2>a. \A at \in {"load", "send", "wait"} : At(at) \in Callers /\ At(at).at = at /\ At(at).s = req[r].s
    <3> SUFFICES ASSUME NEW at \in {"load", "send", "wait"}
                 PROVE  LET d == [c EXCEPT !.at = at] IN d \in Callers /\ d.at = at /\ d.s = c.s
      OBVIOUS
    <3> HIDE DEF c
    <3> QED BY <2>0 DEF Callers
  <2>b. \A result \in {"ok", "err"} : Done(result) \in Callers /\ Done(result).at = "done" /\ Done(result).s = req[r].s
    <3> SUFFICES ASSUME NEW result \in {"ok", "err"}
                 PROVE  LET d == [c EXCEPT !.at = "done", !.result = result]
                        IN d \in Callers /\ d.at = "done" /\ d.s = c.s
      OBVIOUS
    <3> HIDE DEF c
    <3> QED BY <2>0 DEF Callers
  <2>c. r \in watching => req[r].s \in Session
    BY DEF TypeOK, CallsOK
  <2>1. CASE Store(r)
    <3>1. req' = [req EXCEPT ![r] = At("load")] /\ UNCHANGED <<watching, cancelled>> /\ req[r].s \in Session
      BY <1>0, <2>1 DEF Store
    <3> HIDE DEF At
    <3> QED BY <2>a, <3>1, CallerKept DEF TypeOK
  <2>2. CASE Load(r)
    <3>1. /\ req' = [req EXCEPT ![r] = At("send")] \/ req' = [req EXCEPT ![r] = Done("err")]
          /\ UNCHANGED <<watching, cancelled>> /\ req[r].s \in Session
      BY <1>0, <2>2 DEF Load, Finish
    <3> HIDE DEF At, Done
    <3> QED BY <2>a, <2>b, <3>1, CallerKept DEF TypeOK
  <2>3. CASE SendFails(r) \/ GiveUp(r)
    <3>1. req' = [req EXCEPT ![r] = Done("err")] /\ UNCHANGED <<watching, cancelled>> /\ req[r].s \in Session
      BY <1>0, <2>3 DEF SendFails, GiveUp, Finish
    <3> HIDE DEF At, Done
    <3> QED BY <2>b, <3>1, CallerKept DEF TypeOK
  <2>4. CASE SendSucceeds(r)
    <3>1. /\ req' = [req EXCEPT ![r] = At("wait")] /\ UNCHANGED cancelled /\ req[r].s \in Session
          /\ watching' = watching \cup {r}
      BY <1>0, <2>4 DEF SendSucceeds
    <3> HIDE DEF At
    <3> QED BY <2>a, <3>1, CallerKept DEF TypeOK
  <2>5. CASE ContextDone(r) \/ SessionDone(r)
    BY <2>5 DEF TypeOK, CallsOK, ContextDone, SessionDone
  <2>6. CASE ReceiveClosed(r)
    <3>1. /\ req' = [req EXCEPT ![r] = Done("ok")] \/ req' = [req EXCEPT ![r] = Done("err")]
          /\ UNCHANGED <<watching, cancelled>> /\ req[r].s \in Session
      BY <1>0, <2>6 DEF ReceiveClosed, Finish
    <3> HIDE DEF At, Done
    <3> QED BY <2>b, <3>1, CallerKept DEF TypeOK
  <2>7. CASE Receive(r)
    <3> DEFINE kind == Head(ch[r].buf)
               result == IF kind = "error" THEN "err" ELSE "ok"
               ended == [req[r] EXCEPT !.last = kind, !.at = "done", !.result = result]
               going == [req[r] EXCEPT !.last = kind, !.streaming = TRUE]
    <3>1. kind \in Kinds
      BY <2>7, HeadTailProperties DEF Receive, TypeOK, ChannelsOK, Channels
    <3>2. ended \in Callers /\ ended.s = req[r].s
      <4> SUFFICES [c EXCEPT !.last = kind, !.at = "done", !.result = result] \in Callers
                   /\ [c EXCEPT !.last = kind, !.at = "done", !.result = result].s = c.s
        OBVIOUS
      <4> HIDE DEF c, kind
      <4> QED BY <2>0, <3>1 DEF Callers
    <3>3. going \in Callers /\ going.s = req[r].s
      BY <1>0, <3>1 DEF Callers
    <3>4. /\ req' = [req EXCEPT ![r] = IF kind \in Terminal THEN ended ELSE going]
          /\ UNCHANGED <<watching, cancelled>> /\ req[r].s \in Session
      BY <1>0, <2>7 DEF Receive
    <3> HIDE DEF kind, result, ended, going
    <3> QED BY <3>2, <3>3, <3>4, CallerKept DEF TypeOK
  <2> QED BY <1>3, <2>1, <2>2, <2>3, <2>4, <2>5, <2>6, <2>7 DEF RequestStep
<1>4. CASE UNCHANGED <<req, watching, cancelled>>
  BY <1>4 DEF TypeOK, CallsOK
<1>5. CASE Environment
  BY <1>1, <1>2, <1>4, <1>5 DEF Environment, Read, Register, CloseSession, Stop, calls
<1>6. ASSUME NEW s \in Session, SessionStep(s)
      PROVE  CallsOK'
  BY <1>4, <1>6 DEF SessionStep, Connected, Dispatch, Answered, Cleanup, CloseSession, Visit, Tell, Sweep, Unregister, calls
<1>7. CASE Rest
  BY <1>4, <1>7 DEF Rest, vars, calls
<1> QED BY <1>3, <1>5, <1>6, <1>7 DEF Next

\* Readers and cleanups stay well formed, with a message or request in hand.
LEMMA LifeKept ==
  ASSUME TypeOK, Next
  PROVE  LifeOK'
<1>1. CASE UNCHANGED life
  BY <1>1 DEF TypeOK, LifeOK, life
<1>2. ASSUME NEW r \in Request, RequestStep(r)
      PROVE  LifeOK'
  BY <1>1, <1>2 DEF RequestStep, Store, Load, SendFails, SendSucceeds, ContextDone,
                    SessionDone, Receive, ReceiveClosed, GiveUp
<1>3. ASSUME NEW s \in Session, SessionStep(s)
      PROVE  LifeOK'
  BY <1>3, RegisterKeepsLife, CloseKeepsLife, VisitKeepsLife, CleanupKeepsLife,
     DispatchKeepsLife, AnsweredKeepsLife DEF SessionStep, Cleanup, Causes
<1>4. CASE Environment
  BY <1>1, <1>4, ReadKeepsLife, CloseKeepsLife DEF Environment, Call, Cancel, Register, Stop, Causes
<1>5. CASE Rest
  BY <1>1, <1>5 DEF Rest, vars
<1> QED BY <1>2, <1>3, <1>4, <1>5 DEF Next

\* No channel grows over its capacity.
LEMMA ChannelsKept ==
  ASSUME TypeOK, Next
  PROVE  ChannelsOK' /\ pending' \in [Session -> SUBSET Request]
<1> DEFINE Goal == ChannelsOK' /\ pending' \in [Session -> SUBSET Request]
<1>1. CASE UNCHANGED <<ch, missed, pending>>
  BY <1>1 DEF TypeOK, ChannelsOK
<1>2. ASSUME NEW s \in Session, NEW r \in Request, Forget(s, r), UNCHANGED missed
      PROVE  Goal
  BY <1>2, ForgetFacts DEF TypeOK, ChannelsOK
<1>3. ASSUME NEW r \in Request, NEW kind \in Kinds, NEW andClose \in BOOLEAN, NEW culprit,
             Offer(r, kind, andClose, culprit), UNCHANGED pending
      PROVE  Goal
  BY <1>3, OfferFacts DEF TypeOK, ChannelsOK
<1>4. ASSUME NEW r \in Request, RequestStep(r)
      PROVE  Goal
  <2>1. CASE Store(r)
    BY <2>1 DEF Store, chans, TypeOK, ChannelsOK, CallsOK
  <2>2. CASE SendFails(r)
    BY <1>2, <2>2 DEF SendFails, TypeOK, CallsOK
  <2>3. CASE ContextDone(r)
    BY <1>2, <2>3 DEF ContextDone, TypeOK, CallsOK
  <2>4. CASE Receive(r)
    <3> DEFINE buf == ch[r].buf
               rest == Tail(buf)
    <3>1. buf \in Seq(Kinds) /\ buf # <<>> /\ Len(buf) <= Cap /\ Cap \in Nat
      BY <2>4, BoundAssumption DEF Receive, TypeOK, ChannelsOK, Channels
    <3>2. rest \in Seq(Kinds) /\ Len(rest) <= Cap
      BY <3>1, HeadTailProperties
    <3>3. ch' = [ch EXCEPT ![r].buf = rest] /\ UNCHANGED <<missed, pending>>
      BY <2>4 DEF Receive
    <3> HIDE DEF buf, rest
    <3>4. ch' \in [Request -> Channels] /\ ch'[r].buf = rest /\ \A q \in Request \ {r} : ch'[q] = ch[q]
      BY <3>2, <3>3 DEF TypeOK, ChannelsOK, Channels
    <3> QED BY <3>2, <3>3, <3>4 DEF TypeOK, ChannelsOK
  <2> QED BY <1>1, <1>4, <2>1, <2>2, <2>3, <2>4
          DEF RequestStep, Load, SendSucceeds, SessionDone, ReceiveClosed, GiveUp, chans
<1>5. ASSUME NEW s \in Session, SessionStep(s)
      PROVE  Goal
  <2>1. CASE Dispatch(s)
    BY <1>3, <2>1 DEF Dispatch, TypeOK, LifeOK, Messages
  <2>2. CASE Answered(s)
    BY <1>2, <2>2 DEF Answered, TypeOK, LifeOK, Messages
  <2>3. CASE Tell(s)
    BY <1>3, <2>3 DEF Tell, Notify, TypeOK, LifeOK, Kinds
  <2>4. CASE Sweep(s)
    BY <2>4 DEF Sweep, chans, TypeOK, ChannelsOK
  <2> QED BY <1>1, <1>5, <2>1, <2>2, <2>3, <2>4
          DEF SessionStep, Connected, Cleanup, CloseSession, Visit, Unregister, chans
<1>6. CASE Environment
  BY <1>1, <1>6 DEF Environment, Read, Register, CloseSession, Stop, Call, Cancel, chans
<1>7. CASE Rest
  BY <1>1, <1>7 DEF Rest, vars, chans
<1> QED BY <1>4, <1>5, <1>6, <1>7 DEF Next

\* The initial state is well formed.
LEMMA TypeInit == Init => TypeOK
<1> SUFFICES ASSUME Init PROVE TypeOK
  OBVIOUS
<1>1. LinksOK
  BY DEF Init, LinksOK
<1>2. LifeOK
  BY DEF Init, LifeOK, Readers, Cleaners, NoMessage, Causes
<1>3. CallsOK
  BY DEF Init, CallsOK, Callers
<1>4. ChannelsOK
  BY BoundAssumption DEF Init, ChannelsOK, Channels
<1> QED BY <1>1, <1>2, <1>3, <1>4 DEF TypeOK, Init

\* And so is every later one.
LEMMA TypeKept == TypeOK /\ [Next]_vars => TypeOK'
<1> SUFFICES ASSUME TypeOK, [Next]_vars PROVE TypeOK'
  OBVIOUS
<1>1. CASE Next
  BY <1>1, LinksKept, LifeKept, CallsKept, ChannelsKept DEF TypeOK
<1>2. CASE UNCHANGED vars
  BY <1>2 DEF vars, links, life, calls, chans, TypeOK, LinksOK, LifeOK, CallsOK, ChannelsOK
<1> QED BY <1>1, <1>2

-----------------------------------------------------------------------------
(* What a step may do to a request, to an entry of a pending map, to a      *)
(* channel and to a cleanup, whatever action it is.                         *)

RequestMove(r) ==
  /\ req[r].at # "idle" => req'[r].s = req[r].s /\ req'[r].at # "idle"
  /\ req'[r].at \in {"idle", "store"} => req[r].at \in {"idle", "store"}
  /\ req'[r].at = "send" => req[r].at = "send" \/ (req[r].at = "load" /\ r \in pending[req[r].s])
  /\ req'[r].at = "wait" => req[r].at = "wait" \/ (req[r].at = "send" /\ ~closed[req[r].s])

Swept(s) ==
  /\ cleaner[s].at = "range" /\ cleaner'[s].at = "swept"
  /\ cleaner[s].due \cap pending[s] = {} /\ pending'[s] = {}

PendingMove(s, r) ==
  /\ r \in pending'[s] => r \in pending[s] \/ (req[r].at = "store" /\ req[r].s = s /\ req'[r].at = "load")
  /\ r \in pending[s] => r \in pending'[s] \/ ch'[r].closed \/ Swept(s)

ChannelMove(r) ==
  /\ ch[r].closed => ch'[r].closed
  /\ ch'[r].closed =>
       \/ ch[r].closed
       \/ \E s \in Session : r \in pending[s] /\ r \notin pending'[s]
       \/ \E s \in Session : cleaner[s].at = "tell" /\ cleaner[s].r = r /\ cleaner'[s].at = "range"

CleanerMove(s) ==
  /\ \/ UNCHANGED <<cleaner[s], closed[s]>>
     \/ /\ cleaner[s].at = "off" /\ cleaner'[s].at = "range"
        /\ cleaner'[s].due = pending[s] /\ UNCHANGED pending /\ closed'[s]
     \/ /\ cleaner[s].at = "range" /\ cleaner'[s].at = "tell"
        /\ cleaner'[s].r \in pending[s] /\ cleaner'[s].due = cleaner[s].due \ {cleaner'[s].r}
        /\ UNCHANGED closed[s]
     \/ /\ cleaner[s].at = "tell" /\ cleaner'[s].at = "range"
        /\ ch'[cleaner[s].r].closed /\ cleaner'[s].due = cleaner[s].due
        /\ UNCHANGED closed[s]
     \/ Swept(s) /\ UNCHANGED closed[s]
     \/ cleaner[s].at = "swept" /\ cleaner'[s].at = "done" /\ UNCHANGED closed[s]

\* Every action makes the permitted moves of a request ...
LEMMA RequestMoves ==
  ASSUME TypeOK, Next, NEW q \in Request
  PROVE  RequestMove(q)
<1> USE DEF TypeOK, CallsOK, RequestMove
<1>1. CASE UNCHANGED req
  BY <1>1
<1>2. ASSUME NEW r \in Request, NEW p \in Provider, NEW mode \in {"NonStream", "Stream"}, Call(r, p, mode)
      PROVE  RequestMove(q)
  BY <1>2 DEF Call, Callers
<1>3. ASSUME NEW r \in Request, Store(r)
      PROVE  RequestMove(q)
  BY <1>3 DEF Store, Callers
<1>4. ASSUME NEW r \in Request, Load(r)
      PROVE  RequestMove(q)
  BY <1>4 DEF Load, Finish, Callers
<1>5. ASSUME NEW r \in Request, SendFails(r) \/ GiveUp(r) \/ ReceiveClosed(r)
      PROVE  RequestMove(q)
  BY <1>5 DEF SendFails, GiveUp, ReceiveClosed, Finish, Callers
<1>6. ASSUME NEW r \in Request, SendSucceeds(r)
      PROVE  RequestMove(q)
  BY <1>6 DEF SendSucceeds, StillOpen, Callers
<1>7. ASSUME NEW r \in Request, Receive(r)
      PROVE  RequestMove(q)
  BY <1>7 DEF Receive, Callers
<1>8. CASE Environment
  BY <1>1, <1>2, <1>8 DEF Environment, Cancel, Read, Register, CloseSession, Stop, calls
<1>9. ASSUME NEW r \in Request, RequestStep(r)
      PROVE  RequestMove(q)
  BY <1>1, <1>3, <1>4, <1>5, <1>6, <1>7, <1>9 DEF RequestStep, ContextDone, SessionDone
<1>10. ASSUME NEW s \in Session, SessionStep(s)
       PROVE  RequestMove(q)
  BY <1>1, <1>10 DEF SessionStep, Connected, Dispatch, Answered, Cleanup, CloseSession, Visit, Tell, Sweep, Unregister, calls
<1>11. CASE Rest
  BY <1>1, <1>11 DEF Rest, vars, calls
<1> QED BY <1>8, <1>9, <1>10, <1>11 DEF Next

\* ... of a cleanup ...
LEMMA CleanerMoves ==
  ASSUME TypeOK, Next, NEW u \in Session
  PROVE  CleanerMove(u)
<1> USE DEF TypeOK, LifeOK, CleanerMove
<1>1. CASE UNCHANGED <<cleaner, closed>>
  BY <1>1
<1>2. ASSUME NEW s \in Session, NEW cause \in Causes, CloseSession(s, cause)
      PROVE  CleanerMove(u)
  BY <1>2 DEF CloseSession, Cleaner, Cleaners
<1>3. ASSUME NEW s \in Session, NEW r \in Request, Visit(s, r)
      PROVE  CleanerMove(u)
  BY <1>3 DEF Visit, Cleaners
<1>4. ASSUME NEW s \in Session, Tell(s)
      PROVE  CleanerMove(u)
  <2>1. ch'[cleaner[s].r].closed
    BY <1>4, OfferFacts DEF Tell, Notify, Kinds
  <2> QED BY <1>4, <2>1 DEF Tell, Cleaners
<1>5. ASSUME NEW s \in Session, Sweep(s)
      PROVE  CleanerMove(u)
  BY <1>5 DEF Sweep, Swept, Cleaners
<1>6. ASSUME NEW s \in Session, Unregister(s)
      PROVE  CleanerMove(u)
  BY <1>6 DEF Unregister, Cleaners
<1>7. ASSUME NEW s \in Session, SessionStep(s)
      PROVE  CleanerMove(u)
  BY <1>1, <1>2, <1>3, <1>4, <1>5, <1>6, <1>7 DEF SessionStep, Connected, Dispatch, Answered, Cleanup, Causes
<1>8. CASE Environment
  BY <1>1, <1>2, <1>8 DEF Environment, Call, Cancel, Read, Register, Stop, life, Causes
<1>9. ASSUME NEW r \in Request, RequestStep(r)
      PROVE  CleanerMove(u)
  BY <1>1, <1>9 DEF RequestStep, Store, Load, SendFails, SendSucceeds, ContextDone,
                    SessionDone, Receive, ReceiveClosed, GiveUp, life
<1>10. CASE Rest
  BY <1>1, <1>10 DEF Rest, vars, life
<1> QED BY <1>7, <1>8, <1>9, <1>10 DEF Next

\* ... of a pending entry and of a channel.
LEMMA ChannelMoves ==
  ASSUME TypeOK, Next, NEW u \in Session, NEW q \in Request
  PROVE  PendingMove(u, q) /\ ChannelMove(q)
<1> DEFINE Goal == PendingMove(u, q) /\ ChannelMove(q)
<1>1. CASE UNCHANGED <<ch, pending>>
  BY <1>1 DEF PendingMove, ChannelMove
<1>2. ASSUME NEW s \in Session, NEW r \in Request, Forget(s, r)
      PROVE  Goal
  BY <1>2, ForgetFacts DEF PendingMove, ChannelMove
<1>3. ASSUME NEW r \in Request, RequestStep(r)
      PROVE  Goal
  <2>1. CASE Store(r)
    <3>1. req[r].s \in Session /\ req'[r].at = "load"
      BY <2>1 DEF Store, TypeOK, CallsOK
    <3> QED BY <2>1, <3>1 DEF Store, TypeOK, chans, PendingMove, ChannelMove
  <2>2. CASE SendFails(r)
    BY <1>2, <2>2 DEF SendFails, TypeOK, CallsOK
  <2>3. CASE ContextDone(r)
    BY <1>2, <2>3 DEF ContextDone, TypeOK, CallsOK
  <2>4. CASE Receive(r)
    <3>1. ch'[q].closed = ch[q].closed /\ UNCHANGED pending
      BY <2>4 DEF Receive, TypeOK, ChannelsOK, Channels
    <3> QED BY <3>1 DEF PendingMove, ChannelMove
  <2> QED BY <1>1, <1>3, <2>1, <2>2, <2>3, <2>4
          DEF RequestStep, Load, SendSucceeds, SessionDone, ReceiveClosed, GiveUp, chans
<1>4. ASSUME NEW s \in Session, SessionStep(s)
      PROVE  Goal
  <2>1. CASE Dispatch(s)
    <3>1. reader[s].msg.r \in Request /\ reader[s].msg.kind \in Kinds
      BY <2>1 DEF Dispatch, TypeOK, LifeOK, Messages
    <3>2. ch'[q].closed = ch[q].closed
      BY <2>1, <3>1, OfferFacts DEF Dispatch, TypeOK, ChannelsOK, Channels
    <3> QED BY <2>1, <3>2 DEF Dispatch, PendingMove, ChannelMove
  <2>2. CASE Answered(s)
    BY <1>2, <2>2 DEF Answered, TypeOK, LifeOK, Messages
  <2>3. CASE Tell(s)
    <3>1. cleaner[s].r \in Request /\ cleaner'[s].at = "range"
      BY <2>3 DEF Tell, TypeOK, LifeOK, Cleaners
    <3>2. q # cleaner[s].r => ch'[q] = ch[q]
      BY <2>3, <3>1, OfferFacts DEF Tell, Notify, Kinds
    <3>3. ch[q].closed => ch'[q].closed
      BY <2>3, <3>1, OfferFacts DEF Tell, Notify, Kinds
    <3> QED BY <2>3, <3>1, <3>2, <3>3 DEF Tell, PendingMove, ChannelMove
  <2>4. CASE Sweep(s)
    BY <2>4 DEF Sweep, Swept, chans, TypeOK, LifeOK, Cleaners, PendingMove, ChannelMove
  <2> QED BY <1>1, <1>4, <2>1, <2>2, <2>3, <2>4
          DEF SessionStep, Connected, Cleanup, CloseSession, Visit, Unregister, chans
<1>5. CASE Environment
  BY <1>1, <1>5 DEF Environment, Read, Register, CloseSession, Stop, Call, Cancel, chans
<1>6. CASE Rest
  BY <1>1, <1>6 DEF Rest, vars, chans
<1> QED BY <1>3, <1>4, <1>5, <1>6 DEF Next

\* Everything about requests, pending maps, channels and cleanups in one fact.
Moves ==
  /\ \A r \in Request : RequestMove(r) /\ ChannelMove(r)
  /\ \A s \in Session : CleanerMove(s) /\ \A r \in Request : PendingMove(s, r)

\* The same for a channel when there is no session to speak of.
LEMMA ChannelCloses ==
  ASSUME TypeOK, Next, NEW q \in Request
  PROVE  ChannelMove(q)
<1>1. CASE Session = {}
  <2>1. ~\E r \in Request : RequestStep(r)
    BY <1>1 DEF TypeOK, CallsOK, RequestStep, Store, Load, SendFails, SendSucceeds, ContextDone,
                SessionDone, Receive, ReceiveClosed, GiveUp
  <2>2. UNCHANGED ch
    BY <1>1, <2>1 DEF Next, Environment, Call, Cancel, Stop, Rest, vars, chans
  <2> QED BY <2>2 DEF ChannelMove
<1>2. ASSUME NEW u \in Session PROVE ChannelMove(q)
  BY <1>2, ChannelMoves
<1> QED BY <1>1, <1>2

\* Together, for every step.
LEMMA NextMoves == TypeOK /\ [Next]_vars => Moves
<1>1. ASSUME TypeOK, Next PROVE Moves
  <2>1. ASSUME NEW r \in Request PROVE RequestMove(r)
    BY <1>1, RequestMoves
  <2>2. ASSUME NEW s \in Session PROVE CleanerMove(s)
    BY <1>1, CleanerMoves
  <2>3. ASSUME NEW s \in Session, NEW r \in Request PROVE PendingMove(s, r) /\ ChannelMove(r)
    BY <1>1, ChannelMoves
  <2>4. ASSUME NEW r \in Request PROVE ChannelMove(r)
    BY <1>1, ChannelCloses
  <2> QED BY <2>1, <2>2, <2>3, <2>4 DEF Moves
<1>2. ASSUME TypeOK, UNCHANGED vars PROVE Moves
  <2>1. UNCHANGED <<closed, cleaner, pending, req, ch>>
    BY <1>2 DEF vars, life, calls, chans
  <2>2. ASSUME NEW r \in Request PROVE RequestMove(r) /\ ChannelMove(r)
    BY <1>2, <2>1 DEF RequestMove, ChannelMove
  <2>3. ASSUME NEW s \in Session PROVE CleanerMove(s) /\ \A r \in Request : PendingMove(s, r)
    BY <2>1 DEF CleanerMove, PendingMove
  <2> QED BY <2>2, <2>3 DEF Moves
<1> QED BY <1>1, <1>2

-----------------------------------------------------------------------------
(* Whose request, whose channel, and who still has to be told.              *)

\* The places of the records, for the steps below.
LEMMA Places ==
  ASSUME TypeOK
  PROVE  /\ \A s \in Session : cleaner[s].at \in {"off", "range", "tell", "swept", "done"}
         /\ \A s \in Session : pending[s] \subseteq Request /\ cleaner[s].due \subseteq Request
         /\ \A s \in Session : cleaner[s].at = "tell" => cleaner[s].r \in Request
         /\ \A r \in Request : req[r].at \in {"store", "load", "send", "wait"} => req[r].s \in Session
         /\ \A r \in Request : req[r].at \in {"idle", "store", "load", "send", "wait", "done"}
BY DEF TypeOK, LifeOK, CallsOK, Cleaners, Callers

\* Those moves are all it takes to keep the relations between requests, pending
\* maps, channels and cleanups.
LEMMA DeliveryKept ==
  ASSUME TypeOK, TypeOK', Delivery, OpenWhilePending, NoneLeftBehind, Moves
  PROVE  Delivery' /\ OpenWhilePending' /\ NoneLeftBehind'
<1>1. PendingIsOwn'
  BY Places DEF Delivery, PendingIsOwn, Moves, RequestMove, PendingMove, TypeOK
<1>2. ToldIsOwn'
  BY Places DEF Delivery, ToldIsOwn, PendingIsOwn, Moves, RequestMove, CleanerMove, Swept, TypeOK
<1>3. ClosedIsStored'
  BY Places DEF Delivery, ClosedIsStored, ToldIsOwn, PendingIsOwn, Moves, RequestMove, ChannelMove, TypeOK
<1>4. ClosedByCleanup'
  BY Places DEF Delivery, ClosedByCleanup, Moves, CleanerMove, Swept, TypeOK
<1>5. OpenWhilePending'
  BY Places DEF OpenWhilePending, Delivery, ClosedIsStored, ToldIsOwn, PendingIsOwn, Moves, PendingMove, ChannelMove, CleanerMove, Swept
<1>6. PendingOrClosed'
  BY Places DEF Delivery, PendingOrClosed, Moves, RequestMove, PendingMove, ChannelMove, CleanerMove, Swept
<1>7. StillToTell'
  BY Places DEF Delivery, StillToTell, PendingOrClosed, ClosedByCleanup, Moves, RequestMove, ChannelMove, CleanerMove, Swept
<1>8. NoneLeftBehind'
  BY Places DEF NoneLeftBehind, Delivery, StillToTell, PendingOrClosed, ClosedByCleanup, Moves, RequestMove, ChannelMove, CleanerMove, Swept
<1> QED BY <1>1, <1>2, <1>3, <1>4, <1>5, <1>6, <1>7, <1>8 DEF Delivery

-----------------------------------------------------------------------------
(* Connections.                                                             *)

\* A live connection stays known: whoever takes its place will close it, and the
\* end of another session takes out only that session.
LEMMA RegisteredKept ==
  ASSUME TypeOK, TypeOK', Delivery, RegisteredIsKnown, Next
  PROVE  RegisteredIsKnown'
<1> DEFINE Known(s) ==
      \/ sessions[ProviderOf[s]] = s
      \/ s \in toStop
      \/ \E u \in Session : conn[u] = "registered" /\ replaced[u] = s
<1> SUFFICES ASSUME NEW t \in Session, conn'[t] # "absent", ~closed'[t]
             PROVE  Known(t)'
  BY DEF RegisteredIsKnown
<1>0. conn[t] # "absent" /\ ~closed[t] => Known(t)
  BY DEF RegisteredIsKnown
<1> USE DEF TypeOK, LinksOK
<1>1. ASSUME NEW s \in Session, Register(s)
      PROVE  Known(t)'
  <2>1. CASE s = t
    BY <1>1, <2>1, SessionAssumption DEF Register
  <2>2. CASE s # t
    <3>1. ~closed[t] /\ conn[t] # "absent"
      BY <1>1, <2>2 DEF Register, life
    <3>2. CASE \E u \in Session : conn[u] = "registered" /\ replaced[u] = t
      BY <1>1, <3>2 DEF Register
    <3>3. CASE sessions[ProviderOf[t]] = t
      BY <1>1, <2>2, <3>3, SessionAssumption DEF Register
    <3>4. CASE t \in toStop
      BY <1>1, <3>4 DEF Register
    <3> QED BY <1>0, <3>1, <3>2, <3>3, <3>4
  <2> QED BY <2>1, <2>2
<1>2. ASSUME NEW s \in Session, Connected(s)
      PROVE  Known(t)'
  <2>1. replaced[s] # None => replaced[s] \in Session /\ closed[replaced[s]]
    BY <1>2 DEF Connected, Delivery, ClosedByCleanup
  <2>2. ~closed[t] /\ conn[t] # "absent"
    BY <1>2 DEF Connected
  <2>3. replaced[s] # t
    BY <2>1, <2>2, SessionAssumption
  <2>4. UNCHANGED <<sessions, toStop, replaced>> /\ \A u \in Session \ {s} : conn'[u] = conn[u]
    BY <1>2 DEF Connected
  <2> QED BY <1>0, <2>2, <2>3, <2>4
<1>3. CASE Stop
  <2>1. ~closed[t] /\ conn[t] # "absent" /\ toStop = {} /\ ProviderOf[t] \in Provider /\ t # None
    BY <1>3, SessionAssumption DEF Stop, life
  <2>2. CASE sessions[ProviderOf[t]] = t
    BY <1>3, <2>1, <2>2 DEF Stop
  <2>3. CASE \E u \in Session : conn[u] = "registered" /\ replaced[u] = t
    BY <1>3, <2>3 DEF Stop
  <2> QED BY <1>0, <2>1, <2>2, <2>3
<1>4. ASSUME NEW s \in Session, Unregister(s)
      PROVE  Known(t)'
  <2>1. closed[s]
    BY <1>4 DEF Unregister, Delivery, ClosedByCleanup
  <2>2. ~closed[t] /\ conn[t] # "absent" /\ s # t
    BY <1>4, <2>1 DEF Unregister
  <2>3. UNCHANGED <<conn, replaced>> /\ toStop' = toStop \ {s} /\ sessions' = Without(s)
    BY <1>4 DEF Unregister
  <2> QED BY <1>0, <2>2, <2>3, SessionAssumption DEF Without
<1>5. CASE UNCHANGED links /\ closed[t] = closed'[t]
  BY <1>0, <1>5 DEF links
<1>6. ASSUME NEW s \in Session, NEW cause \in Causes, CloseSession(s, cause)
      PROVE  Known(t)'
  BY <1>0, <1>6 DEF CloseSession, links, LifeOK
<1>7. ASSUME NEW s \in Session, SessionStep(s)
      PROVE  Known(t)'
  BY <1>2, <1>4, <1>5, <1>6, <1>7 DEF SessionStep, Cleanup, Dispatch, Answered, Visit, Tell, Sweep, Causes
<1>8. ASSUME NEW r \in Request, RequestStep(r)
      PROVE  Known(t)'
  BY <1>5, <1>8 DEF RequestStep, Store, Load, SendFails, SendSucceeds, ContextDone,
                    SessionDone, Receive, ReceiveClosed, GiveUp, life
<1>9. CASE Environment
  BY <1>1, <1>3, <1>5, <1>6, <1>9 DEF Environment, Call, Cancel, Read, life, Causes
<1>10. CASE Rest
  BY <1>5, <1>10 DEF Rest, vars, life
<1> QED BY <1>7, <1>8, <1>9, <1>10 DEF Next
-----------------------------------------------------------------------------
(* Results and the message that ends a request.                             *)

\* What a step may do to what a request has to report.
ResultMove(r) ==
  /\ req[r].at = "done" => req'[r] = req[r]
  /\ req'[r].result # "none" => req'[r].at = "done"
  /\ req'[r].result = "ok" /\ req'[r].last \notin Terminal =>
       req'[r] = req[r] \/ (req[r].at = "wait" /\ ch[r].buf = <<>> /\ ch[r].closed)
  /\ missed \subseteq missed' /\ cancelled \subseteq cancelled'

\* What it may do to the message that ends it.
TerminalMove(r) ==
  /\ HasTerminal(r) => HasTerminal(r)' \/ req'[r].at = "done"
  /\ ch'[r].closed =>
       \/ ch[r].closed \/ HasTerminal(r)' \/ req'[r].at = "done"
       \/ r \in missed' \cup cancelled'
       \/ \E s \in Session : reader[s].at = "answered" /\ reader[s].msg.r = r

\* What it may do to a reader.
ReaderMove(s) ==
  reader'[s].at = "answered" =>
    \/ reader'[s] = reader[s]
    \/ \A r \in Request :
         r = reader'[s].msg.r => ch'[r].closed \/ r \in missed' \/ HasTerminal(r)'

\* Drops and cancellations are never taken back.
LEMMA MissedGrows ==
  ASSUME TypeOK, Next
  PROVE  missed \subseteq missed'
<1>1. CASE UNCHANGED missed
  BY <1>1
<1>2. ASSUME NEW s \in Session, Dispatch(s) \/ Tell(s)
      PROVE  missed \subseteq missed'
  BY <1>2 DEF Dispatch, Tell, Notify, Offer
<1>3. ASSUME NEW s \in Session, SessionStep(s)
      PROVE  missed \subseteq missed'
  BY <1>1, <1>2, <1>3 DEF SessionStep, Connected, Answered, Cleanup, CloseSession, Visit, Sweep, Unregister, chans
<1>4. CASE Environment
  BY <1>1, <1>4 DEF Environment, Read, Register, CloseSession, Stop, Call, Cancel, chans
<1>5. ASSUME NEW r \in Request, RequestStep(r)
      PROVE  missed \subseteq missed'
  BY <1>1, <1>5 DEF RequestStep, Store, Load, SendFails, SendSucceeds, ContextDone,
                    SessionDone, Receive, ReceiveClosed, GiveUp, chans
<1>6. CASE Rest
  BY <1>1, <1>6 DEF Rest, vars, chans
<1> QED BY <1>3, <1>4, <1>5, <1>6 DEF Next

LEMMA CancelledGrows ==
  ASSUME TypeOK, Next
  PROVE  cancelled \subseteq cancelled'
<1>1. CASE UNCHANGED cancelled
  BY <1>1
<1>2. ASSUME NEW s \in Session, SessionStep(s)
      PROVE  cancelled \subseteq cancelled'
  BY <1>1, <1>2 DEF SessionStep, Connected, Dispatch, Answered, Cleanup, CloseSession, Visit, Tell, Sweep, Unregister, calls
<1>3. CASE Environment
  BY <1>1, <1>3 DEF Environment, Read, Register, CloseSession, Stop, Call, Cancel, calls
<1>4. ASSUME NEW r \in Request, RequestStep(r)
      PROVE  cancelled \subseteq cancelled'
  BY <1>1, <1>4 DEF RequestStep, Store, Load, SendFails, SendSucceeds, ContextDone,
                    SessionDone, Receive, ReceiveClosed, GiveUp
<1>5. CASE Rest
  BY <1>1, <1>5 DEF Rest, vars, calls
<1> QED BY <1>2, <1>3, <1>4, <1>5 DEF Next

\* Every action makes the permitted moves of a result ...
LEMMA ResultMoves ==
  ASSUME TypeOK, ResultIsLast, Next, NEW q \in Request
  PROVE  ResultMove(q)
<1>0. missed \subseteq missed' /\ cancelled \subseteq cancelled'
  BY MissedGrows, CancelledGrows
<1> USE <1>0 DEF TypeOK, CallsOK, ResultMove, ResultIsLast
<1>1. CASE UNCHANGED req
  BY <1>1
<1>2. ASSUME NEW r \in Request, NEW p \in Provider, NEW mode \in {"NonStream", "Stream"}, Call(r, p, mode)
      PROVE  ResultMove(q)
  BY <1>2 DEF Call, Callers
<1>3. ASSUME NEW r \in Request, Store(r)
      PROVE  ResultMove(q)
  BY <1>3 DEF Store, Callers
<1>4. ASSUME NEW r \in Request, Load(r)
      PROVE  ResultMove(q)
  BY <1>4 DEF Load, Finish, Callers
<1>5. ASSUME NEW r \in Request, SendFails(r) \/ GiveUp(r)
      PROVE  ResultMove(q)
  BY <1>5 DEF SendFails, GiveUp, Finish, Callers
<1>6. ASSUME NEW r \in Request, SendSucceeds(r)
      PROVE  ResultMove(q)
  BY <1>6 DEF SendSucceeds, Callers
<1>7. ASSUME NEW r \in Request, Receive(r)
      PROVE  ResultMove(q)
  BY <1>7 DEF Receive, Callers
<1>8. ASSUME NEW r \in Request, ReceiveClosed(r)
      PROVE  ResultMove(q)
  BY <1>8 DEF ReceiveClosed, Finish, Callers
<1>9. CASE Environment
  BY <1>1, <1>2, <1>9 DEF Environment, Cancel, Read, Register, CloseSession, Stop, calls
<1>10. ASSUME NEW r \in Request, RequestStep(r)
       PROVE  ResultMove(q)
  BY <1>1, <1>3, <1>4, <1>5, <1>6, <1>7, <1>8, <1>10 DEF RequestStep, ContextDone, SessionDone
<1>11. ASSUME NEW s \in Session, SessionStep(s)
       PROVE  ResultMove(q)
  BY <1>1, <1>11 DEF SessionStep, Connected, Dispatch, Answered, Cleanup, CloseSession, Visit, Tell, Sweep, Unregister, calls
<1>12. CASE Rest
  BY <1>1, <1>12 DEF Rest, vars, calls
<1> QED BY <1>9, <1>10, <1>11, <1>12 DEF Next

\* ... of the message that ends a request ...
LEMMA TerminalMoves ==
  ASSUME TypeOK, Next, NEW q \in Request
  PROVE  TerminalMove(q)
<1>1. CASE UNCHANGED ch
  BY <1>1 DEF TerminalMove, HasTerminal
<1>2. ASSUME NEW s \in Session, NEW r \in Request, Forget(s, r),
             \/ req'[r].at = "done" \/ r \in cancelled'
             \/ \E u \in Session : reader[u].at = "answered" /\ reader[u].msg.r = r
      PROVE  TerminalMove(q)
  BY <1>2, ForgetFacts DEF TerminalMove, HasTerminal
<1>3. ASSUME NEW r \in Request, RequestStep(r)
      PROVE  TerminalMove(q)
  <2>1. CASE SendFails(r)
    <3>1. req[r].s \in Session /\ req'[r].at = "done"
      BY <2>1 DEF SendFails, Finish, TypeOK, CallsOK
    <3> QED BY <1>2, <2>1, <3>1 DEF SendFails
  <2>2. CASE ContextDone(r)
    <3>1. req[r].s \in Session /\ r \in cancelled'
      BY <2>2 DEF ContextDone, TypeOK, CallsOK
    <3> QED BY <1>2, <2>2, <3>1 DEF ContextDone
  <2>3. CASE Receive(r)
    <3> DEFINE buf == ch[r].buf
               rest == Tail(buf)
    <3>1. buf \in Seq(Kinds) /\ buf # <<>> /\ Len(buf) \in Nat
      BY <2>3 DEF Receive, TypeOK, ChannelsOK, Channels
    <3>2. /\ rest \in Seq(Kinds) /\ Len(rest) = Len(buf) - 1
          /\ \A i \in 1 .. Len(rest) : rest[i] = buf[i + 1]
      BY <3>1, HeadTailProperties
    <3>3. /\ ch'[r].buf = rest /\ ch'[r].closed = ch[r].closed
          /\ \A p \in Request \ {r} : ch'[p] = ch[p]
      BY <2>3 DEF Receive, TypeOK, ChannelsOK, Channels
    <3>4. Head(buf) \in Terminal => req'[r].at = "done"
      BY <2>3 DEF Receive, TypeOK, CallsOK, Callers
    <3>5. ASSUME HasTerminal(r), Head(buf) \notin Terminal
          PROVE  HasTerminal(r)'
      <4>1. PICK i \in 1 .. Len(buf) : buf[i] \in Terminal
        BY <3>1, <3>5 DEF HasTerminal
      <4>2. i # 1
        BY <3>1, <3>5, <4>1
      <4>3. i - 1 \in 1 .. Len(rest) /\ rest[i - 1] \in Terminal
        BY <3>1, <3>2, <4>1, <4>2
      <4>4. DOMAIN rest = 1 .. Len(rest)
        BY <3>2
      <4> HIDE DEF rest
      <4> QED BY <3>3, <4>3, <4>4 DEF HasTerminal
    <3> HIDE DEF buf, rest
    <3> QED BY <3>3, <3>4, <3>5 DEF TerminalMove, HasTerminal
  <2> QED BY <1>1, <1>3, <2>1, <2>2, <2>3
          DEF RequestStep, Store, Load, SendSucceeds, SessionDone, ReceiveClosed, GiveUp, chans
<1>4. ASSUME NEW s \in Session, SessionStep(s)
      PROVE  TerminalMove(q)
  <2>1. CASE Dispatch(s)
    <3>1. reader[s].msg.r \in Request /\ reader[s].msg.kind \in Kinds
      BY <2>1 DEF Dispatch, TypeOK, LifeOK, Messages
    <3>2. ch'[q].closed = ch[q].closed
      BY <2>1, <3>1, OfferFacts DEF Dispatch, TypeOK, ChannelsOK, Channels
    <3>3. HasTerminal(q) => HasTerminal(q)'
      <4>1. CASE q = reader[s].msg.r
        BY <2>1, <3>1, <4>1, OfferFacts DEF Dispatch
      <4>2. CASE q # reader[s].msg.r
        BY <2>1, <3>1, <4>2, OfferFacts DEF Dispatch, HasTerminal
      <4> QED BY <4>1, <4>2
    <3> QED BY <3>2, <3>3 DEF TerminalMove
  <2>2. CASE Answered(s)
    <3>1. reader[s].msg.r \in Request
      BY <2>2 DEF Answered, TypeOK, LifeOK, Messages
    <3> QED BY <1>2, <2>2, <3>1 DEF Answered
  <2>3. CASE Tell(s)
    <3>1. cleaner[s].r \in Request /\ Offer(cleaner[s].r, "error", TRUE, cleaner[s].cause)
      BY <2>3 DEF Tell, Notify, TypeOK, LifeOK
    <3>2. CASE q # cleaner[s].r
      <4>1. ch'[q] = ch[q]
        BY <3>1, <3>2, OfferFacts DEF Kinds
      <4> QED BY <4>1 DEF TerminalMove, HasTerminal
    <3>3. CASE q = cleaner[s].r
      BY <3>1, <3>3, OfferFacts DEF Kinds, Terminal, TerminalMove
    <3> QED BY <3>2, <3>3
  <2> QED BY <1>1, <1>4, <2>1, <2>2, <2>3
          DEF SessionStep, Connected, Cleanup, CloseSession, Visit, Sweep, Unregister, chans
<1>5. CASE Environment
  BY <1>1, <1>5 DEF Environment, Read, Register, CloseSession, Stop, Call, Cancel, chans
<1>6. CASE Rest
  BY <1>1, <1>6 DEF Rest, vars, chans
<1> QED BY <1>3, <1>4, <1>5, <1>6 DEF Next

\* ... and of a reader.
LEMMA ReaderMoves ==
  ASSUME TypeOK, Next, NEW u \in Session
  PROVE  ReaderMove(u)
<1>1. CASE UNCHANGED reader
  BY <1>1 DEF ReaderMove
<1>2. ASSUME NEW s \in Session, Connected(s) \/ Answered(s)
      PROVE  ReaderMove(u)
  BY <1>2 DEF Connected, Answered, ReaderMove, TypeOK, LifeOK, Readers
<1>3. ASSUME NEW s \in Session, NEW r \in Request, NEW kind \in Kinds, Read(s, r, kind)
      PROVE  ReaderMove(u)
  BY <1>3 DEF Read, ReaderMove, TypeOK, LifeOK
<1>4. ASSUME NEW s \in Session, Dispatch(s)
      PROVE  ReaderMove(u)
  <2>1. PICK r \in Request, kind \in Kinds :
          /\ r = reader[s].msg.r /\ kind = reader[s].msg.kind
          /\ Offer(r, kind, FALSE, "dispatch")
    BY <1>4 DEF Dispatch, TypeOK, LifeOK, Messages
  <2>2. CASE u # s
    BY <1>4, <2>2 DEF Dispatch, ReaderMove, TypeOK, LifeOK
  <2>3. CASE u = s
    <3>1. reader'[s].at = "answered" => kind \in Terminal /\ reader'[s].msg.r = r
      BY <1>4, <2>1 DEF Dispatch, TypeOK, LifeOK
    <3>2. kind \in Terminal => ch[r].closed \/ r \in missed' \/ HasTerminal(r)'
      BY <2>1, OfferFacts
    <3>3. ch[r].closed => ch'[r].closed
      BY <2>1 DEF Offer
    <3> QED BY <2>3, <3>1, <3>2, <3>3 DEF ReaderMove, HasTerminal
  <2> QED BY <2>2, <2>3
<1>5. ASSUME NEW s \in Session, SessionStep(s)
      PROVE  ReaderMove(u)
  BY <1>1, <1>2, <1>4, <1>5 DEF SessionStep, Cleanup, CloseSession, Visit, Tell, Sweep, Unregister
<1>6. CASE Environment
  BY <1>1, <1>3, <1>6 DEF Environment, Register, CloseSession, Stop, Call, Cancel, life
<1>7. ASSUME NEW r \in Request, RequestStep(r)
      PROVE  ReaderMove(u)
  BY <1>1, <1>7 DEF RequestStep, Store, Load, SendFails, SendSucceeds, ContextDone,
                    SessionDone, Receive, ReceiveClosed, GiveUp, life
<1>8. CASE Rest
  BY <1>1, <1>8 DEF Rest, vars, life
<1> QED BY <1>5, <1>6, <1>7, <1>8 DEF Next

\* The last message is there whenever a channel closes with neither a drop nor
\* a cancelled context, so no stream that was cut off is reported as whole.
LEMMA TruncationKept ==
  ASSUME TypeOK, TypeOK', Truncation, TruncatedOnlyIfFull, Next
  PROVE  Truncation' /\ TruncatedOnlyIfFull'
<1>1. ASSUME NEW r \in Request
      PROVE  /\ ResultMove(r) /\ TerminalMove(r) /\ ChannelMove(r)
             /\ missed \subseteq missed' /\ cancelled \subseteq cancelled'
  BY <1>1, ResultMoves, TerminalMoves, ChannelCloses, MissedGrows, CancelledGrows DEF Truncation
<1>2. ASSUME NEW s \in Session
      PROVE  ReaderMove(s)
  BY ReaderMoves
<1>3. ResultIsLast'
  BY <1>1 DEF ResultMove, ResultIsLast
<1>4. TruncatedOnlyIfFull'
  <2> SUFFICES ASSUME NEW r \in Request, req'[r].result = "ok", req'[r].last \notin Terminal
               PROVE  r \in missed' \cup cancelled'
    BY DEF TruncatedOnlyIfFull
  <2>1. CASE req'[r] = req[r]
    BY <1>1, <2>1 DEF TruncatedOnlyIfFull
  <2>2. CASE req[r].at = "wait" /\ ch[r].buf = <<>> /\ ch[r].closed
    <3>1. ~HasTerminal(r)
      BY <2>2 DEF HasTerminal
    <3> QED BY <1>1, <2>2, <3>1 DEF Truncation, ClosedWithTerminal
  <2> QED BY <1>1, <2>1, <2>2 DEF ResultMove
<1>5. ClosedWithTerminal'
  <2> SUFFICES ASSUME NEW r \in Request, req'[r].at # "done", ch'[r].closed, r \notin missed' \cup cancelled'
               PROVE  HasTerminal(r)'
    BY DEF ClosedWithTerminal, HasTerminal
  <2>1. req[r].at # "done" /\ r \notin missed \cup cancelled
    BY <1>1 DEF ResultMove
  <2>2. CASE ch[r].closed
    BY <1>1, <2>1, <2>2 DEF TerminalMove, Truncation, ClosedWithTerminal
  <2>3. CASE ~ch[r].closed
    BY <1>1, <2>1, <2>3 DEF TerminalMove, Truncation, AnsweredWithTerminal
  <2> QED BY <2>2, <2>3
<1>6. AnsweredWithTerminal'
  <2> SUFFICES ASSUME NEW s \in Session, NEW r \in Request, r = reader'[s].msg.r,
                      reader'[s].at = "answered", req'[r].at # "done", ~ch'[r].closed, r \notin missed'
               PROVE  HasTerminal(r)'
    BY DEF AnsweredWithTerminal, HasTerminal, TypeOK, LifeOK, Messages
  <2>1. CASE reader'[s] = reader[s]
    <3>1. req[r].at # "done" /\ ~ch[r].closed /\ r \notin missed
      BY <1>1 DEF ResultMove, ChannelMove
    <3>2. HasTerminal(r)
      BY <2>1, <3>1 DEF Truncation, AnsweredWithTerminal
    <3> QED BY <1>1, <3>2 DEF TerminalMove
  <2>2. CASE reader'[s] # reader[s]
    BY <1>2, <2>2 DEF ReaderMove, HasTerminal
  <2> QED BY <2>1, <2>2
<1> QED BY <1>3, <1>4, <1>5, <1>6 DEF Truncation

-----------------------------------------------------------------------------
(* The invariant.                                                           *)

\* The three facts of the inductive invariant.
LEMMA InvInit == Init => IInv
<1> SUFFICES ASSUME Init PROVE IInv
  OBVIOUS
<1>1. TypeOK
  BY TypeInit
<1>2. Delivery /\ OpenWhilePending /\ NoneLeftBehind
  BY DEF Init, Delivery, PendingIsOwn, ToldIsOwn, ClosedIsStored, ClosedByCleanup,
         PendingOrClosed, StillToTell, OpenWhilePending, NoneLeftBehind
<1>3. RegisteredIsKnown
  BY DEF Init, RegisteredIsKnown
<1>4. Truncation /\ TruncatedOnlyIfFull
  BY DEF Init, Truncation, ClosedWithTerminal, AnsweredWithTerminal, ResultIsLast, TruncatedOnlyIfFull
<1> QED BY <1>1, <1>2, <1>3, <1>4 DEF IInv

LEMMA InvKept == IInv /\ [Next]_vars => IInv'
<1> SUFFICES ASSUME IInv, [Next]_vars PROVE IInv'
  OBVIOUS
<1>1. CASE Next
  <2>1. TypeOK'
    BY <1>1, TypeKept DEF IInv
  <2>2. Moves
    BY <1>1, NextMoves DEF IInv
  <2>3. Delivery' /\ OpenWhilePending' /\ NoneLeftBehind'
    BY <2>1, <2>2, DeliveryKept DEF IInv
  <2>4. RegisteredIsKnown'
    BY <1>1, <2>1, RegisteredKept DEF IInv
  <2>5. Truncation' /\ TruncatedOnlyIfFull'
    BY <1>1, <2>1, TruncationKept DEF IInv
  <2> QED BY <2>1, <2>3, <2>4, <2>5 DEF IInv
<1>2. CASE UNCHANGED vars
  <2>1. UNCHANGED <<sessions, conn, replaced, closed, pending, reader, cleaner, toStop, ch, req,
                    watching, cancelled, missed>>
    BY <1>2 DEF vars, links, life, calls, chans
  <2>2. TypeOK'
    BY <1>2, TypeKept DEF IInv
  <2>3. Delivery' /\ OpenWhilePending' /\ NoneLeftBehind'
    BY <2>1 DEF IInv, Delivery, PendingIsOwn, ToldIsOwn, ClosedIsStored, ClosedByCleanup,
                PendingOrClosed, StillToTell, OpenWhilePending, NoneLeftBehind
  <2>4. RegisteredIsKnown'
    BY <2>1 DEF IInv, RegisteredIsKnown
  <2>5. Truncation' /\ TruncatedOnlyIfFull'
    BY <2>1 DEF IInv, Truncation, ClosedWithTerminal, AnsweredWithTerminal, ResultIsLast,
                HasTerminal, TruncatedOnlyIfFull
  <2> QED BY <2>2, <2>3, <2>4, <2>5 DEF IInv
<1> QED BY <1>1, <1>2

LEMMA Invariance == Spec => []IInv
<1> QED BY InvInit, InvKept, PTL DEF Spec

-----------------------------------------------------------------------------
(* What follows.                                                            *)

\* The goroutines' local state stays well formed, and no channel of a request
\* ever holds more than its capacity, whatever peers, callers and cleanups do.
THEOREM TypeCorrect == Spec => []TypeOK
<1>1. IInv => TypeOK
  BY DEF IInv
<1> QED BY <1>1, Invariance, PTL

\* Whoever closes the channel of a request has taken its entry out of the
\* pending map, unless the session's cleanup is at work on that very entry:
\* closePending, dispatch and the context's watcher all use LoadAndDelete.
THEOREM PendingIsOpen == Spec => []OpenWhilePending
<1>1. IInv => OpenWhilePending
  BY DEF IInv
<1> QED BY <1>1, Invariance, PTL

\* When cleanup has swept a session's pending map, every request that waits for
\* this session has a closed channel, also one that was stored while cleanup's
\* Range was under way.
THEOREM NobodyLeftBehind == Spec => []NoneLeftBehind
<1>1. IInv => NoneLeftBehind
  BY DEF IInv
<1> QED BY <1>1, Invariance, PTL

\* A live connection is registered under its provider unless it is being
\* replaced or stopped: a late handleSessionClosed never unregisters the
\* connection that took its place.
THEOREM LiveIsRegistered == Spec => []ConnectedIsRegistered
<1>1. IInv => ConnectedIsRegistered
  BY DEF IInv, RegisteredIsKnown, ConnectedIsRegistered
<1> QED BY <1>1, Invariance, PTL

\* NonStream returns a stream that was cut off as a success only if a message
\* was dropped at the full channel or the context was done.
THEOREM TruncationIsExplained == Spec => []TruncatedOnlyIfFull
<1>1. IInv => TruncatedOnlyIfFull
  BY DEF IInv
<1> QED BY <1>1, Invariance, PTL
=============================================================================
