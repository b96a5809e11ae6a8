--------------------------- MODULE KiroStreamProofs ---------------------------
(***************************************************************************)
(* Proofs about KiroStream, for any texts, any tool calls and any number   *)
(* of events.  What the client receives is a well-formed message           *)
(* (SseMessage): the invariant relates the events still to be sent to the  *)
(* blocks of the context and to what the client has seen.  It is argued    *)
(* about the four ways in which events are appended (a block is started,   *)
(* gets a delta, is stopped, all of a list are stopped) and then about     *)
(* the operators of StreamContext, which are composed of these.  The texts  *)
(* are argued about with the same operators, by what the events spell and  *)
(* what of the units received is kept or held back.                        *)
(***************************************************************************)
EXTENDS KiroStream, SequenceTheorems, FiniteSetTheorems, TLAPS

-----------------------------------------------------------------------------
(* Blocks and the events about them.                                        *)

Block == [kind : Kinds, open : BOOLEAN]
Letters == Units \cup Tools \cup {Space}
Index == Nat \ {0}

StartEvent == [type : {"content_block_start"}, index : Index, kind : Kinds]
DeltaEvents == [type : {"content_block_delta"}, index : Index, kind : Kinds, text : Seq(Letters)]
StopEvent == [type : {"content_block_stop"}, index : Index]
BlockEvent == StartEvent \cup DeltaEvents \cup StopEvent

Counts == {"estimated", "measured"}
MessageEvent ==
       [type : {"message_start"}, tokens : Counts]
  \cup [type : {"message_delta"}, reason : Reasons, tokens : Counts]
  \cup [type : {"message_stop"}]
Event == BlockEvent \cup MessageEvent

Starts(e, i) == e.type = "content_block_start" /\ e.index = i
Stops(e, i) == e.type = "content_block_stop" /\ e.index = i
Uses(e) == e.type \in {"content_block_delta", "content_block_stop"}

\* With the blocks of open open at the client, block i is so when event k of E comes.
OpenBefore(E, open, i, k) ==
  /\ i \in open \/ \E j \in 1 .. k - 1 : Starts(E[j], i)
  /\ \A j \in 1 .. k - 1 : ~Stops(E[j], i)

\* The events start the blocks the client does not know, in order and each once,
\* use only open ones and leave open those that are open in the context.
InOrder(E, B, n) ==
  \A k \in 1 .. Len(E) :
    E[k].type = "content_block_start" =>
      /\ E[k].index \in n + 1 .. Len(B)
      /\ \A j \in 1 .. k - 1 : E[j].type = "content_block_start" => E[j].index < E[k].index
AllStarted(E, B, n) == \A i \in n + 1 .. Len(B) : \E j \in 1 .. Len(E) : Starts(E[j], i)
OpenOnesUsed(E, open) == \A k \in 1 .. Len(E) : Uses(E[k]) => OpenBefore(E, open, E[k].index, k)
SameOpen(E, B, open) == \A i \in 1 .. Len(B) : B[i].open <=> OpenBefore(E, open, i, Len(E) + 1)

Consistent(E, B, n, open) ==
  /\ n \in Nat /\ n <= Len(B) /\ open \subseteq 1 .. n
  /\ InOrder(E, B, n)
  /\ AllStarted(E, B, n)
  /\ OpenOnesUsed(E, open)
  /\ SameOpen(E, B, open)

\* Only blocks of the context are open or used.
LEMMA UsedIsKnown ==
  ASSUME NEW E \in Seq(Event), NEW B \in Seq(Block), NEW n, NEW open, Consistent(E, B, n, open),
         NEW i, NEW k \in 1 .. Len(E) + 1, OpenBefore(E, open, i, k)
  PROVE  i \in 1 .. Len(B)
<1>1. CASE i \in open
  BY <1>1 DEF Consistent
<1>2. CASE \E j \in 1 .. k - 1 : Starts(E[j], i)
  <2>1. PICK j \in 1 .. k - 1 : Starts(E[j], i)
    BY <1>2
  <2>2. j \in 1 .. Len(E)
    BY LenProperties
  <2> QED BY <2>1, <2>2 DEF Consistent, InOrder, Starts
<1> QED BY <1>1, <1>2 DEF OpenBefore

\* What comes later does not change what was open before.
LEMMA OpenBeforeLater ==
  ASSUME NEW E, NEW F, NEW open, NEW i, NEW k \in Nat,
         \A j \in 1 .. k - 1 : F[j] = E[j]
  PROVE  OpenBefore(F, open, i, k) <=> OpenBefore(E, open, i, k)
BY DEF OpenBefore

\* A new block with the event that starts it.
LEMMA StartConsistent ==
  ASSUME NEW E \in Seq(Event), NEW B \in Seq(Block), NEW n, NEW open, Consistent(E, B, n, open),
         NEW e \in StartEvent, e.index = Len(B) + 1, NEW b \in Block, b.open
  PROVE  Consistent(Append(E, e), Append(B, b), n, open)
<1> DEFINE F == Append(E, e)
           C == Append(B, b)
           m == Len(E)
<1>1. /\ m \in Nat /\ Len(B) \in Nat /\ Len(F) = m + 1 /\ Len(C) = Len(B) + 1
      /\ \A j \in 1 .. m : F[j] = E[j]
      /\ F[m + 1] = e
      /\ \A i \in 1 .. Len(B) : C[i] = B[i]
      /\ C[Len(B) + 1] = b
  BY DEF Event, BlockEvent
<1>2. e.type = "content_block_start" /\ ~Uses(e) /\ \A i : ~Stops(e, i)
  BY DEF StartEvent, Uses, Stops
<1> HIDE DEF F, C, m
<1>3. InOrder(F, C, n)
  <2> SUFFICES ASSUME NEW k \in 1 .. m + 1, F[k].type = "content_block_start"
               PROVE  /\ F[k].index \in n + 1 .. Len(C)
                      /\ \A j \in 1 .. k - 1 : F[j].type = "content_block_start" => F[j].index < F[k].index
    BY <1>1 DEF InOrder
  <2>1. \A j \in 1 .. m : E[j].type = "content_block_start" => E[j].index \in n + 1 .. Len(B)
    BY DEF Consistent, InOrder, m
  <2>2. n \in Nat /\ n <= Len(B)
    BY DEF Consistent
  <2>3. CASE k = m + 1
    BY <1>1, <2>1, <2>2, <2>3
  <2>4. CASE k \in 1 .. m
    <3>1. F[k] = E[k] /\ \A j \in 1 .. k - 1 : F[j] = E[j]
      BY <1>1, <2>4
    <3> QED BY <1>1, <2>1, <2>2, <2>4, <3>1 DEF Consistent, InOrder, m
  <2> QED BY <1>1, <2>3, <2>4
<1>4. AllStarted(F, C, n)
  <2> SUFFICES ASSUME NEW i \in n + 1 .. Len(C)
               PROVE  \E j \in 1 .. Len(F) : Starts(F[j], i)
    BY DEF AllStarted
  <2>1. CASE i = Len(B) + 1
    BY <1>1, <1>2, <2>1 DEF Starts
  <2>2. CASE i # Len(B) + 1
    <3>1. PICK j \in 1 .. m : Starts(E[j], i)
      BY <1>1, <2>2 DEF Consistent, AllStarted, m
    <3> QED BY <1>1, <3>1
  <2> QED BY <2>1, <2>2
<1>5. ASSUME NEW i, NEW k \in 1 .. m + 1
      PROVE  OpenBefore(F, open, i, k) <=> OpenBefore(E, open, i, k)
  <2>1. \A j \in 1 .. k - 1 : F[j] = E[j]
    BY <1>1
  <2> QED BY <2>1, <1>1, OpenBeforeLater
<1>6. OpenOnesUsed(F, open)
  BY <1>1, <1>2, <1>5 DEF Consistent, OpenOnesUsed, m
<1>7. SameOpen(F, C, open)
  <2> SUFFICES ASSUME NEW i \in 1 .. Len(C)
               PROVE  C[i].open <=> OpenBefore(F, open, i, m + 2)
    BY <1>1 DEF SameOpen
  <2>1. CASE i = Len(B) + 1
    <3>1. OpenBefore(F, open, i, m + 2)
      <4>1. \E j \in 1 .. m + 1 : Starts(F[j], i)
        BY <1>1, <1>2, <2>1 DEF Starts
      <4>2. ASSUME NEW j \in 1 .. m + 1, Stops(F[j], i)
            PROVE  FALSE
        <5>1. j \in 1 .. m /\ Stops(E[j], i)
          BY <1>1, <1>2, <4>2
        <5>2. OpenBefore(E, open, i, j)
          BY <5>1 DEF Consistent, OpenOnesUsed, Stops, Uses, m
        <5> QED BY <5>1, <5>2, <2>1, <1>1, UsedIsKnown DEF m
      <4> QED BY <4>1, <4>2, <1>1 DEF OpenBefore
    <3> QED BY <3>1, <2>1, <1>1
  <2>2. CASE i # Len(B) + 1
    <3>1. C[i] = B[i] /\ i \in 1 .. Len(B)
      BY <1>1, <2>2
    <3>2. OpenBefore(F, open, i, m + 2) <=> OpenBefore(E, open, i, m + 1)
      BY <1>1, <1>2, <2>2 DEF OpenBefore, Starts
    <3> QED BY <3>1, <3>2 DEF Consistent, SameOpen, m
  <2> QED BY <2>1, <2>2
<1> QED BY <1>1, <1>3, <1>4, <1>6, <1>7 DEF Consistent, F, C

\* A delta of an open block, or an event of the message.
LEMMA DeltaConsistent ==
  ASSUME NEW E \in Seq(Event), NEW B \in Seq(Block), NEW n, NEW open, Consistent(E, B, n, open),
         NEW e \in DeltaEvents \cup MessageEvent,
         Uses(e) => e.index \in 1 .. Len(B) /\ B[e.index].open
  PROVE  Consistent(Append(E, e), B, n, open)
<1> DEFINE F == Append(E, e)
           m == Len(E)
<1>1. /\ m \in Nat /\ Len(B) \in Nat /\ Len(F) = m + 1
      /\ \A j \in 1 .. m : F[j] = E[j]
      /\ F[m + 1] = e
  BY DEF Event, BlockEvent
<1>2. e.type # "content_block_start" /\ (\A i : ~Stops(e, i)) /\ (\A i : ~Starts(e, i))
  BY DEF DeltaEvents, MessageEvent, Stops, Starts
<1> HIDE DEF F, m
<1>3. ASSUME NEW i, NEW k \in 1 .. m + 1
      PROVE  OpenBefore(F, open, i, k) <=> OpenBefore(E, open, i, k)
  <2>1. \A j \in 1 .. k - 1 : F[j] = E[j]
    BY <1>1
  <2> QED BY <2>1, <1>1, OpenBeforeLater
<1>4. InOrder(F, B, n)
  <2> SUFFICES ASSUME NEW k \in 1 .. m + 1, F[k].type = "content_block_start"
               PROVE  /\ F[k].index \in n + 1 .. Len(B)
                      /\ \A j \in 1 .. k - 1 : F[j].type = "content_block_start" => F[j].index < F[k].index
    BY <1>1 DEF InOrder
  <2>1. k \in 1 .. m
    BY <1>1, <1>2
  <2>2. F[k] = E[k] /\ \A j \in 1 .. k - 1 : F[j] = E[j]
    BY <1>1, <2>1
  <2> QED BY <2>1, <2>2 DEF Consistent, InOrder, m
<1>5. AllStarted(F, B, n)
  <2> SUFFICES ASSUME NEW i \in n + 1 .. Len(B)
               PROVE  \E j \in 1 .. m + 1 : Starts(F[j], i)
    BY <1>1 DEF AllStarted
  <2>1. PICK j \in 1 .. m : Starts(E[j], i)
    BY DEF Consistent, AllStarted, m
  <2> QED BY <1>1, <2>1
<1>6. OpenOnesUsed(F, open)
  <2> SUFFICES ASSUME NEW k \in 1 .. m + 1, Uses(F[k])
               PROVE  OpenBefore(F, open, F[k].index, k)
    BY <1>1 DEF OpenOnesUsed
  <2>1. CASE k = m + 1
    <3>1. OpenBefore(E, open, e.index, m + 1)
      BY <2>1, <1>1 DEF Consistent, SameOpen, m
    <3> QED BY <3>1, <2>1, <1>1, <1>3
  <2>2. CASE k \in 1 .. m
    <3>1. F[k] = E[k]
      BY <1>1, <2>2
    <3>2. OpenBefore(E, open, E[k].index, k)
      BY <3>1, <2>2 DEF Consistent, OpenOnesUsed, m
    <3> QED BY <3>1, <3>2, <1>3
  <2> QED BY <2>1, <2>2, <1>1
<1>7. SameOpen(F, B, open)
  <2> SUFFICES ASSUME NEW i \in 1 .. Len(B)
               PROVE  B[i].open <=> OpenBefore(F, open, i, m + 2)
    BY <1>1 DEF SameOpen
  <2>1. OpenBefore(F, open, i, m + 2) <=> OpenBefore(E, open, i, m + 1)
    BY <1>1, <1>2 DEF OpenBefore
  <2> QED BY <2>1 DEF Consistent, SameOpen, m
<1> QED BY <1>1, <1>4, <1>5, <1>6, <1>7 DEF Consistent, F

\* The l open blocks in q are stopped, one after the other and each once.
StopsEach(E, B, l, q, F, C) ==
  /\ l \in Nat /\ q \in [1 .. l -> 1 .. Len(B)]
  /\ \A j \in 1 .. l : B[q[j]].open
  /\ \A i, j \in 1 .. l : q[i] = q[j] => i = j
  /\ Len(F) = Len(E) + l
  /\ \A j \in 1 .. Len(E) : F[j] = E[j]
  /\ \A j \in 1 .. l : F[Len(E) + j] = [type |-> "content_block_stop", index |-> q[j]]
  /\ Len(C) = Len(B)
  /\ \A i \in 1 .. Len(B) : C[i].open <=> B[i].open /\ \A j \in 1 .. l : q[j] # i

LEMMA StopsConsistent ==
  ASSUME NEW E \in Seq(Event), NEW B \in Seq(Block), NEW n, NEW open, Consistent(E, B, n, open),
         NEW l, NEW q, NEW F \in Seq(Event), NEW C \in Seq(Block), StopsEach(E, B, l, q, F, C)
  PROVE  Consistent(F, C, n, open)
<1>0. /\ l \in Nat /\ q \in [1 .. l -> 1 .. Len(B)]
      /\ \A j \in 1 .. l : B[q[j]].open
      /\ \A i, j \in 1 .. l : q[i] = q[j] => i = j
      /\ Len(F) = Len(E) + l
      /\ \A j \in 1 .. Len(E) : F[j] = E[j]
      /\ \A j \in 1 .. l : F[Len(E) + j] = [type |-> "content_block_stop", index |-> q[j]]
      /\ Len(C) = Len(B)
      /\ \A i \in 1 .. Len(B) : C[i].open <=> B[i].open /\ \A j \in 1 .. l : q[j] # i
  BY DEF StopsEach
<1> DEFINE m == Len(E)
           G(j) == F[m + j]
<1>1. /\ m \in Nat /\ l \in Nat /\ Len(B) \in Nat /\ Len(F) = m + l /\ Len(C) = Len(B)
      /\ \A j \in 1 .. m : F[j] = E[j]
  BY <1>0, LenProperties
<1>2. \A j \in 1 .. l : /\ G(j).type = "content_block_stop" /\ G(j).index = q[j]
                        /\ \A i : ~Starts(G(j), i)
                        /\ \A i : Stops(G(j), i) <=> i = q[j]
  <2> SUFFICES ASSUME NEW j \in 1 .. l
               PROVE  /\ G(j).type = "content_block_stop" /\ G(j).index = q[j]
                      /\ \A i : ~Starts(G(j), i)
                      /\ \A i : Stops(G(j), i) <=> i = q[j]
    OBVIOUS
  <2>1. G(j) = [type |-> "content_block_stop", index |-> q[j]]
    BY <1>0
  <2> HIDE DEF G
  <2> QED BY <2>1 DEF Starts, Stops
<1>3. \A k \in 1 .. m + l : k \notin 1 .. m => \E j \in 1 .. l : k = m + j
  <2> SUFFICES ASSUME NEW k \in 1 .. m + l, k \notin 1 .. m
               PROVE  k - m \in 1 .. l /\ k = m + (k - m)
    OBVIOUS
  <2> QED BY <1>1
<1>4. ASSUME NEW i, NEW k \in 1 .. m + 1
      PROVE  OpenBefore(F, open, i, k) <=> OpenBefore(E, open, i, k)
  <2>1. \A j \in 1 .. k - 1 : F[j] = E[j]
    BY <1>1
  <2> QED BY <2>1, <1>1, OpenBeforeLater
<1>5. ASSUME NEW i \in 1 .. Len(B), NEW k \in 1 .. l + 1
      PROVE  OpenBefore(F, open, i, m + k) <=> B[i].open /\ \A j \in 1 .. k - 1 : q[j] # i
  <2>1. OpenBefore(E, open, i, m + 1) <=> B[i].open
    BY DEF Consistent, SameOpen, m
  <2>2. (\E j \in 1 .. (m + k) - 1 : Starts(F[j], i)) <=> \E j \in 1 .. m : Starts(E[j], i)
    <3>1. ASSUME NEW x \in 1 .. (m + k) - 1, x \notin 1 .. m
          PROVE  ~Starts(F[x], i)
      <4>1. x - m \in 1 .. l /\ x = m + (x - m)
        BY <3>1, <1>1
      <4> QED BY <4>1, <1>2
    <3>2. \A x \in 1 .. m : x \in 1 .. (m + k) - 1
      BY <1>1
    <3> QED BY <3>1, <3>2, <1>1
  <2>3. (\A j \in 1 .. (m + k) - 1 : ~Stops(F[j], i))
          <=> (\A j \in 1 .. m : ~Stops(E[j], i)) /\ (\A j \in 1 .. k - 1 : q[j] # i)
    <3>1. ASSUME \A j \in 1 .. (m + k) - 1 : ~Stops(F[j], i)
          PROVE  (\A j \in 1 .. m : ~Stops(E[j], i)) /\ (\A j \in 1 .. k - 1 : q[j] # i)
      <4>1. \A j \in 1 .. m : ~Stops(E[j], i)
        BY <3>1, <1>1
      <4>2. ASSUME NEW j \in 1 .. k - 1
            PROVE  q[j] # i
        <5>1. m + j \in 1 .. (m + k) - 1 /\ j \in 1 .. l
          BY <1>1
        <5> QED BY <5>1, <3>1, <1>2
      <4> QED BY <4>1, <4>2
    <3>2. ASSUME \A j \in 1 .. m : ~Stops(E[j], i), \A j \in 1 .. k - 1 : q[j] # i,
                 NEW x \in 1 .. (m + k) - 1
          PROVE  ~Stops(F[x], i)
      <4>1. CASE x \in 1 .. m
        BY <4>1, <3>2, <1>1
      <4>2. CASE x \notin 1 .. m
        <5>1. x - m \in 1 .. k - 1 /\ x - m \in 1 .. l /\ x = m + (x - m)
          BY <4>2, <1>1
        <5> QED BY <5>1, <3>2, <1>2
      <4> QED BY <4>1, <4>2
    <3> QED BY <3>1, <3>2
  <2>4. OpenBefore(E, open, i, m + 1) <=>
          /\ i \in open \/ \E j \in 1 .. m : Starts(E[j], i)
          /\ \A j \in 1 .. m : ~Stops(E[j], i)
    <3>1. (m + 1) - 1 = m
      BY <1>1
    <3> QED BY <3>1 DEF OpenBefore
  <2>5. OpenBefore(F, open, i, m + k) <=>
          /\ i \in open \/ \E j \in 1 .. (m + k) - 1 : Starts(F[j], i)
          /\ \A j \in 1 .. (m + k) - 1 : ~Stops(F[j], i)
    BY DEF OpenBefore
  <2> QED BY <2>1, <2>2, <2>3, <2>4, <2>5, Zenon
<1> HIDE DEF m, G
<1>6. InOrder(F, C, n)
  <2> SUFFICES ASSUME NEW k \in 1 .. m + l, F[k].type = "content_block_start"
               PROVE  /\ F[k].index \in n + 1 .. Len(B)
                      /\ \A j \in 1 .. k - 1 : F[j].type = "content_block_start" => F[j].index < F[k].index
    BY <1>1 DEF InOrder
  <2>1. k \in 1 .. m
    BY <1>2, <1>3 DEF G
  <2>2. F[k] = E[k] /\ \A j \in 1 .. k - 1 : F[j] = E[j]
    BY <1>1, <2>1
  <2> QED BY <2>1, <2>2 DEF Consistent, InOrder, m
<1>7. AllStarted(F, C, n)
  <2> SUFFICES ASSUME NEW i \in n + 1 .. Len(B)
               PROVE  \E j \in 1 .. m + l : Starts(F[j], i)
    BY <1>1 DEF AllStarted
  <2>1. PICK j \in 1 .. m : Starts(E[j], i)
    BY DEF Consistent, AllStarted, m
  <2>2. j \in 1 .. m + l
    BY <1>1
  <2> QED BY <1>1, <2>1, <2>2
<1>8. OpenOnesUsed(F, open)
  <2> SUFFICES ASSUME NEW k \in 1 .. m + l, Uses(F[k])
               PROVE  OpenBefore(F, open, F[k].index, k)
    BY <1>1 DEF OpenOnesUsed
  <2>1. CASE k \in 1 .. m
    <3>1. F[k] = E[k]
      BY <1>1, <2>1
    <3>2. OpenBefore(E, open, E[k].index, k)
      BY <3>1, <2>1 DEF Consistent, OpenOnesUsed, m
    <3> QED BY <3>1, <3>2, <2>1, <1>1, <1>4
  <2>2. CASE k \notin 1 .. m
    <3>1. PICK j \in 1 .. l : k = m + j
      BY <2>2, <1>3
    <3>2. F[k].index = q[j] /\ q[j] \in 1 .. Len(B) /\ B[q[j]].open
      BY <3>1, <1>0, <1>2 DEF G
    <3>3. \A x \in 1 .. j - 1 : q[x] # q[j]
      BY <1>0
    <3>4. j \in 1 .. l + 1
      BY <1>1
    <3> QED BY <3>1, <3>2, <3>3, <3>4, <1>5
  <2> QED BY <2>1, <2>2
<1>9. SameOpen(F, C, open)
  <2> SUFFICES ASSUME NEW i \in 1 .. Len(B)
               PROVE  C[i].open <=> OpenBefore(F, open, i, m + (l + 1))
    <3>1. Len(F) + 1 = m + (l + 1) /\ Len(C) = Len(B)
      BY <1>1
    <3> QED BY <3>1 DEF SameOpen
  <2>1. l + 1 \in 1 .. l + 1 /\ (l + 1) - 1 = l
    BY <1>1
  <2>2. C[i].open <=> B[i].open /\ \A j \in 1 .. l : q[j] # i
    BY <1>0
  <2> QED BY <1>5, <2>1, <2>2
<1> QED BY <1>1, <1>6, <1>7, <1>8, <1>9 DEF Consistent

\* The client receives the first event: a start has the next index, a delta or a stop
\* is about a block that is open at the client.
LEMMA DeliveredConsistent ==
  ASSUME NEW E \in Seq(Event), E # <<>>, NEW B \in Seq(Block), NEW n, NEW open,
         Consistent(E, B, n, open),
         NEW m, m = (IF Head(E).type = "content_block_start" THEN n + 1 ELSE n),
         NEW left,
         \A i : i \in left <=> (i \in open \/ Starts(Head(E), i)) /\ ~Stops(Head(E), i)
  PROVE  /\ Head(E).type = "content_block_start" => Head(E).index = n + 1
         /\ Uses(Head(E)) => Head(E).index \in open
         /\ Consistent(Tail(E), B, m, left)
<1> DEFINE e == Head(E)
           T == Tail(E)
           l == Len(T)
<1>1. /\ l \in Nat /\ Len(B) \in Nat /\ Len(E) = l + 1 /\ e = E[1] /\ e \in Event
      /\ \A j \in 1 .. l : T[j] = E[j + 1]
  BY HeadTailProperties, LenProperties
<1>2. n \in Nat /\ n <= Len(B) /\ open \subseteq 1 .. n
  BY DEF Consistent
<1>3. \A i : i \in left <=> (i \in open \/ Starts(e, i)) /\ ~Stops(e, i)
  OBVIOUS
<1>4. m = IF e.type = "content_block_start" THEN n + 1 ELSE n
  OBVIOUS
<1> HIDE DEF e, T, l
<1>5. ASSUME e.type = "content_block_start"
      PROVE  e.index = n + 1
  <2>1. e.index \in n + 1 .. Len(B)
    BY <1>1, <1>5 DEF Consistent, InOrder
  <2>2. PICK k \in 1 .. l + 1 : Starts(E[k], n + 1)
    BY <1>1, <1>2, <2>1 DEF Consistent, AllStarted
  <2>3. CASE k = 1
    BY <2>2, <2>3, <1>1 DEF Starts
  <2>4. CASE k # 1
    <3>1. E[1].index < E[k].index
      BY <2>2, <2>4, <1>1, <1>5 DEF Consistent, InOrder, Starts
    <3> QED BY <3>1, <2>1, <2>2, <1>1, <1>2 DEF Starts
  <2> QED BY <2>3, <2>4
<1>6. ASSUME Uses(e)
      PROVE  e.index \in open
  <2>1. OpenBefore(E, open, e.index, 1)
    BY <1>1, <1>6 DEF Consistent, OpenOnesUsed
  <2> QED BY <2>1 DEF OpenBefore
<1>7. ASSUME NEW i, NEW k \in 1 .. l + 1
      PROVE  OpenBefore(T, left, i, k) <=> OpenBefore(E, open, i, k + 1)
  <2>1. (\E j \in 1 .. (k + 1) - 1 : Starts(E[j], i))
          <=> Starts(e, i) \/ \E j \in 1 .. k - 1 : Starts(T[j], i)
    <3>1. ASSUME NEW j \in 1 .. (k + 1) - 1, Starts(E[j], i), ~Starts(e, i)
          PROVE  \E x \in 1 .. k - 1 : Starts(T[x], i)
      <4>1. j - 1 \in 1 .. k - 1 /\ T[j - 1] = E[j]
        BY <3>1, <1>1
      <4> QED BY <4>1, <3>1
    <3>2. ASSUME NEW j \in 1 .. k - 1, Starts(T[j], i)
          PROVE  \E x \in 1 .. (k + 1) - 1 : Starts(E[x], i)
      <4>1. j + 1 \in 1 .. (k + 1) - 1 /\ T[j] = E[j + 1]
        BY <1>1
      <4> QED BY <4>1, <3>2
    <3>3. Starts(e, i) => 1 \in 1 .. (k + 1) - 1 /\ Starts(E[1], i)
      BY <1>1
    <3> QED BY <3>1, <3>2, <3>3
  <2>2. (\A j \in 1 .. (k + 1) - 1 : ~Stops(E[j], i))
          <=> ~Stops(e, i) /\ \A j \in 1 .. k - 1 : ~Stops(T[j], i)
    <3>1. ASSUME NEW j \in 1 .. (k + 1) - 1, Stops(E[j], i), ~Stops(e, i)
          PROVE  \E x \in 1 .. k - 1 : Stops(T[x], i)
      <4>1. j - 1 \in 1 .. k - 1 /\ T[j - 1] = E[j]
        BY <3>1, <1>1
      <4> QED BY <4>1, <3>1
    <3>2. ASSUME NEW j \in 1 .. k - 1, Stops(T[j], i)
          PROVE  \E x \in 1 .. (k + 1) - 1 : Stops(E[x], i)
      <4>1. j + 1 \in 1 .. (k + 1) - 1 /\ T[j] = E[j + 1]
        BY <1>1
      <4> QED BY <4>1, <3>2
    <3>3. Stops(e, i) => 1 \in 1 .. (k + 1) - 1 /\ Stops(E[1], i)
      BY <1>1
    <3> QED BY <3>1, <3>2, <3>3
  <2>3. ASSUME Stops(e, i), NEW j \in 1 .. k - 1, Starts(T[j], i)
        PROVE  FALSE
    <3>1. i \in 1 .. n
      BY <2>3, <1>6, <1>2 DEF Stops, Uses
    <3>2. i \in n + 1 .. Len(B)
      BY <2>3, <1>1 DEF Consistent, InOrder, Starts
    <3> QED BY <3>1, <3>2, <1>1, <1>2
  <2> QED BY <2>1, <2>2, <2>3, <1>3 DEF OpenBefore
<1>8. m \in Nat /\ n <= m /\ m <= Len(B)
  BY <1>1, <1>2, <1>4, <1>5 DEF Consistent, InOrder
<1>9. left \subseteq 1 .. m
  <2> SUFFICES ASSUME NEW i \in left
               PROVE  i \in 1 .. m
    OBVIOUS
  <2>1. CASE i \in open
    BY <2>1, <1>2, <1>8
  <2>2. CASE Starts(e, i)
    <3>1. i = n + 1 /\ m = n + 1
      BY <2>2, <1>4, <1>5 DEF Starts
    <3> QED BY <3>1, <1>2
  <2> QED BY <2>1, <2>2, <1>3
<1>10. InOrder(T, B, m)
  <2> SUFFICES ASSUME NEW k \in 1 .. l, T[k].type = "content_block_start"
               PROVE  /\ T[k].index \in m + 1 .. Len(B)
                      /\ \A j \in 1 .. k - 1 : T[j].type = "content_block_start" => T[j].index < T[k].index
    BY DEF InOrder, l
  <2>1. k + 1 \in 1 .. l + 1 /\ T[k] = E[k + 1]
    BY <1>1
  <2>2. /\ T[k].index \in n + 1 .. Len(B)
        /\ \A j \in 1 .. (k + 1) - 1 : E[j].type = "content_block_start" => E[j].index < T[k].index
    BY <2>1, <1>1 DEF Consistent, InOrder
  <2>3. T[k].index \in m + 1 .. Len(B)
    <3>1. CASE e.type = "content_block_start"
      <4>1. e.index < T[k].index
        BY <3>1, <2>2, <1>1
      <4> QED BY <4>1, <3>1, <2>2, <1>1, <1>2, <1>4, <1>5
    <3>2. CASE e.type # "content_block_start"
      BY <3>2, <2>2, <1>4
    <3> QED BY <3>1, <3>2
  <2>4. ASSUME NEW j \in 1 .. k - 1, T[j].type = "content_block_start"
        PROVE  T[j].index < T[k].index
    <3>1. j + 1 \in 1 .. (k + 1) - 1 /\ T[j] = E[j + 1]
      BY <1>1
    <3> QED BY <3>1, <2>4, <2>2
  <2> QED BY <2>3, <2>4
<1>11. AllStarted(T, B, m)
  <2> SUFFICES ASSUME NEW i \in m + 1 .. Len(B)
               PROVE  \E j \in 1 .. l : Starts(T[j], i)
    BY DEF AllStarted, l
  <2>1. i \in n + 1 .. Len(B)
    BY <1>1, <1>2, <1>8
  <2>2. PICK k \in 1 .. l + 1 : Starts(E[k], i)
    BY <2>1, <1>1 DEF Consistent, AllStarted
  <2>3. k # 1
    <3>1. Starts(e, i) => i = m
      BY <1>4, <1>5 DEF Starts
    <3> QED BY <3>1, <2>2, <1>1, <1>8
  <2>4. k - 1 \in 1 .. l /\ T[k - 1] = E[k]
    BY <2>3, <1>1
  <2> QED BY <2>2, <2>4
<1>12. OpenOnesUsed(T, left)
  <2> SUFFICES ASSUME NEW k \in 1 .. l, Uses(T[k])
               PROVE  OpenBefore(T, left, T[k].index, k)
    BY DEF OpenOnesUsed, l
  <2>1. k + 1 \in 1 .. l + 1 /\ T[k] = E[k + 1] /\ k \in 1 .. l + 1
    BY <1>1
  <2>2. OpenBefore(E, open, T[k].index, k + 1)
    BY <2>1, <1>1 DEF Consistent, OpenOnesUsed
  <2> QED BY <2>1, <2>2, <1>7
<1>13. SameOpen(T, B, left)
  <2> SUFFICES ASSUME NEW i \in 1 .. Len(B)
               PROVE  B[i].open <=> OpenBefore(T, left, i, l + 1)
    BY DEF SameOpen, l
  <2>1. OpenBefore(T, left, i, l + 1) <=> OpenBefore(E, open, i, (l + 1) + 1)
    BY <1>1, <1>7
  <2>2. B[i].open <=> OpenBefore(E, open, i, (l + 1) + 1)
    BY <1>1 DEF Consistent, SameOpen
  <2> QED BY <2>1, <2>2
<1> QED BY <1>1, <1>5, <1>6, <1>8, <1>9, <1>10, <1>11, <1>12, <1>13 DEF Consistent, e, T

-----------------------------------------------------------------------------
(* The context.                                                             *)

Context ==
  [enabled : BOOLEAN, buffered : BOOLEAN, buffer : Seq(Units),
   thinking : {"before", "inside", "done"}, strip : BOOLEAN, thinkingIndex : Nat,
   textIndex : Nat, toolIndex : [Tools -> Nat], blocks : Seq(Block), hasTool : BOOLEAN,
   stopReason : {"none", "max_tokens", "model_context_window_exceeded"},
   tokens : Counts, events : Seq(Event), finished : BOOLEAN]

\* A context whose events fit its blocks and what the client has: n blocks, those of open open.
Fits(c, n, open) == c \in Context /\ Consistent(c.events, c.blocks, n, open)

\* The indexes are those of blocks of their kind, and there is at most one thinking block.
PointsAt(c, i, kind) == i \in 1 .. Len(c.blocks) /\ c.blocks[i].kind = kind
IndexesPoint(c) ==
  /\ c.textIndex # 0 => PointsAt(c, c.textIndex, "text")
  /\ \A t \in Tools : c.toolIndex[t] # 0 => PointsAt(c, c.toolIndex[t], "tool_use")
  /\ c.thinking = "before" <=> c.thinkingIndex = 0
  /\ c.thinkingIndex # 0 => PointsAt(c, c.thinkingIndex, "thinking")
  /\ \A i \in 1 .. Len(c.blocks) : c.blocks[i].kind = "thinking" => i = c.thinkingIndex

\* From c to d only events about blocks were added, and no block changed its kind.
Extends(c, d) ==
  /\ d.enabled = c.enabled /\ d.buffered = c.buffered /\ d.finished = c.finished
  /\ d.tokens = c.tokens /\ d.stopReason = c.stopReason
  /\ Len(c.blocks) <= Len(d.blocks)
  /\ \A i \in 1 .. Len(c.blocks) : d.blocks[i].kind = c.blocks[i].kind
  /\ Len(c.events) <= Len(d.events)
  /\ \A k \in 1 .. Len(c.events) : d.events[k] = c.events[k]
  /\ \A k \in Len(c.events) + 1 .. Len(d.events) : d.events[k] \in BlockEvent

\* A start and a delta are of the kind of their block, and the text of a delta is received text.
Tells(c, e) ==
  e.type # "content_block_stop" =>
    /\ PointsAt(c, e.index, e.kind)
    /\ e.type = "content_block_delta" /\ e.kind = "text" => e.text \in Seq(Units)
Grows(c, d) ==
  Extends(c, d) /\ \A k \in Len(c.events) + 1 .. Len(d.events) : Tells(d, d.events[k])

KeepsRest(c, d) ==
  /\ d.buffer = c.buffer /\ d.thinking = c.thinking /\ d.strip = c.strip
  /\ d.thinkingIndex = c.thinkingIndex /\ d.textIndex = c.textIndex
  /\ d.toolIndex = c.toolIndex /\ d.hasTool = c.hasTool

LEMMA GrowsItself ==
  ASSUME NEW c \in Context, NEW d, d.enabled = c.enabled, d.buffered = c.buffered,
         d.finished = c.finished, d.tokens = c.tokens, d.stopReason = c.stopReason,
         d.blocks = c.blocks, d.events = c.events
  PROVE  Grows(c, d)
<1>1. Len(c.events) \in Nat /\ Len(c.blocks) \in Nat
  BY DEF Context
<1> QED BY <1>1 DEF Grows, Extends

LEMMA ExtendsOn ==
  ASSUME NEW c \in Context, NEW d \in Context, NEW e \in Context, Extends(c, d), Extends(d, e)
  PROVE  Extends(c, e)
<1>1. /\ Len(c.events) \in Nat /\ Len(d.events) \in Nat /\ Len(e.events) \in Nat
      /\ Len(c.blocks) \in Nat /\ Len(d.blocks) \in Nat /\ Len(e.blocks) \in Nat
  BY DEF Context
<1>2. ASSUME NEW k \in Len(c.events) + 1 .. Len(e.events)
      PROVE  e.events[k] \in BlockEvent
  <2>1. CASE k \in 1 .. Len(d.events)
    BY <2>1, <1>1 DEF Extends
  <2>2. CASE k \notin 1 .. Len(d.events)
    BY <2>2, <1>1 DEF Extends
  <2> QED BY <2>1, <2>2
<1>3. \A i \in 1 .. Len(c.blocks) : e.blocks[i].kind = c.blocks[i].kind
  BY <1>1 DEF Extends
<1>4. \A k \in 1 .. Len(c.events) : e.events[k] = c.events[k]
  BY <1>1 DEF Extends
<1>5. Len(c.events) <= Len(e.events) /\ Len(c.blocks) <= Len(e.blocks)
  BY <1>1 DEF Extends
<1> QED BY <1>2, <1>3, <1>4, <1>5 DEF Extends

LEMMA GrowsOn ==
  ASSUME NEW c \in Context, NEW d \in Context, NEW e \in Context, Grows(c, d), Grows(d, e)
  PROVE  Grows(c, e)
<1>1. /\ Len(c.events) \in Nat /\ Len(d.events) \in Nat /\ Len(e.events) \in Nat
      /\ Len(d.blocks) \in Nat /\ Len(e.blocks) \in Nat
  BY DEF Context
<1>2. Extends(c, e) /\ Extends(d, e)
  BY ExtendsOn DEF Grows
<1>3. \A i, kind : PointsAt(d, i, kind) => PointsAt(e, i, kind)
  BY <1>1, <1>2 DEF Extends, PointsAt
<1>4. ASSUME NEW k \in Len(c.events) + 1 .. Len(e.events)
      PROVE  Tells(e, e.events[k])
  <2>1. CASE k \in 1 .. Len(d.events)
    <3>1. Tells(d, d.events[k]) /\ e.events[k] = d.events[k]
      BY <2>1, <1>1, <1>2 DEF Grows, Extends
    <3> QED BY <3>1, <1>3 DEF Tells
  <2>2. CASE k \notin 1 .. Len(d.events)
    BY <2>2, <1>1 DEF Grows
  <2> QED BY <2>1, <2>2
<1> QED BY <1>2, <1>4 DEF Grows

\* The event of a block goes to the end.
LEMMA EmitTyped ==
  ASSUME NEW c \in Context, NEW e \in Event
  PROVE  LET d == Emit(c, e)
         IN  /\ d \in Context /\ KeepsRest(c, d) /\ d.blocks = c.blocks
             /\ d.events = Append(c.events, e)
             /\ e \in BlockEvent => Extends(c, d)
             /\ e \in BlockEvent /\ Tells(c, e) => Grows(c, d)
<1> DEFINE d == Emit(c, e)
           m == Len(c.events)
           more == Append(c.events, e)
<1>0. more \in Seq(Event) /\ d = [c EXCEPT !.events = more]
  BY DEF Context, Emit
<1> HIDE DEF more
<1>1. d \in Context /\ KeepsRest(c, d) /\ d.blocks = c.blocks /\ d.events = more
  BY <1>0 DEF Context, KeepsRest
<1>2. /\ d.enabled = c.enabled /\ d.buffered = c.buffered /\ d.finished = c.finished
      /\ d.tokens = c.tokens /\ d.stopReason = c.stopReason
  BY DEF Context, Emit
<1>3. /\ m \in Nat /\ Len(c.blocks) \in Nat /\ Len(d.events) = m + 1
      /\ \A j \in 1 .. m : d.events[j] = c.events[j]
      /\ d.events[m + 1] = e
  BY <1>1 DEF Context, more
<1> HIDE DEF d
<1>4. e \in BlockEvent => Extends(c, d)
  BY <1>1, <1>2, <1>3 DEF Extends
<1>5. e \in BlockEvent /\ Tells(c, e) => Grows(c, d)
  BY <1>1, <1>3, <1>4 DEF Grows, Tells, PointsAt
<1> QED BY <1>1, <1>4, <1>5 DEF d, more

LEMMA NewBlockFits ==
  ASSUME NEW c, NEW n, NEW open, Fits(c, n, open), NEW kind \in Kinds
  PROVE  LET d == NewBlock(c, kind)
             l == Len(c.blocks)
         IN  /\ Fits(d, n, open) /\ Grows(c, d) /\ KeepsRest(c, d)
             /\ Len(d.blocks) = l + 1 /\ d.blocks[l + 1] = [kind |-> kind, open |-> TRUE]
             /\ \A i \in 1 .. l : d.blocks[i] = c.blocks[i]
<1> DEFINE l == Len(c.blocks)
           b == [kind |-> kind, open |-> TRUE]
           e == [type |-> "content_block_start", index |-> l + 1, kind |-> kind]
           x == [c EXCEPT !.blocks = Append(@, b)]
<1>1. c \in Context /\ l \in Nat /\ c.blocks \in Seq(Block) /\ c.events \in Seq(Event)
  BY DEF Fits, Context
<1>2. b \in Block /\ b.open /\ e \in StartEvent /\ e.index = l + 1 /\ e \in BlockEvent /\ e \in Event
  BY <1>1 DEF Block, StartEvent, BlockEvent, Event, Index
<1>3. /\ Append(c.blocks, b) \in Seq(Block) /\ Len(Append(c.blocks, b)) = l + 1
      /\ Append(c.blocks, b)[l + 1] = b
      /\ \A i \in 1 .. l : Append(c.blocks, b)[i] = c.blocks[i]
  BY <1>1, <1>2
<1>4. /\ x \in Context /\ x.blocks = Append(c.blocks, b) /\ x.events = c.events /\ KeepsRest(c, x)
      /\ x.enabled = c.enabled /\ x.buffered = c.buffered /\ x.finished = c.finished
      /\ x.tokens = c.tokens /\ x.stopReason = c.stopReason
  BY <1>1, <1>3 DEF Context, KeepsRest
<1>5. NewBlock(c, kind) = Emit(x, e)
  BY DEF NewBlock
<1> HIDE DEF b, e, x, l
<1>6. Grows(c, x)
  <2>1. Len(c.events) \in Nat
    BY <1>1
  <2> QED BY <2>1, <1>1, <1>3, <1>4 DEF Grows, Extends, l
<1> DEFINE d == Emit(x, e)
<1>7. /\ d \in Context /\ KeepsRest(x, d) /\ d.blocks = x.blocks
      /\ d.events = Append(x.events, e) /\ Grows(x, d)
  <2>1. Tells(x, e)
    BY <1>1, <1>3, <1>4 DEF Tells, PointsAt, e, b
  <2> QED BY <2>1, <1>2, <1>4, EmitTyped
<1> HIDE DEF d
<1>8. Consistent(d.events, d.blocks, n, open)
  BY <1>1, <1>2, <1>4, <1>7, StartConsistent DEF Fits, l
<1>9. Grows(c, d)
  BY <1>1, <1>4, <1>6, <1>7, GrowsOn
<1>10. KeepsRest(c, d)
  BY <1>4, <1>7 DEF KeepsRest
<1> QED BY <1>3, <1>4, <1>5, <1>7, <1>8, <1>9, <1>10 DEF Fits, d, l, b

LEMMA DeltaFits ==
  ASSUME NEW c, NEW n, NEW open, Fits(c, n, open),
         NEW i \in 1 .. Len(c.blocks), c.blocks[i].open,
         NEW kind \in Kinds, NEW text \in Seq(Letters)
  PROVE  LET d == Emit(c, DeltaEvent(i, kind, text))
         IN  /\ Fits(d, n, open) /\ Extends(c, d) /\ KeepsRest(c, d) /\ d.blocks = c.blocks
             /\ c.blocks[i].kind = kind /\ (kind = "text" => text \in Seq(Units)) => Grows(c, d)
<1> DEFINE e == DeltaEvent(i, kind, text)
           d == Emit(c, e)
<1>1. c \in Context /\ c.blocks \in Seq(Block) /\ c.events \in Seq(Event) /\ Len(c.blocks) \in Nat
  BY DEF Fits, Context
<1>2. e \in DeltaEvents /\ e.index = i /\ e \in BlockEvent /\ e \in Event
  BY <1>1 DEF DeltaEvent, DeltaEvents, BlockEvent, Event, Index
<1>0. c.blocks[i].kind = kind /\ (kind = "text" => text \in Seq(Units)) => Tells(c, e)
  BY DEF Tells, PointsAt, DeltaEvent
<1> HIDE DEF e
<1>3. /\ d \in Context /\ KeepsRest(c, d) /\ d.blocks = c.blocks
      /\ d.events = Append(c.events, e) /\ Extends(c, d)
      /\ Tells(c, e) => Grows(c, d)
  BY <1>1, <1>2, EmitTyped
<1> HIDE DEF d
<1>4. Consistent(d.events, d.blocks, n, open)
  BY <1>1, <1>2, <1>3, DeltaConsistent DEF Fits
<1> QED BY <1>0, <1>3, <1>4 DEF Fits, d, e

LEMMA StopBlockFits ==
  ASSUME NEW c, NEW n, NEW open, Fits(c, n, open), NEW i \in Nat
  PROVE  LET d == StopBlock(c, i)
         IN  /\ Fits(d, n, open) /\ Grows(c, d) /\ KeepsRest(c, d)
             /\ Len(d.blocks) = Len(c.blocks)
             /\ \A j \in 1 .. Len(c.blocks) : /\ d.blocks[j].kind = c.blocks[j].kind
                                              /\ d.blocks[j].open <=> c.blocks[j].open /\ j # i
<1> DEFINE l == Len(c.blocks)
<1>1. /\ c \in Context /\ c.blocks \in Seq(Block) /\ c.events \in Seq(Event)
      /\ l \in Nat /\ DOMAIN c.blocks = 1 .. l
      /\ \A j \in 1 .. l : c.blocks[j] \in Block
  BY DEF Fits, Context
<1>2. CASE ~IsOpen(c, i)
  <2>1. StopBlock(c, i) = c
    BY <1>2 DEF StopBlock
  <2>2. Grows(c, c)
    BY <1>1, GrowsItself
  <2>3. \A j \in 1 .. l : c.blocks[j].open <=> c.blocks[j].open /\ j # i
    BY <1>1, <1>2 DEF IsOpen
  <2> QED BY <2>1, <2>2, <2>3 DEF KeepsRest
<1>3. CASE IsOpen(c, i)
  <2> DEFINE e == [type |-> "content_block_stop", index |-> i]
             b == [c.blocks[i] EXCEPT !.open = FALSE]
             C == [c.blocks EXCEPT ![i] = b]
             x == [c EXCEPT !.blocks = C]
  <2>1. i \in 1 .. l /\ c.blocks[i].open
    BY <1>1, <1>3 DEF IsOpen
  <2>2. e \in StopEvent /\ e \in BlockEvent /\ e \in Event
    BY <2>1 DEF StopEvent, BlockEvent, Event, Index
  <2>3. b \in Block /\ b.kind = c.blocks[i].kind /\ ~b.open
    BY <1>1, <2>1 DEF Block
  <2>4. StopBlock(c, i) = Emit(x, e)
    BY <1>3 DEF StopBlock
  <2> HIDE DEF b
  <2>5. /\ C \in Seq(Block) /\ Len(C) = l /\ C[i] = b
        /\ \A j \in 1 .. l : j # i => C[j] = c.blocks[j]
    BY <1>1, <2>1, <2>3, ExceptSeq
  <2> HIDE DEF C
  <2>6. /\ x \in Context /\ x.blocks = C /\ x.events = c.events /\ KeepsRest(c, x)
        /\ x.enabled = c.enabled /\ x.buffered = c.buffered /\ x.finished = c.finished
        /\ x.tokens = c.tokens /\ x.stopReason = c.stopReason
    BY <1>1, <2>5 DEF Context, KeepsRest
  <2>0. Tells(x, e)
    BY DEF Tells
  <2> HIDE DEF x, e
  <2>7. Grows(c, x)
    <3>1. Len(c.events) \in Nat
      BY <1>1
    <3>2. \A j \in 1 .. l : C[j].kind = c.blocks[j].kind
      BY <2>3, <2>5
    <3> QED BY <3>1, <3>2, <1>1, <2>5, <2>6 DEF Grows, Extends
  <2> DEFINE d == Emit(x, e)
  <2>8. /\ d \in Context /\ KeepsRest(x, d) /\ d.blocks = x.blocks
        /\ d.events = Append(x.events, e) /\ Grows(x, d)
    BY <2>0, <2>2, <2>6, EmitTyped
  <2> HIDE DEF d
  <2>9. Consistent(d.events, d.blocks, n, open)
    <3> DEFINE one == 1
               q == [j \in 1 .. one |-> i]
               m == Len(c.events)
               F == Append(c.events, e)
    <3>1. /\ F \in Seq(Event) /\ Len(F) = m + one /\ m \in Nat
          /\ \A j \in 1 .. m : F[j] = c.events[j]
          /\ F[m + one] = e
      BY <1>1, <2>2
    <3>2. q \in [1 .. one -> 1 .. l] /\ one \in Nat /\ 1 \in 1 .. one /\ q[1] = i
      BY <2>1
    <3>3. \A j \in 1 .. one : j = one /\ q[j] = i
      OBVIOUS
    <3> HIDE DEF q, F, one
    <3>4. \A j \in 1 .. one : c.blocks[q[j]].open
      BY <3>3, <2>1
    <3>5. \A j, k \in 1 .. one : q[j] = q[k] => j = k
      BY <3>3
    <3>6. \A j \in 1 .. one : F[m + j] = [type |-> "content_block_stop", index |-> q[j]]
      BY <3>1, <3>3 DEF e
    <3>7. \A j \in 1 .. l : C[j].open <=> c.blocks[j].open /\ \A k \in 1 .. one : q[k] # j
      BY <3>2, <3>3, <2>3, <2>5
    <3>8. Consistent(c.events, c.blocks, n, open)
      BY DEF Fits
    <3>9. StopsEach(c.events, c.blocks, one, q, F, C)
      BY <3>1, <3>2, <3>4, <3>5, <3>6, <3>7, <1>1, <2>5 DEF StopsEach
    <3>10. Consistent(F, C, n, open)
      BY <3>1, <3>8, <3>9, <1>1, <2>5, StopsConsistent
    <3> QED BY <3>10, <2>6, <2>8 DEF F
  <2>10. Grows(c, d)
    BY <1>1, <2>6, <2>7, <2>8, GrowsOn
  <2>11. KeepsRest(c, d)
    BY <2>6, <2>8 DEF KeepsRest
  <2>12. /\ Len(d.blocks) = l
         /\ \A j \in 1 .. l : /\ d.blocks[j].kind = c.blocks[j].kind
                              /\ d.blocks[j].open <=> c.blocks[j].open /\ j # i
    BY <2>1, <2>3, <2>5, <2>6, <2>8
  <2> QED BY <2>4, <2>8, <2>9, <2>10, <2>11, <2>12 DEF Fits, d
<1> QED BY <1>2, <1>3

\* A sequence of the elements of a finite set, each once.
Lists(order, S) ==
  /\ order \in [1 .. Cardinality(S) -> S]
  /\ \A i, j \in 1 .. Cardinality(S) : order[i] = order[j] => i = j
  /\ \A s \in S : \E i \in 1 .. Cardinality(S) : order[i] = s

LEMMA InjectionLists ==
  ASSUME NEW S, IsFiniteSet(S), NEW f \in [1 .. Cardinality(S) -> S],
         \A i, j \in 1 .. Cardinality(S) : f[i] = f[j] => i = j
  PROVE  Lists(f, S)
<1> DEFINE D == 1 .. Cardinality(S)
<1>1. Cardinality(S) \in Nat
  BY FS_CardinalityType
<1>2. IsFiniteSet(D) /\ Cardinality(D) = Cardinality(S)
  BY <1>1, FS_Interval
<1>3. f \in Injection(D, S)
  BY DEF Injection, IsInjective
<1> HIDE DEF D
<1>4. f \in Surjection(D, S)
  BY <1>2, <1>3, FS_Injection
<1> QED BY <1>4 DEF Surjection, Lists, D

LEMMA SetToSeqLists ==
  ASSUME NEW S, IsFiniteSet(S)
  PROVE  Lists(SetToSeq(S), S)
<1>1. PICK f \in Bijection(1 .. Cardinality(S), S) : TRUE
  BY FS_CardinalityType DEF ExistsBijection
<1>2. f \in [1 .. Cardinality(S) -> S] /\ IsInjective(f)
  BY DEF Bijection, Injection
<1>3. SetToSeq(S) \in [1 .. Cardinality(S) -> S] /\ IsInjective(SetToSeq(S))
  BY <1>2 DEF SetToSeq
<1> QED BY <1>3, InjectionLists DEF IsInjective

LEMMA SetToSeqsList ==
  ASSUME NEW S, IsFiniteSet(S), NEW order \in SetToSeqs(S)
  PROVE  Lists(order, S)
<1>1. /\ order \in [1 .. Cardinality(S) -> S]
      /\ \A i, j \in 1 .. Cardinality(S) : order[i] = order[j] => i = j
  BY DEF SetToSeqs
<1> QED BY <1>1, InjectionLists

\* The sets of blocks that are stopped together are finite.
LEMMA OpenBlocksFinite ==
  ASSUME NEW c \in Context, NEW S \in SUBSET OpenBlocks(c)
  PROVE  IsFiniteSet(S) /\ Cardinality(S) \in Nat
<1> DEFINE I == 1 .. Len(c.blocks)
<1>1. Len(c.blocks) \in Nat /\ S \subseteq I
  BY DEF Context, OpenBlocks
<1>2. IsFiniteSet(I)
  BY <1>1, FS_Interval
<1> HIDE DEF I
<1>3. IsFiniteSet(S)
  BY <1>1, <1>2, FS_Subset
<1> QED BY <1>3, FS_CardinalityType

\* A list of open blocks is stopped.
LEMMA StopBlocksFits ==
  ASSUME NEW c, NEW n, NEW open, Fits(c, n, open),
         NEW S \in SUBSET OpenBlocks(c), NEW order, Lists(order, S)
  PROVE  LET d == StopBlocks(c, order)
         IN  /\ Fits(d, n, open) /\ Grows(c, d) /\ KeepsRest(c, d)
             /\ \A k \in Len(c.events) + 1 .. Len(d.events) : d.events[k].type = "content_block_stop"
             /\ Len(d.blocks) = Len(c.blocks)
             /\ \A j \in 1 .. Len(c.blocks) : /\ d.blocks[j].kind = c.blocks[j].kind
                                              /\ d.blocks[j].open <=> c.blocks[j].open /\ j \notin S
<1> DEFINE B == c.blocks
           E == c.events
           l == Cardinality(S)
           Stop(j) == [type |-> "content_block_stop", index |-> order[j]]
           stops == [j \in DOMAIN order |-> Stop(j)]
           b(i) == [B[i] EXCEPT !.open = @ /\ i \notin ToSet(order)]
           C == [i \in DOMAIN B |-> b(i)]
           F == E \o stops
           d == StopBlocks(c, order)
<1>1. /\ c \in Context /\ B \in Seq(Block) /\ E \in Seq(Event)
      /\ Len(B) \in Nat /\ Len(E) \in Nat /\ DOMAIN B = 1 .. Len(B)
      /\ \A i \in 1 .. Len(B) : B[i] \in Block
  BY DEF Fits, Context
<1>2. S \subseteq 1 .. Len(B) /\ \A s \in S : B[s].open
  BY <1>1 DEF OpenBlocks
<1>3. IsFiniteSet(S) /\ l \in Nat
  BY <1>1, OpenBlocksFinite
<1>4. /\ order \in [1 .. l -> S] /\ DOMAIN order = 1 .. l
      /\ \A i, j \in 1 .. l : order[i] = order[j] => i = j
      /\ \A s \in S : \E i \in 1 .. l : order[i] = s
  BY DEF Lists
<1>5. \A i : i \in ToSet(order) <=> i \in S
  BY <1>4 DEF ToSet
<1>6. \A j \in 1 .. l : Stop(j) \in BlockEvent /\ Stop(j) \in Event
  BY <1>2, <1>4 DEF StopEvent, BlockEvent, Event, Index
<1> HIDE DEF Stop
<1>7. stops \in Seq(Event) /\ Len(stops) = l /\ \A j \in 1 .. l : stops[j] = Stop(j)
  <2>1. stops \in [1 .. l -> Event]
    BY <1>4, <1>6
  <2> QED BY <2>1, <1>3, <1>4
<1> HIDE DEF stops
<1>8. /\ F \in Seq(Event) /\ Len(F) = Len(E) + l
      /\ \A j \in 1 .. Len(E) : F[j] = E[j]
      /\ \A j \in 1 .. l : F[Len(E) + j] = Stop(j)
  <2>1. /\ F \in Seq(Event) /\ Len(F) = Len(E) + l
        /\ \A k \in 1 .. Len(E) + l : F[k] = IF k <= Len(E) THEN E[k] ELSE stops[k - Len(E)]
    <3>1. /\ F \in Seq(Event) /\ Len(F) = Len(E) + Len(stops)
          /\ \A k \in 1 .. Len(E) + Len(stops) : F[k] = IF k <= Len(E) THEN E[k] ELSE stops[k - Len(E)]
      <4>1. E \in Seq(Event) /\ stops \in Seq(Event)
        BY <1>1, <1>7
      <4> HIDE DEF E
      <4> QED BY <4>1, ConcatProperties
    <3>2. Len(stops) = l
      BY <1>7
    <3> QED BY <3>1, <3>2
  <2> HIDE DEF F
  <2>2. ASSUME NEW j \in 1 .. l
        PROVE  F[Len(E) + j] = Stop(j)
    <3>1. /\ Len(E) + j \in 1 .. Len(E) + l /\ ~(Len(E) + j <= Len(E))
          /\ (Len(E) + j) - Len(E) = j
      BY <1>1, <1>3
    <3> QED BY <3>1, <2>1, <1>7
  <2>3. \A j \in 1 .. Len(E) : F[j] = E[j]
    BY <2>1, <1>1, <1>3
  <2> QED BY <2>1, <2>2, <2>3
<1>9. \A i \in 1 .. Len(B) : /\ b(i) \in Block /\ b(i).kind = B[i].kind
                             /\ b(i).open <=> B[i].open /\ i \notin S
  BY <1>1, <1>5 DEF Block
<1> HIDE DEF b
<1>10. /\ C \in Seq(Block) /\ Len(C) = Len(B)
       /\ \A i \in 1 .. Len(B) : C[i] = b(i)
  <2>1. C \in [1 .. Len(B) -> Block]
    BY <1>1, <1>9
  <2> QED BY <2>1, <1>1
<1>11. d = [c EXCEPT !.blocks = C, !.events = F]
  BY DEF StopBlocks, C, F, b, stops, Stop
<1> HIDE DEF B, E, l, C, F, d
<1>12. /\ d \in Context /\ d.blocks = C /\ d.events = F /\ KeepsRest(c, d)
       /\ d.enabled = c.enabled /\ d.buffered = c.buffered /\ d.finished = c.finished
       /\ d.tokens = c.tokens /\ d.stopReason = c.stopReason
  BY <1>1, <1>8, <1>10, <1>11 DEF Context, KeepsRest
<1>13. StopsEach(E, B, l, order, F, C)
  BY <1>1, <1>2, <1>3, <1>4, <1>8, <1>9, <1>10 DEF StopsEach, Stop
<1>14. Consistent(E, B, n, open)
  BY DEF Fits, E, B
<1>15. Consistent(F, C, n, open)
  BY <1>1, <1>8, <1>10, <1>13, <1>14, StopsConsistent
<1>16. \A k \in Len(E) + 1 .. Len(F) : F[k] \in BlockEvent /\ F[k].type = "content_block_stop"
  <2> SUFFICES ASSUME NEW k \in Len(E) + 1 .. Len(F)
               PROVE  F[k] \in BlockEvent /\ F[k].type = "content_block_stop"
    OBVIOUS
  <2>1. k - Len(E) \in 1 .. l /\ k = Len(E) + (k - Len(E))
    BY <1>1, <1>3, <1>8
  <2>2. F[k] = Stop(k - Len(E))
    BY <2>1, <1>8
  <2>3. Stop(k - Len(E)).type = "content_block_stop"
    BY DEF Stop
  <2> QED BY <2>1, <2>2, <2>3, <1>6
<1>17. Grows(c, d)
  <2>1. Extends(c, d)
    BY <1>1, <1>3, <1>8, <1>9, <1>10, <1>12, <1>16 DEF Extends, E, B
  <2> QED BY <2>1, <1>12, <1>16 DEF Grows, Tells, E
<1> QED BY <1>9, <1>10, <1>12, <1>15, <1>16, <1>17 DEF Fits, d, B, E

LEMMA CloseTextFits ==
  ASSUME NEW c, NEW n, NEW open, Fits(c, n, open)
  PROVE  LET d == CloseText(c)
         IN  /\ Fits(d, n, open) /\ Grows(c, d) /\ KeepsRest(c, d)
             /\ Len(d.blocks) = Len(c.blocks)
             /\ \A j \in 1 .. Len(c.blocks) :
                  /\ d.blocks[j].kind = c.blocks[j].kind
                  /\ d.blocks[j].open <=> c.blocks[j].open /\ c.blocks[j].kind # "text"
<1> DEFINE S == OpenText(c)
<1>1. c \in Context /\ c.blocks \in Seq(Block) /\ DOMAIN c.blocks = 1 .. Len(c.blocks)
  BY DEF Fits, Context
<1>2. S \in SUBSET OpenBlocks(c)
  BY DEF OpenText
<1>3. \A j \in 1 .. Len(c.blocks) :
        c.blocks[j].open => (j \notin S <=> c.blocks[j].kind # "text")
  BY <1>1 DEF OpenText, OpenBlocks
<1>4. CloseText(c) = StopBlocks(c, SetToSeq(S))
  BY DEF CloseText
<1> HIDE DEF S
<1> DEFINE order == SetToSeq(S)
           d == StopBlocks(c, order)
<1>5. Lists(order, S)
  BY <1>1, <1>2, OpenBlocksFinite, SetToSeqLists
<1> HIDE DEF order
<1>6. /\ Fits(d, n, open) /\ Grows(c, d) /\ KeepsRest(c, d)
      /\ \A k \in Len(c.events) + 1 .. Len(d.events) : d.events[k].type = "content_block_stop"
      /\ Len(d.blocks) = Len(c.blocks)
      /\ \A j \in 1 .. Len(c.blocks) : /\ d.blocks[j].kind = c.blocks[j].kind
                                       /\ d.blocks[j].open <=> c.blocks[j].open /\ j \notin S
  BY <1>2, <1>5, StopBlocksFits
<1> HIDE DEF d
<1>7. \A j \in 1 .. Len(c.blocks) :
        /\ d.blocks[j].kind = c.blocks[j].kind
        /\ d.blocks[j].open <=> c.blocks[j].open /\ c.blocks[j].kind # "text"
  BY <1>3, <1>6
<1> QED BY <1>4, <1>6, <1>7 DEF d, order

-----------------------------------------------------------------------------
(* The operators of StreamContext.                                          *)

\* While the context is inside of the thinking, and only then, its block is open.
ThinkingOpen(c) == c.thinkingIndex # 0 => (c.blocks[c.thinkingIndex].open <=> c.thinking = "inside")

Pointed(c, n, open) == Fits(c, n, open) /\ IndexesPoint(c)
Sound(c, n, open) == Pointed(c, n, open) /\ ThinkingOpen(c)

\* From c to d text was shown: text blocks may be new, and nothing else has changed.
Shows(c, d) ==
  /\ Extends(c, d)
  /\ d.buffer = c.buffer /\ d.thinking = c.thinking /\ d.strip = c.strip
  /\ d.thinkingIndex = c.thinkingIndex /\ d.toolIndex = c.toolIndex /\ d.hasTool = c.hasTool
  /\ \A i \in 1 .. Len(c.blocks) : d.blocks[i] = c.blocks[i]
  /\ \A i \in Len(c.blocks) + 1 .. Len(d.blocks) : d.blocks[i].kind = "text"

\* The indexes point at blocks of their kind as long as no block is new and none changes its kind.
LEMMA SameKindsPoint ==
  ASSUME NEW c, NEW d, IndexesPoint(c), Len(d.blocks) = Len(c.blocks),
         \A i \in 1 .. Len(c.blocks) : d.blocks[i].kind = c.blocks[i].kind,
         d.textIndex = c.textIndex, d.toolIndex = c.toolIndex, d.thinkingIndex = c.thinkingIndex,
         d.thinking = "before" <=> c.thinking = "before"
  PROVE  IndexesPoint(d)
BY DEF IndexesPoint, PointsAt

LEMMA LengthsTyped ==
  ASSUME NEW c \in Context
  PROVE  /\ Len(c.blocks) \in Nat /\ DOMAIN c.blocks = 1 .. Len(c.blocks)
         /\ \A i \in 1 .. Len(c.blocks) : c.blocks[i] \in Block
         /\ Len(c.buffer) \in Nat /\ Len(c.events) \in Nat
BY DEF Context

\* An open block gets a delta, others none.
LEMMA BlockDeltaFits ==
  ASSUME NEW c, NEW n, NEW open, Fits(c, n, open), NEW i \in Nat,
         NEW kind \in Kinds, NEW text \in Seq(Letters)
  PROVE  LET d == BlockDelta(c, i, kind, text)
         IN  /\ Fits(d, n, open) /\ Extends(c, d) /\ KeepsRest(c, d) /\ d.blocks = c.blocks
             /\ PointsAt(c, i, kind) /\ (kind = "text" => text \in Seq(Units)) => Grows(c, d)
<1>1. c \in Context /\ DOMAIN c.blocks = 1 .. Len(c.blocks)
  BY LengthsTyped DEF Fits
<1>2. CASE IsOpen(c, i)
  <2>1. BlockDelta(c, i, kind, text) = Emit(c, DeltaEvent(i, kind, text))
    BY <1>2 DEF BlockDelta
  <2>2. i \in 1 .. Len(c.blocks) /\ c.blocks[i].open
    BY <1>1, <1>2 DEF IsOpen
  <2> QED BY <2>1, <2>2, DeltaFits DEF PointsAt
<1>3. CASE ~IsOpen(c, i)
  <2>1. BlockDelta(c, i, kind, text) = c
    BY <1>3 DEF BlockDelta
  <2>2. Grows(c, c)
    BY <1>1, GrowsItself
  <2> QED BY <2>1, <2>2 DEF KeepsRest, Grows
<1> QED BY <1>2, <1>3

LEMMA TextDeltaSound ==
  ASSUME NEW c, NEW n, NEW open, Pointed(c, n, open), NEW text \in Seq(Letters)
  PROVE  LET d == TextDelta(c, text)
         IN  /\ Pointed(d, n, open) /\ Shows(c, d) /\ (ThinkingOpen(c) => ThinkingOpen(d))
             /\ text \in Seq(Units) => Grows(c, d)
<1> DEFINE d == TextDelta(c, text)
           l == Len(c.blocks)
<1>1. /\ Fits(c, n, open) /\ IndexesPoint(c) /\ c \in Context
      /\ l \in Nat /\ DOMAIN c.blocks = 1 .. l /\ c.textIndex \in Nat /\ "text" \in Kinds
  BY LengthsTyped DEF Pointed, Fits, Context, Kinds
<1>2. CASE IsOpen(c, c.textIndex) /\ c.blocks[c.textIndex].kind = "text"
  <2>1. d = BlockDelta(c, c.textIndex, "text", text)
    BY <1>2 DEF TextDelta
  <2> HIDE DEF d
  <2>2. /\ Fits(d, n, open) /\ Extends(c, d) /\ KeepsRest(c, d) /\ d.blocks = c.blocks
        /\ PointsAt(c, c.textIndex, "text") /\ text \in Seq(Units) => Grows(c, d)
    BY <1>1, <2>1, BlockDeltaFits
  <2>6. PointsAt(c, c.textIndex, "text")
    BY <1>1, <1>2 DEF IsOpen, PointsAt
  <2>3. IndexesPoint(d)
    BY <1>1, <2>2 DEF IndexesPoint, KeepsRest, PointsAt
  <2>4. Shows(c, d)
    BY <1>1, <2>2 DEF Shows, KeepsRest
  <2>5. ThinkingOpen(c) => ThinkingOpen(d)
    BY <2>2 DEF ThinkingOpen, KeepsRest
  <2> QED BY <2>2, <2>3, <2>4, <2>5, <2>6 DEF Pointed, d
<1>3. CASE ~(IsOpen(c, c.textIndex) /\ c.blocks[c.textIndex].kind = "text")
  <2> DEFINE x == NewBlock(c, "text")
             y == [x EXCEPT !.textIndex = l + 1]
  <2>1. /\ Fits(x, n, open) /\ Grows(c, x) /\ KeepsRest(c, x)
        /\ Len(x.blocks) = l + 1 /\ x.blocks[l + 1] = [kind |-> "text", open |-> TRUE]
        /\ \A i \in 1 .. l : x.blocks[i] = c.blocks[i]
    BY <1>1, NewBlockFits
  <2> HIDE DEF x
  <2>2. /\ y \in Context /\ y.textIndex = l + 1 /\ y.blocks = x.blocks /\ y.events = x.events
        /\ y.enabled = x.enabled /\ y.buffered = x.buffered /\ y.finished = x.finished
        /\ y.tokens = x.tokens /\ y.stopReason = x.stopReason
        /\ y.buffer = x.buffer /\ y.thinking = x.thinking /\ y.strip = x.strip
        /\ y.thinkingIndex = x.thinkingIndex /\ y.toolIndex = x.toolIndex /\ y.hasTool = x.hasTool
    <3>1. x \in Context /\ l + 1 \in Nat
      BY <1>1, <2>1 DEF Fits
    <3> QED BY <3>1 DEF Context
  <2>3. d = BlockDelta(y, y.textIndex, "text", text)
    BY <1>3 DEF TextDelta, x
  <2> HIDE DEF y, d
  <2>4. Fits(y, n, open)
    BY <2>1, <2>2 DEF Fits
  <2>5. /\ Fits(d, n, open) /\ Extends(y, d) /\ KeepsRest(y, d) /\ d.blocks = y.blocks
        /\ PointsAt(y, y.textIndex, "text") /\ text \in Seq(Units) => Grows(y, d)
    BY <1>1, <2>2, <2>3, <2>4, BlockDeltaFits
  <2>6. Extends(c, d) /\ (text \in Seq(Units) => Grows(c, d))
    <3>1. Grows(x, y)
      BY <2>1, <2>2, GrowsItself DEF Fits
    <3>2. c \in Context /\ x \in Context /\ y \in Context /\ d \in Context
      BY <1>1, <2>1, <2>2, <2>5 DEF Fits
    <3>3. Grows(c, y)
      BY <3>1, <3>2, <2>1, GrowsOn
    <3>4. PointsAt(y, y.textIndex, "text")
      BY <1>1, <2>1, <2>2 DEF PointsAt
    <3>5. Extends(c, d)
      BY <3>2, <3>3, <2>5, ExtendsOn DEF Grows
    <3> QED BY <3>2, <3>3, <3>4, <3>5, <2>5, GrowsOn
  <2>7. /\ d.textIndex = l + 1 /\ Len(d.blocks) = l + 1
        /\ d.blocks[l + 1] = [kind |-> "text", open |-> TRUE]
        /\ \A i \in 1 .. l : d.blocks[i] = c.blocks[i]
        /\ d.buffer = c.buffer /\ d.thinking = c.thinking /\ d.strip = c.strip
        /\ d.thinkingIndex = c.thinkingIndex /\ d.toolIndex = c.toolIndex /\ d.hasTool = c.hasTool
    BY <2>1, <2>2, <2>5 DEF KeepsRest
  <2>8. IndexesPoint(d)
    <3>1. d.textIndex # 0 => PointsAt(d, d.textIndex, "text")
      BY <1>1, <2>7 DEF PointsAt
    <3>2. \A t \in Tools : d.toolIndex[t] # 0 => PointsAt(d, d.toolIndex[t], "tool_use")
      <4> SUFFICES ASSUME NEW t \in Tools, d.toolIndex[t] # 0
                   PROVE  PointsAt(d, d.toolIndex[t], "tool_use")
        OBVIOUS
      <4>1. PointsAt(c, c.toolIndex[t], "tool_use") /\ d.toolIndex = c.toolIndex
        BY <1>1, <2>7 DEF IndexesPoint
      <4> QED BY <4>1, <1>1, <2>7 DEF PointsAt
    <3>3. d.thinking = "before" <=> d.thinkingIndex = 0
      BY <1>1, <2>7 DEF IndexesPoint
    <3>4. d.thinkingIndex # 0 => PointsAt(d, d.thinkingIndex, "thinking")
      BY <1>1, <2>7 DEF IndexesPoint, PointsAt
    <3>5. \A i \in 1 .. l + 1 : d.blocks[i].kind = "thinking" => i = d.thinkingIndex
      BY <1>1, <2>7 DEF IndexesPoint
    <3> QED BY <3>1, <3>2, <3>3, <3>4, <3>5, <2>7 DEF IndexesPoint
  <2>9. Shows(c, d)
    BY <1>1, <2>6, <2>7 DEF Shows
  <2>10. ThinkingOpen(c) => ThinkingOpen(d)
    BY <1>1, <2>7 DEF ThinkingOpen, IndexesPoint, PointsAt
  <2> QED BY <2>5, <2>6, <2>8, <2>9, <2>10 DEF Pointed, d
<1> QED BY <1>2, <1>3

\* Only the buffer and whether a newline is still to be stripped differ.
LEMMA OtherBuffer ==
  ASSUME NEW c, NEW n, NEW open, Pointed(c, n, open), NEW d \in Context,
         d.enabled = c.enabled, d.buffered = c.buffered, d.finished = c.finished,
         d.tokens = c.tokens, d.stopReason = c.stopReason,
         d.blocks = c.blocks, d.events = c.events, d.thinking = c.thinking,
         d.thinkingIndex = c.thinkingIndex, d.textIndex = c.textIndex, d.toolIndex = c.toolIndex
  PROVE  Pointed(d, n, open) /\ Grows(c, d) /\ (ThinkingOpen(c) => ThinkingOpen(d))
<1>1. Grows(c, d)
  BY GrowsItself DEF Pointed, Fits
<1>2. Fits(d, n, open)
  BY DEF Pointed, Fits
<1>3. IndexesPoint(d) /\ (ThinkingOpen(c) => ThinkingOpen(d))
  BY SameKindsPoint DEF Pointed, ThinkingOpen
<1> QED BY <1>1, <1>2, <1>3 DEF Pointed

LEMMA OtherText ==
  ASSUME NEW c, NEW n, NEW open, Pointed(c, n, open), NEW text \in Seq(Units)
  PROVE  LET d == [c EXCEPT !.buffer = text]
         IN  /\ Pointed(d, n, open) /\ Grows(c, d) /\ d.buffer = text /\ d.strip = c.strip
             /\ d.blocks = c.blocks /\ d.thinking = c.thinking /\ d.thinkingIndex = c.thinkingIndex
             /\ d.toolIndex = c.toolIndex /\ d.hasTool = c.hasTool
             /\ ThinkingOpen(c) => ThinkingOpen(d)
<1> DEFINE d == [c EXCEPT !.buffer = text]
<1>1. c \in Context
  BY DEF Pointed, Fits
<1>2. /\ d \in Context /\ d.buffer = text /\ d.strip = c.strip
      /\ d.enabled = c.enabled /\ d.buffered = c.buffered /\ d.finished = c.finished
      /\ d.tokens = c.tokens /\ d.stopReason = c.stopReason
      /\ d.blocks = c.blocks /\ d.events = c.events /\ d.thinking = c.thinking
      /\ d.thinkingIndex = c.thinkingIndex /\ d.textIndex = c.textIndex
      /\ d.toolIndex = c.toolIndex /\ d.hasTool = c.hasTool
  BY <1>1 DEF Context
<1> HIDE DEF d
<1>3. Pointed(d, n, open) /\ Grows(c, d) /\ (ThinkingOpen(c) => ThinkingOpen(d))
  BY <1>2, OtherBuffer
<1> QED BY <1>2, <1>3 DEF d

LEMMA UnitsAreLetters ==
  ASSUME NEW text \in Seq(Units)
  PROVE  text \in Seq(Letters)
BY SeqMonotonic DEF Letters

\* The buffer is shown as text and is empty afterwards.
LEMMA FlushTextSound ==
  ASSUME NEW c, NEW n, NEW open, Pointed(c, n, open)
  PROVE  LET d == FlushText(c)
         IN  /\ Pointed(d, n, open) /\ Grows(c, d) /\ d.buffer = <<>>
             /\ d.thinking = c.thinking /\ d.thinkingIndex = c.thinkingIndex
             /\ d.toolIndex = c.toolIndex /\ d.hasTool = c.hasTool
             /\ ThinkingOpen(c) => ThinkingOpen(d)
<1>1. c \in Context /\ c.buffer \in Seq(Units) /\ c.buffer \in Seq(Letters)
  BY UnitsAreLetters DEF Pointed, Fits, Context
<1>2. CASE c.buffer = <<>>
  <2>1. FlushText(c) = c
    BY <1>2 DEF FlushText
  <2>2. Grows(c, c)
    BY <1>1, GrowsItself
  <2> QED BY <1>2, <2>1, <2>2
<1>3. CASE c.buffer # <<>>
  <2> DEFINE x == [c EXCEPT !.buffer = <<>>]
             d == TextDelta(x, c.buffer)
  <2>1. <<>> \in Seq(Units)
    OBVIOUS
  <2>2. /\ Pointed(x, n, open) /\ Grows(c, x) /\ x.buffer = <<>>
        /\ x.thinking = c.thinking /\ x.thinkingIndex = c.thinkingIndex
        /\ x.toolIndex = c.toolIndex /\ x.hasTool = c.hasTool
        /\ ThinkingOpen(c) => ThinkingOpen(x)
    BY <2>1, OtherText
  <2> HIDE DEF x
  <2>3. /\ Pointed(d, n, open) /\ Shows(x, d) /\ Grows(x, d)
        /\ ThinkingOpen(x) => ThinkingOpen(d)
    BY <1>1, <2>2, TextDeltaSound
  <2>4. FlushText(c) = d
    BY <1>3 DEF FlushText, x
  <2> HIDE DEF d
  <2>5. Grows(c, d)
    BY <1>1, <2>2, <2>3, GrowsOn DEF Pointed, Fits
  <2> QED BY <2>2, <2>3, <2>4, <2>5 DEF Shows
<1> QED BY <1>2, <1>3

\* Every set of numbers has a least one.
LEMMA FirstIn ==
  ASSUME NEW S \in SUBSET Nat, S # {}
  PROVE  First(S) \in S
<1> DEFINE R == {e \in Nat \X Nat : e[1] < e[2]}
<1>1. OpToRel(<, Nat) = R
  BY DEF OpToRel
<1>2. IsWellFoundedOn(R, Nat)
  BY <1>1, NatLessThanWellFounded, Zenon
<1>3. \A p, q \in Nat : <<q, p>> \in R <=> q < p
  OBVIOUS
<1> HIDE DEF R
<1>4. PICK p \in S : \A q \in S : ~(<<q, p>> \in R)
  BY <1>2, WFMin
<1>5. ASSUME NEW q \in S
      PROVE  p <= q
  <2>1. p \in Nat /\ q \in Nat
    OBVIOUS
  <2>2. ~(q < p)
    BY <2>1, <1>3, <1>4
  <2> QED BY <2>1, <2>2
<1> QED BY <1>5 DEF First

\* A tag that was found lies in the text whole.
LEMMA TagFound ==
  ASSUME NEW text \in Seq(Units),
         NEW tag \in {OpenTag, CloseTag}, NEW S, S # {}, S \subseteq RealTags(text, tag)
  PROVE  First(S) \in S /\ First(S) \in 1 .. Len(text) - 1 /\ Len(tag) = 2
<1>1. DOMAIN text = 1 .. Len(text) /\ Len(text) \in Nat
  OBVIOUS
<1>2. Len(tag) = 2
  BY DEF OpenTag, CloseTag
<1>3. S \subseteq 1 .. Len(text) - 1
  BY <1>1, <1>2 DEF RealTags, TagAt
<1>4. First(S) \in S
  BY <1>1, <1>3, FirstIn
<1> QED BY <1>2, <1>3, <1>4

\* Pieces of a text.
LEMMA PieceTyped ==
  ASSUME NEW text \in Seq(Units), NEW p \in Int, NEW q \in Int, 1 <= p, q <= Len(text)
  PROVE  SubSeq(text, p, q) \in Seq(Units)
<1>1. \A i \in p .. q : text[i] \in Units
  BY ElementOfSeq, LenProperties
<1> QED BY <1>1, SubSeqProperties

LEMMA FromTyped ==
  ASSUME NEW text \in Seq(Units), NEW p \in Int, 1 <= p
  PROVE  From(text, p) \in Seq(Units)
BY PieceTyped, LenProperties DEF From

\* The thinking block gets its last deltas and is stopped.
LEMMA EndThinkingFits ==
  ASSUME NEW c, NEW n, NEW open, Sound(c, n, open), c.thinking = "inside",
         NEW text \in Seq(Units)
  PROVE  LET d == EndThinking(c, text)
         IN  /\ Fits(d, n, open) /\ Grows(c, d) /\ KeepsRest(c, d)
             /\ Len(d.blocks) = Len(c.blocks)
             /\ \A j \in 1 .. Len(c.blocks) :
                  /\ d.blocks[j].kind = c.blocks[j].kind
                  /\ d.blocks[j].open <=> c.blocks[j].open /\ j # c.thinkingIndex
<1> DEFINE i == c.thinkingIndex
           x == IF text = <<>> THEN c ELSE ThinkingDelta(c, text)
           y == ThinkingDelta(x, <<>>)
           d == StopBlock(y, i)
<1>1. /\ c \in Context /\ Fits(c, n, open) /\ i \in 1 .. Len(c.blocks) /\ c.blocks[i].open
      /\ c.blocks[i].kind = "thinking"
      /\ i \in Nat /\ "thinking" \in Kinds /\ <<>> \in Seq(Letters) /\ text \in Seq(Letters)
  BY UnitsAreLetters DEF Sound, Pointed, Fits, IndexesPoint, PointsAt, ThinkingOpen, Context, Kinds
<1>2. Fits(x, n, open) /\ Grows(c, x) /\ KeepsRest(c, x) /\ x.blocks = c.blocks
  <2>1. CASE text = <<>>
    BY <2>1, <1>1, GrowsItself DEF KeepsRest
  <2>2. CASE text # <<>>
    <3>1. x = Emit(c, DeltaEvent(i, "thinking", text))
      BY <2>2 DEF ThinkingDelta
    <3> QED BY <3>1, <1>1, DeltaFits
  <2> QED BY <2>1, <2>2
<1> HIDE DEF x
<1>3. Fits(y, n, open) /\ Grows(x, y) /\ KeepsRest(x, y) /\ y.blocks = x.blocks
  <2>1. y = Emit(x, DeltaEvent(i, "thinking", <<>>))
    BY <1>2 DEF ThinkingDelta, KeepsRest
  <2>2. i \in 1 .. Len(x.blocks) /\ x.blocks[i].open /\ x.blocks[i].kind = "thinking"
    BY <1>1, <1>2
  <2> HIDE DEF y
  <2> QED BY <2>1, <2>2, <1>1, <1>2, DeltaFits
<1>4. EndThinking(c, text) = d
  BY DEF EndThinking, x
<1> HIDE DEF y
<1>5. /\ Fits(d, n, open) /\ Grows(y, d) /\ KeepsRest(y, d)
      /\ Len(d.blocks) = Len(y.blocks)
      /\ \A j \in 1 .. Len(y.blocks) : /\ d.blocks[j].kind = y.blocks[j].kind
                                       /\ d.blocks[j].open <=> y.blocks[j].open /\ j # i
  BY <1>1, <1>3, StopBlockFits
<1> HIDE DEF d
<1>6. Grows(c, d)
  BY <1>1, <1>2, <1>3, <1>5, GrowsOn DEF Fits
<1>7. KeepsRest(c, d)
  BY <1>2, <1>3, <1>5 DEF KeepsRest
<1>8. y.blocks = c.blocks
  BY <1>2, <1>3
<1> QED BY <1>4, <1>5, <1>6, <1>7, <1>8

LEMMA LeaveThinkingSound ==
  ASSUME NEW c, NEW n, NEW open, Sound(c, n, open), c.thinking = "inside",
         NEW end \in 1 .. Len(c.buffer), NEW rest \in Seq(Units)
  PROVE  LET d == LeaveThinking(c, end, rest)
         IN  /\ Sound(d, n, open) /\ Grows(c, d) /\ d.thinking = "done" /\ d.buffer = rest
             /\ d.toolIndex = c.toolIndex /\ d.hasTool = c.hasTool
<1> DEFINE text == SubSeq(c.buffer, 1, end - 1)
           x == EndThinking(c, text)
           d == [x EXCEPT !.thinking = "done", !.buffer = rest]
<1>1. /\ c \in Context /\ Fits(c, n, open) /\ IndexesPoint(c) /\ c.buffer \in Seq(Units)
      /\ c.thinkingIndex # 0
  BY DEF Sound, Pointed, Fits, IndexesPoint, Context
<1>2. text \in Seq(Units)
  BY <1>1, PieceTyped, LenProperties
<1>3. LeaveThinking(c, end, rest) = d
  BY DEF LeaveThinking
<1> HIDE DEF text
<1>4. /\ Fits(x, n, open) /\ Grows(c, x) /\ KeepsRest(c, x)
      /\ Len(x.blocks) = Len(c.blocks)
      /\ \A j \in 1 .. Len(c.blocks) :
           /\ x.blocks[j].kind = c.blocks[j].kind
           /\ x.blocks[j].open <=> c.blocks[j].open /\ j # c.thinkingIndex
  BY <1>2, EndThinkingFits
<1> HIDE DEF x
<1>5. x \in Context
  BY <1>4 DEF Fits
<1>6. /\ d \in Context /\ d.thinking = "done" /\ d.buffer = rest
      /\ d.enabled = x.enabled /\ d.buffered = x.buffered /\ d.finished = x.finished
      /\ d.tokens = x.tokens /\ d.stopReason = x.stopReason
      /\ d.blocks = x.blocks /\ d.events = x.events
      /\ d.thinkingIndex = x.thinkingIndex /\ d.textIndex = x.textIndex
      /\ d.toolIndex = x.toolIndex /\ d.hasTool = x.hasTool
  BY <1>5 DEF Context
<1> HIDE DEF d
<1>7. Grows(c, d)
  <2>1. Grows(x, d)
    BY <1>5, <1>6, GrowsItself
  <2> QED BY <2>1, <1>1, <1>4, <1>5, <1>6, GrowsOn
<1>8. Fits(d, n, open)
  BY <1>4, <1>6 DEF Fits
<1>9. IndexesPoint(d)
  BY <1>1, <1>4, <1>6, SameKindsPoint DEF KeepsRest
<1>10. ThinkingOpen(d)
  BY <1>1, <1>4, <1>6 DEF ThinkingOpen, IndexesPoint, PointsAt, KeepsRest
<1> QED BY <1>3, <1>4, <1>6, <1>7, <1>8, <1>9, <1>10 DEF Sound, Pointed, KeepsRest

\* The start tag was found: the thinking block begins.
LEMMA BeginThinkingSound ==
  ASSUME NEW c, NEW n, NEW open, Pointed(c, n, open), c.thinking = "before",
         NEW rest \in Seq(Units)
  PROVE  LET d == [NewBlock(c, "thinking")
                     EXCEPT !.thinking = "inside", !.thinkingIndex = Len(c.blocks) + 1,
                            !.strip = TRUE, !.buffer = rest]
         IN  /\ Sound(d, n, open) /\ Grows(c, d) /\ d.thinking = "inside"
             /\ d.toolIndex = c.toolIndex /\ d.hasTool = c.hasTool
<1> DEFINE l == Len(c.blocks)
           x == NewBlock(c, "thinking")
           d == [x EXCEPT !.thinking = "inside", !.thinkingIndex = l + 1,
                          !.strip = TRUE, !.buffer = rest]
<1>1. /\ Fits(c, n, open) /\ IndexesPoint(c) /\ c \in Context
      /\ l \in Nat /\ "thinking" \in Kinds
  BY LengthsTyped DEF Pointed, Fits, Kinds
<1>2. /\ Fits(x, n, open) /\ Grows(c, x) /\ KeepsRest(c, x)
      /\ Len(x.blocks) = l + 1 /\ x.blocks[l + 1] = [kind |-> "thinking", open |-> TRUE]
      /\ \A i \in 1 .. l : x.blocks[i] = c.blocks[i]
  BY <1>1, NewBlockFits
<1> HIDE DEF x
<1>3. /\ d \in Context /\ d.thinking = "inside" /\ d.thinkingIndex = l + 1
      /\ d.enabled = x.enabled /\ d.buffered = x.buffered /\ d.finished = x.finished
      /\ d.tokens = x.tokens /\ d.stopReason = x.stopReason
      /\ d.blocks = x.blocks /\ d.events = x.events
      /\ d.textIndex = x.textIndex /\ d.toolIndex = x.toolIndex /\ d.hasTool = x.hasTool
  <2>1. x \in Context /\ l + 1 \in Nat
    BY <1>1, <1>2 DEF Fits
  <2> QED BY <2>1 DEF Context
<1> HIDE DEF d
<1>4. Fits(d, n, open)
  BY <1>2, <1>3 DEF Fits
<1>5. Grows(c, d)
  <2>1. Grows(x, d)
    BY <1>2, <1>3, GrowsItself DEF Fits
  <2> QED BY <2>1, <1>1, <1>2, <1>3, GrowsOn DEF Fits
<1>6. IndexesPoint(d)
  <2>1. /\ Len(d.blocks) = l + 1 /\ d.blocks[l + 1] = [kind |-> "thinking", open |-> TRUE]
        /\ \A i \in 1 .. l : d.blocks[i] = c.blocks[i]
        /\ d.textIndex = c.textIndex /\ d.toolIndex = c.toolIndex
    BY <1>2, <1>3 DEF KeepsRest
  <2>2. \A i, kind : PointsAt(c, i, kind) => PointsAt(d, i, kind)
    BY <2>1, <1>1 DEF PointsAt
  <2>3. d.textIndex # 0 => PointsAt(d, d.textIndex, "text")
    BY <2>1, <2>2, <1>1 DEF IndexesPoint
  <2>4. \A t \in Tools : d.toolIndex[t] # 0 => PointsAt(d, d.toolIndex[t], "tool_use")
    BY <2>1, <2>2, <1>1 DEF IndexesPoint
  <2>5. PointsAt(d, d.thinkingIndex, "thinking") /\ d.thinkingIndex # 0
    BY <2>1, <1>1, <1>3 DEF PointsAt
  <2>6. ASSUME NEW i \in 1 .. l + 1, d.blocks[i].kind = "thinking"
        PROVE  i = d.thinkingIndex
    <3>1. c.thinkingIndex = 0
      BY <1>1 DEF IndexesPoint
    <3>2. i \notin 1 .. l
      BY <3>1, <2>1, <2>6, <1>1 DEF IndexesPoint
    <3> QED BY <3>2, <1>1, <1>3
  <2> QED BY <2>1, <2>3, <2>4, <2>5, <2>6, <1>3 DEF IndexesPoint
<1>7. ThinkingOpen(d)
  BY <1>2, <1>3 DEF ThinkingOpen
<1> QED BY <1>2, <1>3, <1>4, <1>5, <1>6, <1>7 DEF Sound, Pointed, KeepsRest, d, x

\* Text is shown unless it is blank.
LEMMA ShownSound ==
  ASSUME NEW c, NEW n, NEW open, Pointed(c, n, open), NEW text \in Seq(Units)
  PROVE  LET d == IF IsBlank(text) THEN c ELSE TextDelta(c, text)
         IN  /\ Pointed(d, n, open) /\ Shows(c, d) /\ Grows(c, d)
             /\ ThinkingOpen(c) => ThinkingOpen(d)
<1>1. c \in Context /\ text \in Seq(Letters)
  BY UnitsAreLetters DEF Pointed, Fits
<1>2. Shows(c, c) /\ Grows(c, c)
  <2>1. Len(c.blocks) \in Nat /\ Grows(c, c)
    BY <1>1, LengthsTyped, GrowsItself
  <2> QED BY <2>1 DEF Shows, Grows
<1>3. CASE IsBlank(text)
  BY <1>2, <1>3
<1>4. CASE ~IsBlank(text)
  BY <1>1, <1>4, TextDeltaSound
<1> QED BY <1>3, <1>4

LEMMA LookForStartSound ==
  ASSUME NEW c, NEW n, NEW open, Sound(c, n, open), c.thinking = "before"
  PROVE  LET d == LookForStart(c)
         IN  /\ Sound(d, n, open) /\ Grows(c, d) /\ d.thinking \in {"before", "inside"}
             /\ d.toolIndex = c.toolIndex /\ d.hasTool = c.hasTool
<1> DEFINE start == First(StartTags(c.buffer))
           before == SubSeq(c.buffer, 1, start - 1)
           safe == SubSeq(c.buffer, 1, Len(c.buffer) - Len(OpenTag))
           rest == From(c.buffer, start + Len(OpenTag))
           Shown(text) == IF IsBlank(text) THEN c ELSE TextDelta(c, text)
<1>1. /\ c \in Context /\ c.buffer \in Seq(Units) /\ Len(c.buffer) \in Nat /\ Len(OpenTag) = 2
      /\ Pointed(c, n, open) /\ ThinkingOpen(c)
  BY LengthsTyped DEF Sound, Pointed, Fits, Context, OpenTag
<1>2. CASE StartTags(c.buffer) # {}
  <2>1. start \in 1 .. Len(c.buffer) - 1
    BY <1>1, <1>2, TagFound DEF StartTags
  <2>2. before \in Seq(Units) /\ rest \in Seq(Units)
    <3> HIDE DEF start
    <3>1. before \in Seq(Units)
      BY <2>1, <1>1, PieceTyped
    <3>2. start + Len(OpenTag) \in Int /\ 1 <= start + Len(OpenTag)
      BY <2>1, <1>1
    <3>3. rest \in Seq(Units)
      BY <3>2, <1>1, FromTyped
    <3> QED BY <3>1, <3>3
  <2> DEFINE x == Shown(before)
             d == [NewBlock(x, "thinking")
                     EXCEPT !.thinking = "inside", !.thinkingIndex = Len(x.blocks) + 1,
                            !.strip = TRUE, !.buffer = rest]
  <2>3. LookForStart(c) = d
    BY <1>2 DEF LookForStart
  <2> HIDE DEF start, before, rest
  <2>4. Pointed(x, n, open) /\ Shows(c, x) /\ Grows(c, x)
    BY <1>1, <2>2, ShownSound
  <2> HIDE DEF x
  <2>5. x.thinking = "before" /\ Grows(c, x) /\ x.toolIndex = c.toolIndex /\ x.hasTool = c.hasTool
    BY <2>4 DEF Shows
  <2>6. /\ Sound(d, n, open) /\ Grows(x, d) /\ d.thinking = "inside"
        /\ d.toolIndex = x.toolIndex /\ d.hasTool = x.hasTool
    BY <2>2, <2>4, <2>5, BeginThinkingSound
  <2> HIDE DEF d
  <2>7. Grows(c, d)
    BY <1>1, <2>4, <2>5, <2>6, GrowsOn DEF Sound, Pointed, Fits
  <2> QED BY <2>3, <2>5, <2>6, <2>7
<1>3. CASE StartTags(c.buffer) = {} /\ IsBlank(safe)
  <2>1. LookForStart(c) = c
    BY <1>3 DEF LookForStart
  <2>2. Grows(c, c)
    BY <1>1, GrowsItself
  <2> QED BY <2>1, <2>2
<1>4. CASE StartTags(c.buffer) = {} /\ ~IsBlank(safe)
  <2> DEFINE x == Shown(safe)
             tail == From(c.buffer, Len(safe) + 1)
             d == [x EXCEPT !.buffer = tail]
  <2>1. LookForStart(c) = d
    BY <1>4 DEF LookForStart
  <2>2. safe \in Seq(Units) /\ Len(safe) \in Nat
    BY <1>1, PieceTyped, LenProperties
  <2> HIDE DEF safe
  <2>3. tail \in Seq(Units)
    <3>1. Len(safe) + 1 \in Int /\ 1 <= Len(safe) + 1
      BY <2>2
    <3> QED BY <3>1, <1>1, FromTyped
  <2>4. Pointed(x, n, open) /\ Shows(c, x) /\ Grows(c, x) /\ ThinkingOpen(x)
    BY <1>1, <2>2, ShownSound
  <2> HIDE DEF x, tail
  <2>5. /\ Pointed(d, n, open) /\ Grows(x, d) /\ d.thinking = x.thinking /\ ThinkingOpen(d)
        /\ d.toolIndex = x.toolIndex /\ d.hasTool = x.hasTool
    BY <2>3, <2>4, OtherText
  <2> HIDE DEF d
  <2>6. Grows(c, d)
    BY <1>1, <2>4, <2>5, GrowsOn DEF Pointed, Fits
  <2> QED BY <2>1, <2>4, <2>5, <2>6 DEF Sound, Shows
<1> QED BY <1>2, <1>3, <1>4

LEMMA StripNewlineSound ==
  ASSUME NEW c, NEW n, NEW open, Sound(c, n, open)
  PROVE  LET d == StripNewline(c)
         IN  /\ Sound(d, n, open) /\ Grows(c, d) /\ d.thinking = c.thinking
             /\ d.toolIndex = c.toolIndex /\ d.hasTool = c.hasTool
<1> DEFINE text == IF c.strip /\ IsPrefix(<<Newline>>, c.buffer) THEN Tail(c.buffer) ELSE c.buffer
           strip == c.strip /\ c.buffer = <<>>
           d == [c EXCEPT !.buffer = text, !.strip = strip]
<1>1. c \in Context /\ c.buffer \in Seq(Units) /\ Pointed(c, n, open) /\ ThinkingOpen(c)
  BY DEF Sound, Pointed, Fits, Context
<1>2. text \in Seq(Units)
  <2>1. ASSUME c.buffer = <<>>, IsPrefix(<<Newline>>, c.buffer)
        PROVE  FALSE
    BY <2>1 DEF IsPrefix
  <2>2. c.buffer # <<>> => Tail(c.buffer) \in Seq(Units)
    BY <1>1, HeadTailProperties
  <2> QED BY <1>1, <2>1, <2>2
<1>3. strip \in BOOLEAN
  BY <1>1 DEF Context
<1>4. StripNewline(c) = d
  BY DEF StripNewline
<1> HIDE DEF text, strip
<1>5. /\ d \in Context /\ d.thinking = c.thinking
      /\ d.enabled = c.enabled /\ d.buffered = c.buffered /\ d.finished = c.finished
      /\ d.tokens = c.tokens /\ d.stopReason = c.stopReason
      /\ d.blocks = c.blocks /\ d.events = c.events
      /\ d.thinkingIndex = c.thinkingIndex /\ d.textIndex = c.textIndex
      /\ d.toolIndex = c.toolIndex /\ d.hasTool = c.hasTool
  BY <1>1, <1>2, <1>3 DEF Context
<1> HIDE DEF d
<1>6. Pointed(d, n, open) /\ Grows(c, d) /\ ThinkingOpen(d)
  BY <1>1, <1>5, OtherBuffer
<1> QED BY <1>4, <1>5, <1>6 DEF Sound

LEMMA LookForEndSound ==
  ASSUME NEW c, NEW n, NEW open, Sound(c, n, open), c.thinking = "inside"
  PROVE  LET d == LookForEnd(c)
         IN  /\ Sound(d, n, open) /\ Grows(c, d) /\ d.thinking \in {"inside", "done"}
             /\ d.toolIndex = c.toolIndex /\ d.hasTool = c.hasTool
<1> DEFINE end == First(EndTags(c.buffer))
           held == Len(CloseTag) + 2
           safe == SubSeq(c.buffer, 1, Len(c.buffer) - held)
<1>1. /\ c \in Context /\ c.buffer \in Seq(Units) /\ Len(c.buffer) \in Nat /\ held = 4
      /\ Pointed(c, n, open) /\ ThinkingOpen(c)
  BY LengthsTyped DEF Sound, Pointed, Fits, Context, CloseTag
<1>2. CASE EndTags(c.buffer) # {}
  <2>1. end \in 1 .. Len(c.buffer) - 1
    <3>1. EndTags(c.buffer) \subseteq RealTags(c.buffer, CloseTag)
      BY DEF EndTags
    <3> QED BY <3>1, <1>1, <1>2, TagFound
  <2> DEFINE rest == From(c.buffer, end + held)
  <2>2. LookForEnd(c) = LeaveThinking(c, end, rest)
    BY <1>2 DEF LookForEnd
  <2> HIDE DEF end, held
  <2>3. rest \in Seq(Units) /\ end \in 1 .. Len(c.buffer)
    <3>1. end + held \in Int /\ 1 <= end + held
      BY <1>1, <2>1
    <3>2. rest \in Seq(Units)
      BY <3>1, <1>1, FromTyped
    <3> QED BY <3>2, <1>1, <2>1
  <2> HIDE DEF rest
  <2> QED BY <2>2, <2>3, LeaveThinkingSound
<1>3. CASE EndTags(c.buffer) = {} /\ safe = <<>>
  <2>1. LookForEnd(c) = c
    BY <1>3 DEF LookForEnd
  <2>2. Grows(c, c)
    BY <1>1, GrowsItself
  <2> QED BY <2>1, <2>2
<1>4. CASE EndTags(c.buffer) = {} /\ safe # <<>>
  <2> DEFINE i == c.thinkingIndex
             x == ThinkingDelta(c, safe)
             tail == From(c.buffer, Len(safe) + 1)
             d == [x EXCEPT !.buffer = tail]
  <2>1. LookForEnd(c) = d
    BY <1>4 DEF LookForEnd
  <2>2. safe \in Seq(Units) /\ Len(safe) \in Nat
    <3> HIDE DEF held
    <3> QED BY <1>1, PieceTyped, LenProperties
  <2> HIDE DEF safe
  <2>3. tail \in Seq(Units)
    <3>1. Len(safe) + 1 \in Int /\ 1 <= Len(safe) + 1
      BY <2>2
    <3> QED BY <3>1, <1>1, FromTyped
  <2>4. Fits(x, n, open) /\ Grows(c, x) /\ KeepsRest(c, x) /\ x.blocks = c.blocks
    <3>1. /\ i \in 1 .. Len(c.blocks) /\ c.blocks[i].open /\ Fits(c, n, open)
          /\ c.blocks[i].kind = "thinking"
          /\ "thinking" \in Kinds /\ safe \in Seq(Letters)
      BY <1>1, <2>2, UnitsAreLetters DEF Pointed, IndexesPoint, PointsAt, ThinkingOpen, Kinds
    <3>2. x = Emit(c, DeltaEvent(i, "thinking", safe))
      BY DEF ThinkingDelta
    <3> HIDE DEF x
    <3> QED BY <3>1, <3>2, DeltaFits
  <2> HIDE DEF x, tail
  <2>5. Pointed(x, n, open) /\ ThinkingOpen(x)
    <3>1. IndexesPoint(x)
      BY <1>1, <2>4, SameKindsPoint DEF Pointed, KeepsRest
    <3>2. ThinkingOpen(x)
      BY <1>1, <2>4 DEF ThinkingOpen, KeepsRest
    <3> QED BY <3>1, <3>2, <2>4 DEF Pointed
  <2>6. /\ Pointed(d, n, open) /\ Grows(x, d) /\ d.thinking = x.thinking /\ ThinkingOpen(d)
        /\ d.toolIndex = x.toolIndex /\ d.hasTool = x.hasTool
    BY <2>3, <2>5, OtherText
  <2> HIDE DEF d
  <2>7. Grows(c, d)
    BY <1>1, <2>4, <2>6, GrowsOn DEF Pointed, Fits
  <2> QED BY <2>1, <2>4, <2>6, <2>7 DEF Sound, KeepsRest
<1>5. (EndTags(c.buffer) = {} /\ safe = <<>>) \/ (EndTags(c.buffer) = {} /\ safe # <<>>)
        \/ EndTags(c.buffer) # {}
  OBVIOUS
<1> QED BY <1>2, <1>3, <1>4, <1>5

\* Once the thinking is done nothing is held back.
Flushed(c) == c.thinking = "done" => c.buffer = <<>>

LEMMA ProcessContentSound ==
  ASSUME NEW c, NEW n, NEW open, Sound(c, n, open), NEW content \in Seq(Units)
  PROVE  LET d == ProcessContent(c, content)
         IN  /\ Sound(d, n, open) /\ Grows(c, d) /\ Flushed(d)
             /\ d.toolIndex = c.toolIndex /\ d.hasTool = c.hasTool
<1> DEFINE joined == c.buffer \o content
           begun == [c EXCEPT !.buffer = joined]
           started == IF begun.thinking = "before" THEN LookForStart(begun) ELSE begun
           stripped == StripNewline(started)
           ended == IF started.thinking = "inside" THEN LookForEnd(stripped) ELSE started
           d == IF ended.thinking = "done" THEN FlushText(ended) ELSE ended
           Leads(x) == Sound(x, n, open) /\ Grows(c, x) /\ x.toolIndex = c.toolIndex /\ x.hasTool = c.hasTool
<1>1. ProcessContent(c, content) = d
  BY DEF ProcessContent
<1>2. c \in Context /\ joined \in Seq(Units)
  BY DEF Sound, Pointed, Fits, Context
<1> HIDE DEF joined
<1>3. Leads(begun)
  BY <1>2, OtherText DEF Sound
<1> HIDE DEF begun
<1>4. Leads(started)
  <2>1. CASE begun.thinking = "before"
    <3>1. started = LookForStart(begun)
      BY <2>1
    <3> HIDE DEF started
    <3>2. /\ Sound(started, n, open) /\ Grows(begun, started)
          /\ started.toolIndex = begun.toolIndex /\ started.hasTool = begun.hasTool
      BY <3>1, <2>1, <1>3, LookForStartSound
    <3>3. Grows(c, started)
      BY <3>2, <1>2, <1>3, GrowsOn DEF Sound, Pointed, Fits
    <3> QED BY <3>2, <3>3, <1>3
  <2>2. CASE begun.thinking # "before"
    BY <2>2, <1>3
  <2> QED BY <2>1, <2>2
<1> HIDE DEF started
<1>5. Leads(stripped) /\ stripped.thinking = started.thinking
  <2>1. /\ Sound(stripped, n, open) /\ Grows(started, stripped) /\ stripped.thinking = started.thinking
        /\ stripped.toolIndex = started.toolIndex /\ stripped.hasTool = started.hasTool
    BY <1>4, StripNewlineSound
  <2> HIDE DEF stripped
  <2>2. Grows(c, stripped)
    BY <2>1, <1>2, <1>4, GrowsOn DEF Sound, Pointed, Fits
  <2> QED BY <2>1, <2>2, <1>4
<1> HIDE DEF stripped
<1>6. Leads(ended)
  <2>1. CASE started.thinking = "inside"
    <3>1. ended = LookForEnd(stripped)
      BY <2>1
    <3> HIDE DEF ended
    <3>2. /\ Sound(ended, n, open) /\ Grows(stripped, ended)
          /\ ended.toolIndex = stripped.toolIndex /\ ended.hasTool = stripped.hasTool
      BY <3>1, <2>1, <1>5, LookForEndSound
    <3>3. Grows(c, ended)
      BY <3>2, <1>2, <1>5, GrowsOn DEF Sound, Pointed, Fits
    <3> QED BY <3>2, <3>3, <1>5
  <2>2. CASE started.thinking # "inside"
    BY <2>2, <1>4
  <2> QED BY <2>1, <2>2
<1> HIDE DEF ended
<1>7. Leads(d) /\ Flushed(d)
  <2>1. CASE ended.thinking = "done"
    <3>1. d = FlushText(ended)
      BY <2>1
    <3> HIDE DEF d
    <3>2. /\ Sound(d, n, open) /\ Grows(ended, d) /\ d.buffer = <<>>
          /\ d.toolIndex = ended.toolIndex /\ d.hasTool = ended.hasTool
      BY <3>1, <1>6, FlushTextSound DEF Sound
    <3>3. Grows(c, d)
      BY <3>2, <1>2, <1>6, GrowsOn DEF Sound, Pointed, Fits
    <3> QED BY <3>2, <3>3, <1>6 DEF Flushed
  <2>2. CASE ended.thinking # "done"
    BY <2>2, <1>6 DEF Flushed
  <2> QED BY <2>1, <2>2
<1> HIDE DEF d
<1> QED BY <1>1, <1>7

LEMMA ProcessAssistantResponseSound ==
  ASSUME NEW c, NEW n, NEW open, Sound(c, n, open), Flushed(c), NEW content \in Seq(Units)
  PROVE  LET d == ProcessAssistantResponse(c, content)
         IN  /\ Sound(d, n, open) /\ Grows(c, d) /\ Flushed(d)
             /\ d.toolIndex = c.toolIndex /\ d.hasTool = c.hasTool
<1>1. CASE c.enabled
  BY <1>1, ProcessContentSound DEF ProcessAssistantResponse
<1>2. CASE ~c.enabled
  <2> DEFINE d == TextDelta(c, content)
  <2>1. ProcessAssistantResponse(c, content) = d
    BY <1>2 DEF ProcessAssistantResponse
  <2>2. content \in Seq(Letters)
    BY UnitsAreLetters
  <2>3. Pointed(d, n, open) /\ Shows(c, d) /\ Grows(c, d) /\ ThinkingOpen(d)
    BY <2>2, TextDeltaSound DEF Sound
  <2> HIDE DEF d
  <2> QED BY <2>1, <2>3 DEF Sound, Shows, Flushed
<1> QED BY <1>1, <1>2

\* From c to d no thinking block was started or stopped, and only blocks and events changed.
Spares(c, d) ==
  /\ Grows(c, d) /\ KeepsRest(c, d)
  /\ \A i \in 1 .. Len(c.blocks) :
       c.blocks[i].kind = "thinking" => (d.blocks[i].open <=> c.blocks[i].open)
  /\ \A i \in Len(c.blocks) + 1 .. Len(d.blocks) : d.blocks[i].kind # "thinking"

LEMMA SparesOn ==
  ASSUME NEW c \in Context, NEW d \in Context, NEW e \in Context, Spares(c, d), Spares(d, e)
  PROVE  Spares(c, e)
<1>1. Len(c.blocks) \in Nat /\ Len(d.blocks) \in Nat /\ Len(e.blocks) \in Nat
  BY LengthsTyped
<1>2. Grows(c, e) /\ KeepsRest(c, e)
  BY GrowsOn DEF Spares, KeepsRest
<1>3. Len(c.blocks) <= Len(d.blocks) /\ Len(d.blocks) <= Len(e.blocks)
  BY DEF Spares, Grows, Extends
<1>4. ASSUME NEW i \in 1 .. Len(c.blocks), c.blocks[i].kind = "thinking"
      PROVE  e.blocks[i].open <=> c.blocks[i].open
  <2>1. i \in 1 .. Len(d.blocks) /\ d.blocks[i].kind = "thinking"
    BY <1>1, <1>3, <1>4 DEF Spares, Grows, Extends
  <2> QED BY <2>1, <1>4 DEF Spares
<1>5. ASSUME NEW i \in Len(c.blocks) + 1 .. Len(e.blocks)
      PROVE  e.blocks[i].kind # "thinking"
  <2>1. CASE i \in 1 .. Len(d.blocks)
    <3>1. i \in Len(c.blocks) + 1 .. Len(d.blocks)
      BY <2>1, <1>1
    <3> QED BY <3>1, <2>1 DEF Spares, Grows, Extends
  <2>2. CASE i \notin 1 .. Len(d.blocks)
    <3>1. i \in Len(d.blocks) + 1 .. Len(e.blocks)
      BY <2>2, <1>1
    <3> QED BY <3>1 DEF Spares
  <2> QED BY <2>1, <2>2
<1> QED BY <1>2, <1>4, <1>5 DEF Spares

LEMMA SameBlocksSpare ==
  ASSUME NEW c \in Context, NEW d, Grows(c, d), KeepsRest(c, d), d.blocks = c.blocks
  PROVE  Spares(c, d)
<1>1. Len(c.blocks) \in Nat
  BY LengthsTyped
<1> QED BY <1>1 DEF Spares

\* The block of the tool call: it is found or started, and its index is i.
LEMMA ToolBlockFits ==
  ASSUME NEW c, NEW n, NEW open, Fits(c, n, open), NEW i,
         PointsAt(c, i, "tool_use") \/ i = Len(c.blocks) + 1
  PROVE  LET d == IF i \in DOMAIN c.blocks THEN c ELSE NewBlock(c, "tool_use")
         IN  Fits(d, n, open) /\ Spares(c, d) /\ PointsAt(d, i, "tool_use")
<1>1. /\ c \in Context /\ Len(c.blocks) \in Nat /\ DOMAIN c.blocks = 1 .. Len(c.blocks)
      /\ "tool_use" \in Kinds
  BY LengthsTyped DEF Fits, Kinds
<1>2. CASE i \in DOMAIN c.blocks
  <2>1. PointsAt(c, i, "tool_use")
    BY <1>1, <1>2
  <2>2. Spares(c, c)
    <3>1. Grows(c, c)
      BY <1>1, GrowsItself
    <3> QED BY <3>1, <1>1, SameBlocksSpare DEF KeepsRest
  <2> QED BY <1>2, <2>1, <2>2
<1>3. CASE i \notin DOMAIN c.blocks
  <2> DEFINE d == NewBlock(c, "tool_use")
  <2>1. i = Len(c.blocks) + 1
    BY <1>1, <1>3 DEF PointsAt
  <2>2. /\ Fits(d, n, open) /\ Grows(c, d) /\ KeepsRest(c, d)
        /\ Len(d.blocks) = i /\ d.blocks[i] = [kind |-> "tool_use", open |-> TRUE]
        /\ \A j \in 1 .. Len(c.blocks) : d.blocks[j] = c.blocks[j]
    BY <1>1, <2>1, NewBlockFits
  <2> HIDE DEF d
  <2>3. Spares(c, d)
    BY <1>1, <2>1, <2>2 DEF Spares
  <2>4. PointsAt(d, i, "tool_use")
    BY <1>1, <2>1, <2>2 DEF PointsAt
  <2> QED BY <1>3, <2>2, <2>3, <2>4 DEF d
<1> QED BY <1>2, <1>3

LEMMA ProcessToolUseSound ==
  ASSUME NEW c, NEW n, NEW open, Sound(c, n, open), Flushed(c),
         NEW id \in Tools, NEW input \in BOOLEAN, NEW stop \in BOOLEAN
  PROVE  LET d == ProcessToolUse(c, id, input, stop)
         IN  Sound(d, n, open) /\ Grows(c, d) /\ Flushed(d) /\ d.hasTool
<1> DEFINE end == First(EndTagsAtBufferEnd(c.buffer))
           left == IF c.thinking = "inside" /\ EndTagsAtBufferEnd(c.buffer) # {}
                   THEN LeaveThinking(c, end, <<>>) ELSE c
           flushed == IF left.thinking = "before" THEN FlushText(left) ELSE left
           i == IF c.toolIndex[id] # 0 THEN c.toolIndex[id] ELSE Len(flushed.blocks) + 1
           noted == [flushed EXCEPT !.toolIndex[id] = i, !.hasTool = TRUE]
           closed == CloseText(noted)
           started == IF i \in DOMAIN closed.blocks THEN closed ELSE NewBlock(closed, "tool_use")
           grown == IF input THEN BlockDelta(started, i, "tool_use", <<id>>) ELSE started
           d == IF stop THEN StopBlock(grown, i) ELSE grown
           Leads(x) == Sound(x, n, open) /\ Grows(c, x) /\ Flushed(x) /\ x.toolIndex = c.toolIndex
<1>1. ProcessToolUse(c, id, input, stop) = d
  BY DEF ProcessToolUse
<1>2. c \in Context /\ c.buffer \in Seq(Units) /\ Grows(c, c) /\ <<>> \in Seq(Units)
  BY GrowsItself DEF Sound, Pointed, Fits, Context
<1>3. Leads(left)
  <2>1. CASE c.thinking = "inside" /\ EndTagsAtBufferEnd(c.buffer) # {}
    <3>1. end \in 1 .. Len(c.buffer) - 1
      <4>1. EndTagsAtBufferEnd(c.buffer) \subseteq RealTags(c.buffer, CloseTag)
        BY DEF EndTagsAtBufferEnd
      <4> QED BY <4>1, <1>2, <2>1, TagFound
    <3>2. left = LeaveThinking(c, end, <<>>)
      BY <2>1
    <3>3. end \in 1 .. Len(c.buffer)
      BY <3>1, <1>2, LenProperties
    <3> HIDE DEF left, end
    <3>4. /\ Sound(left, n, open) /\ Grows(c, left) /\ left.thinking = "done" /\ left.buffer = <<>>
          /\ left.toolIndex = c.toolIndex
      BY <3>2, <3>3, <2>1, <1>2, LeaveThinkingSound
    <3> QED BY <3>4 DEF Flushed
  <2>2. CASE ~(c.thinking = "inside" /\ EndTagsAtBufferEnd(c.buffer) # {})
    <3>1. left = c
      BY <2>2
    <3> QED BY <3>1, <1>2
  <2> QED BY <2>1, <2>2
<1> HIDE DEF left, end
<1>4. Leads(flushed)
  <2>1. CASE left.thinking = "before"
    <3>1. flushed = FlushText(left)
      BY <2>1
    <3> HIDE DEF flushed
    <3>2. /\ Sound(flushed, n, open) /\ Grows(left, flushed) /\ flushed.thinking = left.thinking
          /\ flushed.toolIndex = left.toolIndex
      BY <3>1, <1>3, FlushTextSound DEF Sound
    <3>3. Grows(c, flushed)
      BY <3>2, <1>2, <1>3, GrowsOn DEF Sound, Pointed, Fits
    <3> QED BY <3>2, <3>3, <2>1, <1>3 DEF Flushed
  <2>2. CASE left.thinking # "before"
    BY <2>2, <1>3
  <2> QED BY <2>1, <2>2
<1> HIDE DEF flushed
<1>5. /\ flushed \in Context /\ Len(flushed.blocks) \in Nat
      /\ flushed.toolIndex = c.toolIndex /\ flushed.toolIndex \in [Tools -> Nat]
  BY <1>4, LengthsTyped DEF Sound, Pointed, Fits, Context
<1>6. i \in Nat \ {0} /\ (PointsAt(flushed, i, "tool_use") \/ i = Len(flushed.blocks) + 1)
  <2>1. CASE c.toolIndex[id] # 0
    BY <2>1, <1>4, <1>5 DEF Sound, Pointed, IndexesPoint
  <2>2. CASE c.toolIndex[id] = 0
    BY <2>2, <1>5
  <2> QED BY <2>1, <2>2
<1> HIDE DEF i
<1>7. /\ noted \in Context /\ noted.hasTool /\ noted.blocks = flushed.blocks
      /\ noted.events = flushed.events
      /\ noted.enabled = flushed.enabled /\ noted.buffered = flushed.buffered
      /\ noted.finished = flushed.finished /\ noted.tokens = flushed.tokens
      /\ noted.stopReason = flushed.stopReason
      /\ noted.buffer = flushed.buffer /\ noted.thinking = flushed.thinking
      /\ noted.thinkingIndex = flushed.thinkingIndex /\ noted.textIndex = flushed.textIndex
      /\ noted.toolIndex = [flushed.toolIndex EXCEPT ![id] = i]
  BY <1>5, <1>6 DEF Context
<1> HIDE DEF noted
<1>8. Fits(noted, n, open) /\ Grows(c, noted)
  <2>1. Grows(flushed, noted)
    BY <1>5, <1>7, GrowsItself
  <2> QED BY <2>1, <1>2, <1>4, <1>5, <1>7, GrowsOn DEF Sound, Pointed, Fits
<1>9. Fits(closed, n, open) /\ Spares(noted, closed) /\ Len(closed.blocks) = Len(noted.blocks)
  <2>1. /\ Fits(closed, n, open) /\ Grows(noted, closed) /\ KeepsRest(noted, closed)
        /\ Len(closed.blocks) = Len(noted.blocks)
        /\ \A j \in 1 .. Len(noted.blocks) :
             /\ closed.blocks[j].kind = noted.blocks[j].kind
             /\ closed.blocks[j].open <=> noted.blocks[j].open /\ noted.blocks[j].kind # "text"
    BY <1>8, CloseTextFits
  <2> HIDE DEF closed
  <2>2. Spares(noted, closed)
    BY <2>1, <1>5, <1>7 DEF Spares
  <2> QED BY <2>1, <2>2
<1> HIDE DEF closed
<1>10. PointsAt(closed, i, "tool_use") \/ i = Len(closed.blocks) + 1
  BY <1>5, <1>6, <1>7, <1>9 DEF PointsAt, Spares, Grows, Extends
<1>11. Fits(started, n, open) /\ Spares(closed, started) /\ PointsAt(started, i, "tool_use")
  BY <1>9, <1>10, ToolBlockFits
<1> HIDE DEF started
<1>12. Fits(grown, n, open) /\ Spares(started, grown) /\ PointsAt(grown, i, "tool_use")
  <2>1. CASE input
    <3>1. grown = BlockDelta(started, i, "tool_use", <<id>>)
      BY <2>1
    <3>2. <<id>> \in Seq(Letters) /\ "tool_use" \in Kinds /\ i \in Nat
      BY <1>6 DEF Letters, Kinds
    <3> HIDE DEF grown
    <3>3. /\ Fits(grown, n, open) /\ Grows(started, grown) /\ KeepsRest(started, grown)
          /\ grown.blocks = started.blocks
      BY <3>1, <3>2, <1>11, BlockDeltaFits
    <3>4. Spares(started, grown)
      BY <3>3, <1>11, SameBlocksSpare DEF Fits
    <3> QED BY <3>3, <3>4, <1>11 DEF PointsAt
  <2>2. CASE ~input
    <3>1. grown = started /\ started \in Context
      BY <2>2, <1>11 DEF Fits
    <3>2. Grows(started, started)
      BY <3>1, GrowsItself
    <3>3. Spares(started, started)
      BY <3>1, <3>2, SameBlocksSpare DEF KeepsRest
    <3> QED BY <3>1, <3>3, <1>11
  <2> QED BY <2>1, <2>2
<1> HIDE DEF grown
<1>13. Fits(d, n, open) /\ Spares(grown, d) /\ PointsAt(d, i, "tool_use")
  <2>1. CASE stop
    <3>1. d = StopBlock(grown, i) /\ i \in Nat
      BY <2>1, <1>6
    <3> HIDE DEF d
    <3>2. /\ Fits(d, n, open) /\ Grows(grown, d) /\ KeepsRest(grown, d)
          /\ Len(d.blocks) = Len(grown.blocks)
          /\ \A j \in 1 .. Len(grown.blocks) :
               /\ d.blocks[j].kind = grown.blocks[j].kind
               /\ d.blocks[j].open <=> grown.blocks[j].open /\ j # i
      BY <3>1, <1>12, StopBlockFits
    <3>3. Len(grown.blocks) \in Nat
      BY <1>12, LengthsTyped DEF Fits
    <3>4. \A j \in 1 .. Len(grown.blocks) : grown.blocks[j].kind = "thinking" => j # i
      BY <1>12 DEF PointsAt
    <3>5. Spares(grown, d)
      BY <3>2, <3>3, <3>4 DEF Spares
    <3>6. PointsAt(d, i, "tool_use")
      BY <3>2, <1>12 DEF PointsAt
    <3> QED BY <3>2, <3>5, <3>6
  <2>2. CASE ~stop
    <3>1. d = grown /\ grown \in Context
      BY <2>2, <1>12 DEF Fits
    <3>2. Grows(grown, grown)
      BY <3>1, GrowsItself
    <3>3. Spares(grown, grown)
      BY <3>1, <3>2, SameBlocksSpare DEF KeepsRest
    <3> QED BY <3>1, <3>3, <1>12
  <2> QED BY <2>1, <2>2
<1> HIDE DEF d
<1>14. Spares(noted, d) /\ d \in Context
  BY <1>7, <1>9, <1>11, <1>12, <1>13, SparesOn DEF Fits
<1>15. Grows(c, d)
  BY <1>2, <1>7, <1>8, <1>14, GrowsOn DEF Spares
<1>16. IndexesPoint(d)
  <2>1. IndexesPoint(flushed)
    BY <1>4 DEF Sound, Pointed
  <2>2. ASSUME NEW j, NEW kind, PointsAt(flushed, j, kind)
        PROVE  PointsAt(d, j, kind)
    <3>1. j \in 1 .. Len(noted.blocks) /\ noted.blocks[j].kind = kind
      BY <2>2, <1>7 DEF PointsAt
    <3>2. /\ Len(noted.blocks) <= Len(d.blocks) /\ d.blocks[j].kind = noted.blocks[j].kind
          /\ Len(noted.blocks) \in Nat /\ Len(d.blocks) \in Nat
      BY <3>1, <1>7, <1>14, LengthsTyped DEF Spares, Grows, Extends
    <3> QED BY <3>1, <3>2 DEF PointsAt
  <2>3. /\ d.textIndex = flushed.textIndex /\ d.thinkingIndex = flushed.thinkingIndex
        /\ d.thinking = flushed.thinking /\ d.toolIndex = [flushed.toolIndex EXCEPT ![id] = i]
    BY <1>7, <1>14 DEF Spares, KeepsRest
  <2>4. \A t \in Tools : d.toolIndex[t] # 0 => PointsAt(d, d.toolIndex[t], "tool_use")
    BY <2>1, <2>2, <2>3, <1>5, <1>13 DEF IndexesPoint
  <2>5. ASSUME NEW j \in 1 .. Len(d.blocks), d.blocks[j].kind = "thinking"
        PROVE  j = d.thinkingIndex
    <3>1. Len(d.blocks) \in Nat
      BY <1>14, LengthsTyped
    <3>2. j \in 1 .. Len(flushed.blocks)
      BY <2>5, <3>1, <1>5, <1>7, <1>14 DEF Spares
    <3>3. flushed.blocks[j].kind = "thinking"
      BY <2>5, <3>2, <1>7, <1>14 DEF Spares, Grows, Extends
    <3> QED BY <3>2, <3>3, <2>1, <2>3 DEF IndexesPoint
  <2> QED BY <2>1, <2>2, <2>3, <2>4, <2>5 DEF IndexesPoint
<1>17. ThinkingOpen(d)
  <2>1. ThinkingOpen(flushed) /\ IndexesPoint(flushed)
    BY <1>4 DEF Sound, Pointed
  <2>2. d.thinkingIndex = flushed.thinkingIndex /\ d.thinking = flushed.thinking
    BY <1>7, <1>14 DEF Spares, KeepsRest
  <2> QED BY <2>1, <2>2, <1>7, <1>14 DEF Spares, ThinkingOpen, IndexesPoint, PointsAt
<1>18. Flushed(d) /\ d.hasTool
  BY <1>4, <1>7, <1>14 DEF Spares, KeepsRest, Flushed
<1> QED BY <1>1, <1>13, <1>15, <1>16, <1>17, <1>18 DEF Sound, Pointed

\* What is held back is shown at the end; the thinking block may be stopped inside of the thinking.
LEMMA FlushAllPointed ==
  ASSUME NEW c, NEW n, NEW open, Sound(c, n, open)
  PROVE  LET d == FlushAll(c)
         IN  Pointed(d, n, open) /\ Grows(c, d) /\ d.hasTool = c.hasTool /\ d.buffer = <<>>
<1> DEFINE end == First(EndTagsAtBufferEnd(c.buffer))
<1>1. /\ c \in Context /\ c.buffer \in Seq(Units) /\ Pointed(c, n, open) /\ Grows(c, c)
      /\ <<>> \in Seq(Units)
  BY GrowsItself DEF Sound, Pointed, Fits, Context
<1>2. CASE c.buffer = <<>>
  <2>1. FlushAll(c) = c
    BY <1>2 DEF FlushAll
  <2> QED BY <2>1, <1>1, <1>2
<1>3. CASE c.buffer # <<>> /\ c.thinking # "inside"
  <2>1. FlushAll(c) = FlushText(c)
    BY <1>3 DEF FlushAll
  <2> QED BY <2>1, <1>1, FlushTextSound
<1>4. CASE c.buffer # <<>> /\ c.thinking = "inside" /\ EndTagsAtBufferEnd(c.buffer) # {}
  <2>1. end \in 1 .. Len(c.buffer) - 1
    <3>1. EndTagsAtBufferEnd(c.buffer) \subseteq RealTags(c.buffer, CloseTag)
      BY DEF EndTagsAtBufferEnd
    <3> QED BY <3>1, <1>1, <1>4, TagFound
  <2>2. FlushAll(c) = LeaveThinking(c, end, <<>>)
    BY <1>4 DEF FlushAll
  <2>3. end \in 1 .. Len(c.buffer)
    BY <2>1, <1>1, LenProperties
  <2> HIDE DEF end
  <2> DEFINE d == LeaveThinking(c, end, <<>>)
  <2>4. Sound(d, n, open) /\ Grows(c, d) /\ d.hasTool = c.hasTool /\ d.buffer = <<>>
    BY <2>3, <1>1, <1>4, LeaveThinkingSound
  <2> HIDE DEF d
  <2> QED BY <2>2, <2>4 DEF Sound, d
<1>5. CASE c.buffer # <<>> /\ c.thinking = "inside" /\ EndTagsAtBufferEnd(c.buffer) = {}
  <2> DEFINE x == EndThinking(c, c.buffer)
             d == [x EXCEPT !.buffer = <<>>]
  <2>1. FlushAll(c) = d
    BY <1>5 DEF FlushAll
  <2>2. /\ Fits(x, n, open) /\ Grows(c, x) /\ KeepsRest(c, x)
        /\ Len(x.blocks) = Len(c.blocks)
        /\ \A j \in 1 .. Len(c.blocks) :
             /\ x.blocks[j].kind = c.blocks[j].kind
             /\ x.blocks[j].open <=> c.blocks[j].open /\ j # c.thinkingIndex
    BY <1>1, <1>5, EndThinkingFits
  <2> HIDE DEF x
  <2>3. Pointed(x, n, open)
    <3>1. IndexesPoint(x)
      BY <1>1, <2>2, SameKindsPoint DEF Pointed, KeepsRest
    <3> QED BY <3>1, <2>2 DEF Pointed
  <2>4. Pointed(d, n, open) /\ Grows(x, d) /\ d.hasTool = x.hasTool /\ d.buffer = <<>>
    BY <1>1, <2>3, OtherText
  <2> HIDE DEF d
  <2>5. Grows(c, d)
    BY <1>1, <2>2, <2>3, <2>4, GrowsOn DEF Pointed, Fits
  <2> QED BY <2>1, <2>2, <2>4, <2>5 DEF KeepsRest
<1> HIDE DEF end
<1> QED BY <1>2, <1>3, <1>4, <1>5

\* The missing text comes with a stop reason of its own.
LEMMA AddMissingTextPointed ==
  ASSUME NEW c, NEW n, NEW open, Pointed(c, n, open)
  PROVE  LET d == AddMissingText(c)
             x == [c EXCEPT !.stopReason = d.stopReason]
         IN  /\ Pointed(d, n, open) /\ Extends(x, d) /\ x \in Context /\ x.events = c.events
             /\ d.hasTool = c.hasTool /\ d.tokens = c.tokens /\ d.buffered = c.buffered
             /\ d.finished = c.finished /\ d.enabled = c.enabled /\ d.buffer = c.buffer
<1>1. c \in Context
  BY DEF Pointed, Fits
<1>2. CASE c.thinkingIndex # 0 /\ \A i \in DOMAIN c.blocks : c.blocks[i].kind = "thinking"
  <2> DEFINE x == [c EXCEPT !.stopReason = "max_tokens"]
             d == TextDelta(x, <<Space>>)
  <2>1. AddMissingText(c) = d
    BY <1>2 DEF AddMissingText
  <2>2. /\ x \in Context /\ x.events = c.events /\ x.blocks = c.blocks
        /\ x.stopReason = "max_tokens" /\ x.textIndex = c.textIndex /\ x.thinking = c.thinking
        /\ x.thinkingIndex = c.thinkingIndex /\ x.toolIndex = c.toolIndex /\ x.hasTool = c.hasTool
        /\ x.enabled = c.enabled /\ x.buffered = c.buffered /\ x.finished = c.finished
        /\ x.tokens = c.tokens /\ x.buffer = c.buffer
    BY <1>1 DEF Context
  <2> HIDE DEF x
  <2>3. Pointed(x, n, open)
    <3>1. IndexesPoint(x)
      BY <2>2, SameKindsPoint DEF Pointed
    <3> QED BY <3>1, <2>2 DEF Pointed, Fits
  <2>4. <<Space>> \in Seq(Letters)
    BY DEF Letters
  <2>5. Pointed(d, n, open) /\ Shows(x, d)
    BY <2>3, <2>4, TextDeltaSound
  <2> HIDE DEF d
  <2>6. x = [c EXCEPT !.stopReason = d.stopReason]
    BY <2>2, <2>5 DEF Shows, Grows, Extends, x
  <2>7. /\ d.hasTool = c.hasTool /\ d.tokens = c.tokens /\ d.buffered = c.buffered
        /\ d.finished = c.finished /\ d.enabled = c.enabled /\ d.buffer = c.buffer /\ Extends(x, d)
    BY <2>2, <2>5 DEF Shows, Grows, Extends
  <2> QED BY <2>1, <2>2, <2>5, <2>6, <2>7
<1>3. CASE ~(c.thinkingIndex # 0 /\ \A i \in DOMAIN c.blocks : c.blocks[i].kind = "thinking")
  <2>1. AddMissingText(c) = c
    BY <1>3 DEF AddMissingText
  <2>2. [c EXCEPT !.stopReason = c.stopReason] = c
    BY <1>1 DEF Context
  <2>3. Extends(c, c)
    BY <1>1, GrowsItself DEF Grows
  <2> QED BY <2>1, <2>2, <2>3, <1>1
<1> QED BY <1>2, <1>3

\* Where there is nothing but thinking a second block follows, with a text of one space.
LEMMA AddMissingTextFills ==
  ASSUME NEW c, NEW n, NEW open, Pointed(c, n, open),
         c.thinkingIndex # 0, \A i \in DOMAIN c.blocks : c.blocks[i].kind = "thinking"
  PROVE  LET d == AddMissingText(c)
             l == Len(c.events)
         IN  /\ d.stopReason = "max_tokens" /\ d.thinkingIndex = c.thinkingIndex
             /\ Len(d.blocks) = 2 /\ d.blocks[1].kind = "thinking" /\ d.blocks[2].kind = "text"
             /\ Len(c.blocks) = 1 /\ Len(d.events) = l + 2
             /\ \A k \in 1 .. l : d.events[k] = c.events[k]
             /\ d.events[l + 1] = [type |-> "content_block_start", index |-> 2, kind |-> "text"]
             /\ d.events[l + 2] = DeltaEvent(2, "text", <<Space>>)
<1> DEFINE x == [c EXCEPT !.stopReason = "max_tokens"]
           block == [kind |-> "text", open |-> TRUE]
           start == [type |-> "content_block_start", index |-> 2, kind |-> "text"]
           delta == DeltaEvent(2, "text", <<Space>>)
           y == [NewBlock(x, "text") EXCEPT !.textIndex = Len(x.blocks) + 1]
           d == AddMissingText(c)
           l == Len(c.events)
<1>1. /\ c \in Context /\ DOMAIN c.blocks = 1 .. Len(c.blocks) /\ Len(c.blocks) \in Nat
      /\ c.events \in Seq(Event) /\ c.blocks \in Seq(Block) /\ l \in Nat /\ IndexesPoint(c)
  BY LengthsTyped DEF Pointed, Fits, Context
<1>2. Len(c.blocks) = 1 /\ c.textIndex = 0
  <2>1. c.textIndex = 0
    BY <1>1 DEF IndexesPoint, PointsAt
  <2>2. c.thinkingIndex \in 1 .. Len(c.blocks)
    BY DEF Pointed, IndexesPoint, PointsAt
  <2>3. \A i \in 1 .. Len(c.blocks) : i = c.thinkingIndex
    BY <1>1 DEF IndexesPoint
  <2>4. 1 \in 1 .. Len(c.blocks) /\ Len(c.blocks) \in 1 .. Len(c.blocks)
    BY <1>1, <2>2
  <2>5. 1 = c.thinkingIndex /\ Len(c.blocks) = c.thinkingIndex
    BY <2>3, <2>4
  <2> QED BY <2>1, <2>5
<1>3. /\ x \in Context /\ x.blocks = c.blocks /\ x.events = c.events /\ x.textIndex = 0
      /\ x.stopReason = "max_tokens" /\ x.thinkingIndex = c.thinkingIndex
  BY <1>1, <1>2 DEF Context
<1>4. d = TextDelta(x, <<Space>>)
  BY DEF AddMissingText
<1> HIDE DEF x, d
<1>5. ~IsOpen(x, x.textIndex)
  BY <1>1, <1>3 DEF IsOpen
<1>6. d = BlockDelta(y, y.textIndex, "text", <<Space>>)
  BY <1>4, <1>5 DEF TextDelta
<1>7. /\ Append(c.blocks, block) \in Seq(Block) /\ Len(Append(c.blocks, block)) = 2
      /\ Append(c.blocks, block)[1] = c.blocks[1] /\ Append(c.blocks, block)[2] = block
  <2>1. block \in Block
    BY DEF Block, Kinds
  <2> HIDE DEF block
  <2> DEFINE B == Append(c.blocks, block)
  <2>2. /\ B \in Seq(Block) /\ Len(B) = Len(c.blocks) + 1 /\ B[Len(c.blocks) + 1] = block
        /\ \A i \in 1 .. Len(c.blocks) : B[i] = c.blocks[i]
    BY <2>1, <1>1
  <2>3. Len(c.blocks) + 1 = 2 /\ 1 \in 1 .. Len(c.blocks)
    BY <1>2
  <2> HIDE DEF B
  <2> QED BY <2>2, <2>3 DEF B
<1>8. /\ start \in Event /\ delta \in Event
  <2>1. 2 \in Index /\ "text" \in Kinds /\ <<Space>> \in Seq(Letters)
    BY DEF Index, Kinds, Letters
  <2>2. start \in StartEvent /\ delta \in DeltaEvents
    BY <2>1 DEF StartEvent, DeltaEvents, DeltaEvent
  <2> QED BY <2>2 DEF Event, BlockEvent
<1> HIDE DEF delta, start, block
<1>9. y = [x EXCEPT !.blocks = Append(c.blocks, block), !.events = Append(c.events, start),
                    !.textIndex = 2]
  <2> DEFINE z == [x EXCEPT !.blocks = Append(c.blocks, block)]
  <2>0. Len(x.blocks) + 1 = 2
    <3>1. Len(x.blocks) = Len(c.blocks)
      BY <1>3, Zenon
    <3>2. Len(c.blocks) + 1 = 2
      BY <1>2
    <3> QED BY <3>1, <3>2, Zenon
  <2>1. y = [Emit(z, start) EXCEPT !.textIndex = 2]
    BY <2>0, <1>3, Zenon DEF NewBlock, block, start
  <2>2. z.events = c.events
    BY <1>3 DEF Context
  <2>3. Emit(z, start) = [z EXCEPT !.events = Append(c.events, start)]
    BY <2>2 DEF Emit
  <2> QED BY <2>1, <2>3
<1>10. Append(c.events, start) \in Seq(Event)
  BY <1>1, <1>8
<1> HIDE DEF y
<1>11. /\ y.textIndex = 2 /\ y.stopReason = "max_tokens" /\ y.thinkingIndex = c.thinkingIndex
       /\ y.blocks = Append(c.blocks, block) /\ y.events = Append(c.events, start)
       /\ y \in Context
  BY <1>3, <1>7, <1>9, <1>10 DEF Context
<1>12. IsOpen(y, 2)
  BY <1>7, <1>11 DEF IsOpen, block
<1>13. d = [y EXCEPT !.events = Append(Append(c.events, start), delta)]
  BY <1>6, <1>11, <1>12 DEF BlockDelta, Emit, delta
<1>14. /\ d.stopReason = "max_tokens" /\ d.thinkingIndex = c.thinkingIndex
       /\ d.blocks = Append(c.blocks, block)
       /\ d.events = Append(Append(c.events, start), delta)
  BY <1>11, <1>13 DEF Context
<1>15. /\ Len(d.events) = l + 2 /\ d.events[l + 1] = start /\ d.events[l + 2] = delta
       /\ \A k \in 1 .. l : d.events[k] = c.events[k]
  BY <1>1, <1>8, <1>10, <1>14
<1>16. c.blocks[1].kind = "thinking" /\ block.kind = "text"
  BY <1>1, <1>2 DEF block
<1> QED BY <1>2, <1>7, <1>14, <1>15, <1>16 DEF d, l, start, delta

\* The message ends: every block is stopped, then come message_delta and message_stop.
LEMMA EndMessageEnds ==
  ASSUME NEW c, NEW n, NEW open, Fits(c, n, open), NEW order, Lists(order, OpenBlocks(c))
  PROVE  LET d == EndMessage(c, order)
             m == Len(d.events)
         IN  /\ Fits(d, n, open) /\ KeepsRest(c, d)
             /\ d.enabled = c.enabled /\ d.buffered = c.buffered /\ d.finished = c.finished
             /\ d.tokens = c.tokens /\ d.stopReason = c.stopReason
             /\ Len(d.blocks) = Len(c.blocks)
             /\ \A j \in 1 .. Len(c.blocks) : d.blocks[j].kind = c.blocks[j].kind /\ ~d.blocks[j].open
             /\ m \in Nat /\ m >= Len(c.events) + 2
             /\ \A k \in 1 .. Len(c.events) : d.events[k] = c.events[k]
             /\ \A k \in Len(c.events) + 1 .. m - 2 :
                  d.events[k] \in BlockEvent /\ d.events[k].type = "content_block_stop"
             /\ d.events[m - 1] = [type |-> "message_delta", reason |-> StopReason(c), tokens |-> c.tokens]
             /\ d.events[m] = [type |-> "message_stop"]
<1> DEFINE x == StopBlocks(c, order)
           e == [type |-> "message_delta", reason |-> StopReason(c), tokens |-> c.tokens]
           y == Emit(x, e)
           f == [type |-> "message_stop"]
           d == Emit(y, f)
<1>1. /\ c \in Context /\ Len(c.blocks) \in Nat /\ DOMAIN c.blocks = 1 .. Len(c.blocks)
      /\ Len(c.events) \in Nat
  BY LengthsTyped DEF Fits
<1>2. EndMessage(c, order) = d
  BY DEF EndMessage
<1>3. /\ Fits(x, n, open) /\ Grows(c, x) /\ KeepsRest(c, x)
      /\ \A k \in Len(c.events) + 1 .. Len(x.events) : x.events[k].type = "content_block_stop"
      /\ Len(x.blocks) = Len(c.blocks)
      /\ \A j \in 1 .. Len(c.blocks) :
           /\ x.blocks[j].kind = c.blocks[j].kind
           /\ x.blocks[j].open <=> c.blocks[j].open /\ j \notin OpenBlocks(c)
  BY StopBlocksFits
<1> HIDE DEF x
<1>4. \A j \in 1 .. Len(c.blocks) : ~x.blocks[j].open
  BY <1>1, <1>3 DEF OpenBlocks
<1>5. e \in MessageEvent /\ f \in MessageEvent /\ e \in Event /\ f \in Event
  <2>1. StopReason(c) \in Reasons /\ c.tokens \in Counts
    BY <1>1 DEF StopReason, Context, Reasons
  <2> QED BY <2>1 DEF MessageEvent, Event
<1>6. ~Uses(e) /\ ~Uses(f)
  BY DEF Uses
<1> HIDE DEF e, f
<1>7. x \in Context /\ x.events \in Seq(Event) /\ x.blocks \in Seq(Block) /\ Len(x.events) \in Nat
  BY <1>3 DEF Fits, Context
<1>8. y \in Context /\ KeepsRest(x, y) /\ y.blocks = x.blocks /\ y.events = Append(x.events, e)
  BY <1>5, <1>7, EmitTyped
<1>9. /\ y.enabled = x.enabled /\ y.buffered = x.buffered /\ y.finished = x.finished
      /\ y.tokens = x.tokens /\ y.stopReason = x.stopReason
  BY <1>7 DEF Emit, Context
<1>10. Fits(y, n, open)
  BY <1>3, <1>5, <1>6, <1>7, <1>8, DeltaConsistent DEF Fits
<1> HIDE DEF y
<1>11. y.events \in Seq(Event) /\ y.blocks \in Seq(Block)
  BY <1>8 DEF Context
<1>12. d \in Context /\ KeepsRest(y, d) /\ d.blocks = y.blocks /\ d.events = Append(y.events, f)
  BY <1>5, <1>8, EmitTyped
<1>13. /\ d.enabled = y.enabled /\ d.buffered = y.buffered /\ d.finished = y.finished
       /\ d.tokens = y.tokens /\ d.stopReason = y.stopReason
  BY <1>8 DEF Emit, Context
<1>14. Fits(d, n, open)
  BY <1>5, <1>6, <1>10, <1>11, <1>12, DeltaConsistent DEF Fits
<1> HIDE DEF d
<1> DEFINE l == Len(x.events)
<1>15. /\ Len(d.events) = l + 2 /\ d.events[l + 1] = e /\ d.events[l + 2] = f
       /\ \A k \in 1 .. l : d.events[k] = x.events[k]
  BY <1>5, <1>7, <1>8, <1>11, <1>12
<1>16. /\ l >= Len(c.events)
       /\ \A k \in 1 .. Len(c.events) : x.events[k] = c.events[k]
       /\ \A k \in Len(c.events) + 1 .. l :
            x.events[k] \in BlockEvent /\ x.events[k].type = "content_block_stop"
  BY <1>1, <1>3, <1>7 DEF Grows, Extends
<1>17. KeepsRest(c, d)
  BY <1>3, <1>8, <1>12 DEF KeepsRest
<1>18. /\ d.enabled = c.enabled /\ d.buffered = c.buffered /\ d.finished = c.finished
       /\ d.tokens = c.tokens /\ d.stopReason = c.stopReason
  BY <1>3, <1>9, <1>13 DEF Grows, Extends
<1>19. /\ Len(d.blocks) = Len(c.blocks)
       /\ \A j \in 1 .. Len(c.blocks) : d.blocks[j].kind = c.blocks[j].kind /\ ~d.blocks[j].open
  BY <1>3, <1>4, <1>8, <1>12
<1> DEFINE m == Len(d.events)
<1>20. /\ m \in Nat /\ m >= Len(c.events) + 2 /\ m - 2 = l /\ m - 1 = l + 1
  BY <1>1, <1>7, <1>15, <1>16
<1>21. /\ \A k \in 1 .. Len(c.events) : d.events[k] = c.events[k]
       /\ \A k \in Len(c.events) + 1 .. m - 2 :
            d.events[k] \in BlockEvent /\ d.events[k].type = "content_block_stop"
  <2> HIDE DEF l, m
  <2>1. l \in Nat
    BY <1>7 DEF l
  <2>2. \A k \in 1 .. l : d.events[k] = x.events[k]
    BY <1>15
  <2>3. \A k \in 1 .. Len(c.events) : k \in 1 .. l
    BY <2>1, <1>1, <1>16
  <2>4. \A k \in Len(c.events) + 1 .. m - 2 : k \in 1 .. l /\ k \in Len(c.events) + 1 .. l
    BY <2>1, <1>1, <1>20
  <2> QED BY <2>2, <2>3, <2>4, <1>16
<1>22. d.events[m - 1] = e /\ d.events[m] = f
  BY <1>15, <1>20
<1> HIDE DEF l, m
<1> QED BY <1>2, <1>14, <1>17, <1>18, <1>19, <1>20, <1>21, <1>22 DEF e, f, m

-----------------------------------------------------------------------------
(* The invariant.                                                           *)

Client ==
  [phase : {"new", "streaming", "closing", "ended"}, kinds : Seq(Kinds), open : SUBSET Nat,
   last : [type : {"none", "message_start", "content_block_start", "content_block_delta",
                   "content_block_stop", "message_delta", "message_stop"}, index : Nat],
   thinking : Seq(Letters), text : Seq(Letters), order : Seq(Letters),
   input : Counts \cup {"none"}, reason : Reasons \cup {"none"}, total : Counts \cup {"none"}]

Typed ==
  /\ upstream \in [rest : Seq(Units), events : Nat, calls : SUBSET Tools]
  /\ notes \in Seq({"usage", "full", "length"})
  /\ client \in Client

\* The context fits the events and the client.  At the end every block is closed.
ContextFits ==
  /\ Pointed(ctx, Len(client.kinds), client.open) /\ Flushed(ctx)
  /\ ~ctx.finished => ThinkingOpen(ctx)
  /\ ctx.finished => \A i \in 1 .. Len(ctx.blocks) : ~ctx.blocks[i].open

\* message_start is the first event to be sent until it is sent, message_delta and
\* message_stop are the last two once the answer is finished, and nothing else is of the message.
Begun == client.phase \in {"new", "streaming"}
MessageInTurn ==
  LET m == Len(ctx.events)
  IN /\ \A k \in 1 .. m :
          /\ ctx.events[k].type = "message_start" <=> k = 1 /\ client.phase = "new"
          /\ ctx.events[k].type = "message_delta" <=> k = m - 1 /\ ctx.finished /\ Begun
          /\ ctx.events[k].type = "message_stop" <=> k = m /\ ctx.finished
     /\ client.phase = "new" => m >= 1 /\ client.kinds = <<>>
     /\ ctx.finished /\ Begun => m >= 2
     /\ client.phase = "closing" => ctx.finished /\ m = 1
     /\ client.phase = "ended" => ctx.finished /\ m = 0

\* The count is the measured one from the note that brought it, and the finished answer
\* says the same at its end, and at its beginning when it was buffered.
Measured == ToSet(notes) \cap {"usage", "full"} # {}
Counted ==
  /\ ctx.tokens = IF Measured THEN "measured" ELSE "estimated"
  /\ \A k \in 1 .. Len(ctx.events) :
       ctx.events[k].type = "message_delta" => ctx.events[k].tokens = ctx.tokens
  /\ ~Begun => client.total = ctx.tokens
  /\ ctx.buffered =>
       /\ ~ctx.finished => client.phase = "new"
       /\ ctx.finished =>
            /\ \A k \in 1 .. Len(ctx.events) :
                 ctx.events[k].type = "message_start" => ctx.events[k].tokens = ctx.tokens
            /\ client.phase # "new" => client.input = ctx.tokens

IInv == Typed /\ ContextFits /\ MessageInTurn /\ Counted

\* A block event is not one of the message.
LEMMA BlockEventTypes ==
  ASSUME NEW e \in BlockEvent
  PROVE  e.type \notin {"message_start", "message_delta", "message_stop"}
BY DEF BlockEvent, StartEvent, DeltaEvents, StopEvent

-----------------------------------------------------------------------------
(* The first context.                                                       *)

LEMMA NewContextTyped ==
  ASSUME NEW enabled \in BOOLEAN, NEW buffered \in BOOLEAN
  PROVE  LET c == NewContext(enabled, buffered)
         IN  /\ c \in Context /\ c.blocks = <<>> /\ c.events = <<>> /\ c.thinking = "before"
             /\ c.thinkingIndex = 0 /\ c.textIndex = 0 /\ c.toolIndex = [t \in Tools |-> 0]
             /\ c.tokens = "estimated" /\ ~c.finished /\ c.buffered = buffered
             /\ c.stopReason = "none"
<1>1. "before" \in {"before", "inside", "done"} /\ "estimated" \in Counts
  BY DEF Counts
<1>2. [t \in Tools |-> 0] \in [Tools -> Nat]
  OBVIOUS
<1>3. <<>> \in Seq(Units) /\ <<>> \in Seq(Block) /\ <<>> \in Seq(Event)
  OBVIOUS
<1> QED BY <1>1, <1>2, <1>3 DEF NewContext, Context

LEMMA NothingYetConsistent == Consistent(<<>>, <<>>, 0, {})
BY DEF Consistent, InOrder, AllStarted, OpenOnesUsed, SameOpen

LEMMA InitialEventsSound ==
  ASSUME NEW enabled \in BOOLEAN, NEW buffered \in BOOLEAN
  PROVE  LET d == InitialEvents(NewContext(enabled, buffered))
         IN  /\ Sound(d, 0, {}) /\ d.thinking = "before" /\ ~d.finished
             /\ d.tokens = "estimated" /\ d.buffered = buffered /\ d.stopReason = "none"
             /\ Len(d.events) >= 1 /\ d.events[1].type = "message_start"
             /\ \A k \in 2 .. Len(d.events) : d.events[k] \in BlockEvent /\ Tells(d, d.events[k])
<1> DEFINE c == NewContext(enabled, buffered)
           e == [type |-> "message_start", tokens |-> c.tokens]
           x == Emit(c, e)
           y == NewBlock(x, "text")
           d == [y EXCEPT !.textIndex = 1]
<1>1. /\ c \in Context /\ c.blocks = <<>> /\ c.events = <<>> /\ c.thinking = "before"
      /\ c.thinkingIndex = 0 /\ c.textIndex = 0 /\ c.toolIndex = [t \in Tools |-> 0]
      /\ c.tokens = "estimated" /\ ~c.finished /\ c.buffered = buffered
      /\ c.stopReason = "none"
  BY NewContextTyped
<1>2. InitialEvents(c) = IF c.enabled THEN x ELSE d
  BY DEF InitialEvents
<1> HIDE DEF c
<1>3. e \in MessageEvent /\ e \in Event /\ e.type = "message_start" /\ ~Uses(e)
  BY <1>1 DEF MessageEvent, Event, Counts, Uses
<1> HIDE DEF e
<1>4. x \in Context /\ KeepsRest(c, x) /\ x.blocks = c.blocks /\ x.events = Append(c.events, e)
  BY <1>1, <1>3, EmitTyped
<1>5. x.tokens = "estimated" /\ ~x.finished /\ x.buffered = buffered /\ x.stopReason = "none"
  BY <1>1 DEF Emit, Context
<1> HIDE DEF x
<1>6. Len(x.events) = 1 /\ x.events[1] = e
  BY <1>1, <1>3, <1>4
<1>7. Fits(x, 0, {})
  <2>1. Consistent(c.events, c.blocks, 0, {}) /\ c.events \in Seq(Event) /\ c.blocks \in Seq(Block)
    BY <1>1, NothingYetConsistent DEF Context
  <2> QED BY <2>1, <1>3, <1>4, DeltaConsistent DEF Fits
<1>8. /\ x.textIndex = 0 /\ x.toolIndex = [t \in Tools |-> 0] /\ x.thinking = "before"
      /\ x.thinkingIndex = 0 /\ x.blocks = <<>> /\ Len(x.blocks) = 0
  BY <1>1, <1>4 DEF KeepsRest
<1>9. CASE c.enabled
  <2>1. Sound(x, 0, {})
    BY <1>7, <1>8 DEF Sound, Pointed, IndexesPoint, ThinkingOpen
  <2> QED BY <1>2, <1>3, <1>5, <1>6, <1>8, <1>9, <2>1 DEF c
<1>10. CASE ~c.enabled
  <2>1. "text" \in Kinds
    BY DEF Kinds
  <2>2. /\ Fits(y, 0, {}) /\ Grows(x, y) /\ KeepsRest(x, y) /\ Len(y.blocks) = 1
        /\ y.blocks[1] = [kind |-> "text", open |-> TRUE]
    <3> HIDE DEF y
    <3>1. /\ Fits(y, 0, {}) /\ Grows(x, y) /\ KeepsRest(x, y)
          /\ Len(y.blocks) = Len(x.blocks) + 1
          /\ y.blocks[Len(x.blocks) + 1] = [kind |-> "text", open |-> TRUE]
      BY <2>1, <1>7, NewBlockFits DEF y
    <3> QED BY <3>1, <1>8
  <2> HIDE DEF y
  <2>3. /\ d \in Context /\ d.events = y.events /\ d.blocks = y.blocks /\ d.textIndex = 1
        /\ d.thinking = y.thinking /\ d.thinkingIndex = y.thinkingIndex /\ d.toolIndex = y.toolIndex
        /\ d.finished = y.finished /\ d.tokens = y.tokens /\ d.buffered = y.buffered
        /\ d.stopReason = y.stopReason
    BY <2>2 DEF Fits, Context
  <2> HIDE DEF d
  <2>4. Fits(d, 0, {})
    BY <2>2, <2>3 DEF Fits
  <2>5. IndexesPoint(d)
    BY <1>8, <2>2, <2>3 DEF IndexesPoint, PointsAt, KeepsRest
  <2>6. ThinkingOpen(d) /\ d.thinking = "before"
    BY <1>8, <2>2, <2>3 DEF ThinkingOpen, KeepsRest
  <2>7. /\ Len(d.events) >= 1 /\ d.events[1].type = "message_start"
        /\ \A k \in 2 .. Len(d.events) : d.events[k] \in BlockEvent
    BY <1>3, <1>6, <2>2, <2>3 DEF Grows, Extends
  <2>9. \A k \in 2 .. Len(d.events) : Tells(d, d.events[k])
    BY <1>6, <2>2, <2>3 DEF Grows, Tells, PointsAt
  <2>8. ~d.finished /\ d.tokens = "estimated" /\ d.buffered = buffered /\ d.stopReason = "none"
    BY <1>5, <2>2, <2>3 DEF Grows, Extends
  <2> QED BY <1>2, <1>10, <2>4, <2>5, <2>6, <2>7, <2>8, <2>9 DEF Sound, Pointed, c
<1> QED BY <1>9, <1>10

LEMMA InitHolds == Init => IInv
<1> SUFFICES ASSUME Init
             PROVE  IInv
  OBVIOUS
<1>1. PICK b \in Bounds, enabled \in BOOLEAN : \E text \in b.texts :
        /\ upstream = [rest |-> text, events |-> b.events, calls |-> Tools]
        /\ ctx = InitialEvents(NewContext(enabled, b.buffered))
  BY DEF Init
<1>2. PICK text \in b.texts :
        /\ upstream = [rest |-> text, events |-> b.events, calls |-> Tools]
        /\ ctx = InitialEvents(NewContext(enabled, b.buffered))
  BY <1>1
<1>3. text \in Seq(Units) /\ b.events \in Nat /\ b.buffered \in BOOLEAN
  BY StreamConstants
<1>4. /\ Sound(ctx, 0, {}) /\ ctx.thinking = "before" /\ ~ctx.finished
      /\ ctx.tokens = "estimated"
      /\ Len(ctx.events) >= 1 /\ ctx.events[1].type = "message_start"
      /\ \A k \in 2 .. Len(ctx.events) : ctx.events[k] \in BlockEvent
  BY <1>2, <1>3, InitialEventsSound
<1>5. /\ client.phase = "new" /\ client.kinds = <<>> /\ client.open = {} /\ Len(client.kinds) = 0
      /\ client \in Client
  <2>1. client = NewClient
    BY DEF Init
  <2>2. <<>> \in Seq(Kinds) /\ <<>> \in Seq(Letters)
    OBVIOUS
  <2> QED BY <2>1, <2>2 DEF NewClient, Client
<1>6. notes = <<>>
  BY DEF Init
<1>7. Typed
  BY <1>2, <1>3, <1>5, <1>6 DEF Typed
<1>8. ContextFits
  BY <1>4, <1>5 DEF ContextFits, Sound, Flushed
<1>9. \A k \in 2 .. Len(ctx.events) :
        ctx.events[k].type \notin {"message_start", "message_delta", "message_stop"}
  BY <1>4, BlockEventTypes
<1>10. Len(ctx.events) \in Nat
  BY <1>4, LengthsTyped DEF Sound, Pointed, Fits
<1>11. MessageInTurn
  BY <1>4, <1>5, <1>9, <1>10 DEF MessageInTurn
<1>12. ~Measured
  BY <1>6 DEF Measured, ToSet
<1>13. Counted
  BY <1>4, <1>5, <1>9, <1>10, <1>12 DEF Counted, Begun
<1> QED BY <1>7, <1>8, <1>11, <1>13 DEF IInv

-----------------------------------------------------------------------------
(* The steps.                                                               *)

\* An event of the upstream only adds events about blocks.
LEMMA ProducedKeeps ==
  ASSUME IInv, Ready, client' = client,
         upstream' \in [rest : Seq(Units), events : Nat, calls : SUBSET Tools],
         notes' \in Seq({"usage", "full", "length"}),
         Sound(ctx', Len(client.kinds), client.open), Flushed(ctx'),
         NEW x \in Context, Grows(x, ctx'), x.events = ctx.events, ~x.finished,
         x.buffered = ctx.buffered, x.tokens = (IF Measured' THEN "measured" ELSE "estimated")
  PROVE  IInv'
<1>1. ~ctx.finished /\ (ctx.buffered => ctx.finished \/ client.phase = "new")
  BY DEF Ready, IInv, Counted
<1>2. ~ctx'.finished /\ ctx'.tokens = x.tokens /\ ctx'.buffered = ctx.buffered
  BY DEF Grows, Extends
<1> DEFINE m == Len(ctx.events)
           l == Len(ctx'.events)
<1>3. m \in Nat /\ l \in Nat /\ m <= l
  BY LengthsTyped DEF Grows, Extends, Sound, Pointed, Fits
<1>4. /\ \A k \in 1 .. m : ctx'.events[k] = ctx.events[k]
      /\ \A k \in m + 1 .. l :
           ctx'.events[k].type \notin {"message_start", "message_delta", "message_stop"}
  BY BlockEventTypes DEF Grows, Extends
<1>5. \A k \in 1 .. l : k \in 1 .. m \/ k \in m + 1 .. l
  BY <1>3
<1>6. client.phase # "new" => \A k \in 1 .. m : ctx.events[k].type # "message_start"
  BY DEF IInv, MessageInTurn
<1>7. \A k \in 1 .. m : ctx.events[k].type # "message_delta" /\ ctx.events[k].type # "message_stop"
  BY <1>1 DEF IInv, MessageInTurn
<1>8. Begun
  BY <1>1 DEF IInv, MessageInTurn, Begun, Typed, Client
<1>9. Typed'
  BY DEF IInv, Typed
<1>10. ContextFits'
  BY <1>2 DEF ContextFits, Sound
<1>11. MessageInTurn'
  <2>1. ASSUME NEW k \in 1 .. l
        PROVE  /\ ctx'.events[k].type = "message_start" <=> k = 1 /\ client.phase = "new"
               /\ ctx'.events[k].type # "message_delta"
               /\ ctx'.events[k].type # "message_stop"
    <3>1. CASE k \in 1 .. m
      BY <3>1, <1>4, <1>7 DEF IInv, MessageInTurn
    <3>2. CASE k \in m + 1 .. l
      <4>1. client.phase = "new" => k # 1
        BY <3>2, <1>3 DEF IInv, MessageInTurn
      <4> QED BY <4>1, <3>2, <1>4
    <3> QED BY <3>1, <3>2, <1>5
  <2>2. client.phase = "new" => l >= 1 /\ client.kinds = <<>>
    BY <1>3 DEF IInv, MessageInTurn
  <2>3. client.phase # "closing" /\ client.phase # "ended"
    BY <1>8 DEF Begun
  <2> HIDE DEF l
  <2> QED BY <2>1, <2>2, <2>3, <1>2 DEF MessageInTurn, l
<1>12. Counted'
  <2>1. \A k \in 1 .. l : ctx'.events[k].type # "message_delta"
    BY <1>4, <1>5, <1>7
  <2>2. ctx.buffered => client.phase = "new"
    BY <1>1
  <2> QED BY <2>1, <2>2, <1>2, <1>8 DEF Counted, Begun
<1> QED BY <1>9, <1>10, <1>11, <1>12 DEF IInv

\* What a handler finds when it is called.
LEMMA ReadyContext ==
  ASSUME IInv, Ready
  PROVE  /\ Sound(ctx, Len(client.kinds), client.open) /\ Flushed(ctx)
         /\ ctx \in Context /\ ~ctx.finished
         /\ ctx.tokens = (IF Measured THEN "measured" ELSE "estimated")
         /\ upstream \in [rest : Seq(Units), events : Nat, calls : SUBSET Tools]
         /\ notes \in Seq({"usage", "full", "length"})
BY DEF IInv, ContextFits, Ready, Sound, Pointed, Fits, Counted, Typed

LEMMA ReceiveTextKeeps ==
  ASSUME IInv, ReceiveText
  PROVE  IInv'
<1>1. Ready /\ client' = client /\ notes' = notes
  BY DEF ReceiveText
<1>2. PICK n \in DOMAIN upstream.rest :
        /\ ctx' = ProcessAssistantResponse(ctx, SubSeq(upstream.rest, 1, n))
        /\ upstream' = [upstream EXCEPT !.rest = From(@, n + 1)]
  BY DEF ReceiveText
<1>3. /\ Sound(ctx, Len(client.kinds), client.open) /\ Flushed(ctx)
      /\ ctx \in Context /\ ~ctx.finished
      /\ ctx.tokens = (IF Measured THEN "measured" ELSE "estimated")
      /\ upstream \in [rest : Seq(Units), events : Nat, calls : SUBSET Tools]
      /\ notes \in Seq({"usage", "full", "length"})
  BY <1>1, ReadyContext
<1>4. /\ upstream.rest \in Seq(Units) /\ n \in 1 .. Len(upstream.rest)
      /\ Len(upstream.rest) \in Nat
  BY <1>2, <1>3
<1>5. SubSeq(upstream.rest, 1, n) \in Seq(Units) /\ From(upstream.rest, n + 1) \in Seq(Units)
  <2>1. 1 \in Int /\ 1 <= 1 /\ n \in Int /\ n + 1 \in Int /\ 1 <= n + 1
        /\ n <= Len(upstream.rest)
    BY <1>4
  <2>2. SubSeq(upstream.rest, 1, n) \in Seq(Units)
    BY <2>1, <1>4, PieceTyped
  <2>3. From(upstream.rest, n + 1) \in Seq(Units)
    BY <2>1, <1>4, FromTyped
  <2> QED BY <2>2, <2>3
<1>6. /\ Sound(ctx', Len(client.kinds), client.open) /\ Grows(ctx, ctx') /\ Flushed(ctx')
  BY <1>2, <1>3, <1>5, ProcessAssistantResponseSound
<1>7. upstream' \in [rest : Seq(Units), events : Nat, calls : SUBSET Tools]
  BY <1>2, <1>3, <1>5
<1>8. Measured' <=> Measured
  BY <1>1 DEF Measured
<1> QED BY <1>1, <1>3, <1>6, <1>7, <1>8, ProducedKeeps

LEMMA ReceiveToolUseKeeps ==
  ASSUME IInv, NEW id \in Tools, NEW input \in BOOLEAN, NEW stop \in BOOLEAN,
         ReceiveToolUse(id, input, stop)
  PROVE  IInv'
<1>1. /\ Ready /\ client' = client /\ notes' = notes /\ upstream.events > 0
      /\ ctx' = ProcessToolUse(ctx, id, input, stop)
      /\ upstream' = [upstream EXCEPT !.events = @ - 1, !.calls = IF stop THEN @ \ {id} ELSE @]
  BY DEF ReceiveToolUse
<1>2. /\ Sound(ctx, Len(client.kinds), client.open) /\ Flushed(ctx)
      /\ ctx \in Context /\ ~ctx.finished
      /\ ctx.tokens = (IF Measured THEN "measured" ELSE "estimated")
      /\ upstream \in [rest : Seq(Units), events : Nat, calls : SUBSET Tools]
      /\ notes \in Seq({"usage", "full", "length"})
  BY <1>1, ReadyContext
<1>3. /\ Sound(ctx', Len(client.kinds), client.open) /\ Grows(ctx, ctx') /\ Flushed(ctx')
  BY <1>1, <1>2, ProcessToolUseSound
<1>4. upstream' \in [rest : Seq(Units), events : Nat, calls : SUBSET Tools]
  <2>1. /\ upstream.events - 1 \in Nat
        /\ (IF stop THEN upstream.calls \ {id} ELSE upstream.calls) \in SUBSET Tools
    BY <1>1, <1>2
  <2> QED BY <2>1, <1>1, <1>2
<1>5. Measured' <=> Measured
  BY <1>1 DEF Measured
<1> QED BY <1>1, <1>2, <1>3, <1>4, <1>5, ProducedKeeps

LEMMA ReceiveNoteKeeps ==
  ASSUME IInv, NEW note \in {"usage", "full", "length"}, ReceiveNote(note)
  PROVE  IInv'
<1> DEFINE reason == CASE note = "full" -> "model_context_window_exceeded"
                       [] note = "length" -> "max_tokens"
                       [] OTHER -> ctx.stopReason
           tokens == IF note = "length" THEN ctx.tokens ELSE "measured"
<1>1. /\ Ready /\ client' = client /\ upstream.events > 0
      /\ ctx' = [ctx EXCEPT !.tokens = tokens, !.stopReason = reason]
      /\ upstream' = [upstream EXCEPT !.events = @ - 1]
      /\ notes' = Append(notes, note)
  BY DEF ReceiveNote
<1>2. /\ Sound(ctx, Len(client.kinds), client.open) /\ Flushed(ctx)
      /\ ctx \in Context /\ ~ctx.finished
      /\ ctx.tokens = (IF Measured THEN "measured" ELSE "estimated")
      /\ upstream \in [rest : Seq(Units), events : Nat, calls : SUBSET Tools]
      /\ notes \in Seq({"usage", "full", "length"})
  BY <1>1, ReadyContext
<1>3. /\ reason \in {"none", "max_tokens", "model_context_window_exceeded"} /\ tokens \in Counts
  BY <1>2 DEF Context, Counts
<1> HIDE DEF reason
<1>4. /\ ctx' \in Context /\ ctx'.tokens = tokens /\ ctx'.events = ctx.events
      /\ ctx'.blocks = ctx.blocks /\ ctx'.finished = ctx.finished /\ ctx'.buffered = ctx.buffered
      /\ ctx'.buffer = ctx.buffer /\ ctx'.thinking = ctx.thinking
      /\ ctx'.thinkingIndex = ctx.thinkingIndex /\ ctx'.textIndex = ctx.textIndex
      /\ ctx'.toolIndex = ctx.toolIndex
  <2> HIDE DEF tokens
  <2> QED BY <1>1, <1>2, <1>3 DEF Context
<1>5. Grows(ctx', ctx')
  BY <1>4, GrowsItself
<1>6. Sound(ctx', Len(client.kinds), client.open) /\ Flushed(ctx')
  <2>1. IndexesPoint(ctx')
    BY <1>2, <1>4, SameKindsPoint DEF Sound, Pointed
  <2>2. Fits(ctx', Len(client.kinds), client.open)
    BY <1>2, <1>4 DEF Sound, Pointed, Fits
  <2> QED BY <2>1, <2>2, <1>2, <1>4 DEF Sound, Pointed, ThinkingOpen, Flushed
<1>7. upstream' \in [rest : Seq(Units), events : Nat, calls : SUBSET Tools]
  <2>1. upstream.events - 1 \in Nat
    BY <1>1, <1>2
  <2> QED BY <2>1, <1>1, <1>2
<1>8. notes' \in Seq({"usage", "full", "length"})
  BY <1>1, <1>2
<1>9. Measured' <=> Measured \/ note # "length"
  <2>1. ToSet(notes') = ToSet(notes) \cup {note}
    <3>1. /\ Len(notes) \in Nat /\ DOMAIN notes = 1 .. Len(notes) /\ DOMAIN notes' = 1 .. Len(notes) + 1
          /\ \A i \in 1 .. Len(notes) : notes'[i] = notes[i]
          /\ notes'[Len(notes) + 1] = note
      BY <1>1, <1>2
    <3> QED BY <3>1 DEF ToSet
  <2> QED BY <2>1 DEF Measured
<1>10. ctx'.tokens = (IF Measured' THEN "measured" ELSE "estimated")
  BY <1>2, <1>4, <1>9
<1> QED BY <1>1, <1>2, <1>4, <1>5, <1>6, <1>7, <1>8, <1>10, ProducedKeeps

\* The token count of message_start is no part of the order of events.
LEMMA RelabelConsistent ==
  ASSUME NEW E, NEW F, NEW B, NEW n, NEW open, Consistent(E, B, n, open),
         Len(E) \in Nat, Len(F) = Len(E),
         \A k \in 1 .. Len(E) : \/ F[k] = E[k]
                                \/ E[k].type = "message_start" /\ F[k].type = "message_start"
  PROVE  Consistent(F, B, n, open)
<1> DEFINE m == Len(E)
<1>1. \A k \in 1 .. m : /\ F[k].type = E[k].type
                        /\ E[k].type # "message_start" => F[k].index = E[k].index
  OBVIOUS
<1>2. \A k \in 1 .. m : /\ \A i : Starts(F[k], i) <=> Starts(E[k], i)
                        /\ \A i : Stops(F[k], i) <=> Stops(E[k], i)
                        /\ Uses(F[k]) <=> Uses(E[k])
                        /\ Uses(E[k]) => F[k].index = E[k].index
                        /\ E[k].type = "content_block_start" => F[k].index = E[k].index
  BY <1>1 DEF Starts, Stops, Uses
<1>3. Len(F) = m /\ m \in Nat
  OBVIOUS
<1> HIDE DEF m
<1>4. ASSUME NEW i, NEW k \in 1 .. m + 1
      PROVE  OpenBefore(F, open, i, k) <=> OpenBefore(E, open, i, k)
  <2>1. \A j \in 1 .. k - 1 : j \in 1 .. m
    BY <1>3
  <2> QED BY <2>1, <1>2 DEF OpenBefore
<1>5. InOrder(F, B, n)
  <2> SUFFICES ASSUME NEW k \in 1 .. m, F[k].type = "content_block_start"
               PROVE  /\ F[k].index \in n + 1 .. Len(B)
                      /\ \A j \in 1 .. k - 1 : F[j].type = "content_block_start" => F[j].index < F[k].index
    BY <1>3 DEF InOrder
  <2>1. E[k].type = "content_block_start" /\ F[k].index = E[k].index
    BY <1>1, <1>2 DEF m
  <2>2. \A j \in 1 .. k - 1 : j \in 1 .. m
    BY <1>3
  <2>3. \A j \in 1 .. k - 1 : F[j].type = "content_block_start" =>
          E[j].type = "content_block_start" /\ F[j].index = E[j].index
    BY <2>2, <1>1, <1>2 DEF m
  <2> QED BY <2>1, <2>3 DEF Consistent, InOrder, m
<1>6. AllStarted(F, B, n)
  BY <1>2, <1>3 DEF Consistent, AllStarted, m
<1>7. OpenOnesUsed(F, open)
  <2> SUFFICES ASSUME NEW k \in 1 .. m, Uses(F[k])
               PROVE  OpenBefore(F, open, F[k].index, k)
    BY <1>3 DEF OpenOnesUsed
  <2>1. Uses(E[k]) /\ F[k].index = E[k].index
    BY <1>2
  <2>2. OpenBefore(E, open, E[k].index, k)
    BY <2>1 DEF Consistent, OpenOnesUsed, m
  <2>3. k \in 1 .. m + 1
    BY <1>3
  <2> QED BY <2>1, <2>2, <2>3, <1>4
<1>8. SameOpen(F, B, open)
  <2>1. m + 1 \in 1 .. m + 1
    BY <1>3
  <2>2. \A i : OpenBefore(F, open, i, m + 1) <=> OpenBefore(E, open, i, m + 1)
    BY <2>1, <1>4
  <2> QED BY <2>2, <1>3 DEF Consistent, SameOpen, m
<1> QED BY <1>5, <1>6, <1>7, <1>8 DEF Consistent

\* Only message_start is given the last count.
LEMMA CorrectedTyped ==
  ASSUME NEW E \in Seq(Event), NEW t \in Counts
  PROVE  LET F == Corrected(E, t)
         IN  /\ F \in Seq(Event) /\ Len(F) = Len(E)
             /\ \A k \in 1 .. Len(E) :
                  /\ F[k].type = E[k].type
                  /\ E[k].type # "message_start" => F[k] = E[k]
                  /\ E[k].type = "message_start" => F[k].tokens = t
<1> DEFINE m == Len(E)
           F == Corrected(E, t)
           G(k) == IF E[k].type = "message_start" THEN [E[k] EXCEPT !.tokens = t] ELSE E[k]
<1>1. m \in Nat /\ DOMAIN E = 1 .. m /\ \A k \in 1 .. m : E[k] \in Event
  OBVIOUS
<1>2. F = [k \in 1 .. m |-> G(k)]
  BY <1>1 DEF Corrected
<1>3. ASSUME NEW k \in 1 .. m
      PROVE  /\ G(k) \in Event /\ G(k).type = E[k].type
             /\ E[k].type # "message_start" => G(k) = E[k]
             /\ E[k].type = "message_start" => G(k).tokens = t
  <2>1. CASE E[k].type = "message_start"
    <3>1. E[k] \in [type : {"message_start"}, tokens : Counts]
      BY <1>1, <2>1 DEF Event, BlockEvent, MessageEvent, StartEvent, DeltaEvents, StopEvent
    <3>2. /\ [E[k] EXCEPT !.tokens = t] \in [type : {"message_start"}, tokens : Counts]
          /\ [E[k] EXCEPT !.tokens = t].tokens = t
          /\ [E[k] EXCEPT !.tokens = t].type = "message_start"
      BY <3>1
    <3>3. G(k) = [E[k] EXCEPT !.tokens = t]
      BY <2>1
    <3> HIDE DEF G
    <3> QED BY <2>1, <3>2, <3>3 DEF Event, MessageEvent
  <2>2. CASE E[k].type # "message_start"
    BY <2>2, <1>1
  <2> QED BY <2>1, <2>2
<1> HIDE DEF G, F, m
<1>4. F \in Seq(Event) /\ Len(F) = m /\ \A k \in 1 .. m : F[k] = G(k)
  BY <1>1, <1>2, <1>3
<1> QED BY <1>3, <1>4 DEF F, m

\* The events the answer ends with, before the count of the first one is corrected.
LEMMA FinishEvents ==
  ASSUME NEW c, NEW n, NEW open, Sound(c, n, open), Flushed(c),
         NEW order \in SetToSeqs(OpenBlocks(AddMissingText(FlushAll(c))))
  PROVE  LET d == EndMessage(AddMissingText(FlushAll(c)), order)
             m == Len(d.events)
         IN  /\ Pointed(d, n, open) /\ d.buffer = <<>>
             /\ d.buffered = c.buffered /\ d.tokens = c.tokens
             /\ \A j \in 1 .. Len(d.blocks) : ~d.blocks[j].open
             /\ m \in Nat /\ m >= Len(c.events) + 2
             /\ \A k \in 1 .. Len(c.events) : d.events[k] = c.events[k]
             /\ \A k \in Len(c.events) + 1 .. m - 2 : d.events[k] \in BlockEvent
             /\ d.events[m - 1].type = "message_delta" /\ d.events[m - 1].tokens = c.tokens
             /\ d.events[m].type = "message_stop"
<1> DEFINE f == FlushAll(c)
           g == AddMissingText(f)
           x == [f EXCEPT !.stopReason = g.stopReason]
           d == EndMessage(g, order)
           m == Len(d.events)
<1>1. Pointed(f, n, open) /\ Grows(c, f) /\ f.buffer = <<>>
  BY FlushAllPointed
<1> HIDE DEF f
<1>2. /\ Pointed(g, n, open) /\ Extends(x, g) /\ x \in Context /\ x.events = f.events
      /\ g.tokens = f.tokens /\ g.buffered = f.buffered /\ g.buffer = f.buffer
  BY <1>1, AddMissingTextPointed
<1>3. order \in SetToSeqs(OpenBlocks(g))
  BY DEF f
<1> HIDE DEF g
<1>4. Lists(order, OpenBlocks(g))
  <2>1. g \in Context
    BY <1>2 DEF Pointed, Fits
  <2>2. IsFiniteSet(OpenBlocks(g))
    BY <2>1, OpenBlocksFinite
  <2> QED BY <2>2, <1>3, SetToSeqsList
<1> HIDE DEF x
<1>5. /\ Fits(d, n, open) /\ KeepsRest(g, d)
      /\ d.buffered = g.buffered /\ d.tokens = g.tokens
      /\ Len(d.blocks) = Len(g.blocks)
      /\ \A j \in 1 .. Len(g.blocks) : d.blocks[j].kind = g.blocks[j].kind /\ ~d.blocks[j].open
      /\ m \in Nat /\ m >= Len(g.events) + 2
      /\ \A k \in 1 .. Len(g.events) : d.events[k] = g.events[k]
      /\ \A k \in Len(g.events) + 1 .. m - 2 : d.events[k] \in BlockEvent
      /\ d.events[m - 1] = [type |-> "message_delta", reason |-> StopReason(g), tokens |-> g.tokens]
      /\ d.events[m] = [type |-> "message_stop"]
  <2>1. Fits(g, n, open)
    BY <1>2 DEF Pointed
  <2> HIDE DEF m, d
  <2> QED BY <2>1, <1>4, EndMessageEnds DEF m, d
<1> HIDE DEF d, m
<1>6. Pointed(d, n, open)
  <2>1. IndexesPoint(d)
    BY <1>2, <1>5, SameKindsPoint DEF Pointed, KeepsRest
  <2> QED BY <2>1, <1>5 DEF Pointed
<1>7. /\ Len(c.events) \in Nat /\ Len(f.events) \in Nat /\ Len(g.events) \in Nat
      /\ Len(c.events) <= Len(f.events) /\ Len(f.events) <= Len(g.events)
  <2>1. c \in Context /\ f \in Context /\ g \in Context
    BY <1>1, <1>2 DEF Sound, Pointed, Fits
  <2> QED BY <2>1, <1>1, <1>2, LengthsTyped DEF Grows, Extends
<1>8. ASSUME NEW k \in 1 .. Len(c.events)
      PROVE  d.events[k] = c.events[k]
  <2>1. f.events[k] = c.events[k] /\ k \in 1 .. Len(f.events)
    BY <1>1, <1>7 DEF Grows, Extends
  <2>2. g.events[k] = f.events[k] /\ k \in 1 .. Len(g.events)
    BY <2>1, <1>2, <1>7 DEF Grows, Extends
  <2> QED BY <2>1, <2>2, <1>5
<1>9. ASSUME NEW k \in Len(c.events) + 1 .. m - 2
      PROVE  d.events[k] \in BlockEvent
  <2>1. CASE k \in 1 .. Len(f.events)
    <3>1. f.events[k] \in BlockEvent
      BY <2>1, <1>1, <1>7 DEF Grows, Extends
    <3>2. g.events[k] = f.events[k] /\ k \in 1 .. Len(g.events)
      BY <2>1, <1>2, <1>7 DEF Grows, Extends
    <3> QED BY <3>1, <3>2, <1>5
  <2>2. CASE k \notin 1 .. Len(f.events) /\ k \in 1 .. Len(g.events)
    <3>1. g.events[k] \in BlockEvent
      BY <2>2, <1>2, <1>7 DEF Grows, Extends
    <3> QED BY <3>1, <2>2, <1>5
  <2>3. CASE k \notin 1 .. Len(f.events) /\ k \notin 1 .. Len(g.events)
    <3>1. k \in Len(g.events) + 1 .. m - 2
      BY <2>3, <1>5, <1>7
    <3> QED BY <3>1, <1>5
  <2> QED BY <2>1, <2>2, <2>3
<1>10. /\ d.buffer = <<>> /\ d.buffered = c.buffered /\ d.tokens = c.tokens
       /\ \A j \in 1 .. Len(d.blocks) : ~d.blocks[j].open
       /\ m >= Len(c.events) + 2
  <2>1. d.buffer = <<>>
    BY <1>1, <1>2, <1>5 DEF KeepsRest
  <2>2. d.buffered = c.buffered /\ d.tokens = c.tokens
    BY <1>1, <1>2, <1>5 DEF Grows, Extends
  <2>3. m >= Len(c.events) + 2
    BY <1>5, <1>7
  <2> QED BY <2>1, <2>2, <2>3, <1>5
<1>11. /\ d.events[m - 1].type = "message_delta" /\ d.events[m - 1].tokens = d.tokens
       /\ d.events[m].type = "message_stop"
  BY <1>5
<1> QED BY <1>5, <1>6, <1>8, <1>9, <1>10, <1>11 DEF d, m, f, g

LEMMA FinishKeeps ==
  ASSUME IInv, Finish
  PROVE  IInv'
<1>1. Ready /\ upstream' = upstream /\ client' = client /\ notes' = notes
  BY DEF Finish
<1>2. /\ Sound(ctx, Len(client.kinds), client.open) /\ Flushed(ctx)
      /\ ctx \in Context /\ ~ctx.finished
      /\ ctx.tokens = (IF Measured THEN "measured" ELSE "estimated")
  BY <1>1, ReadyContext
<1>3. PICK order \in SetToSeqs(OpenBlocks(AddMissingText(FlushAll(ctx)))) :
        LET ended == EndMessage(AddMissingText(FlushAll(ctx)), order)
        IN ctx' = [ended EXCEPT !.finished = TRUE,
                     !.events = IF ctx.buffered THEN Corrected(@, ctx.tokens) ELSE @]
  BY DEF Finish
<1> DEFINE n == Len(client.kinds)
           a == Len(ctx.events)
           d == EndMessage(AddMissingText(FlushAll(ctx)), order)
           m == Len(d.events)
           F == IF ctx.buffered THEN Corrected(d.events, ctx.tokens) ELSE d.events
<1>4. /\ Pointed(d, n, client.open) /\ d.buffer = <<>>
      /\ d.buffered = ctx.buffered /\ d.tokens = ctx.tokens
      /\ \A j \in 1 .. Len(d.blocks) : ~d.blocks[j].open
      /\ m \in Nat /\ m >= a + 2
      /\ \A k \in 1 .. a : d.events[k] = ctx.events[k]
      /\ \A k \in a + 1 .. m - 2 : d.events[k] \in BlockEvent
      /\ d.events[m - 1].type = "message_delta" /\ d.events[m - 1].tokens = ctx.tokens
      /\ d.events[m].type = "message_stop"
  BY <1>2, FinishEvents
<1>5. ctx' = [d EXCEPT !.finished = TRUE, !.events = F]
  BY <1>3
<1>6. d \in Context /\ d.events \in Seq(Event) /\ ctx.tokens \in Counts /\ a \in Nat
  BY <1>2, <1>4, LengthsTyped DEF Pointed, Fits, Context
<1> HIDE DEF d
<1>7. /\ F \in Seq(Event) /\ Len(F) = m
      /\ \A k \in 1 .. m : /\ F[k].type = d.events[k].type
                           /\ d.events[k].type # "message_start" => F[k] = d.events[k]
                           /\ ctx.buffered /\ d.events[k].type = "message_start" => F[k].tokens = ctx.tokens
  BY <1>6, CorrectedTyped
<1> HIDE DEF F, m, n, a
<1>8. /\ ctx' \in Context /\ ctx'.events = F /\ ctx'.finished
      /\ ctx'.blocks = d.blocks /\ ctx'.buffer = d.buffer /\ ctx'.buffered = d.buffered
      /\ ctx'.tokens = d.tokens /\ ctx'.thinking = d.thinking
      /\ ctx'.thinkingIndex = d.thinkingIndex /\ ctx'.textIndex = d.textIndex
      /\ ctx'.toolIndex = d.toolIndex
  BY <1>5, <1>6, <1>7 DEF Context
<1>9. Fits(ctx', n, client.open)
  <2>1. \A k \in 1 .. Len(d.events) : \/ F[k] = d.events[k]
                                      \/ d.events[k].type = "message_start" /\ F[k].type = "message_start"
    BY <1>7 DEF m
  <2>2. Consistent(d.events, d.blocks, n, client.open) /\ Len(d.events) \in Nat /\ Len(F) = Len(d.events)
    BY <1>4, <1>7 DEF Pointed, Fits, m
  <2>3. Consistent(F, d.blocks, n, client.open)
    BY <2>1, <2>2, RelabelConsistent
  <2> QED BY <2>3, <1>8 DEF Fits
<1>10. Pointed(ctx', n, client.open)
  <2>1. IndexesPoint(ctx')
    BY <1>4, <1>8, SameKindsPoint DEF Pointed
  <2> QED BY <2>1, <1>9 DEF Pointed
<1>11. ContextFits'
  BY <1>1, <1>4, <1>8, <1>10 DEF ContextFits, Flushed, n
<1>12. Typed'
  BY <1>1 DEF IInv, Typed
<1>13. /\ \A k \in 1 .. a : ctx.events[k].type = "message_start" <=> k = 1 /\ client.phase = "new"
       /\ \A k \in 1 .. a : ctx.events[k].type # "message_delta" /\ ctx.events[k].type # "message_stop"
       /\ client.phase = "new" => a >= 1 /\ client.kinds = <<>>
       /\ Begun
  <2>1. /\ \A k \in 1 .. a : ctx.events[k].type = "message_start" <=> k = 1 /\ client.phase = "new"
        /\ client.phase = "new" => a >= 1 /\ client.kinds = <<>>
    BY DEF IInv, MessageInTurn, a
  <2>2. \A k \in 1 .. a : ctx.events[k].type # "message_delta" /\ ctx.events[k].type # "message_stop"
    BY <1>2 DEF IInv, MessageInTurn, a
  <2>3. Begun
    BY <1>2 DEF IInv, MessageInTurn, Begun, Typed, Client
  <2> QED BY <2>1, <2>2, <2>3
<1>14. ASSUME NEW k \in 1 .. m
       PROVE  /\ F[k].type = "message_start" <=> k = 1 /\ client.phase = "new"
              /\ F[k].type = "message_delta" <=> k = m - 1
              /\ F[k].type = "message_stop" <=> k = m
  <2>1. F[k].type = d.events[k].type
    BY <1>7
  <2>2. CASE k \in 1 .. a
    BY <2>1, <2>2, <1>4, <1>6, <1>13
  <2>3. CASE k \in a + 1 .. m - 2
    <3>1. d.events[k].type \notin {"message_start", "message_delta", "message_stop"}
      BY <2>3, <1>4, BlockEventTypes
    <3>2. client.phase = "new" => k # 1
      BY <2>3, <1>6, <1>13
    <3> QED BY <2>1, <2>3, <3>1, <3>2, <1>4, <1>6
  <2>4. CASE k = m - 1
    <3>1. client.phase = "new" => k # 1
      BY <2>4, <1>4, <1>6, <1>13
    <3> QED BY <2>1, <2>4, <3>1, <1>4, <1>6
  <2>5. CASE k = m
    <3>1. client.phase = "new" => k # 1
      BY <2>5, <1>4, <1>6, <1>13
    <3> QED BY <2>1, <2>5, <3>1, <1>4, <1>6
  <2> QED BY <2>2, <2>3, <2>4, <2>5, <1>4, <1>6
<1>15. MessageInTurn'
  <2>1. Len(ctx'.events) = m /\ m >= 2
    BY <1>4, <1>6, <1>7, <1>8
  <2>2. Begun' <=> Begun
    BY <1>1 DEF Begun
  <2>3. client.phase # "closing" /\ client.phase # "ended"
    BY <1>13 DEF Begun
  <2>4. client'.phase = "new" => m >= 1 /\ client'.kinds = <<>>
    BY <1>1, <1>13, <2>1, <1>4
  <2> QED BY <1>1, <1>8, <1>13, <1>14, <2>1, <2>2, <2>3, <2>4 DEF MessageInTurn
<1>16. Counted'
  <2>1. ctx'.tokens = ctx.tokens /\ ctx'.buffered = ctx.buffered /\ Len(ctx'.events) = m
    BY <1>4, <1>7, <1>8
  <2>2. Measured' <=> Measured
    BY <1>1 DEF Measured
  <2>3. ASSUME NEW k \in 1 .. m, F[k].type = "message_delta"
        PROVE  F[k].tokens = ctx.tokens
    <3>1. k = m - 1
      BY <2>3, <1>14
    <3>2. F[k] = d.events[k]
      BY <2>3, <1>7
    <3> QED BY <3>1, <3>2, <1>4
  <2>4. ASSUME NEW k \in 1 .. m, ctx.buffered, F[k].type = "message_start"
        PROVE  F[k].tokens = ctx.tokens
    BY <2>4, <1>7
  <2>5. ctx.buffered => client.phase = "new"
    BY <1>2 DEF IInv, Counted
  <2>6. Begun'
    BY <1>1, <1>13 DEF Begun
  <2> QED BY <1>1, <1>2, <1>8, <2>1, <2>2, <2>3, <2>4, <2>5, <2>6 DEF Counted
<1> QED BY <1>11, <1>12, <1>15, <1>16 DEF IInv

\* What the client does with an event of each kind, and what it is the turn of.
LEMMA DeliverStep ==
  ASSUME IInv, Deliver
  PROVE  LET e == Head(ctx.events)
             m == Len(ctx.events)
         IN  /\ e \in Event /\ m \in Nat /\ m >= 1 /\ e = ctx.events[1]
             /\ \/ /\ e.type = "message_start" /\ client.phase = "new"
                   /\ client' = [Got(e) EXCEPT !.phase = "streaming", !.input = e.tokens]
                \/ /\ e.type = "content_block_start" /\ client.phase = "streaming"
                   /\ client' = [Got(e) EXCEPT !.kinds = Append(@, e.kind), !.open = @ \cup {e.index}]
                \/ /\ e.type = "content_block_delta" /\ client.phase = "streaming"
                   /\ client' = [Got(e) EXCEPT
                                   !.thinking = IF e.kind = "thinking" THEN @ \o e.text ELSE @,
                                   !.text = IF e.kind = "text" THEN @ \o e.text ELSE @,
                                   !.order = @ \o e.text]
                \/ /\ e.type = "content_block_stop" /\ client.phase = "streaming"
                   /\ client' = [Got(e) EXCEPT !.open = @ \ {e.index}]
                \/ /\ e.type = "message_delta" /\ client.phase = "streaming" /\ m = 2 /\ ctx.finished
                   /\ client' = [Got(e) EXCEPT !.phase = "closing", !.reason = e.reason,
                                               !.total = e.tokens]
                \/ /\ e.type = "message_stop" /\ client.phase = "closing" /\ m = 1 /\ ctx.finished
                   /\ client' = [Got(e) EXCEPT !.phase = "ended"]
<1> DEFINE e == Head(ctx.events)
           m == Len(ctx.events)
<1>1. ctx.events \in Seq(Event) /\ ctx.events # <<>>
  BY DEF IInv, ContextFits, Pointed, Fits, Context, Deliver
<1>2. e \in Event /\ m \in Nat /\ m >= 1 /\ e = ctx.events[1]
  BY <1>1, HeadTailProperties, LenProperties, EmptySeq
<1>3. Assemble(e)
  BY DEF Deliver
<1> HIDE DEF e, m
<1>4. 1 \in 1 .. m
  BY <1>2
<1>5. /\ e.type = "message_start" <=> client.phase = "new"
      /\ e.type = "message_delta" <=> m = 2 /\ ctx.finished /\ Begun
      /\ e.type = "message_stop" <=> m = 1 /\ ctx.finished
  <2>1. \A k \in 1 .. m :
          /\ ctx.events[k].type = "message_start" <=> k = 1 /\ client.phase = "new"
          /\ ctx.events[k].type = "message_delta" <=> k = m - 1 /\ ctx.finished /\ Begun
          /\ ctx.events[k].type = "message_stop" <=> k = m /\ ctx.finished
    BY DEF IInv, MessageInTurn, m
  <2>2. /\ ctx.events[1].type = "message_start" <=> client.phase = "new"
        /\ ctx.events[1].type = "message_delta" <=> 1 = m - 1 /\ ctx.finished /\ Begun
        /\ ctx.events[1].type = "message_stop" <=> 1 = m /\ ctx.finished
    BY <1>4, <2>1
  <2>3. (1 = m - 1 <=> m = 2) /\ (1 = m <=> m = 1)
    BY <1>2
  <2> QED BY <1>2, <2>2, <2>3
<1>6. /\ ctx.finished /\ Begun => m >= 2
      /\ client.phase = "closing" => ctx.finished /\ m = 1
      /\ client.phase # "ended"
  BY <1>2 DEF IInv, MessageInTurn, m
<1>7. client.phase \in {"new", "streaming", "closing", "ended"}
  BY DEF IInv, Typed, Client
<1>8. /\ e.type \in {"content_block_start", "content_block_delta", "content_block_stop"} =>
           client.phase = "streaming"
      /\ e.type = "message_delta" => client.phase = "streaming"
      /\ e.type = "message_stop" => client.phase = "closing"
  BY <1>2, <1>5, <1>6, <1>7 DEF Begun
<1> QED BY <1>2, <1>3, <1>5, <1>8 DEF Assemble, e, m

\* The fields the client has after an event, whatever its kind.
LEMMA DeliveredClient ==
  ASSUME IInv, Deliver
  PROVE  LET e == Head(ctx.events)
         IN  /\ client' \in Client
             /\ client'.last = [type |-> e.type,
                                index |-> IF e.type = "content_block_start" \/ Uses(e) THEN e.index ELSE 0]
             /\ Len(client'.kinds) =
                  IF e.type = "content_block_start" THEN Len(client.kinds) + 1 ELSE Len(client.kinds)
             /\ \A i : i \in client'.open <=> (i \in client.open \/ Starts(e, i)) /\ ~Stops(e, i)
             /\ client'.phase = IF e.type = "message_start" THEN "streaming"
                                ELSE IF e.type = "message_delta" THEN "closing"
                                ELSE IF e.type = "message_stop" THEN "ended" ELSE client.phase
             /\ client'.input = IF e.type = "message_start" THEN e.tokens ELSE client.input
             /\ client'.total = IF e.type = "message_delta" THEN e.tokens ELSE client.total
<1> DEFINE e == Head(ctx.events)
<1>1. client \in Client
  BY DEF IInv, Typed
<1> DEFINE at == IF "index" \in DOMAIN e THEN e.index ELSE 0
<1>2. /\ e \in Event
      /\ \/ /\ e.type = "message_start"
            /\ client' = [Got(e) EXCEPT !.phase = "streaming", !.input = e.tokens]
         \/ /\ e.type = "content_block_start"
            /\ client' = [Got(e) EXCEPT !.kinds = Append(@, e.kind), !.open = @ \cup {e.index}]
         \/ /\ e.type = "content_block_delta"
            /\ client' = [Got(e) EXCEPT
                            !.thinking = IF e.kind = "thinking" THEN @ \o e.text ELSE @,
                            !.text = IF e.kind = "text" THEN @ \o e.text ELSE @,
                            !.order = @ \o e.text]
         \/ /\ e.type = "content_block_stop"
            /\ client' = [Got(e) EXCEPT !.open = @ \ {e.index}]
         \/ /\ e.type = "message_delta"
            /\ client' = [Got(e) EXCEPT !.phase = "closing", !.reason = e.reason, !.total = e.tokens]
         \/ /\ e.type = "message_stop"
            /\ client' = [Got(e) EXCEPT !.phase = "ended"]
  BY DeliverStep
<1> HIDE DEF e
<1> DEFINE g == Got(e)
<1>3. g = [client EXCEPT !.last = [type |-> e.type, index |-> at]]
  BY DEF Got
<1>4. /\ e.type \in {"message_start", "content_block_start", "content_block_delta",
                     "content_block_stop", "message_delta", "message_stop"}
      /\ e.type = "message_start" => e \in [type : {"message_start"}, tokens : Counts]
      /\ e.type = "content_block_start" => e \in StartEvent
      /\ e.type = "content_block_delta" => e \in DeltaEvents
      /\ e.type = "content_block_stop" => e \in StopEvent
      /\ e.type = "message_delta" => e \in [type : {"message_delta"}, reason : Reasons, tokens : Counts]
      /\ e.type = "message_stop" => e \in [type : {"message_stop"}]
  BY <1>2 DEF Event, BlockEvent, MessageEvent, StartEvent, DeltaEvents, StopEvent
<1>5. at = IF e.type = "content_block_start" \/ Uses(e) THEN e.index ELSE 0
  <2>1. CASE e.type \in {"content_block_start", "content_block_delta", "content_block_stop"}
    BY <1>4, <2>1 DEF Uses, StartEvent, DeltaEvents, StopEvent
  <2>2. CASE e.type \in {"message_start", "message_delta", "message_stop"}
    BY <1>4, <2>2 DEF Uses
  <2> QED BY <2>1, <2>2, <1>4
<1>6. at \in Nat
  <2>1. e.type \in {"content_block_start", "content_block_delta", "content_block_stop"} => e.index \in Nat
    BY <1>4 DEF StartEvent, DeltaEvents, StopEvent, Index
  <2> QED BY <2>1, <1>5 DEF Uses
<1> HIDE DEF at, g
<1>7. /\ g \in Client /\ g.last = [type |-> e.type, index |-> at]
      /\ g.kinds = client.kinds /\ g.open = client.open
      /\ g.phase = client.phase /\ g.input = client.input /\ g.total = client.total
  BY <1>1, <1>3, <1>4, <1>6 DEF Client
<1>8. /\ g.kinds \in Seq(Kinds) /\ g.open \in SUBSET Nat
      /\ g.thinking \in Seq(Letters) /\ g.text \in Seq(Letters) /\ g.order \in Seq(Letters)
  BY <1>7 DEF Client
<1>9. CASE e.type = "message_start"
  <2>1. client' = [g EXCEPT !.phase = "streaming", !.input = e.tokens] /\ e.tokens \in Counts
    BY <1>2, <1>4, <1>9 DEF g
  <2>2. /\ client' \in Client /\ client'.last = g.last
        /\ client'.kinds = g.kinds /\ client'.open = g.open
        /\ client'.phase = "streaming" /\ client'.input = e.tokens /\ client'.total = g.total
    BY <2>1, <1>7 DEF Client
  <2> QED BY <2>2, <1>5, <1>7, <1>9 DEF Starts, Stops, e
<1>10. CASE e.type = "content_block_start"
  <2> DEFINE kinds == Append(g.kinds, e.kind)
             open == g.open \cup {e.index}
  <2>1. client' = [g EXCEPT !.kinds = kinds, !.open = open]
    BY <1>2, <1>10 DEF g
  <2>2. kinds \in Seq(Kinds) /\ open \in SUBSET Nat /\ Len(kinds) = Len(g.kinds) + 1
    BY <1>4, <1>8, <1>10 DEF StartEvent, Index
  <2> HIDE DEF kinds, open
  <2>3. /\ client' \in Client /\ client'.last = g.last
        /\ client'.kinds = kinds /\ client'.open = open
        /\ client'.phase = g.phase /\ client'.input = g.input /\ client'.total = g.total
    BY <2>1, <2>2, <1>7 DEF Client
  <2> QED BY <2>2, <2>3, <1>5, <1>7, <1>10 DEF Starts, Stops, open, e
<1>11. CASE e.type = "content_block_delta"
  <2> DEFINE thinking == IF e.kind = "thinking" THEN g.thinking \o e.text ELSE g.thinking
             text == IF e.kind = "text" THEN g.text \o e.text ELSE g.text
             order == g.order \o e.text
  <2>1. client' = [g EXCEPT !.thinking = thinking, !.text = text, !.order = order]
    BY <1>2, <1>11 DEF g
  <2>2. thinking \in Seq(Letters) /\ text \in Seq(Letters) /\ order \in Seq(Letters)
    <3>1. e.text \in Seq(Letters)
      BY <1>4, <1>11 DEF DeltaEvents
    <3> QED BY <3>1, <1>8, ConcatProperties
  <2> HIDE DEF thinking, text, order
  <2>3. /\ client' \in Client /\ client'.last = g.last
        /\ client'.kinds = g.kinds /\ client'.open = g.open
        /\ client'.phase = g.phase /\ client'.input = g.input /\ client'.total = g.total
    BY <2>1, <2>2, <1>7 DEF Client
  <2> QED BY <2>3, <1>5, <1>7, <1>11 DEF Starts, Stops, e
<1>12. CASE e.type = "content_block_stop"
  <2> DEFINE open == g.open \ {e.index}
  <2>1. client' = [g EXCEPT !.open = open]
    BY <1>2, <1>12 DEF g
  <2>2. open \in SUBSET Nat
    BY <1>8
  <2> HIDE DEF open
  <2>3. /\ client' \in Client /\ client'.last = g.last
        /\ client'.kinds = g.kinds /\ client'.open = open
        /\ client'.phase = g.phase /\ client'.input = g.input /\ client'.total = g.total
    BY <2>1, <2>2, <1>7 DEF Client
  <2> QED BY <2>3, <1>5, <1>7, <1>12 DEF Starts, Stops, open, e
<1>13. CASE e.type = "message_delta"
  <2>1. /\ client' = [g EXCEPT !.phase = "closing", !.reason = e.reason, !.total = e.tokens]
        /\ e.tokens \in Counts /\ e.reason \in Reasons
    BY <1>2, <1>4, <1>13 DEF g
  <2>2. /\ client' \in Client /\ client'.last = g.last
        /\ client'.kinds = g.kinds /\ client'.open = g.open
        /\ client'.phase = "closing" /\ client'.input = g.input /\ client'.total = e.tokens
    BY <2>1, <1>7 DEF Client
  <2> QED BY <2>2, <1>5, <1>7, <1>13 DEF Starts, Stops, e
<1>14. CASE e.type = "message_stop"
  <2>1. client' = [g EXCEPT !.phase = "ended"]
    BY <1>2, <1>14 DEF g
  <2>2. /\ client' \in Client /\ client'.last = g.last
        /\ client'.kinds = g.kinds /\ client'.open = g.open
        /\ client'.phase = "ended" /\ client'.input = g.input /\ client'.total = g.total
    BY <2>1, <1>7 DEF Client
  <2> QED BY <2>2, <1>5, <1>7, <1>14 DEF Starts, Stops, e
<1> QED BY <1>2, <1>9, <1>10, <1>11, <1>12, <1>13, <1>14

\* message_delta comes when the client has every block closed.
LEMMA ClosedAtTheEnd ==
  ASSUME IInv, ctx.finished, Len(ctx.events) = 2, Begun
  PROVE  client.open = {}
<1>1. /\ Consistent(ctx.events, ctx.blocks, Len(client.kinds), client.open)
      /\ \A i \in 1 .. Len(ctx.blocks) : ~ctx.blocks[i].open
      /\ Len(client.kinds) \in Nat /\ Len(ctx.blocks) \in Nat
  <2>1. ctx \in Context /\ client.kinds \in Seq(Kinds)
    BY DEF IInv, ContextFits, Pointed, Fits, Typed, Client
  <2> QED BY <2>1, LengthsTyped DEF IInv, ContextFits, Pointed, Fits
<1>2. ctx.events[1].type = "message_delta" /\ ctx.events[2].type = "message_stop"
  <2>1. \A k \in 1 .. 2 :
          /\ ctx.events[k].type = "message_delta" <=> k = 2 - 1 /\ ctx.finished /\ Begun
          /\ ctx.events[k].type = "message_stop" <=> k = 2 /\ ctx.finished
    BY DEF IInv, MessageInTurn
  <2> QED BY <2>1
<1>3. ASSUME NEW i \in client.open
      PROVE  FALSE
  <2>1. i \in 1 .. Len(ctx.blocks)
    BY <1>1 DEF Consistent
  <2>2. ~OpenBefore(ctx.events, client.open, i, 2 + 1)
    BY <1>1, <2>1 DEF Consistent, SameOpen
  <2>3. PICK j \in 1 .. (2 + 1) - 1 : Stops(ctx.events[j], i)
    BY <2>2, <1>3 DEF OpenBefore
  <2>4. j = 1 \/ j = 2
    BY <2>3
  <2> QED BY <2>3, <2>4, <1>2 DEF Stops
<1> QED BY <1>3

LEMMA DeliverKeeps ==
  ASSUME IInv, Deliver
  PROVE  IInv'
<1> DEFINE e == Head(ctx.events)
           T == Tail(ctx.events)
           m == Len(ctx.events)
           l == Len(T)
           n == Len(client.kinds)
<1>1. /\ ctx.events # <<>> /\ (ctx.buffered => ctx.finished)
      /\ ctx' = [ctx EXCEPT !.events = T] /\ upstream' = upstream /\ notes' = notes
  BY DEF Deliver
<1>2. /\ ctx \in Context /\ ctx.events \in Seq(Event) /\ ctx.blocks \in Seq(Block)
      /\ Pointed(ctx, n, client.open)
  BY DEF IInv, ContextFits, Pointed, Fits, Context
<1>3. /\ T \in Seq(Event) /\ l \in Nat /\ m = l + 1 /\ \A k \in 1 .. l : T[k] = ctx.events[k + 1]
  BY <1>1, <1>2, HeadTailProperties, LenProperties
<1>4. /\ e \in Event /\ m \in Nat /\ m >= 1 /\ e = ctx.events[1]
      /\ \/ /\ e.type = "message_start" /\ client.phase = "new"
            /\ client' = [Got(e) EXCEPT !.phase = "streaming", !.input = e.tokens]
         \/ /\ e.type = "content_block_start" /\ client.phase = "streaming"
            /\ client' = [Got(e) EXCEPT !.kinds = Append(@, e.kind), !.open = @ \cup {e.index}]
         \/ /\ e.type = "content_block_delta" /\ client.phase = "streaming"
            /\ client' = [Got(e) EXCEPT
                            !.thinking = IF e.kind = "thinking" THEN @ \o e.text ELSE @,
                            !.text = IF e.kind = "text" THEN @ \o e.text ELSE @,
                            !.order = @ \o e.text]
         \/ /\ e.type = "content_block_stop" /\ client.phase = "streaming"
            /\ client' = [Got(e) EXCEPT !.open = @ \ {e.index}]
         \/ /\ e.type = "message_delta" /\ client.phase = "streaming" /\ m = 2 /\ ctx.finished
            /\ client' = [Got(e) EXCEPT !.phase = "closing", !.reason = e.reason, !.total = e.tokens]
         \/ /\ e.type = "message_stop" /\ client.phase = "closing" /\ m = 1 /\ ctx.finished
            /\ client' = [Got(e) EXCEPT !.phase = "ended"]
  BY DeliverStep
<1>5. /\ client' \in Client
      /\ Len(client'.kinds) = IF e.type = "content_block_start" THEN n + 1 ELSE n
      /\ \A i : i \in client'.open <=> (i \in client.open \/ Starts(e, i)) /\ ~Stops(e, i)
  BY DeliveredClient
<1>6. Consistent(T, ctx.blocks, Len(client'.kinds), client'.open)
  <2>1. Consistent(ctx.events, ctx.blocks, n, client.open)
    BY <1>2 DEF Pointed, Fits
  <2> HIDE DEF n
  <2> QED BY <2>1, <1>1, <1>2, <1>5, DeliveredConsistent
<1>7. client \in Client
  BY DEF IInv, Typed
<1>8. /\ client'.phase = "streaming" \/ client'.phase = "closing" \/ client'.phase = "ended"
      /\ client'.phase = "closing" <=> e.type = "message_delta"
      /\ client'.phase = "ended" <=> e.type = "message_stop"
      /\ e.type = "message_start" => client.phase = "new" /\ client'.input = e.tokens
      /\ e.type # "message_start" => client.phase # "new" /\ client'.input = client.input
      /\ e.type = "message_delta" =>
           client.phase = "streaming" /\ m = 2 /\ ctx.finished /\ client'.total = e.tokens
      /\ e.type = "message_stop" =>
           client.phase = "closing" /\ m = 1 /\ ctx.finished /\ client'.total = client.total
  <2>1. /\ client'.phase = IF e.type = "message_start" THEN "streaming"
                           ELSE IF e.type = "message_delta" THEN "closing"
                           ELSE IF e.type = "message_stop" THEN "ended" ELSE client.phase
        /\ client'.input = IF e.type = "message_start" THEN e.tokens ELSE client.input
        /\ client'.total = IF e.type = "message_delta" THEN e.tokens ELSE client.total
    BY DeliveredClient
  <2>2. client.phase \in {"new", "streaming", "closing", "ended"}
    BY <1>7 DEF Client
  <2>3. \/ e.type = "message_start" /\ client.phase = "new"
        \/ /\ e.type \in {"content_block_start", "content_block_delta", "content_block_stop"}
           /\ client.phase = "streaming"
        \/ e.type = "message_delta" /\ client.phase = "streaming" /\ m = 2 /\ ctx.finished
        \/ e.type = "message_stop" /\ client.phase = "closing" /\ m = 1 /\ ctx.finished
    BY <1>4
  <2> HIDE DEF e, m
  <2> QED BY <2>1, <2>2, <2>3
<1> HIDE DEF T, l, m, e, n
<1>9. /\ ctx' \in Context /\ ctx'.events = T /\ ctx'.blocks = ctx.blocks /\ ctx'.buffer = ctx.buffer
      /\ ctx'.finished = ctx.finished /\ ctx'.buffered = ctx.buffered /\ ctx'.tokens = ctx.tokens
      /\ ctx'.thinking = ctx.thinking /\ ctx'.thinkingIndex = ctx.thinkingIndex
      /\ ctx'.textIndex = ctx.textIndex /\ ctx'.toolIndex = ctx.toolIndex
  BY <1>1, <1>2, <1>3 DEF Context
<1>10. Typed'
  BY <1>1, <1>5 DEF IInv, Typed
<1>11. ContextFits'
  <2>1. IndexesPoint(ctx')
    BY <1>2, <1>9, SameKindsPoint DEF Pointed
  <2>2. Pointed(ctx', Len(client'.kinds), client'.open)
    BY <2>1, <1>6, <1>9 DEF Pointed, Fits
  <2>3. Flushed(ctx') /\ (~ctx'.finished => ThinkingOpen(ctx'))
    BY <1>9 DEF IInv, ContextFits, Flushed, ThinkingOpen
  <2> QED BY <2>2, <2>3, <1>9 DEF IInv, ContextFits
<1>12. \A k \in 1 .. m :
         /\ ctx.events[k].type = "message_start" <=> k = 1 /\ client.phase = "new"
         /\ ctx.events[k].type = "message_delta" <=> k = m - 1 /\ ctx.finished /\ Begun
         /\ ctx.events[k].type = "message_stop" <=> k = m /\ ctx.finished
  BY DEF IInv, MessageInTurn, m
<1>13. ASSUME NEW k \in 1 .. l
       PROVE  /\ T[k].type # "message_start"
              /\ T[k].type = "message_delta" <=> k = l - 1 /\ ctx.finished /\ Begun
              /\ T[k].type = "message_stop" <=> k = l /\ ctx.finished
  <2>1. k + 1 \in 1 .. m /\ k + 1 # 1 /\ (k + 1 = m - 1 <=> k = l - 1) /\ (k + 1 = m <=> k = l)
    BY <1>3
  <2>2. /\ ctx.events[k + 1].type = "message_start" <=> k + 1 = 1 /\ client.phase = "new"
        /\ ctx.events[k + 1].type = "message_delta" <=> k + 1 = m - 1 /\ ctx.finished /\ Begun
        /\ ctx.events[k + 1].type = "message_stop" <=> k + 1 = m /\ ctx.finished
    BY <2>1, <1>12
  <2> QED BY <2>1, <2>2, <1>3
<1>14. /\ Begun' <=> client'.phase = "streaming"
       /\ Begun' => Begun
       /\ Begun /\ ~Begun' => l = 1
  <2>1. client.phase \in {"new", "streaming", "closing", "ended"}
    BY <1>7 DEF Client
  <2>2. e.type = "message_stop" => ~Begun
    BY <1>8 DEF Begun
  <2>3. Begun' <=> client'.phase = "streaming"
    BY <1>8 DEF Begun
  <2>4. Begun' => Begun
    <3>1. client'.phase = "streaming" => client.phase \in {"new", "streaming"}
      BY <1>4, <1>8
    <3> QED BY <3>1, <2>3 DEF Begun
  <2>5. Begun /\ ~Begun' => e.type = "message_delta"
    BY <1>8, <2>2, <2>3
  <2>6. e.type = "message_delta" => l = 1
    BY <1>3, <1>8
  <2> QED BY <2>3, <2>4, <2>5, <2>6
<1>15. MessageInTurn'
  <2>1. \A k \in 1 .. l :
          /\ T[k].type = "message_start" <=> k = 1 /\ client'.phase = "new"
          /\ T[k].type = "message_delta" <=> k = l - 1 /\ ctx.finished /\ Begun'
          /\ T[k].type = "message_stop" <=> k = l /\ ctx.finished
    BY <1>3, <1>8, <1>13, <1>14
  <2>2. ctx.finished /\ Begun' => l >= 2
    <3>1. ctx.finished /\ Begun => m >= 2
      BY DEF IInv, MessageInTurn, m
    <3>2. ctx.finished /\ Begun /\ m = 2 => e.type = "message_delta"
      BY <1>4, <1>12
    <3>3. e.type = "message_delta" => ~Begun'
      BY <1>8, <1>14
    <3> QED BY <3>1, <3>2, <3>3, <1>3, <1>4, <1>14
  <2>3. client'.phase = "closing" => ctx.finished /\ l = 1
    BY <1>3, <1>8
  <2>4. client'.phase = "ended" => ctx.finished /\ l = 0
    BY <1>3, <1>8
  <2>5. client'.phase # "new"
    BY <1>8
  <2> QED BY <2>1, <2>2, <2>3, <2>4, <2>5, <1>9 DEF MessageInTurn, l
<1>16. Counted'
  <2>1. /\ ctx.tokens = IF Measured THEN "measured" ELSE "estimated"
        /\ \A k \in 1 .. m : ctx.events[k].type = "message_delta" => ctx.events[k].tokens = ctx.tokens
        /\ ~Begun => client.total = ctx.tokens
        /\ ctx.buffered =>
             /\ ctx.finished
             /\ \A k \in 1 .. m :
                  ctx.events[k].type = "message_start" => ctx.events[k].tokens = ctx.tokens
             /\ client.phase # "new" => client.input = ctx.tokens
    BY <1>1 DEF IInv, Counted, m
  <2>2. Measured' <=> Measured
    BY <1>1 DEF Measured
  <2>3. \A k \in 1 .. l : T[k].type = "message_delta" => T[k].tokens = ctx.tokens
    <3>1. \A k \in 1 .. l : k + 1 \in 1 .. m
      BY <1>3
    <3> QED BY <3>1, <2>1, <1>3
  <2>4. 1 \in 1 .. m
    BY <1>4
  <2>5. ~Begun' => client'.total = ctx.tokens
    <3>1. CASE e.type = "message_delta"
      BY <3>1, <2>1, <2>4, <1>4, <1>8
    <3>2. CASE e.type = "message_stop"
      BY <3>2, <2>1, <1>8 DEF Begun
    <3> QED BY <3>1, <3>2, <1>8, <1>14
  <2>6. ctx.buffered => client'.input = ctx.tokens
    <3>1. CASE e.type = "message_start"
      BY <3>1, <2>1, <2>4, <1>4, <1>8
    <3>2. CASE e.type # "message_start"
      BY <3>2, <2>1, <1>8
    <3> QED BY <3>1, <3>2
  <2>7. \A k \in 1 .. l : T[k].type # "message_start"
    BY <1>13
  <2> QED BY <2>1, <2>2, <2>3, <2>5, <2>6, <2>7, <1>9 DEF Counted, l
<1> QED BY <1>10, <1>11, <1>15, <1>16 DEF IInv

LEMMA StepKeeps == IInv /\ [Next]_vars => IInv'
<1> SUFFICES ASSUME IInv, [Next]_vars
             PROVE  IInv'
  OBVIOUS
<1>1. CASE ReceiveText
  BY <1>1, ReceiveTextKeeps
<1>2. CASE \E id \in Tools, input, stop \in BOOLEAN : ReceiveToolUse(id, input, stop)
  BY <1>2, ReceiveToolUseKeeps
<1>3. CASE \E note \in {"usage", "full", "length"} : ReceiveNote(note)
  BY <1>3, ReceiveNoteKeeps
<1>4. CASE Finish
  BY <1>4, FinishKeeps
<1>5. CASE Deliver
  BY <1>5, DeliverKeeps
<1>6. CASE UNCHANGED vars
  BY <1>6 DEF vars, IInv, Typed, ContextFits, MessageInTurn, Counted, Begun, Measured
<1>7. CASE Ended
  BY <1>6, <1>7 DEF Ended
<1> QED BY <1>1, <1>2, <1>3, <1>4, <1>5, <1>6, <1>7 DEF Next

-----------------------------------------------------------------------------
(* What follows.                                                            *)

\* What the client receives is a step of a message.
LEMMA DeliverIsAStep ==
  ASSUME IInv, Deliver
  PROVE  Message!Next
<1> DEFINE e == Head(ctx.events)
           n == Len(client.kinds)
<1>1. /\ Len(client'.kinds) = IF e.type = "content_block_start" THEN n + 1 ELSE n
      /\ client'.last = [type |-> e.type,
                         index |-> IF e.type = "content_block_start" \/ Uses(e) THEN e.index ELSE 0]
      /\ \A i : i \in client'.open <=> (i \in client.open \/ Starts(e, i)) /\ ~Stops(e, i)
      /\ client'.phase = IF e.type = "message_start" THEN "streaming"
                         ELSE IF e.type = "message_delta" THEN "closing"
                         ELSE IF e.type = "message_stop" THEN "ended" ELSE client.phase
  BY DeliveredClient
<1>2. /\ e.type = "content_block_start" => e.index = n + 1
      /\ Uses(e) => e.index \in client.open
  <2>1. /\ ctx.events \in Seq(Event) /\ ctx.events # <<>> /\ ctx.blocks \in Seq(Block)
        /\ Consistent(ctx.events, ctx.blocks, n, client.open)
    BY DEF IInv, ContextFits, Pointed, Fits, Context, Deliver
  <2> HIDE DEF n
  <2> QED BY <1>1, <2>1, DeliveredConsistent
<1>3. \/ e.type = "message_start" /\ client.phase = "new"
      \/ e.type = "content_block_start" /\ client.phase = "streaming"
      \/ e.type = "content_block_delta" /\ client.phase = "streaming"
      \/ e.type = "content_block_stop" /\ client.phase = "streaming"
      \/ /\ e.type = "message_delta" /\ client.phase = "streaming"
         /\ Len(ctx.events) = 2 /\ ctx.finished
      \/ e.type = "message_stop" /\ client.phase = "closing"
  BY DeliverStep
<1> HIDE DEF e, n
<1>4. CASE e.type = "message_start"
  <2>1. client'.open = client.open
    BY <1>1, <1>4 DEF Starts, Stops
  <2>2. client'.last = Message!Event("message_start", 0)
    BY <1>1, <1>4 DEF Uses, Message!Event
  <2>3. client.phase = "new" /\ client'.phase = "streaming" /\ Len(client'.kinds) = Len(client.kinds)
    BY <1>1, <1>3, <1>4 DEF n
  <2> QED BY <2>1, <2>2, <2>3 DEF Message!Next, Message!MessageStart
<1>5. CASE e.type = "content_block_start"
  <2>1. client'.open = client.open \cup {n + 1}
    BY <1>1, <1>2, <1>5 DEF Starts, Stops
  <2>2. client'.last = Message!Event("content_block_start", n + 1)
    BY <1>1, <1>2, <1>5 DEF Message!Event
  <2>3. client.phase = "streaming" /\ client'.phase = client.phase /\ Len(client'.kinds) = n + 1
    BY <1>1, <1>3, <1>5
  <2> QED BY <2>1, <2>2, <2>3 DEF Message!Next, Message!BlockStart, n
<1>6. CASE e.type = "content_block_delta"
  <2>1. client'.open = client.open
    BY <1>1, <1>6 DEF Starts, Stops
  <2>2. client'.last = Message!Event("content_block_delta", e.index) /\ e.index \in client.open
    BY <1>1, <1>2, <1>6 DEF Uses, Message!Event
  <2>3. /\ client.phase = "streaming" /\ client'.phase = client.phase
        /\ Len(client'.kinds) = Len(client.kinds)
    BY <1>1, <1>3, <1>6 DEF n
  <2> QED BY <2>1, <2>2, <2>3 DEF Message!Next, Message!BlockDelta
<1>7. CASE e.type = "content_block_stop"
  <2>1. client'.open = client.open \ {e.index}
    BY <1>1, <1>7 DEF Starts, Stops
  <2>2. client'.last = Message!Event("content_block_stop", e.index) /\ e.index \in client.open
    BY <1>1, <1>2, <1>7 DEF Uses, Message!Event
  <2>3. /\ client.phase = "streaming" /\ client'.phase = client.phase
        /\ Len(client'.kinds) = Len(client.kinds)
    BY <1>1, <1>3, <1>7 DEF n
  <2> QED BY <2>1, <2>2, <2>3 DEF Message!Next, Message!BlockStop
<1>8. CASE e.type = "message_delta"
  <2>1. client'.open = client.open
    BY <1>1, <1>8 DEF Starts, Stops
  <2>2. client'.last = Message!Event("message_delta", 0)
    BY <1>1, <1>8 DEF Uses, Message!Event
  <2>3. client.open = {}
    BY <1>3, <1>8, ClosedAtTheEnd DEF Begun
  <2>4. /\ client.phase = "streaming" /\ client'.phase = "closing"
        /\ Len(client'.kinds) = Len(client.kinds)
    BY <1>1, <1>3, <1>8 DEF n
  <2> QED BY <2>1, <2>2, <2>3, <2>4 DEF Message!Next, Message!MessageDelta
<1>9. CASE e.type = "message_stop"
  <2>1. client'.open = client.open
    BY <1>1, <1>9 DEF Starts, Stops
  <2>2. client'.last = Message!Event("message_stop", 0)
    BY <1>1, <1>9 DEF Uses, Message!Event
  <2>3. /\ client.phase = "closing" /\ client'.phase = "ended"
        /\ Len(client'.kinds) = Len(client.kinds)
    BY <1>1, <1>3, <1>9 DEF n
  <2> QED BY <2>1, <2>2, <2>3 DEF Message!Next, Message!MessageStop
<1> QED BY <1>3, <1>4, <1>5, <1>6, <1>7, <1>8, <1>9

\* The client receives a well-formed message: message_start first and once, every block
\* started once with the next index, its deltas and its one stop while it is open, message_delta
\* once when all blocks are stopped, message_stop last, whatever the upstream sends in which
\* pieces and however the answer ends (stream.rs: SseStateManager and StreamContext).
THEOREM SendsMessages == Spec => SendsAMessage
<1>1. Init => Message!Init
  BY DEF Init, NewClient, Message!Init, Message!Event
<1>2. IInv /\ [Next]_vars => [Message!Next]_(Message!vars)
  <2> SUFFICES ASSUME IInv, [Next]_vars
               PROVE  [Message!Next]_(Message!vars)
    OBVIOUS
  <2>1. CASE Deliver
    BY <2>1, DeliverIsAStep
  <2>2. CASE ~Deliver
    <3>1. client' = client
      BY <2>2 DEF Next, ReceiveText, ReceiveToolUse, ReceiveNote, Finish, Ended, vars
    <3> QED BY <3>1 DEF Message!vars
  <2> QED BY <2>1, <2>2
<1> QED BY <1>1, <1>2, InitHolds, StepKeeps, PTL DEF Spec, SendsAMessage, Message!Spec

\* The indexes the context keeps are those of blocks of their kind, an open thinking block means
\* that the text is inside of the thinking, and once the thinking is over nothing is held back.
THEOREM TypeCorrect == Spec => []TypeOK
<1>1. IInv => TypeOK
  <2> SUFFICES ASSUME IInv
               PROVE  TypeOK
    OBVIOUS
  <2>1. /\ ctx \in Context /\ DOMAIN ctx.blocks = 1 .. Len(ctx.blocks)
        /\ IndexesPoint(ctx) /\ Flushed(ctx)
    BY LengthsTyped DEF IInv, ContextFits, Pointed, Fits
  <2>2. upstream.events \in Nat /\ upstream.calls \subseteq Tools
    BY DEF IInv, Typed
  <2>3. client.reason \in Reasons \cup {"none"}
    BY DEF IInv, Typed, Client
  <2>4. ctx.thinking \in {"before", "inside", "done"} /\ ctx.buffer \in Seq(Units)
    BY <2>1 DEF Context
  <2>5. ctx.blocks \in Seq([kind : Kinds, open : BOOLEAN])
    BY <2>1 DEF Context, Block
  <2>6. /\ ctx.textIndex # 0 => ctx.blocks[ctx.textIndex].kind = "text"
        /\ \A t \in Tools : ctx.toolIndex[t] # 0 => ctx.blocks[ctx.toolIndex[t]].kind = "tool_use"
        /\ (ctx.thinking = "before") = (ctx.thinkingIndex = 0)
    BY <2>1 DEF IndexesPoint, PointsAt
  <2>7. ctx.thinkingIndex # 0 =>
          IsOpen(ctx, ctx.thinkingIndex) = (ctx.thinking = "inside" /\ ~ctx.finished)
    <3> SUFFICES ASSUME ctx.thinkingIndex # 0
                 PROVE  IsOpen(ctx, ctx.thinkingIndex) <=> ctx.thinking = "inside" /\ ~ctx.finished
      BY <2>1 DEF IsOpen, IndexesPoint, PointsAt, Context, Block
    <3>1. ctx.thinkingIndex \in 1 .. Len(ctx.blocks)
      BY <2>1 DEF IndexesPoint, PointsAt
    <3>2. CASE ctx.finished
      BY <2>1, <3>1, <3>2 DEF IInv, ContextFits, IsOpen
    <3>3. CASE ~ctx.finished
      <4>1. ThinkingOpen(ctx)
        BY <3>3 DEF IInv, ContextFits
      <4> QED BY <2>1, <3>1, <3>3, <4>1 DEF ThinkingOpen, IsOpen
    <3> QED BY <3>2, <3>3
  <2> QED BY <2>1, <2>2, <2>3, <2>4, <2>5, <2>6, <2>7 DEF TypeOK, Flushed
<1> QED BY <1>1, InitHolds, StepKeeps, PTL DEF Spec

\* A buffered answer opens and closes with the same token count, and it is the measured one
\* exactly when a note of the upstream brought it, at whatever time before the end
\* (stream.rs: BufferedStreamContext::finish_and_get_all_events).
THEOREM BufferedAgree == Spec => []BufferedTokensAgree
<1>1. IInv => BufferedTokensAgree
  <2> SUFFICES ASSUME IInv, client.phase = "ended", ctx.buffered
               PROVE  /\ client.input = client.total
                      /\ client.total = IF Measured THEN "measured" ELSE "estimated"
    BY DEF BufferedTokensAgree, Measured
  <2>1. ~Begun /\ ctx.finished
    BY DEF IInv, MessageInTurn, Begun
  <2> QED BY <2>1 DEF IInv, Counted
<1> QED BY <1>1, InitHolds, StepKeeps, PTL DEF Spec
-----------------------------------------------------------------------------
(* What the events tell of the blocks, of the texts and of the stop reason. *)

Shown(e) == e.type \in {"content_block_start", "content_block_delta"}
IsText(e) == e.type = "content_block_delta" /\ e.kind = "text"

\* The kinds that the client was told and those still to be told are the ones of the blocks.
KindsFit(c, kinds) ==
  /\ \A k \in 1 .. Len(c.events) :
       Shown(c.events[k]) => PointsAt(c, c.events[k].index, c.events[k].kind)
  /\ \A i \in 1 .. Len(kinds) : PointsAt(c, i, kinds[i])

PlainTexts(c) == \A k \in 1 .. Len(c.events) : IsText(c.events[k]) => c.events[k].text \in Seq(Units)
NoText(c) == \A i \in 1 .. Len(c.blocks) : c.blocks[i].kind # "text"

\* The text is received text, and the stop reason to come is that of the last limit reported.
Plain ==
  /\ client.text \in Seq(Units) /\ PlainTexts(ctx)
  /\ NoText(ctx) => client.text = <<>>
LastLimit(i) == i \in Limits /\ \A j \in Limits : j <= i
Reported ==
  \/ Limits = {} /\ ctx.stopReason = "none"
  \/ \E i \in Limits : /\ LastLimit(i)
                       /\ ctx.stopReason = IF notes[i] = "full" THEN "model_context_window_exceeded"
                                           ELSE "max_tokens"

\* There was nothing but thinking: the one text is a space, told or still to be told.
OnlyText(c, k) == \A j \in 1 .. Len(c.events) : IsText(c.events[j]) <=> j = k
FilledUp(c) ==
  /\ c.thinkingIndex # 0 /\ c.stopReason = "max_tokens"
  /\ Len(c.blocks) = 2 /\ c.blocks[1].kind = "thinking" /\ c.blocks[2].kind = "text"
Filled ==
  /\ ctx.finished /\ FilledUp(ctx)
  /\ \/ client.text = <<Space>> /\ \A k \in 1 .. Len(ctx.events) : ~IsText(ctx.events[k])
     \/ /\ client.text = <<>>
        /\ \E k \in 1 .. Len(ctx.events) : OnlyText(ctx, k) /\ ctx.events[k].text = <<Space>>

ReasonTold ==
  /\ \A k \in 1 .. Len(ctx.events) :
       ctx.events[k].type = "message_delta" => ctx.events[k].reason = StopReason(ctx)
  /\ ~Begun => client.reason = StopReason(ctx)

Told == KindsFit(ctx, client.kinds) /\ ReasonTold /\ ((Plain /\ Reported) \/ Filled)

\* New events that tell the truth leave everything told true.
LEMMA GrowsTells ==
  ASSUME NEW c \in Context, NEW d \in Context, Grows(c, d), NEW kinds
  PROVE  /\ KindsFit(c, kinds) => KindsFit(d, kinds)
         /\ PlainTexts(c) => PlainTexts(d)
         /\ NoText(d) => NoText(c)
<1>1. /\ Len(c.events) \in Nat /\ Len(d.events) \in Nat /\ Len(c.events) <= Len(d.events)
      /\ Len(c.blocks) \in Nat /\ Len(d.blocks) \in Nat /\ Len(c.blocks) <= Len(d.blocks)
      /\ \A k \in 1 .. Len(c.events) : d.events[k] = c.events[k]
      /\ \A k \in Len(c.events) + 1 .. Len(d.events) : Tells(d, d.events[k])
      /\ \A i \in 1 .. Len(c.blocks) : d.blocks[i].kind = c.blocks[i].kind
  BY LengthsTyped DEF Grows, Extends
<1>2. \A i, kind : PointsAt(c, i, kind) => PointsAt(d, i, kind)
  BY <1>1 DEF PointsAt
<1>3. \A k \in 1 .. Len(d.events) : k \in 1 .. Len(c.events) \/ k \in Len(c.events) + 1 .. Len(d.events)
  BY <1>1
<1>4. ASSUME KindsFit(c, kinds)
      PROVE  KindsFit(d, kinds)
  <2>1. ASSUME NEW k \in 1 .. Len(d.events), Shown(d.events[k])
        PROVE  PointsAt(d, d.events[k].index, d.events[k].kind)
    <3>1. CASE k \in 1 .. Len(c.events)
      BY <3>1, <2>1, <1>1, <1>2, <1>4 DEF KindsFit
    <3>2. CASE k \in Len(c.events) + 1 .. Len(d.events)
      BY <3>2, <2>1, <1>1 DEF Tells, Shown
    <3> QED BY <3>1, <3>2, <1>3
  <2> QED BY <2>1, <1>2, <1>4 DEF KindsFit
<1>5. ASSUME PlainTexts(c)
      PROVE  PlainTexts(d)
  <2>1. ASSUME NEW k \in 1 .. Len(d.events), IsText(d.events[k])
        PROVE  d.events[k].text \in Seq(Units)
    <3>1. CASE k \in 1 .. Len(c.events)
      BY <3>1, <2>1, <1>1, <1>5 DEF PlainTexts
    <3>2. CASE k \in Len(c.events) + 1 .. Len(d.events)
      BY <3>2, <2>1, <1>1 DEF Tells, IsText
    <3> QED BY <3>1, <3>2, <1>3
  <2> QED BY <2>1 DEF PlainTexts
<1>6. NoText(d) => NoText(c)
  BY <1>1 DEF NoText
<1> QED BY <1>4, <1>5, <1>6

\* The end tells the reason, and nothing new of the kinds and the texts.
LEMMA EndTells ==
  ASSUME NEW c, NEW n, NEW open, Fits(c, n, open), NEW order, Lists(order, OpenBlocks(c)), NEW kinds
  PROVE  LET d == EndMessage(c, order)
             m == Len(d.events)
         IN  /\ d.events[m - 1].reason = StopReason(d) /\ d.stopReason = c.stopReason
             /\ KindsFit(c, kinds) => KindsFit(d, kinds)
             /\ PlainTexts(c) => PlainTexts(d)
             /\ NoText(d) => NoText(c)
             /\ FilledUp(c) => FilledUp(d)
             /\ \A k \in 1 .. Len(c.events) :
                  OnlyText(c, k) => k \in 1 .. m /\ OnlyText(d, k) /\ d.events[k] = c.events[k]
<1> DEFINE d == EndMessage(c, order)
           m == Len(d.events)
           l == Len(c.events)
<1>1. /\ KeepsRest(c, d) /\ d.stopReason = c.stopReason
      /\ Len(d.blocks) = Len(c.blocks)
      /\ \A j \in 1 .. Len(c.blocks) : d.blocks[j].kind = c.blocks[j].kind
      /\ m \in Nat /\ m >= l + 2
      /\ \A k \in 1 .. l : d.events[k] = c.events[k]
      /\ \A k \in l + 1 .. m - 2 : d.events[k].type = "content_block_stop"
      /\ d.events[m - 1] = [type |-> "message_delta", reason |-> StopReason(c), tokens |-> c.tokens]
      /\ d.events[m] = [type |-> "message_stop"]
  BY EndMessageEnds
<1>2. l \in Nat /\ Len(c.blocks) \in Nat
  BY LengthsTyped DEF Fits
<1> HIDE DEF d, m, l
<1>3. ASSUME NEW k \in 1 .. m, k \notin 1 .. l
      PROVE  ~Shown(d.events[k]) /\ ~IsText(d.events[k])
  <2>1. k \in l + 1 .. m - 2 \/ k = m - 1 \/ k = m
    BY <1>1, <1>2, <1>3
  <2>2. d.events[k].type \in {"content_block_stop", "message_delta", "message_stop"}
    BY <2>1, <1>1
  <2> QED BY <2>2 DEF Shown, IsText
<1>4. \A k \in 1 .. l : k \in 1 .. m
  BY <1>1, <1>2
<1>5. \A i, kind : PointsAt(c, i, kind) <=> PointsAt(d, i, kind)
  BY <1>1 DEF PointsAt
<1>6. KindsFit(c, kinds) => KindsFit(d, kinds)
  BY <1>1, <1>3, <1>5 DEF KindsFit, m, l
<1>7. PlainTexts(c) => PlainTexts(d)
  BY <1>1, <1>3 DEF PlainTexts, m, l
<1>8. ASSUME NEW k \in 1 .. l, OnlyText(c, k)
      PROVE  k \in 1 .. m /\ OnlyText(d, k) /\ d.events[k] = c.events[k]
  BY <1>1, <1>3, <1>4, <1>8 DEF OnlyText, m, l
<1>9. /\ NoText(d) => NoText(c)
      /\ FilledUp(c) => FilledUp(d)
  BY <1>1, <1>2 DEF NoText, FilledUp, KeepsRest
<1>10. StopReason(d) = StopReason(c)
  BY <1>1 DEF StopReason, KeepsRest
<1> QED BY <1>1, <1>6, <1>7, <1>8, <1>9, <1>10 DEF d, m, l

\* Where there is nothing but thinking, the space is the only text.
LEMMA FillTells ==
  ASSUME NEW c, NEW n, NEW open, Pointed(c, n, open), NEW kinds, KindsFit(c, kinds),
         c.thinkingIndex # 0, \A i \in DOMAIN c.blocks : c.blocks[i].kind = "thinking"
  PROVE  LET d == AddMissingText(c)
         IN  /\ KindsFit(d, kinds) /\ NoText(c) /\ FilledUp(d)
             /\ \E k \in 1 .. Len(d.events) : OnlyText(d, k) /\ d.events[k].text = <<Space>>
<1> DEFINE d == AddMissingText(c)
           l == Len(c.events)
<1>1. /\ d.stopReason = "max_tokens" /\ d.thinkingIndex = c.thinkingIndex
      /\ Len(d.blocks) = 2 /\ d.blocks[1].kind = "thinking" /\ d.blocks[2].kind = "text"
      /\ Len(c.blocks) = 1 /\ Len(d.events) = l + 2
      /\ \A k \in 1 .. l : d.events[k] = c.events[k]
      /\ d.events[l + 1] = [type |-> "content_block_start", index |-> 2, kind |-> "text"]
      /\ d.events[l + 2] = DeltaEvent(2, "text", <<Space>>)
  BY AddMissingTextFills
<1>2. l \in Nat /\ DOMAIN c.blocks = 1 .. Len(c.blocks)
  BY LengthsTyped DEF Pointed, Fits
<1>3. NoText(c) /\ FilledUp(d)
  BY <1>1, <1>2 DEF NoText, FilledUp
<1> HIDE DEF d, l
<1>4. \A i \in 1 .. Len(c.blocks) : c.blocks[i].kind = "thinking" /\ d.blocks[i].kind = "thinking"
  BY <1>1, <1>2
<1>5. \A i, kind : PointsAt(c, i, kind) => PointsAt(d, i, kind) /\ kind = "thinking"
  BY <1>1, <1>4 DEF PointsAt
<1>6. \A k \in 1 .. Len(d.events) : k \in 1 .. l \/ k = l + 1 \/ k = l + 2
  BY <1>1, <1>2
<1>7. PointsAt(d, 2, "text")
  BY <1>1 DEF PointsAt
<1>8. KindsFit(d, kinds)
  <2>1. ASSUME NEW k \in 1 .. Len(d.events), Shown(d.events[k])
        PROVE  PointsAt(d, d.events[k].index, d.events[k].kind)
    <3>1. CASE k \in 1 .. l
      BY <3>1, <2>1, <1>1, <1>5 DEF KindsFit, l
    <3>2. CASE k = l + 1 \/ k = l + 2
      BY <3>2, <1>1, <1>7 DEF DeltaEvent
    <3> QED BY <3>1, <3>2, <1>6
  <2> QED BY <2>1, <1>5 DEF KindsFit
<1>9. OnlyText(d, l + 2)
  <2>1. ASSUME NEW k \in 1 .. l
        PROVE  ~IsText(d.events[k])
    <3>1. IsText(c.events[k]) => PointsAt(c, c.events[k].index, "text")
      BY DEF KindsFit, IsText, Shown, l
    <3> QED BY <3>1, <1>1, <1>5 DEF IsText
  <2>2. ~IsText(d.events[l + 1]) /\ IsText(d.events[l + 2])
    BY <1>1 DEF IsText, DeltaEvent
  <2> QED BY <2>1, <2>2, <1>2, <1>6 DEF OnlyText
<1>10. l + 2 \in 1 .. Len(d.events) /\ d.events[l + 2].text = <<Space>>
  BY <1>1, <1>2 DEF DeltaEvent
<1> QED BY <1>3, <1>8, <1>9, <1>10 DEF d

\* At the end either no text is new but received text, or the one text is the space that fills
\* an answer with nothing but thinking.
LEMMA FinishTells ==
  ASSUME NEW c, NEW n, NEW open, Sound(c, n, open), NEW kinds, KindsFit(c, kinds),
         NEW order \in SetToSeqs(OpenBlocks(AddMissingText(FlushAll(c))))
  PROVE  LET d == EndMessage(AddMissingText(FlushAll(c)), order)
             m == Len(d.events)
         IN  /\ KindsFit(d, kinds) /\ d.events[m - 1].reason = StopReason(d)
             /\ \/ /\ d.stopReason = c.stopReason
                   /\ PlainTexts(c) => PlainTexts(d)
                   /\ NoText(d) => NoText(c)
                \/ /\ NoText(c) /\ FilledUp(d)
                   /\ \E k \in 1 .. m : OnlyText(d, k) /\ d.events[k].text = <<Space>>
<1> DEFINE f == FlushAll(c)
           g == AddMissingText(f)
           d == EndMessage(g, order)
           m == Len(d.events)
           Missing == f.thinkingIndex # 0 /\ \A i \in DOMAIN f.blocks : f.blocks[i].kind = "thinking"
<1>1. Pointed(f, n, open) /\ Grows(c, f)
  BY FlushAllPointed
<1>2. c \in Context /\ f \in Context
  BY <1>1 DEF Sound, Pointed, Fits
<1>3. /\ KindsFit(f, kinds) /\ f.stopReason = c.stopReason
      /\ PlainTexts(c) => PlainTexts(f)
      /\ NoText(f) => NoText(c)
  BY <1>1, <1>2, GrowsTells DEF Grows, Extends
<1> HIDE DEF f
<1>4. Pointed(g, n, open)
  BY <1>1, AddMissingTextPointed
<1>5. order \in SetToSeqs(OpenBlocks(g))
  BY DEF f
<1>6. Lists(order, OpenBlocks(g)) /\ Fits(g, n, open)
  <2> HIDE DEF g
  <2>1. g \in Context /\ Fits(g, n, open)
    BY <1>4 DEF Pointed, Fits
  <2>2. IsFiniteSet(OpenBlocks(g))
    BY <2>1, OpenBlocksFinite
  <2> QED BY <2>1, <2>2, <1>5, SetToSeqsList
<1>7. /\ KindsFit(g, kinds)
      /\ \/ /\ g.stopReason = c.stopReason
            /\ PlainTexts(c) => PlainTexts(g)
            /\ NoText(g) => NoText(c)
         \/ /\ NoText(c) /\ FilledUp(g)
            /\ \E k \in 1 .. Len(g.events) : OnlyText(g, k) /\ g.events[k].text = <<Space>>
  <2>1. CASE ~Missing
    <3>1. g = f
      BY <2>1 DEF AddMissingText
    <3> QED BY <3>1, <1>3
  <2>2. CASE Missing
    <3>1. /\ KindsFit(g, kinds) /\ NoText(f) /\ FilledUp(g)
          /\ \E k \in 1 .. Len(g.events) : OnlyText(g, k) /\ g.events[k].text = <<Space>>
      BY <2>2, <1>1, <1>3, FillTells
    <3> HIDE DEF g
    <3> QED BY <3>1, <1>3
  <2> QED BY <2>1, <2>2
<1> HIDE DEF g
<1>8. /\ KindsFit(d, kinds) /\ d.events[m - 1].reason = StopReason(d)
      /\ d.stopReason = g.stopReason
      /\ PlainTexts(g) => PlainTexts(d)
      /\ NoText(d) => NoText(g)
      /\ FilledUp(g) => FilledUp(d)
      /\ \A k \in 1 .. Len(g.events) :
           OnlyText(g, k) => k \in 1 .. m /\ OnlyText(d, k) /\ d.events[k] = g.events[k]
  BY <1>6, <1>7, EndTells
<1> HIDE DEF d, m
<1>9. CASE /\ g.stopReason = c.stopReason
           /\ PlainTexts(c) => PlainTexts(g)
           /\ NoText(g) => NoText(c)
  BY <1>8, <1>9 DEF d, m, g, f
<1>10. CASE /\ NoText(c) /\ FilledUp(g)
            /\ \E k \in 1 .. Len(g.events) : OnlyText(g, k) /\ g.events[k].text = <<Space>>
  <2>1. \E k \in 1 .. m : OnlyText(d, k) /\ d.events[k].text = <<Space>>
    BY <1>8, <1>10
  <2> QED BY <2>1, <1>8, <1>10 DEF d, m, g, f
<1> QED BY <1>7, <1>9, <1>10

LEMMA InitTold == Init => Told
<1> SUFFICES ASSUME Init
             PROVE  Told
  OBVIOUS
<1>1. PICK b \in Bounds, enabled \in BOOLEAN : \E text \in b.texts :
        ctx = InitialEvents(NewContext(enabled, b.buffered))
  BY DEF Init
<1>2. ctx = InitialEvents(NewContext(enabled, b.buffered)) /\ b.buffered \in BOOLEAN
  BY <1>1, StreamConstants
<1>3. /\ ctx.stopReason = "none" /\ ctx \in Context
      /\ Len(ctx.events) >= 1 /\ ctx.events[1].type = "message_start"
      /\ \A k \in 2 .. Len(ctx.events) : ctx.events[k] \in BlockEvent /\ Tells(ctx, ctx.events[k])
  BY <1>2, InitialEventsSound DEF Sound, Pointed, Fits
<1>4. Len(ctx.events) \in Nat /\ \A k \in 1 .. Len(ctx.events) : k = 1 \/ k \in 2 .. Len(ctx.events)
  <2>1. Len(ctx.events) \in Nat
    BY <1>3, LengthsTyped
  <2> QED BY <2>1
<1>5. client.kinds = <<>> /\ client.text = <<>> /\ client.phase = "new" /\ Len(client.kinds) = 0
  BY DEF Init, NewClient
<1>6. KindsFit(ctx, client.kinds)
  BY <1>3, <1>4, <1>5 DEF KindsFit, Shown, Tells
<1>7. PlainTexts(ctx)
  BY <1>3, <1>4 DEF PlainTexts, IsText, Tells
<1>8. ReasonTold
  <2>1. \A k \in 1 .. Len(ctx.events) : ctx.events[k].type # "message_delta"
    BY <1>3, <1>4, BlockEventTypes
  <2> QED BY <2>1, <1>5 DEF ReasonTold, Begun
<1>9. Plain
  BY <1>5, <1>7 DEF Plain
<1>10. Reported
  <2>1. notes = <<>>
    BY DEF Init
  <2> QED BY <2>1, <1>3 DEF Reported, Limits
<1> QED BY <1>6, <1>8, <1>9, <1>10 DEF Told

\* What the upstream sends is told as it is.
LEMMA ProducedTold ==
  ASSUME IInv, IInv', Told, Ready, client' = client, ctx' \in Context,
         NEW x \in Context, Grows(x, ctx'), x.events = ctx.events, x.blocks = ctx.blocks,
         ~x.finished, Reported'
  PROVE  Told'
<1>1. ~ctx.finished /\ ~ctx'.finished
  BY DEF Ready, Grows, Extends
<1>2. Plain /\ KindsFit(ctx, client.kinds)
  BY <1>1 DEF Told, Filled
<1>3. /\ KindsFit(x, client.kinds) /\ PlainTexts(x)
      /\ NoText(x) => client.text = <<>>
  BY <1>2 DEF KindsFit, PointsAt, PlainTexts, Plain, NoText
<1>4. /\ KindsFit(ctx', client.kinds) /\ PlainTexts(ctx')
      /\ NoText(ctx') => client.text = <<>>
  BY <1>3, GrowsTells
<1>5. ReasonTold'
  <2>1. \A k \in 1 .. Len(ctx'.events) : ctx'.events[k].type # "message_delta"
    BY <1>1 DEF IInv, MessageInTurn
  <2>2. Begun'
    BY <1>1 DEF IInv, MessageInTurn, Begun, Typed, Client
  <2> QED BY <2>1, <2>2 DEF ReasonTold
<1>6. Plain'
  BY <1>2, <1>4 DEF Plain
<1>7. KindsFit(ctx, client.kinds)'
  BY <1>4
<1> QED BY <1>5, <1>6, <1>7 DEF Told

LEMMA ReceiveTextTold ==
  ASSUME IInv, IInv', Told, ReceiveText
  PROVE  Told'
<1>1. Ready /\ client' = client /\ notes' = notes
  BY DEF ReceiveText
<1>2. PICK n \in DOMAIN upstream.rest :
        ctx' = ProcessAssistantResponse(ctx, SubSeq(upstream.rest, 1, n))
  BY DEF ReceiveText
<1>3. /\ Sound(ctx, Len(client.kinds), client.open) /\ Flushed(ctx)
      /\ ctx \in Context /\ ~ctx.finished
      /\ upstream \in [rest : Seq(Units), events : Nat, calls : SUBSET Tools]
  BY <1>1, ReadyContext
<1>4. SubSeq(upstream.rest, 1, n) \in Seq(Units)
  <2>1. /\ upstream.rest \in Seq(Units) /\ n \in 1 .. Len(upstream.rest)
        /\ Len(upstream.rest) \in Nat
    BY <1>2, <1>3
  <2>2. 1 \in Int /\ 1 <= 1 /\ n \in Int /\ n <= Len(upstream.rest)
    BY <2>1
  <2> QED BY <2>1, <2>2, PieceTyped
<1>5. Grows(ctx, ctx')
  BY <1>2, <1>3, <1>4, ProcessAssistantResponseSound
<1>6. Reported'
  <2>1. Reported /\ ctx'.stopReason = ctx.stopReason /\ Limits' = Limits
    BY <1>1, <1>3, <1>5 DEF Told, Filled, Grows, Extends, Limits
  <2> QED BY <2>1, <1>1 DEF Reported, LastLimit
<1>7. ctx' \in Context
  BY DEF IInv, ContextFits, Pointed, Fits
<1> QED BY <1>1, <1>3, <1>5, <1>6, <1>7, ProducedTold

LEMMA ReceiveToolUseTold ==
  ASSUME IInv, IInv', Told, NEW id \in Tools, NEW input \in BOOLEAN, NEW stop \in BOOLEAN,
         ReceiveToolUse(id, input, stop)
  PROVE  Told'
<1>1. /\ Ready /\ client' = client /\ notes' = notes
      /\ ctx' = ProcessToolUse(ctx, id, input, stop)
  BY DEF ReceiveToolUse
<1>2. /\ Sound(ctx, Len(client.kinds), client.open) /\ Flushed(ctx)
      /\ ctx \in Context /\ ~ctx.finished
  BY <1>1, ReadyContext
<1>3. Grows(ctx, ctx')
  BY <1>1, <1>2, ProcessToolUseSound
<1>4. Reported'
  <2>1. Reported /\ ctx'.stopReason = ctx.stopReason /\ Limits' = Limits
    BY <1>1, <1>2, <1>3 DEF Told, Filled, Grows, Extends, Limits
  <2> QED BY <2>1, <1>1 DEF Reported, LastLimit
<1>5. ctx' \in Context
  BY DEF IInv, ContextFits, Pointed, Fits
<1> QED BY <1>1, <1>2, <1>3, <1>4, <1>5, ProducedTold

\* The last limit reported decides, also when a count is reported after it.
LEMMA ReceiveNoteTold ==
  ASSUME IInv, IInv', Told, NEW note \in {"usage", "full", "length"}, ReceiveNote(note)
  PROVE  Told'
<1> DEFINE reason == CASE note = "full" -> "model_context_window_exceeded"
                       [] note = "length" -> "max_tokens"
                       [] OTHER -> ctx.stopReason
           tokens == IF note = "length" THEN ctx.tokens ELSE "measured"
           l == Len(notes)
<1>1. /\ Ready /\ client' = client /\ notes' = Append(notes, note)
      /\ ctx' = [ctx EXCEPT !.tokens = tokens, !.stopReason = reason]
  BY DEF ReceiveNote
<1>2. /\ ctx \in Context /\ ~ctx.finished /\ notes \in Seq({"usage", "full", "length"})
  BY <1>1, ReadyContext
<1> HIDE DEF tokens
<1>3. /\ ctx'.events = ctx.events /\ ctx'.blocks = ctx.blocks /\ ctx'.finished = ctx.finished
      /\ ctx'.stopReason = reason
  <2> HIDE DEF reason
  <2> QED BY <1>1, <1>2 DEF Context
<1>4. ctx' \in Context
  BY DEF IInv, ContextFits, Pointed, Fits
<1>5. Grows(ctx', ctx')
  BY <1>4, GrowsItself
<1>6. Reported
  BY <1>2 DEF Told, Filled
<1>7. /\ l \in Nat /\ DOMAIN notes = 1 .. l /\ DOMAIN notes' = 1 .. l + 1
      /\ \A i \in 1 .. l : notes'[i] = notes[i]
      /\ notes'[l + 1] = note
  BY <1>1, <1>2
<1> HIDE DEF l
<1>8. Reported'
  <2>1. CASE note = "usage"
    <3>1. Limits' = Limits /\ reason = ctx.stopReason
      BY <2>1, <1>7 DEF Limits
    <3>2. \A i \in Limits : notes'[i] = notes[i]
      BY <1>7 DEF Limits
    <3>3. CASE Limits = {}
      BY <3>1, <3>3, <1>3, <1>6 DEF Reported
    <3>4. CASE Limits # {}
      <4>1. PICK i \in Limits : /\ LastLimit(i)
                                /\ ctx.stopReason = IF notes[i] = "full" THEN "model_context_window_exceeded"
                                                    ELSE "max_tokens"
        BY <3>4, <1>6 DEF Reported
      <4> QED BY <3>1, <3>2, <4>1, <1>3 DEF Reported, LastLimit
    <3> QED BY <3>3, <3>4
  <2>2. CASE note # "usage"
    <3>1. l + 1 \in Limits'
      BY <2>2, <1>7 DEF Limits
    <3>2. \A j \in Limits' : j <= l + 1
      BY <1>7 DEF Limits
    <3>3. reason = IF notes'[l + 1] = "full" THEN "model_context_window_exceeded" ELSE "max_tokens"
      BY <2>2, <1>7
    <3> QED BY <3>1, <3>2, <3>3, <1>3 DEF Reported, LastLimit
  <2> QED BY <2>1, <2>2
<1> HIDE DEF reason
<1> QED BY <1>1, <1>2, <1>3, <1>4, <1>5, <1>8, ProducedTold

\* The answer ends with the reason of the last limit, or is filled up.
LEMMA FinishTold ==
  ASSUME IInv, IInv', Told, Finish
  PROVE  Told'
<1>1. Ready /\ client' = client /\ notes' = notes
  BY DEF Finish
<1>2. /\ Sound(ctx, Len(client.kinds), client.open) /\ Flushed(ctx)
      /\ ctx \in Context /\ ~ctx.finished
  BY <1>1, ReadyContext
<1>3. PICK order \in SetToSeqs(OpenBlocks(AddMissingText(FlushAll(ctx)))) :
        LET ended == EndMessage(AddMissingText(FlushAll(ctx)), order)
        IN ctx' = [ended EXCEPT !.finished = TRUE,
                     !.events = IF ctx.buffered THEN Corrected(@, ctx.tokens) ELSE @]
  BY DEF Finish
<1> DEFINE d == EndMessage(AddMissingText(FlushAll(ctx)), order)
           m == Len(d.events)
           F == IF ctx.buffered THEN Corrected(d.events, ctx.tokens) ELSE d.events
<1>4. /\ Pointed(d, Len(client.kinds), client.open) /\ m \in Nat /\ m >= 2
      /\ d.events[m - 1].type = "message_delta"
  <2> HIDE DEF d
  <2>1. /\ Pointed(d, Len(client.kinds), client.open) /\ m \in Nat /\ m >= Len(ctx.events) + 2
        /\ d.events[m - 1].type = "message_delta"
    BY <1>2, FinishEvents DEF d
  <2>2. Len(ctx.events) \in Nat
    BY <1>2, LengthsTyped
  <2> QED BY <2>1, <2>2
<1>5. Plain /\ Reported /\ KindsFit(ctx, client.kinds)
  BY <1>2 DEF Told, Filled
<1>6. /\ KindsFit(d, client.kinds) /\ d.events[m - 1].reason = StopReason(d)
      /\ \/ /\ d.stopReason = ctx.stopReason
            /\ PlainTexts(ctx) => PlainTexts(d)
            /\ NoText(d) => NoText(ctx)
         \/ /\ NoText(ctx) /\ FilledUp(d)
            /\ \E k \in 1 .. m : OnlyText(d, k) /\ d.events[k].text = <<Space>>
  BY <1>2, <1>5, FinishTells
<1>7. ctx' = [d EXCEPT !.finished = TRUE, !.events = F]
  BY <1>3
<1>8. d \in Context /\ d.events \in Seq(Event) /\ ctx.tokens \in Counts
  BY <1>2, <1>4 DEF Pointed, Fits, Context
<1> HIDE DEF d
<1>9. /\ F \in Seq(Event) /\ Len(F) = m
      /\ \A k \in 1 .. m : /\ F[k].type = d.events[k].type
                           /\ d.events[k].type # "message_start" => F[k] = d.events[k]
  BY <1>8, CorrectedTyped
<1> HIDE DEF F, m
<1>10. /\ ctx'.events = F /\ ctx'.finished /\ ctx'.blocks = d.blocks
       /\ ctx'.stopReason = d.stopReason /\ ctx'.hasTool = d.hasTool
       /\ ctx'.thinkingIndex = d.thinkingIndex
  BY <1>7, <1>8, <1>9 DEF Context
<1>11. \A k \in 1 .. m : /\ Shown(F[k]) <=> Shown(d.events[k])
                         /\ IsText(F[k]) <=> IsText(d.events[k])
                         /\ Shown(F[k]) \/ IsText(F[k]) => F[k] = d.events[k]
  BY <1>9 DEF Shown, IsText
<1>12. Len(ctx'.events) = m
  BY <1>9, <1>10
<1>13. KindsFit(ctx', client.kinds)
  BY <1>6, <1>10, <1>11, <1>12 DEF KindsFit, PointsAt, m
<1>14. ReasonTold'
  <2>1. StopReason(ctx') = StopReason(d)
    BY <1>10 DEF StopReason
  <2>2. ASSUME NEW k \in 1 .. m, F[k].type = "message_delta"
        PROVE  F[k].reason = StopReason(d)
    <3>1. k = m - 1
      BY <2>2, <1>10, <1>12 DEF IInv, MessageInTurn
    <3>2. F[k] = d.events[k]
      BY <2>2, <1>9
    <3> QED BY <3>1, <3>2, <1>6
  <2>3. Begun'
    BY <1>1, <1>2 DEF IInv, MessageInTurn, Begun, Typed, Client
  <2> QED BY <2>1, <2>2, <2>3, <1>10, <1>12 DEF ReasonTold
<1>15. CASE /\ d.stopReason = ctx.stopReason
            /\ PlainTexts(ctx) => PlainTexts(d)
            /\ NoText(d) => NoText(ctx)
  <2>1. PlainTexts(ctx')
    BY <1>5, <1>10, <1>11, <1>12, <1>15 DEF PlainTexts, Plain, m
  <2>2. NoText(ctx') => client.text = <<>>
    BY <1>5, <1>10, <1>15 DEF NoText, Plain
  <2>3. Plain'
    BY <1>1, <1>5, <2>1, <2>2 DEF Plain
  <2>4. Reported'
    <3>1. Limits' = Limits
      BY <1>1 DEF Limits
    <3> QED BY <3>1, <1>1, <1>5, <1>10, <1>15 DEF Reported, LastLimit
  <2> QED BY <2>3, <2>4, <1>1, <1>13, <1>14 DEF Told
<1>16. CASE /\ NoText(ctx) /\ FilledUp(d)
            /\ \E k \in 1 .. m : OnlyText(d, k) /\ d.events[k].text = <<Space>>
  <2>1. client'.text = <<>>
    BY <1>1, <1>5, <1>16 DEF Plain
  <2>2. FilledUp(ctx')
    BY <1>10, <1>16 DEF FilledUp
  <2>3. \E k \in 1 .. Len(ctx'.events) : OnlyText(ctx', k) /\ ctx'.events[k].text = <<Space>>
    <3>1. PICK k \in 1 .. m : OnlyText(d, k) /\ d.events[k].text = <<Space>>
      BY <1>16
    <3>2. IsText(d.events[k])
      BY <3>1 DEF OnlyText, m
    <3>3. ctx'.events[k].text = <<Space>>
      BY <3>1, <3>2, <1>10, <1>11
    <3>4. OnlyText(ctx', k)
      BY <3>1, <1>10, <1>11, <1>12 DEF OnlyText, m
    <3> QED BY <3>3, <3>4, <1>12
  <2>4. Filled'
    BY <2>1, <2>2, <2>3, <1>10 DEF Filled
  <2> QED BY <2>4, <1>1, <1>13, <1>14 DEF Told
<1> QED BY <1>6, <1>15, <1>16

\* What the client has made of an event.
LEMMA DeliveredTexts ==
  ASSUME IInv, Deliver
  PROVE  LET e == Head(ctx.events)
         IN  /\ client'.kinds = IF e.type = "content_block_start" THEN Append(client.kinds, e.kind)
                                ELSE client.kinds
             /\ client'.text = IF IsText(e) THEN client.text \o e.text ELSE client.text
             /\ client'.reason = IF e.type = "message_delta" THEN e.reason ELSE client.reason
<1> DEFINE e == Head(ctx.events)
<1>1. client \in Client
  BY DEF IInv, Typed
<1>2. /\ \/ /\ e.type = "message_start"
            /\ client' = [Got(e) EXCEPT !.phase = "streaming", !.input = e.tokens]
         \/ /\ e.type = "content_block_start"
            /\ client' = [Got(e) EXCEPT !.kinds = Append(@, e.kind), !.open = @ \cup {e.index}]
         \/ /\ e.type = "content_block_delta"
            /\ client' = [Got(e) EXCEPT
                            !.thinking = IF e.kind = "thinking" THEN @ \o e.text ELSE @,
                            !.text = IF e.kind = "text" THEN @ \o e.text ELSE @,
                            !.order = @ \o e.text]
         \/ /\ e.type = "content_block_stop"
            /\ client' = [Got(e) EXCEPT !.open = @ \ {e.index}]
         \/ /\ e.type = "message_delta"
            /\ client' = [Got(e) EXCEPT !.phase = "closing", !.reason = e.reason, !.total = e.tokens]
         \/ /\ e.type = "message_stop"
            /\ client' = [Got(e) EXCEPT !.phase = "ended"]
  BY DeliverStep
<1> HIDE DEF e
<1> DEFINE g == Got(e)
<1>3. /\ g.kinds = client.kinds /\ g.text = client.text /\ g.reason = client.reason
      /\ DOMAIN g = DOMAIN client
  <2>1. g = [client EXCEPT !.last = [type |-> e.type, index |-> IF "index" \in DOMAIN e THEN e.index ELSE 0]]
    BY DEF Got
  <2> HIDE DEF g
  <2> QED BY <2>1, <1>1 DEF Client
<1> HIDE DEF g
<1>4. DOMAIN g = {"phase", "kinds", "open", "last", "thinking", "text", "order", "input", "reason", "total"}
  BY <1>1, <1>3 DEF Client
<1>5. CASE e.type = "message_start"
  <2>1. client' = [g EXCEPT !.phase = "streaming", !.input = e.tokens]
    BY <1>2, <1>5 DEF g
  <2> QED BY <2>1, <1>3, <1>4, <1>5 DEF IsText, e
<1>6. CASE e.type = "content_block_start"
  <2>1. client' = [g EXCEPT !.kinds = Append(@, e.kind), !.open = @ \cup {e.index}]
    BY <1>2, <1>6 DEF g
  <2> QED BY <2>1, <1>3, <1>4, <1>6 DEF IsText, e
<1>7. CASE e.type = "content_block_delta"
  <2>1. client' = [g EXCEPT !.thinking = IF e.kind = "thinking" THEN @ \o e.text ELSE @,
                            !.text = IF e.kind = "text" THEN @ \o e.text ELSE @,
                            !.order = @ \o e.text]
    BY <1>2, <1>7 DEF g
  <2> QED BY <2>1, <1>3, <1>4, <1>7 DEF IsText, e
<1>8. CASE e.type = "content_block_stop"
  <2>1. client' = [g EXCEPT !.open = @ \ {e.index}]
    BY <1>2, <1>8 DEF g
  <2> QED BY <2>1, <1>3, <1>4, <1>8 DEF IsText, e
<1>9. CASE e.type = "message_delta"
  <2>1. client' = [g EXCEPT !.phase = "closing", !.reason = e.reason, !.total = e.tokens]
    BY <1>2, <1>9 DEF g
  <2> QED BY <2>1, <1>3, <1>4, <1>9 DEF IsText, e
<1>10. CASE e.type = "message_stop"
  <2>1. client' = [g EXCEPT !.phase = "ended"]
    BY <1>2, <1>10 DEF g
  <2> QED BY <2>1, <1>3, <1>4, <1>10 DEF IsText, e
<1> QED BY <1>2, <1>5, <1>6, <1>7, <1>8, <1>9, <1>10

LEMMA DeliverTold ==
  ASSUME IInv, IInv', Told, Deliver
  PROVE  Told'
<1> DEFINE e == Head(ctx.events)
           T == Tail(ctx.events)
           m == Len(ctx.events)
           n == Len(client.kinds)
<1>1. /\ ctx' = [ctx EXCEPT !.events = T] /\ notes' = notes /\ ctx.events # <<>>
  BY DEF Deliver
<1>2. /\ ctx \in Context /\ ctx.events \in Seq(Event) /\ ctx.blocks \in Seq(Block)
      /\ Consistent(ctx.events, ctx.blocks, n, client.open)
      /\ client.kinds \in Seq(Kinds) /\ client.text \in Seq(Letters)
  BY DEF IInv, ContextFits, Pointed, Fits, Context, Typed, Client
<1>3. e.type = "content_block_start" => e.index = n + 1
  <2>1. /\ \A i : i \in client'.open <=> (i \in client.open \/ Starts(e, i)) /\ ~Stops(e, i)
        /\ Len(client'.kinds) = IF e.type = "content_block_start" THEN n + 1 ELSE n
    BY DeliveredClient
  <2> HIDE DEF n
  <2> QED BY <1>1, <1>2, <2>1, DeliveredConsistent
<1>4. /\ m \in Nat /\ m >= 1 /\ n \in Nat /\ T \in Seq(Event) /\ Len(T) = m - 1 /\ e = ctx.events[1]
      /\ \A k \in 1 .. m - 1 : T[k] = ctx.events[k + 1]
  <2>1. T \in Seq(Event) /\ Len(T) = m - 1 /\ e = ctx.events[1] /\ m \in Nat /\ m >= 1 /\ n \in Nat
    BY <1>1, <1>2, HeadTailProperties, LenProperties, EmptySeq
  <2>2. \A k \in 1 .. m - 1 : T[k] = ctx.events[k + 1]
    BY <1>1, <1>2, <2>1
  <2> QED BY <2>1, <2>2
<1>5. /\ client'.kinds = IF e.type = "content_block_start" THEN Append(client.kinds, e.kind)
                         ELSE client.kinds
      /\ client'.text = IF IsText(e) THEN client.text \o e.text ELSE client.text
      /\ client'.reason = IF e.type = "message_delta" THEN e.reason ELSE client.reason
  BY DeliveredTexts
<1>6. client'.phase = IF e.type = "message_start" THEN "streaming"
                      ELSE IF e.type = "message_delta" THEN "closing"
                      ELSE IF e.type = "message_stop" THEN "ended" ELSE client.phase
  BY DeliveredClient
<1>7. e.type = "message_stop" => client.phase = "closing"
  BY DeliverStep
<1> HIDE DEF e, T, m, n
<1>8. /\ ctx'.events = T /\ ctx'.blocks = ctx.blocks /\ ctx'.finished = ctx.finished
      /\ ctx'.stopReason = ctx.stopReason /\ ctx'.hasTool = ctx.hasTool
      /\ ctx'.thinkingIndex = ctx.thinkingIndex
  BY <1>1, <1>2 DEF Context
<1>9. Len(ctx'.events) = m - 1 /\ 1 \in 1 .. m /\ \A k \in 1 .. m - 1 : k + 1 \in 1 .. m
  BY <1>4, <1>8
<1>10. KindsFit(ctx, client.kinds)
  BY DEF Told
<1>11. KindsFit(ctx', client'.kinds)
  <2>1. ASSUME NEW k \in 1 .. m - 1, Shown(T[k])
        PROVE  PointsAt(ctx', T[k].index, T[k].kind)
    <3>1. T[k] = ctx.events[k + 1] /\ k + 1 \in 1 .. m
      BY <1>4, <1>9
    <3> QED BY <3>1, <2>1, <1>8, <1>10 DEF KindsFit, PointsAt, m
  <2>2. ASSUME NEW i \in 1 .. Len(client'.kinds)
        PROVE  PointsAt(ctx', i, client'.kinds[i])
    <3>1. CASE e.type = "content_block_start"
      <4>1. PointsAt(ctx, n + 1, e.kind)
        BY <3>1, <1>3, <1>4, <1>9, <1>10 DEF KindsFit, Shown, m
      <4>2. /\ i \in 1 .. n \/ i = n + 1
            /\ \A j \in 1 .. n : client'.kinds[j] = client.kinds[j]
            /\ client'.kinds[n + 1] = e.kind
        <5>1. client'.kinds = Append(client.kinds, e.kind)
          BY <3>1, <1>5
        <5>2. Len(client'.kinds) = n + 1
          BY <5>1, <1>2 DEF n
        <5>3. /\ \A j \in 1 .. n : client'.kinds[j] = client.kinds[j]
              /\ client'.kinds[n + 1] = e.kind
          BY <5>1, <1>2 DEF n
        <5>4. i \in 1 .. n \/ i = n + 1
          BY <5>2, <1>4
        <5> QED BY <5>3, <5>4
      <4> QED BY <4>1, <4>2, <1>8, <1>10 DEF KindsFit, PointsAt, n
    <3>2. CASE e.type # "content_block_start"
      BY <3>2, <1>5, <1>8, <1>10 DEF KindsFit, PointsAt
    <3> QED BY <3>1, <3>2
  <2> QED BY <2>1, <2>2, <1>8, <1>9 DEF KindsFit
<1>12. ReasonTold'
  <2>1. StopReason(ctx') = StopReason(ctx)
    BY <1>8 DEF StopReason
  <2>2. ASSUME NEW k \in 1 .. m - 1, T[k].type = "message_delta"
        PROVE  T[k].reason = StopReason(ctx)
    BY <2>2, <1>4, <1>9 DEF Told, ReasonTold, m
  <2>3. ~Begun' => client'.reason = StopReason(ctx)
    <3>1. CASE e.type = "message_delta"
      BY <3>1, <1>4, <1>5, <1>9 DEF Told, ReasonTold, m
    <3>2. CASE e.type # "message_delta"
      <4>1. ~Begun' => ~Begun
        BY <3>2, <1>6, <1>7 DEF Begun
      <4> QED BY <4>1, <3>2, <1>5 DEF Told, ReasonTold
    <3> QED BY <3>1, <3>2
  <2> QED BY <2>1, <2>2, <2>3, <1>8, <1>9 DEF ReasonTold
<1>13. CASE Plain /\ Reported
  <2>1. PlainTexts(ctx')
    <3>1. \A k \in 1 .. m - 1 : IsText(T[k]) => T[k].text \in Seq(Units)
      BY <1>4, <1>9, <1>13 DEF Plain, PlainTexts, m
    <3> QED BY <3>1, <1>8, <1>9 DEF PlainTexts
  <2>2. client'.text \in Seq(Units)
    <3>1. IsText(e) => e.text \in Seq(Units)
      BY <1>4, <1>9, <1>13 DEF Plain, PlainTexts, m
    <3>2. client.text \in Seq(Units)
      BY <1>13 DEF Plain
    <3>3. IsText(e) => client.text \o e.text \in Seq(Units)
      BY <3>1, <3>2
    <3> QED BY <3>2, <3>3, <1>5
  <2>3. NoText(ctx') => client'.text = <<>>
    <3>1. NoText(ctx) => ~IsText(e)
      BY <1>4, <1>9, <1>10 DEF KindsFit, Shown, IsText, NoText, PointsAt, m
    <3>2. NoText(ctx) => client.text = <<>>
      BY <1>13 DEF Plain
    <3>3. NoText(ctx') <=> NoText(ctx)
      BY <1>8 DEF NoText
    <3> QED BY <3>1, <3>2, <3>3, <1>5
  <2>4. Plain'
    BY <2>1, <2>2, <2>3 DEF Plain
  <2>5. Reported'
    <3>1. Limits' = Limits
      BY <1>1 DEF Limits
    <3> QED BY <3>1, <1>1, <1>8, <1>13 DEF Reported, LastLimit
  <2> QED BY <2>4, <2>5, <1>11, <1>12 DEF Told
<1>14. CASE Filled
  <2>1. ctx'.finished /\ FilledUp(ctx')
    BY <1>8, <1>14 DEF Filled, FilledUp
  <2>2. CASE client.text = <<Space>> /\ \A k \in 1 .. m : ~IsText(ctx.events[k])
    <3>1. client'.text = <<Space>>
      BY <2>2, <1>4, <1>5, <1>9
    <3>2. \A k \in 1 .. Len(ctx'.events) : ~IsText(ctx'.events[k])
      BY <2>2, <1>4, <1>8, <1>9
    <3>3. Filled'
      BY <2>1, <3>1, <3>2 DEF Filled
    <3> QED BY <3>3, <1>11, <1>12 DEF Told
  <2>3. CASE /\ client.text = <<>>
             /\ \E k \in 1 .. m : OnlyText(ctx, k) /\ ctx.events[k].text = <<Space>>
    <3>1. PICK k \in 1 .. m : OnlyText(ctx, k) /\ ctx.events[k].text = <<Space>>
      BY <2>3
    <3>2. \A j \in 1 .. m : IsText(ctx.events[j]) <=> j = k
      BY <3>1 DEF OnlyText, m
    <3>3. CASE k = 1
      <4>1. client'.text = <<>> \o <<Space>>
        BY <2>3, <3>1, <3>2, <3>3, <1>4, <1>5, <1>9
      <4>2. client'.text = <<Space>>
        BY <4>1
      <4>3. \A j \in 1 .. Len(ctx'.events) : ~IsText(ctx'.events[j])
        <5>1. \A j \in 1 .. m - 1 : j + 1 # 1 /\ j + 1 \in 1 .. m
          BY <1>4
        <5> QED BY <5>1, <3>2, <3>3, <1>4, <1>8, <1>9
      <4>4. Filled'
        BY <2>1, <4>2, <4>3 DEF Filled
      <4> QED BY <4>4, <1>11, <1>12 DEF Told
    <3>4. CASE k # 1
      <4>1. k - 1 \in 1 .. m - 1 /\ (k - 1) + 1 = k
        BY <3>4, <1>4
      <4>2. client'.text = <<>>
        BY <2>3, <3>2, <3>4, <1>4, <1>5, <1>9
      <4>3. T[k - 1] = ctx.events[k]
        BY <4>1, <1>4
      <4>4. \A j \in 1 .. m - 1 : IsText(T[j]) <=> j = k - 1
        <5>1. \A j \in 1 .. m - 1 : j + 1 = k <=> j = k - 1
          BY <1>4
        <5>2. \A j \in 1 .. m - 1 : T[j] = ctx.events[j + 1] /\ j + 1 \in 1 .. m
          BY <1>4, <1>9
        <5> QED BY <5>1, <5>2, <3>2
      <4>5. OnlyText(ctx', k - 1)
        BY <4>4, <1>8, <1>9 DEF OnlyText
      <4>6. \E i \in 1 .. Len(ctx'.events) : OnlyText(ctx', i) /\ ctx'.events[i].text = <<Space>>
        BY <4>1, <4>3, <4>5, <3>1, <1>8, <1>9
      <4>7. Filled'
        BY <2>1, <4>2, <4>6 DEF Filled
      <4> QED BY <4>7, <1>11, <1>12 DEF Told
    <3> QED BY <3>3, <3>4
  <2> QED BY <2>2, <2>3, <1>14 DEF Filled, m
<1> QED BY <1>13, <1>14 DEF Told

LEMMA StepTold == IInv /\ IInv' /\ Told /\ [Next]_vars => Told'
<1> SUFFICES ASSUME IInv, IInv', Told, [Next]_vars
             PROVE  Told'
  OBVIOUS
<1>1. CASE ReceiveText
  BY <1>1, ReceiveTextTold
<1>2. CASE \E id \in Tools, input, stop \in BOOLEAN : ReceiveToolUse(id, input, stop)
  BY <1>2, ReceiveToolUseTold
<1>3. CASE \E note \in {"usage", "full", "length"} : ReceiveNote(note)
  BY <1>3, ReceiveNoteTold
<1>4. CASE Finish
  BY <1>4, FinishTold
<1>5. CASE Deliver
  BY <1>5, DeliverTold
<1>6. CASE UNCHANGED vars
  BY <1>6 DEF vars, Told, KindsFit, PointsAt, ReasonTold, Begun, Plain, PlainTexts, NoText, Reported,
              Limits, LastLimit, Filled, FilledUp, OnlyText
<1>7. CASE Ended
  BY <1>6, <1>7 DEF Ended
<1> QED BY <1>1, <1>2, <1>3, <1>4, <1>5, <1>6, <1>7 DEF Next

\* The stop reason is that of the last limit reported, whatever was reported and called before and
\* after it, else it says whether a tool is called.  Only an answer with nothing but thinking gets
\* max_tokens without a limit, and every such answer gets it
\* (stream.rs: SseStateManager::get_stop_reason and StreamContext::generate_final_events).
THEOREM StopReasonTold == Spec => []StopReasonMatches
<1>1. IInv /\ Told => StopReasonMatches
  <2> SUFFICES ASSUME IInv, Told, client.phase = "ended"
               PROVE  /\ client.reason = UsualReason \/ (ThinkingOnly /\ client.reason = "max_tokens")
                      /\ ThinkingOnly /\ Space \notin Units => client.reason = "max_tokens"
    BY DEF StopReasonMatches
  <2>1. /\ client.reason = StopReason(ctx) /\ Len(ctx.events) = 0
        /\ KindsFit(ctx, client.kinds)
    BY DEF Told, ReasonTold, IInv, MessageInTurn, Begun
  <2>2. CASE Plain /\ Reported
    <3>1. client.reason = UsualReason
      <4>1. CASE Limits = {} /\ ctx.stopReason = "none"
        BY <2>1, <4>1 DEF StopReason, UsualReason
      <4>2. CASE \E i \in Limits : /\ LastLimit(i)
                                   /\ ctx.stopReason = IF notes[i] = "full" THEN "model_context_window_exceeded"
                                                       ELSE "max_tokens"
        <5>1. PICK i \in Limits : /\ LastLimit(i)
                                  /\ ctx.stopReason = IF notes[i] = "full" THEN "model_context_window_exceeded"
                                                      ELSE "max_tokens"
          BY <4>2
        <5>2. Max(Limits) = i
          <6>1. Limits \subseteq Nat
            BY DEF Limits, IInv, Typed
          <6>2. \A j \in Limits : i >= j
            BY <5>1, <6>1 DEF LastLimit
          <6>3. \A x \in Limits : (\A y \in Limits : x >= y) => x = i
            BY <5>1, <6>1, <6>2
          <6> QED BY <5>1, <6>2, <6>3 DEF Max
        <5> QED BY <2>1, <5>1, <5>2 DEF StopReason, UsualReason
      <4> QED BY <2>2, <4>1, <4>2 DEF Reported
    <3>2. ThinkingOnly => Space \in Units
      <4>1. <<Space>> \in Seq(Units) => Space \in Units
        <5> SUFFICES ASSUME <<Space>> \in Seq(Units)
                     PROVE  Space \in Units
          OBVIOUS
        <5>1. Len(<<Space>>) = 1 /\ <<Space>>[1] = Space
          OBVIOUS
        <5> QED BY <5>1
      <4> QED BY <2>2, <4>1 DEF ThinkingOnly, Plain
    <3> QED BY <3>1, <3>2
  <2>3. CASE Filled
    <3>1. client.text = <<Space>>
      BY <2>1, <2>3 DEF Filled
    <3>2. client.reason = "max_tokens"
      BY <2>1, <2>3 DEF Filled, FilledUp, StopReason
    <3>3. client.kinds = <<"thinking", "text">>
      <4>1. client.kinds \in Seq(Kinds) /\ Len(client.kinds) \in Nat
        BY DEF IInv, Typed, Client
      <4>2. /\ Len(ctx.blocks) = 2 /\ ctx.blocks[1].kind = "thinking" /\ ctx.blocks[2].kind = "text"
        BY <2>3 DEF Filled, FilledUp
      <4>3. ASSUME NEW i \in Len(client.kinds) + 1 .. 2
            PROVE  FALSE
        <5>1. AllStarted(ctx.events, ctx.blocks, Len(client.kinds))
          BY DEF IInv, ContextFits, Pointed, Fits, Consistent
        <5>2. \E j \in 1 .. 0 : Starts(ctx.events[j], i)
          BY <2>1, <4>2, <4>3, <5>1 DEF AllStarted
        <5> QED BY <5>2
      <4>4. \A i \in 1 .. Len(client.kinds) : i \in 1 .. 2 /\ client.kinds[i] = ctx.blocks[i].kind
        BY <2>1, <4>2 DEF KindsFit, PointsAt
      <4>5. Len(client.kinds) = 2
        <5>1. Len(client.kinds) >= 2
          <6> SUFFICES ASSUME Len(client.kinds) < 2
                       PROVE  FALSE
            BY <4>1
          <6>1. 2 \in Len(client.kinds) + 1 .. 2
            BY <4>1
          <6> QED BY <6>1, <4>3
        <5>2. Len(client.kinds) <= 2
          <6> SUFFICES ASSUME Len(client.kinds) > 2
                       PROVE  FALSE
            BY <4>1
          <6>1. Len(client.kinds) \in 1 .. Len(client.kinds)
            BY <4>1
          <6> QED BY <6>1, <4>4
        <5> DEFINE l == Len(client.kinds)
        <5>3. l \in Nat /\ l >= 2 /\ l <= 2
          BY <4>1, <5>1, <5>2
        <5> HIDE DEF l
        <5>4. l = 2
          BY <5>3
        <5> QED BY <5>4 DEF l
      <4>6. client.kinds[1] = "thinking" /\ client.kinds[2] = "text"
        BY <4>2, <4>4, <4>5
      <4> QED BY <4>1, <4>5, <4>6
    <3>4. ThinkingOnly
      BY <2>3, <3>1, <3>3 DEF ThinkingOnly, Filled, FilledUp
    <3> QED BY <3>2, <3>4
  <2> QED BY <2>2, <2>3 DEF Told
<1> QED BY <1>1, InitHolds, StepKeeps, InitTold, StepTold, PTL DEF Spec

\* The first of some positions is the least.
LEMMA FirstLeast ==
  ASSUME NEW S \in SUBSET Nat, S # {}
  PROVE  First(S) \in S /\ \A q \in S : First(S) <= q
<1> DEFINE R == {e \in Nat \X Nat : e[1] < e[2]}
<1>1. OpToRel(<, Nat) = R
  BY DEF OpToRel
<1>2. IsWellFoundedOn(R, Nat)
  BY <1>1, NatLessThanWellFounded, Zenon
<1>3. \A p, q \in Nat : <<q, p>> \in R <=> q < p
  OBVIOUS
<1> HIDE DEF R
<1>4. PICK p \in S : \A q \in S : ~(<<q, p>> \in R)
  BY <1>2, WFMin
<1>5. ASSUME NEW q \in S
      PROVE  p <= q
  <2>1. p \in Nat /\ q \in Nat
    OBVIOUS
  <2>2. ~(q < p)
    BY <2>1, <1>3, <1>4
  <2> QED BY <2>1, <2>2
<1> QED BY <1>5 DEF First

-----------------------------------------------------------------------------
(* What is kept of a sequence.                                              *)

\* f[i] is what is kept of the first i.
KeptBy(s, V, f) ==
  /\ f = [i \in 0 .. Len(s) |-> f[i]] /\ f[0] = <<>>
  /\ \A i \in 1 .. Len(s) : f[i] = IF s[i] \in V THEN Append(f[i - 1], s[i]) ELSE f[i - 1]

\* There is one such function only.
LEMMA KeptOnce ==
  ASSUME NEW s, NEW V, Len(s) \in Nat, NEW f, NEW g, KeptBy(s, V, f), KeptBy(s, V, g)
  PROVE  f = g
<1> DEFINE m == Len(s)
           Bad == {i \in 0 .. m : f[i] # g[i]}
<1>1. /\ m \in Nat /\ f[0] = <<>> /\ g[0] = <<>>
      /\ \A i \in 1 .. m : /\ f[i] = IF s[i] \in V THEN Append(f[i - 1], s[i]) ELSE f[i - 1]
                           /\ g[i] = IF s[i] \in V THEN Append(g[i - 1], s[i]) ELSE g[i - 1]
  BY DEF KeptBy
<1> HIDE DEF m
<1>2. Bad = {}
  <2> SUFFICES ASSUME Bad # {}
               PROVE  FALSE
    OBVIOUS
  <2> DEFINE p == First(Bad)
  <2>1. Bad \in SUBSET Nat
    BY <1>1
  <2>2. p \in Bad /\ \A q \in Bad : p <= q
    BY <2>1, FirstLeast
  <2> HIDE DEF p
  <2>3. p \in 1 .. m /\ p - 1 \in 0 .. m /\ ~(p <= p - 1)
    BY <1>1, <2>2
  <2>4. f[p - 1] = g[p - 1]
    BY <2>2, <2>3
  <2> QED BY <1>1, <2>2, <2>3, <2>4
<1>3. f = [i \in 0 .. m |-> f[i]] /\ g = [i \in 0 .. m |-> g[i]]
  BY DEF KeptBy, m
<1>4. \A i \in 0 .. m : f[i] = g[i]
  BY <1>2
<1> HIDE DEF Bad
<1> QED BY <1>3, <1>4

\* Keep is what is kept of all.
LEMMA KeepIs ==
  ASSUME NEW s, NEW V, Len(s) \in Nat, NEW g, KeptBy(s, V, g)
  PROVE  Keep(s, V) = g[Len(s)]
<1> DEFINE Rec(f) == f = [i \in 0 .. Len(s) |->
                            IF i = 0 THEN <<>>
                            ELSE IF s[i] \in V THEN Append(f[i - 1], s[i]) ELSE f[i - 1]]
           f == CHOOSE f : Rec(f)
<1>1. Keep(s, V) = f[Len(s)]
  BY DEF Keep
<1>2. Rec(g)
  <2>1. \A i \in 0 .. Len(s) : g[i] = IF i = 0 THEN <<>>
                                      ELSE IF s[i] \in V THEN Append(g[i - 1], s[i]) ELSE g[i - 1]
    <3>1. \A i \in 0 .. Len(s) : i = 0 \/ i \in 1 .. Len(s)
      OBVIOUS
    <3> QED BY <3>1 DEF KeptBy
  <2> QED BY <2>1 DEF KeptBy
<1>3. Rec(f)
  BY <1>2
<1> HIDE DEF f
<1>4. KeptBy(s, V, f)
  <2>1. 0 \in 0 .. Len(s) /\ \A i \in 1 .. Len(s) : i \in 0 .. Len(s) /\ i # 0
    OBVIOUS
  <2>2. f[0] = <<>>
    BY <1>3, <2>1
  <2>3. \A i \in 1 .. Len(s) : f[i] = IF s[i] \in V THEN Append(f[i - 1], s[i]) ELSE f[i - 1]
    BY <1>3, <2>1
  <2>4. f = [i \in 0 .. Len(s) |-> f[i]]
    BY <1>3
  <2> HIDE DEF Rec
  <2> QED BY <2>2, <2>3, <2>4 DEF KeptBy
<1>5. f = g
  BY <1>4, KeptOnce
<1> QED BY <1>1, <1>5

\* There is such a function.
LEMMA KeptExists ==
  ASSUME NEW S, NEW s \in Seq(S), NEW V
  PROVE  \E f \in [0 .. Len(s) -> Seq(S)] : KeptBy(s, V, f)
<1> DEFINE m == Len(s)
           Upto(k, f) == /\ f \in [0 .. k -> Seq(S)] /\ f[0] = <<>>
                         /\ \A i \in 1 .. k : f[i] = IF s[i] \in V THEN Append(f[i - 1], s[i]) ELSE f[i - 1]
           Bad == {k \in 0 .. m : ~\E f : Upto(k, f)}
<1>1. m \in Nat /\ \A i \in 1 .. m : s[i] \in S
  OBVIOUS
<1> HIDE DEF m
<1>2. Bad = {}
  <2> SUFFICES ASSUME Bad # {}
               PROVE  FALSE
    OBVIOUS
  <2> DEFINE p == First(Bad)
  <2>1. Bad \in SUBSET Nat
    BY <1>1
  <2>2. p \in Bad /\ \A q \in Bad : p <= q
    BY <2>1, FirstLeast
  <2> HIDE DEF p
  <2>3. p # 0
    <3> DEFINE f == [i \in 0 .. 0 |-> <<>>]
    <3>1. f \in [0 .. 0 -> Seq(S)] /\ f[0] = <<>> /\ 1 .. 0 = {}
      OBVIOUS
    <3> HIDE DEF f
    <3>2. Upto(0, f)
      BY <3>1
    <3> HIDE DEF Upto
    <3> QED BY <3>2, <2>2
  <2>4. p \in 1 .. m /\ p - 1 \in 0 .. m /\ ~(p <= p - 1) /\ p \in Nat
    BY <1>1, <2>2, <2>3
  <2>5. PICK g : Upto(p - 1, g)
    <3> HIDE DEF Upto
    <3> QED BY <2>2, <2>4
  <2> DEFINE x == IF s[p] \in V THEN Append(g[p - 1], s[p]) ELSE g[p - 1]
             f == [i \in 0 .. p |-> IF i = p THEN x ELSE g[i]]
  <2>6. x \in Seq(S)
    <3>1. g[p - 1] \in Seq(S) /\ s[p] \in S
      BY <1>1, <2>4, <2>5
    <3> QED BY <3>1
  <2> HIDE DEF x
  <2>7. \A i \in 0 .. p : i = p \/ i \in 0 .. p - 1
    BY <2>4
  <2>8. f \in [0 .. p -> Seq(S)]
    BY <2>5, <2>6, <2>7
  <2>9. f[0] = <<>>
    BY <2>4, <2>5
  <2>10. ASSUME NEW i \in 1 .. p
         PROVE  f[i] = IF s[i] \in V THEN Append(f[i - 1], s[i]) ELSE f[i - 1]
    <3>1. i - 1 \in 0 .. p - 1 /\ i - 1 \in 0 .. p /\ i - 1 # p /\ i \in 0 .. p
      BY <2>4
    <3>2. f[i - 1] = g[i - 1]
      BY <3>1
    <3>3. CASE i = p
      BY <3>1, <3>2, <3>3 DEF x
    <3>4. CASE i # p
      <4>1. i \in 1 .. p - 1
        BY <3>4, <2>4
      <4> QED BY <3>1, <3>2, <3>4, <4>1, <2>5
    <3> QED BY <3>3, <3>4
  <2> HIDE DEF f
  <2>11. Upto(p, f)
    BY <2>8, <2>9, <2>10
  <2> HIDE DEF Upto
  <2> QED BY <2>11, <2>2
<1>3. PICK f : Upto(m, f)
  <2> HIDE DEF Upto
  <2>1. m \in 0 .. m
    BY <1>1
  <2> QED BY <2>1, <1>2
<1>4. KeptBy(s, V, f)
  BY <1>3 DEF KeptBy, m
<1> QED BY <1>3, <1>4 DEF m

\* What is kept of a sequence is one of the same set.
LEMMA KeepTyped ==
  ASSUME NEW S, NEW s \in Seq(S), NEW V
  PROVE  Keep(s, V) \in Seq(S)
<1>1. PICK f \in [0 .. Len(s) -> Seq(S)] : KeptBy(s, V, f)
  BY KeptExists
<1>2. Len(s) \in Nat /\ Len(s) \in 0 .. Len(s)
  OBVIOUS
<1>3. Keep(s, V) = f[Len(s)]
  BY <1>1, <1>2, KeepIs
<1> QED BY <1>1, <1>2, <1>3

\* Nothing is kept where there is nothing to keep.
LEMMA KeepNothing ==
  ASSUME NEW S, NEW s \in Seq(S), NEW V, \A i \in 1 .. Len(s) : s[i] \notin V
  PROVE  Keep(s, V) = <<>>
<1> DEFINE f == [i \in 0 .. Len(s) |-> <<>>]
<1>1. Len(s) \in Nat
  OBVIOUS
<1>2. 0 \in 0 .. Len(s) /\ \A i \in 1 .. Len(s) : i \in 0 .. Len(s) /\ i - 1 \in 0 .. Len(s)
  BY <1>1
<1>3. KeptBy(s, V, f)
  BY <1>2 DEF KeptBy
<1> HIDE DEF f
<1>4. Keep(s, V) = f[Len(s)]
  BY <1>1, <1>3, KeepIs
<1> QED BY <1>1, <1>4 DEF f

\* Appending to the second of two sequences is appending to both in a row.
LEMMA AppendBehind ==
  ASSUME NEW S, NEW s \in Seq(S), NEW t \in Seq(S), NEW u \in S
  PROVE  s \o Append(t, u) = Append(s \o t, u)
<1>1. s \o t \in Seq(S) /\ <<u>> \in Seq(S)
  BY ConcatProperties
<1>2. Append(t, u) = t \o <<u>>
  BY AppendIsConcat
<1>3. Append(s \o t, u) = (s \o t) \o <<u>>
  BY <1>1, AppendIsConcat
<1>4. (s \o t) \o <<u>> = s \o (t \o <<u>>)
  BY <1>1, ConcatAssociative
<1> QED BY <1>2, <1>3, <1>4, Zenon

\* What is kept of two sequences in a row is what is kept of each.
LEMMA KeepBoth ==
  ASSUME NEW S, NEW s \in Seq(S), NEW t \in Seq(S), NEW V
  PROVE  Keep(s \o t, V) = Keep(s, V) \o Keep(t, V)
<1> DEFINE m == Len(s)
           n == Len(t)
           w == s \o t
<1>1. /\ m \in Nat /\ n \in Nat /\ w \in Seq(S) /\ Len(w) = m + n
      /\ \A i \in 1 .. m : w[i] = s[i]
      /\ \A i \in 1 .. n : w[m + i] = t[i]
      /\ \A i \in 1 .. n : t[i] \in S
  OBVIOUS
<1>2. PICK f \in [0 .. m -> Seq(S)] : KeptBy(s, V, f)
  BY KeptExists
<1>3. PICK g \in [0 .. n -> Seq(S)] : KeptBy(t, V, g)
  BY KeptExists
<1> DEFINE h == [i \in 0 .. m + n |-> IF i <= m THEN f[i] ELSE f[m] \o g[i - m]]
<1>4. Keep(s, V) = f[m] /\ Keep(t, V) = g[n]
  BY <1>1, <1>2, <1>3, KeepIs
<1>5. /\ f[0] = <<>> /\ g[0] = <<>>
      /\ \A i \in 1 .. m : f[i] = IF s[i] \in V THEN Append(f[i - 1], s[i]) ELSE f[i - 1]
      /\ \A i \in 1 .. n : g[i] = IF t[i] \in V THEN Append(g[i - 1], t[i]) ELSE g[i - 1]
  BY <1>2, <1>3 DEF KeptBy
<1> HIDE DEF m, n, w
<1>6. f[m] \in Seq(S) /\ \A i \in 0 .. n : g[i] \in Seq(S)
  BY <1>1
<1>7. f[m] \o <<>> = f[m]
  BY <1>6
<1>8. \A i \in 0 .. n : h[m + i] = f[m] \o g[i]
  <2> TAKE i \in 0 .. n
  <2>1. m + i \in 0 .. m + n /\ (m + i <= m <=> i = 0) /\ (m + i) - m = i
    BY <1>1
  <2>2. CASE i = 0
    <3>1. m + i = m
      BY <2>2, <1>1
    <3> QED BY <2>1, <2>2, <3>1, <1>5, <1>7
  <2>3. CASE i # 0
    BY <2>1, <2>3
  <2> QED BY <2>2, <2>3
<1>9. \A i \in 0 .. m : i \in 0 .. m + n /\ h[i] = f[i]
  BY <1>1
<1>10. KeptBy(w, V, h)
  <2>1. h[0] = <<>>
    BY <1>1, <1>5, <1>9
  <2>2. ASSUME NEW i \in 1 .. m + n
        PROVE  h[i] = IF w[i] \in V THEN Append(h[i - 1], w[i]) ELSE h[i - 1]
    <3>1. CASE i \in 1 .. m
      <4>1. i \in 0 .. m /\ i - 1 \in 0 .. m
        BY <3>1, <1>1
      <4>2. h[i] = f[i] /\ h[i - 1] = f[i - 1]
        BY <4>1, <1>9
      <4> HIDE DEF h
      <4> QED BY <3>1, <4>2, <1>1, <1>5
    <3>2. CASE i \notin 1 .. m
      <4> DEFINE j == i - m
      <4>1. j \in 1 .. n /\ j \in 0 .. n /\ j - 1 \in 0 .. n /\ m + j = i /\ m + (j - 1) = i - 1
        BY <3>2, <1>1
      <4> HIDE DEF j
      <4>2. h[i] = f[m] \o g[j] /\ h[i - 1] = f[m] \o g[j - 1] /\ w[i] = t[j]
        BY <4>1, <1>1, <1>8
      <4>3. g[j] = IF t[j] \in V THEN Append(g[j - 1], t[j]) ELSE g[j - 1]
        BY <4>1, <1>5
      <4>4. f[m] \o Append(g[j - 1], t[j]) = Append(f[m] \o g[j - 1], t[j])
        <5>1. g[j - 1] \in Seq(S) /\ t[j] \in S
          BY <4>1, <1>1, <1>6
        <5> DEFINE a == f[m]
                   b == g[j - 1]
                   u == t[j]
        <5>2. a \in Seq(S) /\ b \in Seq(S) /\ u \in S
          BY <5>1, <1>6
        <5> HIDE DEF a, b, u, h
        <5>3. a \o Append(b, u) = Append(a \o b, u)
          BY <5>2, AppendBehind
        <5> QED BY <5>3 DEF a, b, u
      <4> HIDE DEF h
      <4> QED BY <4>2, <4>3, <4>4
    <3> QED BY <3>1, <3>2
  <2>3. h = [i \in 0 .. m + n |-> h[i]]
    OBVIOUS
  <2> HIDE DEF h
  <2> QED BY <2>1, <2>2, <2>3, <1>1 DEF KeptBy
<1> HIDE DEF h
<1>11. h[m + n] = f[m] \o g[n]
  <2>1. n \in 0 .. n
    BY <1>1
  <2> QED BY <2>1, <1>8
<1>12. Len(w) \in Nat
  BY <1>1
<1>13. Keep(w, V) = h[Len(w)]
  BY <1>10, <1>12, KeepIs
<1> QED BY <1>1, <1>4, <1>11, <1>13 DEF w

-----------------------------------------------------------------------------
(* What the events say: the texts of the deltas in a row.                   *)

TextOf(e) == IF e.type = "content_block_delta" THEN e.text ELSE <<>>

\* g[k] is what the events from the k-th on say.
SpelledBy(E, g) ==
  /\ g \in [1 .. Len(E) + 1 -> Seq(Letters)] /\ g[Len(E) + 1] = <<>>
  /\ \A k \in 1 .. Len(E) : g[k] = TextOf(E[k]) \o g[k + 1]
Spells(E, s) == \E g : SpelledBy(E, g) /\ s = g[1]

\* The text of an event is made of letters.
LEMMA TextOfTyped ==
  ASSUME NEW e \in Event
  PROVE  TextOf(e) \in Seq(Letters)
<1>1. e.type = "content_block_delta" => e \in DeltaEvents
  BY DEF Event, BlockEvent, MessageEvent, StartEvent, DeltaEvents, StopEvent
<1>2. <<>> \in Seq(Letters)
  OBVIOUS
<1> QED BY <1>1, <1>2 DEF TextOf, DeltaEvents

\* So is what events say.
LEMMA SpellsTyped ==
  ASSUME NEW E, Len(E) \in Nat, NEW s, Spells(E, s)
  PROVE  s \in Seq(Letters)
<1>1. 1 \in 1 .. Len(E) + 1
  OBVIOUS
<1> QED BY <1>1 DEF Spells, SpelledBy

\* No events say nothing.
LEMMA SpellsNothing == Spells(<<>>, <<>>)
<1> DEFINE g == [k \in 1 .. 1 |-> <<>>]
<1>1. Len(<<>>) = 0 /\ <<>> \in Seq(Letters)
  OBVIOUS
<1>2. SpelledBy(<<>>, g) /\ g[1] = <<>>
  BY <1>1 DEF SpelledBy
<1> HIDE DEF g
<1> QED BY <1>2 DEF Spells

\* One more event says more.
LEMMA SpellsAppend ==
  ASSUME NEW E \in Seq(Event), NEW e \in Event, NEW s, Spells(E, s)
  PROVE  Spells(Append(E, e), s \o TextOf(e))
<1> DEFINE m == Len(E)
           F == Append(E, e)
           t == TextOf(e)
<1>1. /\ m \in Nat /\ Len(F) = m + 1 /\ F[m + 1] = e
      /\ \A k \in 1 .. m : F[k] = E[k] /\ E[k] \in Event
  BY AppendProperties, ElementOfSeq, LenProperties
<1>2. PICK g : SpelledBy(E, g) /\ s = g[1]
  BY DEF Spells
<1>3. /\ g \in [1 .. m + 1 -> Seq(Letters)] /\ g[m + 1] = <<>>
      /\ \A k \in 1 .. m : g[k] = TextOf(E[k]) \o g[k + 1]
  BY <1>2 DEF SpelledBy
<1>4. t \in Seq(Letters) /\ <<>> \in Seq(Letters) /\ \A k \in 1 .. m : TextOf(E[k]) \in Seq(Letters)
  BY <1>1, TextOfTyped, EmptySeq
<1> HIDE DEF m, F, t
<1> DEFINE h == [k \in 1 .. (m + 1) + 1 |-> IF k = m + 2 THEN <<>> ELSE g[k] \o t]
<1>5. \A k \in 1 .. m + 1 : g[k] \o t \in Seq(Letters)
  BY <1>3, <1>4, ConcatProperties
<1>6. h \in [1 .. (m + 1) + 1 -> Seq(Letters)] /\ h[(m + 1) + 1] = <<>> /\ h[1] = g[1] \o t
  <2>1. \A k \in 1 .. (m + 1) + 1 : k = m + 2 \/ k \in 1 .. m + 1
    BY <1>1
  <2>2. (m + 1) + 1 \in 1 .. (m + 1) + 1 /\ (m + 1) + 1 = m + 2 /\ 1 \in 1 .. (m + 1) + 1 /\ 1 # m + 2
    BY <1>1
  <2> QED BY <2>1, <2>2, <1>4, <1>5
<1>7. ASSUME NEW k \in 1 .. m + 1
      PROVE  h[k] = TextOf(F[k]) \o h[k + 1]
  <2>1. k \in 1 .. (m + 1) + 1 /\ k # m + 2 /\ k + 1 \in 1 .. (m + 1) + 1
    BY <1>1
  <2>2. CASE k = m + 1
    <3>1. h[k + 1] = <<>> /\ h[k] = g[m + 1] \o t /\ TextOf(F[k]) = t
      BY <2>1, <2>2, <1>1, <1>6 DEF t
    <3>2. <<>> \o t = t /\ t \o <<>> = t
      BY <1>4, ConcatEmptySeq
    <3> HIDE DEF h
    <3> QED BY <3>1, <3>2, <1>3
  <2>3. CASE k # m + 1
    <3>1. k \in 1 .. m /\ k + 1 # m + 2 /\ k + 1 \in 1 .. m + 1
      BY <2>1, <2>3, <1>1
    <3>2. h[k + 1] = g[k + 1] \o t /\ h[k] = g[k] \o t /\ TextOf(F[k]) = TextOf(E[k])
      BY <2>1, <3>1, <1>1
    <3>3. g[k] = TextOf(E[k]) \o g[k + 1]
      BY <3>1, <1>3
    <3> DEFINE a == TextOf(E[k])
               b == g[k + 1]
    <3>4. a \in Seq(Letters) /\ b \in Seq(Letters)
      BY <3>1, <1>3, <1>4
    <3> HIDE DEF a, b, h
    <3>5. (a \o b) \o t = a \o (b \o t)
      BY <3>4, <1>4, ConcatAssociative
    <3> QED BY <3>2, <3>3, <3>5 DEF a, b
  <2> QED BY <2>2, <2>3
<1> HIDE DEF h
<1>8. SpelledBy(F, h)
  BY <1>1, <1>6, <1>7 DEF SpelledBy
<1> QED BY <1>2, <1>6, <1>8 DEF Spells, F, t

\* Events that say nothing more, and others that say the same.
LEMMA SpellsSame ==
  ASSUME NEW E, NEW F, NEW s, Spells(E, s), Len(E) \in Nat, Len(F) \in Nat, Len(E) <= Len(F),
         \A k \in 1 .. Len(E) : TextOf(F[k]) = TextOf(E[k]),
         \A k \in Len(E) + 1 .. Len(F) : TextOf(F[k]) = <<>>
  PROVE  Spells(F, s)
<1> DEFINE m == Len(E)
           n == Len(F)
<1>1. PICK g : SpelledBy(E, g) /\ s = g[1]
  BY DEF Spells
<1>2. /\ g \in [1 .. m + 1 -> Seq(Letters)] /\ g[m + 1] = <<>>
      /\ \A k \in 1 .. m : g[k] = TextOf(E[k]) \o g[k + 1]
  BY <1>1 DEF SpelledBy
<1>3. /\ m \in Nat /\ n \in Nat /\ m <= n /\ \A k \in 1 .. m : TextOf(F[k]) = TextOf(E[k])
      /\ \A k \in m + 1 .. n : TextOf(F[k]) = <<>>
      /\ <<>> \in Seq(Letters) /\ <<>> \o <<>> = <<>>
  BY EmptySeq, ConcatEmptySeq
<1> HIDE DEF m, n
<1> DEFINE h == [k \in 1 .. n + 1 |-> IF k <= m THEN g[k] ELSE <<>>]
<1>4. \A k \in 1 .. m + 1 : k \in 1 .. n + 1 /\ h[k] = g[k]
  <2> TAKE k \in 1 .. m + 1
  <2>1. k \in 1 .. n + 1 /\ (k <= m \/ k = m + 1)
    BY <1>3
  <2> QED BY <2>1, <1>2, <1>3
<1>5. h \in [1 .. n + 1 -> Seq(Letters)]
  <2>1. \A k \in 1 .. n + 1 : k <= m => k \in 1 .. m + 1
    BY <1>3
  <2> QED BY <2>1, <1>2, <1>3
<1>6. \A k \in m + 1 .. n + 1 : k \in 1 .. n + 1 /\ h[k] = <<>>
  BY <1>3
<1>7. ASSUME NEW k \in 1 .. n
      PROVE  h[k] = TextOf(F[k]) \o h[k + 1]
  <2> HIDE DEF h
  <2>1. CASE k \in 1 .. m
    <3>1. k \in 1 .. m + 1 /\ k + 1 \in 1 .. m + 1
      BY <2>1, <1>3
    <3> QED BY <2>1, <3>1, <1>2, <1>3, <1>4
  <2>2. CASE k \notin 1 .. m
    <3>1. k \in m + 1 .. n /\ k \in m + 1 .. n + 1 /\ k + 1 \in m + 1 .. n + 1
      BY <2>2, <1>3
    <3> QED BY <3>1, <1>3, <1>6
  <2> QED BY <2>1, <2>2
<1>8. n + 1 \in m + 1 .. n + 1 /\ 1 \in 1 .. m + 1
  BY <1>3
<1> HIDE DEF h
<1>9. SpelledBy(F, h) /\ h[1] = g[1]
  BY <1>4, <1>5, <1>6, <1>7, <1>8 DEF SpelledBy, n
<1> QED BY <1>1, <1>9 DEF Spells

\* The first event is taken away.
LEMMA SpellsTail ==
  ASSUME NEW E \in Seq(Event), E # <<>>, NEW s, Spells(E, s)
  PROVE  \E r \in Seq(Letters) : s = TextOf(Head(E)) \o r /\ Spells(Tail(E), r)
<1> DEFINE m == Len(E)
           T == Tail(E)
<1>1. /\ m \in Nat /\ m >= 1 /\ Head(E) = E[1] /\ Len(T) = m - 1
      /\ \A k \in 1 .. m - 1 : T[k] = E[k + 1]
  <2>1. Len(T) = m - 1 /\ Head(E) = E[1] /\ m \in Nat /\ m >= 1
    BY HeadTailProperties, LenProperties, EmptySeq
  <2>2. \A k \in 1 .. m - 1 : T[k] = E[k + 1]
    BY <2>1
  <2> QED BY <2>1, <2>2
<1>2. PICK g : SpelledBy(E, g) /\ s = g[1]
  BY DEF Spells
<1>3. /\ g \in [1 .. m + 1 -> Seq(Letters)] /\ g[m + 1] = <<>>
      /\ \A k \in 1 .. m : g[k] = TextOf(E[k]) \o g[k + 1]
  BY <1>2 DEF SpelledBy
<1> HIDE DEF m, T
<1> DEFINE h == [k \in 1 .. (m - 1) + 1 |-> g[k + 1]]
<1>4. \A k \in 1 .. m : k \in 1 .. (m - 1) + 1 /\ k + 1 \in 1 .. m + 1 /\ h[k] = g[k + 1]
  BY <1>1
<1>5. h \in [1 .. (m - 1) + 1 -> Seq(Letters)]
  <2>1. \A k \in 1 .. (m - 1) + 1 : k + 1 \in 1 .. m + 1
    BY <1>1
  <2> QED BY <2>1, <1>3
<1>6. ASSUME NEW k \in 1 .. m - 1
      PROVE  h[k] = TextOf(T[k]) \o h[k + 1]
  <2>1. k \in 1 .. m /\ k + 1 \in 1 .. m
    BY <1>1
  <2> HIDE DEF h
  <2> QED BY <2>1, <1>1, <1>3, <1>4
<1>7. m \in 1 .. m /\ 1 \in 1 .. m /\ (m - 1) + 1 = m /\ 1 + 1 = 2 /\ 2 \in 1 .. m + 1
  BY <1>1
<1> HIDE DEF h
<1>8. h[(m - 1) + 1] = <<>> /\ h[1] = g[2] /\ g[2] \in Seq(Letters)
  BY <1>3, <1>4, <1>7
<1>9. SpelledBy(T, h)
  BY <1>1, <1>5, <1>6, <1>8 DEF SpelledBy
<1>10. s = TextOf(Head(E)) \o g[2]
  BY <1>1, <1>2, <1>3, <1>7
<1> QED BY <1>8, <1>9, <1>10 DEF Spells, T

-----------------------------------------------------------------------------
(* What the operators of StreamContext say.                                 *)

\* From c to d the events say r more.
Says(c, d, r) == r \in Seq(Letters) /\ \A s : Spells(c.events, s) => Spells(d.events, s \o r)

\* Where the events stay the same nothing is said.
LEMMA SaysNothing ==
  ASSUME NEW c \in Context, NEW d, d.events = c.events
  PROVE  Says(c, d, <<>>)
<1>1. ASSUME NEW s, Spells(c.events, s)
      PROVE  Spells(d.events, s \o <<>>)
  <2>1. s \in Seq(Letters)
    BY <1>1, LengthsTyped, SpellsTyped
  <2>2. s \o <<>> = s
    BY <2>1, ConcatEmptySeq
  <2> QED BY <1>1, <2>2
<1> QED BY <1>1, EmptySeq DEF Says

\* What is said in two steps is said one behind the other.
LEMMA SaysOn ==
  ASSUME NEW c \in Context, NEW d, NEW e, NEW r, NEW q, Says(c, d, r), Says(d, e, q)
  PROVE  Says(c, e, r \o q)
<1>1. r \in Seq(Letters) /\ q \in Seq(Letters) /\ r \o q \in Seq(Letters)
  BY ConcatProperties DEF Says
<1>2. ASSUME NEW s, Spells(c.events, s)
      PROVE  Spells(e.events, s \o (r \o q))
  <2>1. s \in Seq(Letters)
    BY <1>2, LengthsTyped, SpellsTyped
  <2>2. (s \o r) \o q = s \o (r \o q)
    BY <1>1, <2>1, ConcatAssociative
  <2>3. Spells(e.events, (s \o r) \o q)
    BY <1>2 DEF Says
  <2> QED BY <2>2, <2>3
<1> QED BY <1>1, <1>2 DEF Says

\* An event says its text.
LEMMA EmitSays ==
  ASSUME NEW c \in Context, NEW e \in Event
  PROVE  Says(c, Emit(c, e), TextOf(e))
<1>1. c.events \in Seq(Event) /\ Emit(c, e).events = Append(c.events, e)
  BY DEF Context, Emit
<1> QED BY <1>1, SpellsAppend, TextOfTyped DEF Says

-----------------------------------------------------------------------------
(* What is lost of a text on its way.                                       *)

\* The same for the texts of the upstream.
LEMMA KeepBothUnits ==
  ASSUME NEW a, NEW b, a \in Seq(Units), b \in Seq(Units), NEW V
  PROVE  Keep(a \o b, V) = Keep(a, V) \o Keep(b, V)
BY KeepBoth

\* What is cut out of a text and is only tags and blanks is not missed.
LEMMA CutOut ==
  ASSUME NEW text \in Seq(Units), NEW V, V \cap Hidden = {},
         NEW p \in 1 .. Len(text) + 1, NEW q \in p .. Len(text) + 1,
         \A i \in p .. q - 1 : text[i] \in Hidden
  PROVE  Keep(text, V) = Keep(SubSeq(text, 1, p - 1), V) \o Keep(From(text, q), V)
<1> DEFINE l == Len(text)
           a == SubSeq(text, 1, p - 1)
           b == SubSeq(text, p, q - 1)
           z == From(text, q)
<1>1. l \in Nat /\ p \in Int /\ q \in Int /\ p <= q /\ q <= l + 1 /\ 1 <= p
  OBVIOUS
<1>2. a \o b = SubSeq(text, 1, q - 1)
  <2>1. 1 \in 1 .. l + 1 /\ p - 1 \in 1 - 1 .. l /\ q - 1 \in p - 1 .. l
    BY <1>1
  <2>2. a \o SubSeq(text, (p - 1) + 1, q - 1) = SubSeq(text, 1, q - 1)
    BY <2>1, ConcatAdjacentSubSeq
  <2>3. (p - 1) + 1 = p
    BY <1>1
  <2> QED BY <2>2, <2>3
<1>3. SubSeq(text, 1, q - 1) \o z = text
  <2>1. 1 \in 1 .. l + 1 /\ q - 1 \in 1 - 1 .. l /\ l \in q - 1 .. l
    BY <1>1
  <2>2. SubSeq(text, 1, q - 1) \o SubSeq(text, (q - 1) + 1, l) = SubSeq(text, 1, l)
    BY <2>1, ConcatAdjacentSubSeq
  <2>3. (q - 1) + 1 = q /\ SubSeq(text, 1, l) = text
    BY <1>1, SubSeqFull
  <2> QED BY <2>2, <2>3 DEF From
<1>4. a \in Seq(Units) /\ b \in Seq(Units) /\ z \in Seq(Units)
  <2>1. /\ 1 \in Int /\ p - 1 \in Int /\ q - 1 \in Int /\ 1 <= 1 /\ p - 1 <= l /\ q - 1 <= l /\ 1 <= q
    BY <1>1
  <2>2. a \in Seq(Units)
    BY <2>1, PieceTyped
  <2>3. b \in Seq(Units)
    BY <2>1, <1>1, PieceTyped
  <2>4. z \in Seq(Units)
    BY <2>1, <1>1, FromTyped
  <2> QED BY <2>2, <2>3, <2>4
<1>5. \A i \in 1 .. Len(b) : b[i] \notin V
  <2>1. \A i \in p .. q - 1 : text[i] \in Units
    BY <1>1
  <2>2. /\ Len(b) = IF p <= q - 1 THEN (q - 1) - p + 1 ELSE 0
        /\ \A i \in 1 .. (q - 1) - p + 1 : b[i] = text[p + i - 1]
    <3>1. p \in Int /\ q - 1 \in Int
      BY <1>1
    <3> QED BY <3>1, <2>1, SubSeqProperties
  <2> HIDE DEF b
  <2>3. TAKE i \in 1 .. Len(b)
  <2>4. i \in 1 .. (q - 1) - p + 1 /\ p + i - 1 \in p .. q - 1
    BY <1>1, <2>2
  <2> QED BY <2>2, <2>4
<1> HIDE DEF a, b, z
<1>6. Keep(b, V) = <<>>
  BY <1>4, <1>5, KeepNothing
<1>7. Keep(a \o b, V) = Keep(a, V)
  <2>1. Keep(a \o b, V) = Keep(a, V) \o Keep(b, V)
    BY <1>4, KeepBothUnits
  <2>2. Keep(a, V) \in Seq(Units)
    BY <1>4, KeepTyped
  <2> QED BY <2>1, <2>2, <1>6, ConcatEmptySeq
<1>8. Keep((a \o b) \o z, V) = Keep(a \o b, V) \o Keep(z, V)
  <2> DEFINE y == a \o b
  <2>1. y \in Seq(Units)
    BY <1>4, ConcatProperties
  <2> HIDE DEF y
  <2>2. Keep(y \o z, V) = Keep(y, V) \o Keep(z, V)
    BY <2>1, <1>4, KeepBothUnits
  <2> QED BY <2>2 DEF y
<1> QED BY <1>2, <1>3, <1>7, <1>8 DEF a, z

\* Nothing is kept of nothing.
LEMMA KeepEmpty ==
  ASSUME NEW V
  PROVE  Keep(<<>>, V) = <<>>
<1>1. <<>> \in Seq(Units) /\ Len(<<>>) = 0
  OBVIOUS
<1>2. \A i \in 1 .. Len(<<>>) : <<>>[i] \notin V
  BY <1>1
<1> QED BY <1>1, <1>2, KeepNothing, Zenon

\* Nothing of a blank text is missed.
LEMMA KeepBlank ==
  ASSUME NEW text \in Seq(Units), NEW V, V \cap Hidden = {}, IsBlank(text)
  PROVE  Keep(text, V) = <<>>
<1>1. \A i \in 1 .. Len(text) : text[i] \notin V
  BY DEF IsBlank, Hidden
<1> QED BY <1>1, KeepNothing

\* The places of a tag.
LEMMA TagHidden ==
  ASSUME NEW text \in Seq(Units), NEW tag \in {OpenTag, CloseTag}, NEW p \in RealTags(text, tag)
  PROVE  p \in 1 .. Len(text) - 1 /\ text[p] = tag[1] /\ text[p] \in Hidden /\ text[p + 1] \in Hidden
<1>1. DOMAIN text = 1 .. Len(text) /\ Len(text) \in Nat
  OBVIOUS
<1>2. Len(tag) = 2 /\ tag[1] \in ToSet(tag) /\ tag[2] \in ToSet(tag)
  BY DEF OpenTag, CloseTag, ToSet
<1>3. p \in 1 .. Len(text) /\ p + 2 - 1 <= Len(text) /\ SubSeq(text, p, p + 2 - 1) = tag
  BY <1>1, <1>2 DEF RealTags, TagAt
<1>4. \A i \in p .. p + 2 - 1 : text[i] \in Units
  BY <1>3
<1>5. \A i \in 1 .. (p + 2 - 1) - p + 1 : SubSeq(text, p, p + 2 - 1)[i] = text[p + i - 1]
  <2>1. p \in Int /\ p + 2 - 1 \in Int
    BY <1>3
  <2> QED BY <1>4, <2>1, SubSeqProperties
<1>6. tag[1] = text[p] /\ tag[2] = text[p + 1]
  <2>1. 1 \in 1 .. (p + 2 - 1) - p + 1 /\ 2 \in 1 .. (p + 2 - 1) - p + 1 /\ p + 1 - 1 = p /\ p + 2 - 1 = p + 1
    BY <1>3
  <2>2. tag[1] = text[p + 1 - 1] /\ tag[2] = text[p + 2 - 1]
    BY <1>3, <1>5, <2>1
  <2> QED BY <2>1, <2>2
<1>7. ToSet(tag) \subseteq Hidden
  BY DEF Hidden
<1> QED BY <1>1, <1>2, <1>3, <1>6, <1>7

\* The text from the end tag to the blank line behind it, or to the end of the text.
LEMMA EndTagHidden ==
  ASSUME NEW text \in Seq(Units), NEW p \in EndTags(text)
  PROVE  p \in 1 .. Len(text) - 3 /\ \A i \in p .. p + 3 : text[i] \in Hidden
<1> DEFINE z == From(text, p + 2)
<1>1. p \in RealTags(text, CloseTag) /\ IsPrefix(<<Newline, Newline>>, z) /\ Len(text) \in Nat
  BY DEF EndTags, CloseTag
<1>2. p \in 1 .. Len(text) - 1 /\ text[p] \in Hidden /\ text[p + 1] \in Hidden
  BY <1>1, TagHidden
<1>3. /\ Len(z) = IF p + 2 <= Len(text) THEN Len(text) - (p + 2) + 1 ELSE 0
      /\ \A i \in 1 .. Len(text) - (p + 2) + 1 : z[i] = text[p + 2 + i - 1]
      /\ z \in Seq(Units)
  <2>1. \A i \in p + 2 .. Len(text) : text[i] \in Units
    BY <1>2
  <2>2. p + 2 \in Int /\ Len(text) \in Int
    BY <1>1, <1>2
  <2> QED BY <2>1, <2>2, SubSeqProperties DEF From
<1> HIDE DEF z
<1>4. Len(z) >= 2 /\ z[1] = Newline /\ z[2] = Newline
  <2>1. Len(<<Newline, Newline>>) = 2 /\ Len(z) \in Nat
    BY <1>3
  <2>2. 2 <= Len(z) /\ SubSeq(<<Newline, Newline>>, 1, 2) = SubSeq(z, 1, 2)
    BY <1>1, <2>1 DEF IsPrefix
  <2>3. \A i \in 1 .. 2 : SubSeq(z, 1, 2)[i] = z[i]
    <3>1. \A i \in 1 .. 2 : z[i] \in Units
      BY <1>3, <2>1, <2>2
    <3>2. \A i \in 1 .. 2 - 1 + 1 : SubSeq(z, 1, 2)[i] = z[1 + i - 1]
      BY <3>1, SubSeqProperties
    <3> QED BY <3>2
  <2>4. SubSeq(<<Newline, Newline>>, 1, 2) = <<Newline, Newline>>
    <3>1. <<Newline, Newline>> \in Seq({Newline}) /\ Len(<<Newline, Newline>>) = 2
      OBVIOUS
    <3>2. SubSeq(<<Newline, Newline>>, 1, Len(<<Newline, Newline>>)) = <<Newline, Newline>>
      BY <3>1, SubSeqFull
    <3> QED BY <3>1, <3>2
  <2>5. 1 \in 1 .. 2 /\ 2 \in 1 .. 2
    OBVIOUS
  <2> QED BY <2>1, <2>2, <2>3, <2>4, <2>5
<1>5. p + 3 <= Len(text) /\ text[p + 2] = Newline /\ text[p + 3] = Newline
  <2>1. p + 3 <= Len(text)
    BY <1>1, <1>2, <1>3, <1>4
  <2>2. 1 \in 1 .. Len(text) - (p + 2) + 1 /\ 2 \in 1 .. Len(text) - (p + 2) + 1
    BY <2>1, <1>1, <1>2
  <2>3. p + 2 + 1 - 1 = p + 2 /\ p + 2 + 2 - 1 = p + 3
    BY <1>2
  <2> QED BY <2>1, <2>2, <2>3, <1>3, <1>4
<1>6. Newline \in Hidden
  BY DEF Hidden, Blank
<1>7. \A i \in p .. p + 3 : i = p \/ i = p + 1 \/ i = p + 2 \/ i = p + 3
  BY <1>2
<1> QED BY <1>1, <1>2, <1>5, <1>6, <1>7

\* Behind an end tag at the end of the buffer there are blanks only.
LEMMA EndTagAtBufferEndHidden ==
  ASSUME NEW text \in Seq(Units), NEW p \in EndTagsAtBufferEnd(text)
  PROVE  p \in 1 .. Len(text) - 1 /\ \A i \in p .. Len(text) : text[i] \in Hidden
<1> DEFINE z == From(text, p + 2)
<1>1. p \in RealTags(text, CloseTag) /\ IsBlank(z) /\ Len(text) \in Nat
  BY DEF EndTagsAtBufferEnd, CloseTag
<1>2. p \in 1 .. Len(text) - 1 /\ text[p] \in Hidden /\ text[p + 1] \in Hidden
  BY <1>1, TagHidden
<1>3. /\ Len(z) = IF p + 2 <= Len(text) THEN Len(text) - (p + 2) + 1 ELSE 0
      /\ \A i \in 1 .. Len(text) - (p + 2) + 1 : z[i] = text[p + 2 + i - 1]
      /\ z \in Seq(Units)
  <2>1. \A i \in p + 2 .. Len(text) : text[i] \in Units
    BY <1>2
  <2>2. p + 2 \in Int /\ Len(text) \in Int
    BY <1>1, <1>2
  <2> QED BY <2>1, <2>2, SubSeqProperties DEF From
<1> HIDE DEF z
<1>4. ASSUME NEW i \in p + 2 .. Len(text)
      PROVE  text[i] \in Blank
  <2> DEFINE j == i - (p + 2) + 1
  <2>1. j \in 1 .. Len(text) - (p + 2) + 1 /\ p + 2 + j - 1 = i /\ j \in 1 .. Len(z)
    BY <1>1, <1>2, <1>3
  <2> HIDE DEF j
  <2>2. z[j] \in Blank
    BY <1>1, <1>3, <2>1 DEF IsBlank
  <2> QED BY <2>1, <2>2, <1>3
<1>5. \A i \in p .. Len(text) : i = p \/ i = p + 1 \/ i \in p + 2 .. Len(text)
  BY <1>1, <1>2
<1> QED BY <1>2, <1>4, <1>5 DEF Hidden

\* Three texts in a row.
LEMMA InARow ==
  ASSUME NEW r, NEW s, NEW t, r \in Seq(Letters), s \in Seq(Letters), t \in Seq(Letters)
  PROVE  (r \o s) \o t = r \o (s \o t)
BY ConcatAssociative

\* B and v in a row are R and C in a row.
Joins(B, v, R, C) ==
  /\ B \in Seq(Letters) /\ v \in Seq(Letters) /\ R \in Seq(Letters) /\ C \in Seq(Letters)
  /\ B \o v = R \o C

\* Two such equations one after the other.
LEMMA JoinedOn ==
  ASSUME NEW B, NEW C, NEW D, NEW R, NEW Q, NEW v, NEW w, Joins(B, v, R, C), Joins(C, w, Q, D)
  PROVE  Joins(B, v \o w, R \o Q, D)
<1>1. (B \o v) \o w = B \o (v \o w)
  <2>1. B \in Seq(Letters) /\ v \in Seq(Letters) /\ w \in Seq(Letters)
    BY DEF Joins
  <2> QED BY <2>1, InARow
<1>2. (R \o C) \o w = R \o (C \o w)
  <2>1. R \in Seq(Letters) /\ C \in Seq(Letters) /\ w \in Seq(Letters)
    BY DEF Joins
  <2> QED BY <2>1, InARow
<1>3. (R \o Q) \o D = R \o (Q \o D)
  <2>1. R \in Seq(Letters) /\ Q \in Seq(Letters) /\ D \in Seq(Letters)
    BY DEF Joins
  <2> QED BY <2>1, InARow
<1>4. B \o v = R \o C /\ C \o w = Q \o D
  BY DEF Joins
<1>5. v \o w \in Seq(Letters)
  <2>1. v \in Seq(Letters) /\ w \in Seq(Letters)
    BY DEF Joins
  <2> QED BY <2>1, ConcatProperties
<1>6. R \o Q \in Seq(Letters)
  <2>1. R \in Seq(Letters) /\ Q \in Seq(Letters)
    BY DEF Joins
  <2> QED BY <2>1, ConcatProperties
<1>7. B \o (v \o w) = (R \o Q) \o D
  BY <1>1, <1>2, <1>3, <1>4, Zenon
<1> QED BY <1>5, <1>6, <1>7 DEF Joins

\* An event is appended.
LEMMA AppendSays ==
  ASSUME NEW c \in Context, NEW d, NEW e \in Event, d.events = Append(c.events, e)
  PROVE  Says(c, d, TextOf(e))
<1>1. c.events \in Seq(Event)
  BY DEF Context
<1> QED BY <1>1, SpellsAppend, TextOfTyped DEF Says

\* Events without a text say nothing.
LEMMA SilentSays ==
  ASSUME NEW c \in Context, NEW d \in Context, Extends(c, d),
         \A k \in Len(c.events) + 1 .. Len(d.events) : d.events[k].type # "content_block_delta"
  PROVE  Says(c, d, <<>>)
<1>1. /\ Len(c.events) \in Nat /\ Len(d.events) \in Nat /\ Len(c.events) <= Len(d.events)
      /\ \A k \in 1 .. Len(c.events) : TextOf(d.events[k]) = TextOf(c.events[k])
      /\ \A k \in Len(c.events) + 1 .. Len(d.events) : TextOf(d.events[k]) = <<>>
  BY LengthsTyped DEF Extends, TextOf
<1>2. ASSUME NEW s, Spells(c.events, s)
      PROVE  Spells(d.events, s \o <<>>)
  <2>1. s \in Seq(Letters) /\ s \o <<>> = s
    BY <1>1, <1>2, SpellsTyped, ConcatEmptySeq
  <2>2. Spells(d.events, s)
    BY <1>1, <1>2, SpellsSame
  <2> QED BY <2>1, <2>2
<1> QED BY <1>2, EmptySeq DEF Says

\* A step that says nothing behind one that says r.
LEMMA SaysOnSilently ==
  ASSUME NEW c \in Context, NEW d, NEW e, NEW r, Says(c, d, r), Says(d, e, <<>>)
  PROVE  Says(c, e, r)
<1>1. r \in Seq(Letters)
  BY DEF Says
<1>2. r \o <<>> = r
  BY <1>1, ConcatEmptySeq
<1> QED BY <1>2, SaysOn

\* A step that says r behind one that says nothing.
LEMMA SaysAfterSilence ==
  ASSUME NEW c \in Context, NEW d, NEW e, NEW r, Says(c, d, <<>>), Says(d, e, r)
  PROVE  Says(c, e, r)
<1>1. r \in Seq(Letters)
  BY DEF Says
<1>2. <<>> \o r = r
  BY <1>1, ConcatEmptySeq
<1> QED BY <1>2, SaysOn

\* A new block says nothing.
LEMMA NewBlockSays ==
  ASSUME NEW c \in Context, NEW kind \in Kinds
  PROVE  Says(c, NewBlock(c, kind), <<>>)
<1> DEFINE e == [type |-> "content_block_start", index |-> Len(c.blocks) + 1, kind |-> kind]
<1>1. e \in Event /\ TextOf(e) = <<>>
  BY LengthsTyped DEF Event, BlockEvent, StartEvent, Index, TextOf
<1>2. NewBlock(c, kind).events = Append(c.events, e)
  BY DEF NewBlock, Emit, Context
<1> HIDE DEF e
<1>3. Says(c, NewBlock(c, kind), TextOf(e))
  BY <1>1, <1>2, AppendSays
<1> QED BY <1>1, <1>3

\* Nor does the stop of one.
LEMMA StopBlockSays ==
  ASSUME NEW c \in Context, NEW i \in Nat
  PROVE  Says(c, StopBlock(c, i), <<>>)
<1> DEFINE e == [type |-> "content_block_stop", index |-> i]
           d == StopBlock(c, i)
<1>1. CASE IsOpen(c, i)
  <2>1. e \in Event /\ TextOf(e) = <<>>
    <3>1. i \in Index
      BY <1>1, LengthsTyped DEF IsOpen, Index
    <3> QED BY <3>1 DEF Event, BlockEvent, StopEvent, TextOf
  <2>2. d.events = Append(c.events, e)
    BY <1>1 DEF StopBlock, Emit, Context
  <2> HIDE DEF e, d
  <2>3. Says(c, d, TextOf(e))
    BY <2>1, <2>2, AppendSays
  <2> QED BY <2>1, <2>3 DEF d
<1>2. CASE ~IsOpen(c, i)
  <2>1. d.events = c.events
    BY <1>2 DEF StopBlock
  <2> HIDE DEF d
  <2>2. Says(c, d, <<>>)
    BY <2>1, SaysNothing
  <2> QED BY <2>2 DEF d
<1> QED BY <1>1, <1>2

\* A delta says its text.
LEMMA DeltaSays ==
  ASSUME NEW c \in Context, NEW i \in Index, NEW kind \in Kinds, NEW text \in Seq(Letters)
  PROVE  Says(c, Emit(c, DeltaEvent(i, kind, text)), text)
<1> DEFINE e == DeltaEvent(i, kind, text)
<1>1. e \in Event /\ TextOf(e) = text
  BY DEF DeltaEvent, Event, BlockEvent, DeltaEvents, TextOf
<1> HIDE DEF e
<1>2. Says(c, Emit(c, e), TextOf(e))
  BY <1>1, EmitSays
<1> QED BY <1>1, <1>2 DEF e

\* From c to d the blocks of tool calls stay open or closed.
SparesTools(c, d) ==
  /\ d.toolIndex = c.toolIndex /\ Len(c.blocks) <= Len(d.blocks)
  /\ \A i \in 1 .. Len(c.blocks) :
       /\ d.blocks[i].kind = c.blocks[i].kind
       /\ c.blocks[i].kind = "tool_use" => (d.blocks[i].open <=> c.blocks[i].open)

\* Two steps that leave the calls' blocks alone.
LEMMA SparesToolsOn ==
  ASSUME NEW c \in Context, NEW d \in Context, NEW e \in Context, SparesTools(c, d), SparesTools(d, e)
  PROVE  SparesTools(c, e)
<1>1. Len(c.blocks) \in Nat /\ Len(d.blocks) \in Nat /\ Len(e.blocks) \in Nat
  BY LengthsTyped
<1> QED BY <1>1 DEF SparesTools

\* The same blocks are left alone.
LEMMA SparesToolsItself ==
  ASSUME NEW c \in Context, NEW d, d.toolIndex = c.toolIndex, d.blocks = c.blocks
  PROVE  SparesTools(c, d)
<1>1. Len(c.blocks) \in Nat
  BY LengthsTyped
<1> QED BY <1>1 DEF SparesTools

\* Text is said as it is.
LEMMA TextDeltaSays ==
  ASSUME NEW c, NEW n, NEW open, Pointed(c, n, open), NEW text \in Seq(Letters)
  PROVE  LET d == TextDelta(c, text)
         IN  Says(c, d, text) /\ SparesTools(c, d)
<1> DEFINE d == TextDelta(c, text)
           l == Len(c.blocks)
<1>1. /\ Fits(c, n, open) /\ c \in Context /\ l \in Nat /\ DOMAIN c.blocks = 1 .. l
      /\ "text" \in Kinds /\ c.textIndex \in Nat
  BY LengthsTyped DEF Pointed, Fits, Context, Kinds
<1>2. SparesTools(c, d)
  <2>1. Shows(c, d)
    BY TextDeltaSound
  <2> HIDE DEF d
  <2> QED BY <2>1, <1>1 DEF Shows, Extends, SparesTools
<1>3. CASE IsOpen(c, c.textIndex) /\ c.blocks[c.textIndex].kind = "text"
  <2>1. d = Emit(c, DeltaEvent(c.textIndex, "text", text)) /\ c.textIndex \in Index
    BY <1>1, <1>3 DEF TextDelta, BlockDelta, IsOpen, Index
  <2>2. Says(c, d, text)
    BY <1>1, <2>1, DeltaSays
  <2> QED BY <1>2, <2>2
<1>4. CASE ~(IsOpen(c, c.textIndex) /\ c.blocks[c.textIndex].kind = "text")
  <2> DEFINE x == NewBlock(c, "text")
             y == [x EXCEPT !.textIndex = l + 1]
  <2>1. /\ Fits(x, n, open) /\ Says(c, x, <<>>)
        /\ Len(x.blocks) = l + 1 /\ x.blocks[l + 1] = [kind |-> "text", open |-> TRUE]
    BY <1>1, NewBlockFits, NewBlockSays
  <2>2. d = BlockDelta(y, y.textIndex, "text", text)
    BY <1>4 DEF TextDelta
  <2> HIDE DEF x, d
  <2>3. /\ y \in Context /\ y.textIndex = l + 1 /\ y.blocks = x.blocks /\ y.events = x.events
        /\ x \in Context
    <3>1. x \in Context /\ l + 1 \in Nat
      BY <1>1, <2>1 DEF Fits
    <3> QED BY <3>1 DEF Context
  <2> HIDE DEF y
  <2>4. Says(x, y, <<>>)
    BY <2>3, SaysNothing
  <2>5. Says(c, y, <<>>)
    BY <1>1, <2>1, <2>4, SaysOnSilently
  <2>6. IsOpen(y, l + 1) /\ l + 1 \in Index
    <3>1. Len(x.blocks) \in Nat /\ DOMAIN x.blocks = 1 .. Len(x.blocks)
      BY <2>3, LengthsTyped
    <3> QED BY <3>1, <1>1, <2>1, <2>3 DEF IsOpen, Index
  <2>7. d = Emit(y, DeltaEvent(l + 1, "text", text))
    BY <2>2, <2>3, <2>6 DEF BlockDelta
  <2>8. Says(y, d, text)
    BY <1>1, <2>3, <2>6, <2>7, DeltaSays
  <2>9. Says(c, d, text)
    BY <1>1, <2>5, <2>8, SaysAfterSilence
  <2> QED BY <1>2, <2>9 DEF d
<1> QED BY <1>3, <1>4

\* A thinking delta says its text and touches no block.
LEMMA ThinkingDeltaSays ==
  ASSUME NEW c \in Context, c.thinkingIndex # 0, NEW text \in Seq(Letters)
  PROVE  LET d == ThinkingDelta(c, text)
         IN  /\ Says(c, d, text) /\ d \in Context /\ d.thinkingIndex = c.thinkingIndex
             /\ d.blocks = c.blocks /\ d.toolIndex = c.toolIndex /\ d.buffer = c.buffer
<1> DEFINE e == DeltaEvent(c.thinkingIndex, "thinking", text)
           d == ThinkingDelta(c, text)
<1>1. c.thinkingIndex \in Index /\ "thinking" \in Kinds
  BY DEF Context, Index, Kinds
<1>2. e \in Event
  BY <1>1 DEF DeltaEvent, Event, BlockEvent, DeltaEvents
<1>3. d = Emit(c, e)
  BY DEF ThinkingDelta
<1>4. Says(c, d, text)
  BY <1>1, <1>3, DeltaSays
<1> HIDE DEF d, e
<1>5. d \in Context /\ KeepsRest(c, d) /\ d.blocks = c.blocks
  BY <1>2, <1>3, EmitTyped
<1> QED BY <1>4, <1>5 DEF KeepsRest, d

LEMMA EndThinkingSays ==
  ASSUME NEW c, NEW n, NEW open, Sound(c, n, open), c.thinking = "inside",
         NEW text \in Seq(Units)
  PROVE  LET d == EndThinking(c, text)
         IN  Says(c, d, text) /\ SparesTools(c, d)
<1> DEFINE shown == IF text = <<>> THEN c ELSE ThinkingDelta(c, text)
           x == ThinkingDelta(shown, <<>>)
           d == EndThinking(c, text)
<1>1. /\ c \in Context /\ c.thinkingIndex # 0 /\ c.thinkingIndex \in Nat
      /\ PointsAt(c, c.thinkingIndex, "thinking")
      /\ text \in Seq(Letters) /\ <<>> \in Seq(Letters)
  BY UnitsAreLetters, EmptySeq DEF Sound, Pointed, Fits, IndexesPoint, Context
<1>2. Says(c, shown, text) /\ shown \in Context /\ shown.thinkingIndex = c.thinkingIndex
  <2>1. CASE text = <<>>
    BY <1>1, <2>1, SaysNothing
  <2>2. CASE text # <<>>
    BY <1>1, <2>2, ThinkingDeltaSays
  <2> QED BY <2>1, <2>2
<1>3. d = StopBlock(x, c.thinkingIndex)
  BY DEF EndThinking
<1>4. SparesTools(c, d)
  <2>1. /\ KeepsRest(c, d) /\ Len(d.blocks) = Len(c.blocks)
        /\ \A j \in 1 .. Len(c.blocks) :
             /\ d.blocks[j].kind = c.blocks[j].kind
             /\ d.blocks[j].open <=> c.blocks[j].open /\ j # c.thinkingIndex
    BY EndThinkingFits
  <2>2. Len(c.blocks) \in Nat
    BY <1>1, LengthsTyped
  <2> HIDE DEF d
  <2>3. \A j \in 1 .. Len(c.blocks) : c.blocks[j].kind = "tool_use" => j # c.thinkingIndex
    BY <1>1 DEF PointsAt
  <2> QED BY <2>1, <2>2, <2>3 DEF KeepsRest, SparesTools
<1> HIDE DEF shown, d
<1>5. Says(shown, x, <<>>) /\ x \in Context
  BY <1>1, <1>2, ThinkingDeltaSays
<1> HIDE DEF x
<1>6. Says(x, d, <<>>)
  BY <1>1, <1>3, <1>5, StopBlockSays
<1>7. Says(c, x, text)
  BY <1>1, <1>2, <1>5, SaysOnSilently
<1>8. Says(c, d, text)
  BY <1>1, <1>6, <1>7, SaysOnSilently
<1> QED BY <1>4, <1>8 DEF d

\* Of what c held back and was given, w, nothing of V is missing in what is said from c to d and
\* held back then.
Carries(c, d, V, w) ==
  \E r : Says(c, d, r) /\ Keep(c.buffer, V) \o w = Keep(r, V) \o Keep(d.buffer, V)

\* What two steps carry is carried one behind the other.
LEMMA CarriesOn ==
  ASSUME NEW c \in Context, NEW d \in Context, NEW e \in Context, NEW V,
         NEW v \in Seq(Letters), NEW w \in Seq(Letters),
         Carries(c, d, V, v), Carries(d, e, V, w)
  PROVE  Carries(c, e, V, v \o w)
<1>1. PICK r : Says(c, d, r) /\ Keep(c.buffer, V) \o v = Keep(r, V) \o Keep(d.buffer, V)
  BY DEF Carries
<1>2. PICK q : Says(d, e, q) /\ Keep(d.buffer, V) \o w = Keep(q, V) \o Keep(e.buffer, V)
  BY DEF Carries
<1>3. Says(c, e, r \o q)
  BY <1>1, <1>2, SaysOn
<1>4. r \in Seq(Letters) /\ q \in Seq(Letters)
  BY <1>1, <1>2 DEF Says
<1>5. c.buffer \in Seq(Letters) /\ d.buffer \in Seq(Letters) /\ e.buffer \in Seq(Letters)
  BY UnitsAreLetters DEF Context
<1> DEFINE B == Keep(c.buffer, V)
           C == Keep(d.buffer, V)
           D == Keep(e.buffer, V)
           R == Keep(r, V)
           Q == Keep(q, V)
<1>6. Keep(r \o q, V) = R \o Q
  BY <1>4, KeepBoth
<1>7. /\ B \in Seq(Letters) /\ C \in Seq(Letters) /\ D \in Seq(Letters)
      /\ R \in Seq(Letters) /\ Q \in Seq(Letters)
  BY <1>4, <1>5, KeepTyped
<1>8. B \o v = R \o C /\ C \o w = Q \o D
  BY <1>1, <1>2
<1> HIDE DEF B, C, D, R, Q
<1>9. B \o (v \o w) = (R \o Q) \o D
  <2>1. Joins(B, v, R, C) /\ Joins(C, w, Q, D)
    BY <1>7, <1>8 DEF Joins
  <2>2. Joins(B, v \o w, R \o Q, D)
    BY <2>1, JoinedOn
  <2> QED BY <2>2 DEF Joins
<1> QED BY <1>3, <1>6, <1>9 DEF Carries, B, C, D, R, Q

\* Nothing was given on the way.
LEMMA CarriesOnly ==
  ASSUME NEW c \in Context, NEW d \in Context, NEW V, NEW r, Says(c, d, r),
         Keep(c.buffer, V) = Keep(r, V) \o Keep(d.buffer, V)
  PROVE  Carries(c, d, V, <<>>)
<1>1. c.buffer \in Seq(Letters)
  BY UnitsAreLetters DEF Context
<1>2. Keep(c.buffer, V) \in Seq(Letters)
  BY <1>1, KeepTyped
<1>3. Keep(c.buffer, V) \o <<>> = Keep(c.buffer, V)
  BY <1>2, ConcatEmptySeq
<1> QED BY <1>3 DEF Carries

\* The same is held back, and nothing is said.
LEMMA CarriesSame ==
  ASSUME NEW c \in Context, NEW d \in Context, NEW V, Says(c, d, <<>>),
         Keep(d.buffer, V) = Keep(c.buffer, V)
  PROVE  Carries(c, d, V, <<>>)
<1>1. c.buffer \in Seq(Letters)
  BY UnitsAreLetters DEF Context
<1>2. Keep(c.buffer, V) \in Seq(Letters) /\ Keep(<<>>, V) = <<>>
  BY <1>1, KeepTyped, KeepEmpty
<1>3. <<>> \o Keep(c.buffer, V) = Keep(c.buffer, V)
  BY <1>2, ConcatEmptySeq
<1> QED BY <1>2, <1>3, CarriesOnly

\* Everything is handed on: nothing is missing, and the tool calls keep their blocks.
Hands(c, d, V, w) == Carries(c, d, V, w) /\ SparesTools(c, d)

\* A step that takes v in, and one that only hands on.
LEMMA HandsOn ==
  ASSUME NEW c \in Context, NEW d \in Context, NEW e \in Context, NEW V,
         NEW w \in Seq(Letters), Hands(c, d, V, w), Hands(d, e, V, <<>>)
  PROVE  Hands(c, e, V, w)
<1>1. <<>> \in Seq(Letters) /\ w \o <<>> = w
  BY EmptySeq, ConcatEmptySeq
<1>2. Carries(c, e, V, w \o <<>>)
  BY <1>1, CarriesOn DEF Hands
<1>3. SparesTools(c, e)
  BY SparesToolsOn DEF Hands
<1> QED BY <1>1, <1>2, <1>3 DEF Hands

\* No tag begins the thinking.
Untagged(text) == \A i \in 1 .. Len(text) : text[i] \notin ToSet(OpenTag)
Waits(c) == c.thinking = "before" /\ Untagged(c.buffer)

\* The rest of a text without a tag has none.
LEMMA UntaggedFrom ==
  ASSUME NEW text \in Seq(Units), Untagged(text), NEW q \in Int, 1 <= q
  PROVE  Untagged(From(text, q))
<1> DEFINE l == Len(text)
           z == From(text, q)
<1>1. l \in Nat /\ \A i \in q .. l : text[i] \in Units
  OBVIOUS
<1>2. /\ Len(z) = IF q <= l THEN l - q + 1 ELSE 0
      /\ \A i \in 1 .. l - q + 1 : z[i] = text[q + i - 1]
  <2>1. q \in Int /\ l \in Int
    BY <1>1
  <2> QED BY <1>1, <2>1, SubSeqProperties DEF From
<1> HIDE DEF z
<1>3. ASSUME NEW i \in 1 .. Len(z)
      PROVE  z[i] \notin ToSet(OpenTag)
  <2>1. i \in 1 .. l - q + 1 /\ q + i - 1 \in 1 .. l
    BY <1>1, <1>2
  <2> HIDE DEF l
  <2> QED BY <2>1, <1>2 DEF Untagged, l
<1> QED BY <1>3 DEF Untagged, z

\* A text without a tag has no start tag.
LEMMA UntaggedHasNone ==
  ASSUME NEW text \in Seq(Units), Untagged(text)
  PROVE  StartTags(text) = {}
<1> SUFFICES ASSUME NEW p \in StartTags(text)
             PROVE  FALSE
  OBVIOUS
<1>1. p \in 1 .. Len(text) - 1 /\ text[p] = OpenTag[1]
  BY TagHidden DEF StartTags
<1>2. OpenTag[1] \in ToSet(OpenTag) /\ Len(text) \in Nat
  BY DEF OpenTag, ToSet
<1> QED BY <1>1, <1>2 DEF Untagged

\* Text is shown unless it is blank, and nothing of it is missing.
LEMMA ShownSays ==
  ASSUME NEW c, NEW n, NEW open, Pointed(c, n, open), NEW text \in Seq(Units),
         NEW V, V \cap Hidden = {}
  PROVE  LET d == IF IsBlank(text) THEN c ELSE TextDelta(c, text)
         IN  SparesTools(c, d) /\ \E r : Says(c, d, r) /\ Keep(r, V) = Keep(text, V)
<1>1. c \in Context /\ text \in Seq(Letters)
  BY UnitsAreLetters DEF Pointed, Fits
<1>2. CASE IsBlank(text)
  <2>1. Says(c, c, <<>>) /\ SparesTools(c, c)
    BY <1>1, SaysNothing, SparesToolsItself
  <2>2. Keep(<<>>, V) = Keep(text, V)
    BY <1>2, KeepBlank, KeepEmpty
  <2> QED BY <1>2, <2>1, <2>2
<1>3. CASE ~IsBlank(text)
  <2>1. Says(c, TextDelta(c, text), text) /\ SparesTools(c, TextDelta(c, text))
    BY <1>1, TextDeltaSays
  <2> QED BY <1>3, <2>1
<1> QED BY <1>2, <1>3

\* Leaving the thinking hands on what is before its end.
LEMMA LeaveThinkingHands ==
  ASSUME NEW c, NEW n, NEW open, Sound(c, n, open), c.thinking = "inside",
         NEW end \in 1 .. Len(c.buffer), NEW rest \in Seq(Units), NEW V,
         Keep(c.buffer, V) = Keep(SubSeq(c.buffer, 1, end - 1), V) \o Keep(rest, V)
  PROVE  Hands(c, LeaveThinking(c, end, rest), V, <<>>)
<1> DEFINE text == SubSeq(c.buffer, 1, end - 1)
           x == EndThinking(c, text)
           d == LeaveThinking(c, end, rest)
<1>1. c \in Context /\ c.buffer \in Seq(Units)
  BY DEF Sound, Pointed, Fits, Context
<1>2. text \in Seq(Units)
  BY <1>1, PieceTyped, LenProperties
<1>3. d = [x EXCEPT !.thinking = "done", !.buffer = rest]
  BY DEF LeaveThinking
<1> HIDE DEF text
<1>4. Says(c, x, text) /\ SparesTools(c, x) /\ x \in Context
  <2>1. Fits(x, n, open)
    BY <1>2, EndThinkingFits
  <2> QED BY <2>1, <1>2, EndThinkingSays DEF Fits
<1>5. d \in Context /\ d.buffer = rest
  BY LeaveThinkingSound DEF Sound, Pointed, Fits
<1> HIDE DEF x, d
<1>6. d.events = x.events /\ d.blocks = x.blocks /\ d.toolIndex = x.toolIndex
  BY <1>3, <1>4 DEF Context
<1>7. Says(x, d, <<>>) /\ SparesTools(x, d)
  BY <1>4, <1>6, SaysNothing, SparesToolsItself
<1>8. Says(c, d, text)
  BY <1>1, <1>4, <1>7, SaysOnSilently
<1>9. SparesTools(c, d)
  BY <1>1, <1>4, <1>5, <1>7, SparesToolsOn
<1>10. Keep(c.buffer, V) = Keep(text, V) \o Keep(d.buffer, V)
  BY <1>5 DEF text
<1>11. Carries(c, d, V, <<>>)
  BY <1>1, <1>5, <1>8, <1>10, CarriesOnly
<1> QED BY <1>9, <1>11 DEF Hands, d

\* Looking for the start misses nothing but the tag and blanks.
LEMMA LookForStartHands ==
  ASSUME NEW c, NEW n, NEW open, Sound(c, n, open), c.thinking = "before",
         NEW V, V \cap Hidden = {}
  PROVE  LET d == LookForStart(c)
         IN  Hands(c, d, V, <<>>) /\ (Waits(c) => Waits(d))
<1> DEFINE start == First(StartTags(c.buffer))
           before == SubSeq(c.buffer, 1, start - 1)
           safe == SubSeq(c.buffer, 1, Len(c.buffer) - Len(OpenTag))
           rest == From(c.buffer, start + Len(OpenTag))
           Given(text) == IF IsBlank(text) THEN c ELSE TextDelta(c, text)
           d == LookForStart(c)
<1>1. /\ c \in Context /\ c.buffer \in Seq(Units) /\ Len(c.buffer) \in Nat /\ Len(OpenTag) = 2
      /\ Pointed(c, n, open)
  BY LengthsTyped DEF Sound, Pointed, Fits, Context, OpenTag
<1>2. d \in Context
  BY LookForStartSound DEF Sound, Pointed, Fits
<1>3. CASE StartTags(c.buffer) # {}
  <2>1. start \in 1 .. Len(c.buffer) - 1 /\ start \in StartTags(c.buffer)
    BY <1>1, <1>3, TagFound DEF StartTags
  <2>2. c.buffer[start] \in Hidden /\ c.buffer[start + 1] \in Hidden
    BY <1>1, <2>1, TagHidden DEF StartTags
  <2> HIDE DEF start
  <2>3. before \in Seq(Units)
    BY <2>1, <1>1, PieceTyped
  <2>4. Keep(c.buffer, V) = Keep(before, V) \o Keep(rest, V)
    <3>1. /\ start \in 1 .. Len(c.buffer) + 1 /\ start + 2 \in start .. Len(c.buffer) + 1
          /\ \A i \in start .. (start + 2) - 1 : i = start \/ i = start + 1
      BY <2>1, <1>1
    <3>2. \A i \in start .. (start + 2) - 1 : c.buffer[i] \in Hidden
      BY <3>1, <2>2
    <3> QED BY <3>1, <3>2, <1>1, CutOut
  <2> DEFINE x == Given(before)
             y == NewBlock(x, "thinking")
  <2>5. d = [y EXCEPT !.thinking = "inside", !.thinkingIndex = Len(x.blocks) + 1,
                      !.strip = TRUE, !.buffer = rest]
    BY <1>3 DEF LookForStart, start
  <2> HIDE DEF before, rest
  <2>6. Pointed(x, n, open) /\ SparesTools(c, x)
    BY <1>1, <2>3, ShownSound, ShownSays
  <2>7. PICK r : Says(c, x, r) /\ Keep(r, V) = Keep(before, V)
    BY <1>1, <2>3, ShownSays
  <2> HIDE DEF x, d
  <2>8. /\ Fits(y, n, open) /\ KeepsRest(x, y) /\ Len(y.blocks) = Len(x.blocks) + 1
        /\ \A i \in 1 .. Len(x.blocks) : y.blocks[i] = x.blocks[i]
        /\ x \in Context /\ Says(x, y, <<>>)
    BY <2>6, NewBlockFits, NewBlockSays DEF Pointed, Fits, Kinds
  <2> HIDE DEF y
  <2>9. /\ d.events = y.events /\ d.blocks = y.blocks /\ d.toolIndex = y.toolIndex
        /\ d.buffer = rest
    <3>1. y \in Context
      BY <2>8 DEF Fits
    <3> QED BY <3>1, <2>5 DEF Context
  <2>10. Says(y, d, <<>>) /\ y \in Context
    <3>1. y \in Context
      BY <2>8 DEF Fits
    <3> QED BY <3>1, <2>9, SaysNothing
  <2>11. Says(c, d, r)
    <3>1. Says(c, y, r)
      BY <1>1, <2>7, <2>8, SaysOnSilently
    <3> QED BY <1>1, <3>1, <2>10, SaysOnSilently
  <2>12. SparesTools(c, d)
    <3>1. SparesTools(x, d)
      <4>1. Len(x.blocks) \in Nat
        BY <2>8, LengthsTyped
      <4> QED BY <4>1, <2>8, <2>9 DEF SparesTools, KeepsRest
    <3> QED BY <3>1, <1>1, <1>2, <2>6, <2>8, SparesToolsOn DEF d
  <2>13. Carries(c, d, V, <<>>)
    BY <1>1, <1>2, <2>4, <2>7, <2>9, <2>11, CarriesOnly DEF d
  <2>14. ~Waits(c)
    BY <1>1, <1>3, UntaggedHasNone DEF Waits
  <2> QED BY <2>12, <2>13, <2>14 DEF Hands, d
<1>4. CASE StartTags(c.buffer) = {} /\ IsBlank(safe)
  <2>1. d = c
    BY <1>4 DEF LookForStart
  <2>2. Says(c, c, <<>>) /\ SparesTools(c, c)
    BY <1>1, SaysNothing, SparesToolsItself
  <2>3. Carries(c, c, V, <<>>)
    BY <1>1, <2>2, CarriesSame
  <2> QED BY <2>1, <2>2, <2>3 DEF Hands
<1>5. CASE StartTags(c.buffer) = {} /\ ~IsBlank(safe)
  <2> DEFINE x == Given(safe)
             tail == From(c.buffer, Len(safe) + 1)
  <2>1. d = [x EXCEPT !.buffer = tail]
    BY <1>5 DEF LookForStart
  <2>2. safe \in Seq(Units) /\ Len(safe) = Len(c.buffer) - 2 /\ Len(safe) \in Nat
    <3>1. 1 \in Int /\ Len(c.buffer) - 2 \in Int /\ 1 <= 1 /\ Len(c.buffer) - 2 <= Len(c.buffer)
      BY <1>1
    <3>2. safe \in Seq(Units)
      BY <3>1, <1>1, PieceTyped
    <3>3. Len(safe) = IF 1 <= Len(c.buffer) - 2 THEN (Len(c.buffer) - 2) - 1 + 1 ELSE 0
      <4>1. \A i \in 1 .. Len(c.buffer) - 2 : c.buffer[i] \in Units
        BY <1>1
      <4> QED BY <4>1, <3>1, <1>1, SubSeqProperties
    <3>4. DOMAIN safe # {}
      BY <1>5 DEF IsBlank
    <3>5. DOMAIN safe = 1 .. Len(safe)
      BY <3>2
    <3> HIDE DEF safe
    <3>6. Len(safe) # 0
      BY <3>4, <3>5
    <3> QED BY <3>2, <3>3, <3>6, <1>1
  <2>3. Keep(c.buffer, V) = Keep(safe, V) \o Keep(tail, V)
    <3> DEFINE k == Len(c.buffer) - 1
    <3>1. /\ k \in 1 .. Len(c.buffer) + 1 /\ k \in k .. Len(c.buffer) + 1
          /\ k - 1 = Len(c.buffer) - 2 /\ Len(safe) + 1 = k
          /\ \A i \in k .. k - 1 : c.buffer[i] \in Hidden
      <4> HIDE DEF safe
      <4> QED BY <2>2, <1>1
    <3> HIDE DEF k
    <3>2. Keep(c.buffer, V) = Keep(SubSeq(c.buffer, 1, k - 1), V) \o Keep(From(c.buffer, k), V)
      BY <3>1, <1>1, CutOut
    <3> QED BY <3>1, <3>2, <1>1
  <2> HIDE DEF safe
  <2>4. Pointed(x, n, open) /\ Shows(c, x) /\ SparesTools(c, x)
    BY <1>1, <2>2, ShownSound, ShownSays
  <2>5. PICK r : Says(c, x, r) /\ Keep(r, V) = Keep(safe, V)
    BY <1>1, <2>2, ShownSays
  <2> HIDE DEF x, d
  <2>6. /\ d.events = x.events /\ d.blocks = x.blocks /\ d.toolIndex = x.toolIndex
        /\ d.buffer = tail /\ d.thinking = x.thinking /\ x \in Context
    <3>1. x \in Context
      BY <2>4 DEF Pointed, Fits
    <3> HIDE DEF tail
    <3> QED BY <3>1, <2>1 DEF Context
  <2>7. Says(x, d, <<>>) /\ SparesTools(x, d)
    BY <2>6, SaysNothing, SparesToolsItself
  <2>8. Says(c, d, r)
    BY <1>1, <2>5, <2>7, SaysOnSilently
  <2>9. SparesTools(c, d)
    BY <1>1, <1>2, <2>4, <2>6, <2>7, SparesToolsOn DEF d
  <2>10. Carries(c, d, V, <<>>)
    <3>1. Keep(c.buffer, V) = Keep(r, V) \o Keep(d.buffer, V)
      BY <2>3, <2>5, <2>6
    <3> QED BY <3>1, <1>1, <1>2, <2>8, CarriesOnly DEF d
  <2>11. Waits(c) => Waits(d)
    <3>1. Len(safe) + 1 \in Int /\ 1 <= Len(safe) + 1
      BY <2>2
    <3>2. Untagged(c.buffer) => Untagged(tail)
      BY <3>1, <1>1, UntaggedFrom
    <3> QED BY <3>2, <2>4, <2>6 DEF Waits, Shows
  <2> QED BY <2>9, <2>10, <2>11 DEF Hands, d
<1> QED BY <1>3, <1>4, <1>5

\* What is stripped is a blank.
LEMMA StripNewlineHands ==
  ASSUME NEW c, NEW n, NEW open, Sound(c, n, open), NEW V, V \cap Hidden = {}
  PROVE  Hands(c, StripNewline(c), V, <<>>)
<1> DEFINE b == c.buffer
           text == IF c.strip /\ IsPrefix(<<Newline>>, b) THEN Tail(b) ELSE b
           strip == c.strip /\ b = <<>>
           d == StripNewline(c)
<1>1. c \in Context /\ b \in Seq(Units) /\ Len(b) \in Nat
  BY LengthsTyped DEF Sound, Pointed, Fits, Context
<1>2. d = [c EXCEPT !.buffer = text, !.strip = strip] /\ d \in Context
  <2>1. d \in Context
    BY StripNewlineSound DEF Sound, Pointed, Fits
  <2> QED BY <2>1 DEF StripNewline
<1>3. Keep(text, V) = Keep(b, V)
  <2>1. CASE ~IsPrefix(<<Newline>>, b)
    BY <2>1
  <2>2. CASE IsPrefix(<<Newline>>, b)
    <3> HIDE DEF b
    <3>1. Len(<<Newline>>) = 1 /\ SubSeq(<<Newline>>, 1, 1) = <<Newline>>
      <4>1. <<Newline>> \in Seq({Newline}) /\ Len(<<Newline>>) = 1
        OBVIOUS
      <4>2. SubSeq(<<Newline>>, 1, Len(<<Newline>>)) = <<Newline>>
        BY <4>1, SubSeqFull
      <4> QED BY <4>1, <4>2
    <3>2. 1 <= Len(b) /\ SubSeq(b, 1, 1) = <<Newline>>
      BY <2>2, <3>1 DEF IsPrefix
    <3>3. b[1] = Newline
      <4>1. \A i \in 1 .. 1 : b[i] \in Units
        BY <1>1, <3>2
      <4>2. \A i \in 1 .. 1 - 1 + 1 : SubSeq(b, 1, 1)[i] = b[1 + i - 1]
        BY <4>1, SubSeqProperties
      <4>3. SubSeq(b, 1, 1)[1] = b[1]
        BY <4>2
      <4>4. <<Newline>>[1] = Newline
        OBVIOUS
      <4> QED BY <4>3, <4>4, <3>2, Zenon
    <3>4. b # <<>>
      BY <1>1, <3>2, LenProperties, EmptySeq
    <3>5. Tail(b) = From(b, 2)
      BY <1>1, <3>4, TailIsSubSeq DEF From
    <3>6. Keep(b, V) = Keep(SubSeq(b, 1, 1 - 1), V) \o Keep(From(b, 2), V)
      <4>1. /\ 1 \in 1 .. Len(b) + 1 /\ 2 \in 1 .. Len(b) + 1
            /\ \A i \in 1 .. 2 - 1 : b[i] \in Hidden
        BY <1>1, <3>2, <3>3 DEF Hidden, Blank
      <4> QED BY <4>1, <1>1, CutOut
    <3>7. SubSeq(b, 1, 1 - 1) = <<>>
      BY SubSeqEmpty
    <3>8. Keep(From(b, 2), V) \in Seq(Units)
      <4>1. From(b, 2) \in Seq(Units)
        BY <1>1, FromTyped
      <4> QED BY <4>1, KeepTyped
    <3>9. <<>> \o Keep(From(b, 2), V) = Keep(From(b, 2), V)
      BY <3>8, ConcatEmptySeq
    <3>10. Keep(b, V) = Keep(Tail(b), V)
      BY <3>5, <3>6, <3>7, <3>9, KeepEmpty
    <3> QED BY <3>10
  <2> QED BY <2>1, <2>2
<1> HIDE DEF text, strip, d
<1>4. d.events = c.events /\ d.blocks = c.blocks /\ d.toolIndex = c.toolIndex /\ d.buffer = text
  BY <1>1, <1>2 DEF Context
<1>5. Says(c, d, <<>>) /\ SparesTools(c, d)
  BY <1>1, <1>4, SaysNothing, SparesToolsItself
<1>6. Carries(c, d, V, <<>>)
  BY <1>1, <1>2, <1>3, <1>4, <1>5, CarriesSame
<1> QED BY <1>5, <1>6 DEF Hands, d

\* Looking for the end misses nothing but the tag and its blank line.
LEMMA LookForEndHands ==
  ASSUME NEW c, NEW n, NEW open, Sound(c, n, open), c.thinking = "inside",
         NEW V, V \cap Hidden = {}
  PROVE  Hands(c, LookForEnd(c), V, <<>>)
<1> DEFINE end == First(EndTags(c.buffer))
           held == Len(CloseTag) + 2
           safe == SubSeq(c.buffer, 1, Len(c.buffer) - held)
           d == LookForEnd(c)
<1>1. /\ c \in Context /\ c.buffer \in Seq(Units) /\ Len(c.buffer) \in Nat /\ held = 4
      /\ Pointed(c, n, open) /\ c.thinkingIndex # 0
  BY LengthsTyped DEF Sound, Pointed, Fits, Context, CloseTag, IndexesPoint
<1>2. d \in Context
  BY LookForEndSound DEF Sound, Pointed, Fits
<1>3. CASE EndTags(c.buffer) # {}
  <2>1. end \in EndTags(c.buffer)
    <3>1. EndTags(c.buffer) \subseteq RealTags(c.buffer, CloseTag)
      BY DEF EndTags
    <3> QED BY <3>1, <1>1, <1>3, TagFound
  <2>2. end \in 1 .. Len(c.buffer) - 3 /\ \A i \in end .. end + 3 : c.buffer[i] \in Hidden
    BY <2>1, <1>1, EndTagHidden
  <2> DEFINE rest == From(c.buffer, end + held)
  <2>3. d = LeaveThinking(c, end, rest)
    BY <1>3 DEF LookForEnd
  <2> HIDE DEF end, held, d
  <2>4. rest \in Seq(Units)
    <3>1. end + held \in Int /\ 1 <= end + held
      BY <1>1, <2>2
    <3> QED BY <3>1, <1>1, FromTyped
  <2>5. Keep(c.buffer, V) = Keep(SubSeq(c.buffer, 1, end - 1), V) \o Keep(rest, V)
    <3>1. /\ end \in 1 .. Len(c.buffer) + 1 /\ end + held \in end .. Len(c.buffer) + 1
          /\ \A i \in end .. (end + held) - 1 : i \in end .. end + 3
      BY <1>1, <2>2
    <3>2. \A i \in end .. (end + held) - 1 : c.buffer[i] \in Hidden
      BY <3>1, <2>2
    <3> QED BY <3>1, <3>2, <1>1, CutOut
  <2> HIDE DEF rest
  <2>6. end \in 1 .. Len(c.buffer)
    BY <1>1, <2>2
  <2> QED BY <2>3, <2>4, <2>5, <2>6, LeaveThinkingHands DEF d
<1>4. CASE EndTags(c.buffer) = {} /\ safe = <<>>
  <2>1. d = c
    BY <1>4 DEF LookForEnd
  <2>2. Says(c, c, <<>>) /\ SparesTools(c, c)
    BY <1>1, SaysNothing, SparesToolsItself
  <2>3. Carries(c, c, V, <<>>)
    BY <1>1, <2>2, CarriesSame
  <2> QED BY <2>1, <2>2, <2>3 DEF Hands
<1>5. CASE EndTags(c.buffer) = {} /\ safe # <<>>
  <2> DEFINE x == ThinkingDelta(c, safe)
             tail == From(c.buffer, Len(safe) + 1)
  <2>1. d = [x EXCEPT !.buffer = tail]
    BY <1>5 DEF LookForEnd
  <2>2. safe \in Seq(Units) /\ Len(safe) = Len(c.buffer) - 4 /\ Len(safe) \in Nat
    <3> HIDE DEF held
    <3>1. 1 \in Int /\ Len(c.buffer) - held \in Int /\ 1 <= 1 /\ Len(c.buffer) - held <= Len(c.buffer)
      BY <1>1
    <3>2. safe \in Seq(Units)
      BY <3>1, <1>1, PieceTyped
    <3>3. Len(safe) = IF 1 <= Len(c.buffer) - held THEN (Len(c.buffer) - held) - 1 + 1 ELSE 0
      <4>1. \A i \in 1 .. Len(c.buffer) - held : c.buffer[i] \in Units
        BY <1>1
      <4> QED BY <4>1, <3>1, <1>1, SubSeqProperties
    <3>4. safe # <<>>
      BY <1>5
    <3> HIDE DEF safe
    <3>5. Len(safe) # 0
      BY <3>2, <3>4, EmptySeq
    <3> QED BY <3>2, <3>3, <3>5, <1>1
  <2>3. Keep(c.buffer, V) = Keep(safe, V) \o Keep(tail, V)
    <3> DEFINE k == Len(c.buffer) - 3
    <3>1. /\ k \in 1 .. Len(c.buffer) + 1 /\ k \in k .. Len(c.buffer) + 1
          /\ k - 1 = Len(c.buffer) - held /\ Len(safe) + 1 = k
          /\ \A i \in k .. k - 1 : c.buffer[i] \in Hidden
      <4> HIDE DEF safe, held
      <4> QED BY <2>2, <1>1
    <3> HIDE DEF k
    <3>2. Keep(c.buffer, V) = Keep(SubSeq(c.buffer, 1, k - 1), V) \o Keep(From(c.buffer, k), V)
      BY <3>1, <1>1, CutOut
    <3> QED BY <3>1, <3>2, <1>1
  <2>4. safe \in Seq(Letters)
    BY <2>2, UnitsAreLetters
  <2> HIDE DEF safe
  <2>5. /\ Says(c, x, safe) /\ x \in Context
        /\ x.blocks = c.blocks /\ x.toolIndex = c.toolIndex
    BY <1>1, <2>4, ThinkingDeltaSays
  <2> HIDE DEF x, d, tail
  <2>6. d.events = x.events /\ d.blocks = x.blocks /\ d.toolIndex = x.toolIndex /\ d.buffer = tail
    BY <2>1, <2>5 DEF Context
  <2>7. Says(x, d, <<>>)
    BY <2>5, <2>6, SaysNothing
  <2>8. Says(c, d, safe)
    BY <1>1, <2>5, <2>7, SaysOnSilently
  <2>9. SparesTools(c, d)
    BY <1>1, <2>5, <2>6, SparesToolsItself
  <2>10. Carries(c, d, V, <<>>)
    <3>1. Keep(c.buffer, V) = Keep(safe, V) \o Keep(d.buffer, V)
      BY <2>3, <2>6
    <3> QED BY <3>1, <1>1, <1>2, <2>8, CarriesOnly DEF d
  <2> QED BY <2>9, <2>10 DEF Hands, d
<1>6. (EndTags(c.buffer) = {} /\ safe = <<>>) \/ (EndTags(c.buffer) = {} /\ safe # <<>>)
        \/ EndTags(c.buffer) # {}
  OBVIOUS
<1> QED BY <1>3, <1>4, <1>5, <1>6

\* Flushing hands on all that is held back.
LEMMA FlushTextHands ==
  ASSUME NEW c, NEW n, NEW open, Pointed(c, n, open), NEW V
  PROVE  Hands(c, FlushText(c), V, <<>>)
<1> DEFINE d == FlushText(c)
           x == [c EXCEPT !.buffer = <<>>]
<1>1. c \in Context /\ c.buffer \in Seq(Units) /\ c.buffer \in Seq(Letters)
  BY UnitsAreLetters DEF Pointed, Fits, Context
<1>2. d \in Context /\ d.buffer = <<>>
  BY FlushTextSound DEF Pointed, Fits
<1>3. CASE c.buffer = <<>>
  <2>1. d = c
    BY <1>3 DEF FlushText
  <2>2. Says(c, c, <<>>) /\ SparesTools(c, c)
    BY <1>1, SaysNothing, SparesToolsItself
  <2>3. Carries(c, c, V, <<>>)
    BY <1>1, <2>2, CarriesSame
  <2> QED BY <2>1, <2>2, <2>3 DEF Hands
<1>4. CASE c.buffer # <<>>
  <2>1. d = TextDelta(x, c.buffer)
    BY <1>4 DEF FlushText
  <2>2. Pointed(x, n, open)
    <3>1. <<>> \in Seq(Units)
      BY EmptySeq
    <3> QED BY <3>1, OtherText
  <2>3. x \in Context /\ x.events = c.events /\ x.blocks = c.blocks /\ x.toolIndex = c.toolIndex
    <3>1. x \in Context
      BY <2>2 DEF Pointed, Fits
    <3> QED BY <3>1, <1>1 DEF Context
  <2> HIDE DEF x, d
  <2>4. Says(x, d, c.buffer) /\ SparesTools(x, d)
    BY <1>1, <2>1, <2>2, TextDeltaSays
  <2>5. Says(c, x, <<>>) /\ SparesTools(c, x)
    BY <1>1, <2>3, SaysNothing, SparesToolsItself
  <2>6. Says(c, d, c.buffer)
    BY <1>1, <2>4, <2>5, SaysAfterSilence
  <2>7. SparesTools(c, d)
    BY <1>1, <1>2, <2>3, <2>4, <2>5, SparesToolsOn DEF d
  <2>8. Keep(c.buffer, V) = Keep(c.buffer, V) \o Keep(d.buffer, V)
    <3>1. Keep(c.buffer, V) \in Seq(Letters)
      BY <1>1, KeepTyped
    <3>2. Keep(c.buffer, V) \o <<>> = Keep(c.buffer, V)
      BY <3>1, ConcatEmptySeq
    <3>3. Keep(d.buffer, V) = <<>>
      BY <1>2, KeepEmpty DEF d
    <3> QED BY <3>2, <3>3
  <2>9. Carries(c, d, V, <<>>)
    BY <1>1, <1>2, <2>6, <2>8, CarriesOnly DEF d
  <2> QED BY <2>7, <2>9 DEF Hands, d
<1> QED BY <1>3, <1>4

\* Two texts without a tag have none in a row.
LEMMA UntaggedBoth ==
  ASSUME NEW s \in Seq(Units), NEW t \in Seq(Units), Untagged(s), Untagged(t)
  PROVE  Untagged(s \o t)
<1> DEFINE w == s \o t
<1>1. /\ Len(s) \in Nat /\ Len(t) \in Nat /\ Len(w) = Len(s) + Len(t)
      /\ \A i \in 1 .. Len(s) : w[i] = s[i]
      /\ \A i \in 1 .. Len(t) : w[Len(s) + i] = t[i]
  OBVIOUS
<1> HIDE DEF w
<1>2. ASSUME NEW i \in 1 .. Len(w)
      PROVE  w[i] \notin ToSet(OpenTag)
  <2>1. CASE i \in 1 .. Len(s)
    BY <2>1, <1>1 DEF Untagged
  <2>2. CASE i \notin 1 .. Len(s)
    <3> DEFINE j == i - Len(s)
    <3>1. j \in 1 .. Len(t) /\ Len(s) + j = i
      BY <2>2, <1>1
    <3> HIDE DEF j
    <3>2. w[i] = t[j]
      BY <3>1, <1>1
    <3> QED BY <3>1, <3>2 DEF Untagged
  <2> QED BY <2>1, <2>2
<1> QED BY <1>2 DEF Untagged, w

\* A piece of text is handed on or held back.
LEMMA ProcessContentHands ==
  ASSUME NEW c, NEW n, NEW open, Sound(c, n, open), NEW content \in Seq(Units),
         NEW V, V \cap Hidden = {}
  PROVE  LET d == ProcessContent(c, content)
         IN  /\ Hands(c, d, V, Keep(content, V))
             /\ Waits(c) /\ Untagged(content) => Waits(d)
<1> DEFINE w == Keep(content, V)
           joined == c.buffer \o content
           begun == [c EXCEPT !.buffer = joined]
           started == IF begun.thinking = "before" THEN LookForStart(begun) ELSE begun
           stripped == StripNewline(started)
           ended == IF started.thinking = "inside" THEN LookForEnd(stripped) ELSE started
           d == IF ended.thinking = "done" THEN FlushText(ended) ELSE ended
           Hopes == Waits(c) /\ Untagged(content)
           Leads(x) == /\ Sound(x, n, open) /\ x \in Context /\ Hands(c, x, V, w)
                       /\ Hopes => Waits(x)
<1>1. ProcessContent(c, content) = d
  BY DEF ProcessContent
<1>2. c \in Context /\ c.buffer \in Seq(Units) /\ joined \in Seq(Units)
  BY DEF Sound, Pointed, Fits, Context
<1>3. w \in Seq(Letters)
  <2>1. content \in Seq(Letters)
    BY UnitsAreLetters
  <2> QED BY <2>1, KeepTyped
<1>4. Keep(joined, V) = Keep(c.buffer, V) \o w
  BY <1>2, KeepBothUnits
<1>5. Hopes => Untagged(joined)
  BY <1>2, UntaggedBoth DEF Waits
<1> HIDE DEF joined
<1>6. Leads(begun)
  <2>1. Sound(begun, n, open) /\ begun.buffer = joined /\ begun.thinking = c.thinking
    BY <1>2, OtherText DEF Sound
  <2>2. begun \in Context /\ begun.events = c.events /\ begun.blocks = c.blocks
          /\ begun.toolIndex = c.toolIndex
    <3>1. begun \in Context
      BY <2>1 DEF Sound, Pointed, Fits
    <3> QED BY <3>1, <1>2 DEF Context
  <2> HIDE DEF begun, w
  <2>3. Says(c, begun, <<>>) /\ SparesTools(c, begun)
    BY <1>2, <2>2, SaysNothing, SparesToolsItself
  <2>4. Keep(<<>>, V) \o Keep(begun.buffer, V) = Keep(begun.buffer, V)
    <3>1. Keep(begun.buffer, V) \in Seq(Units)
      BY <1>2, <2>1, KeepTyped
    <3> QED BY <3>1, KeepEmpty, ConcatEmptySeq
  <2>5. Carries(c, begun, V, w)
    BY <1>4, <2>1, <2>3, <2>4 DEF Carries
  <2>6. Hopes => Waits(begun)
    BY <1>5, <2>1 DEF Waits
  <2> QED BY <2>1, <2>2, <2>3, <2>5, <2>6 DEF Hands
<1> HIDE DEF begun, w, Hopes
<1>7. Leads(started)
  <2>1. CASE begun.thinking = "before"
    <3>1. started = LookForStart(begun)
      BY <2>1
    <3> HIDE DEF started
    <3>2. Sound(started, n, open)
      BY <3>1, <2>1, <1>6, LookForStartSound
    <3>3. Hands(begun, started, V, <<>>) /\ (Waits(begun) => Waits(started))
      BY <3>1, <2>1, <1>6, LookForStartHands
    <3>4. started \in Context
      BY <3>2 DEF Sound, Pointed, Fits
    <3>5. Hands(c, started, V, w)
      BY <3>3, <3>4, <1>2, <1>3, <1>6, HandsOn
    <3> QED BY <3>2, <3>3, <3>4, <3>5, <1>6
  <2>2. CASE begun.thinking # "before"
    BY <2>2, <1>6
  <2> QED BY <2>1, <2>2
<1> HIDE DEF started
<1>8. Sound(stripped, n, open) /\ stripped \in Context /\ Hands(c, stripped, V, w)
        /\ stripped.thinking = started.thinking
  <2>1. Sound(stripped, n, open) /\ stripped.thinking = started.thinking
    BY <1>7, StripNewlineSound
  <2>2. Hands(started, stripped, V, <<>>)
    BY <1>7, StripNewlineHands
  <2> HIDE DEF stripped
  <2>3. stripped \in Context
    BY <2>1 DEF Sound, Pointed, Fits
  <2>4. Hands(c, stripped, V, w)
    BY <2>2, <2>3, <1>2, <1>3, <1>7, HandsOn
  <2> QED BY <2>1, <2>3, <2>4
<1> HIDE DEF stripped
<1>9. Leads(ended)
  <2>1. CASE started.thinking = "inside"
    <3>1. ended = LookForEnd(stripped)
      BY <2>1
    <3> HIDE DEF ended
    <3>2. Sound(ended, n, open)
      BY <3>1, <2>1, <1>8, LookForEndSound
    <3>3. Hands(stripped, ended, V, <<>>)
      BY <3>1, <2>1, <1>8, LookForEndHands
    <3>4. ended \in Context
      BY <3>2 DEF Sound, Pointed, Fits
    <3>5. Hands(c, ended, V, w)
      BY <3>3, <3>4, <1>2, <1>3, <1>8, HandsOn
    <3>6. ~Hopes
      BY <2>1, <1>7 DEF Waits
    <3> QED BY <3>2, <3>4, <3>5, <3>6
  <2>2. CASE started.thinking # "inside"
    BY <2>2, <1>7
  <2> QED BY <2>1, <2>2
<1> HIDE DEF ended
<1>10. Hands(c, d, V, w) /\ (Hopes => Waits(d))
  <2>1. CASE ended.thinking = "done"
    <3>1. d = FlushText(ended)
      BY <2>1
    <3> HIDE DEF d
    <3>2. d \in Context
      BY <3>1, <1>9, FlushTextSound DEF Sound, Pointed, Fits
    <3>3. Hands(ended, d, V, <<>>)
      BY <3>1, <1>9, FlushTextHands DEF Sound
    <3>4. Hands(c, d, V, w)
      BY <3>2, <3>3, <1>2, <1>3, <1>9, HandsOn
    <3>5. ~Hopes
      BY <2>1, <1>9 DEF Waits
    <3> QED BY <3>4, <3>5
  <2>2. CASE ended.thinking # "done"
    BY <2>2, <1>9
  <2> QED BY <2>1, <2>2
<1> HIDE DEF d
<1> QED BY <1>1, <1>10 DEF w, Hopes

\* With thinking off nothing is held back.
LEMMA ProcessAssistantResponseHands ==
  ASSUME NEW c, NEW n, NEW open, Sound(c, n, open), Flushed(c), NEW content \in Seq(Units),
         ~c.enabled => c.buffer = <<>>, NEW V, V \cap Hidden = {}
  PROVE  LET d == ProcessAssistantResponse(c, content)
         IN  /\ Hands(c, d, V, Keep(content, V))
             /\ Waits(c) /\ Untagged(content) => Waits(d)
             /\ ~c.enabled => d.buffer = <<>>
<1>1. CASE c.enabled
  BY <1>1, ProcessContentHands DEF ProcessAssistantResponse
<1>2. CASE ~c.enabled
  <2> DEFINE d == TextDelta(c, content)
             w == Keep(content, V)
  <2>1. ProcessAssistantResponse(c, content) = d
    BY <1>2 DEF ProcessAssistantResponse
  <2>2. content \in Seq(Letters) /\ Pointed(c, n, open)
    BY UnitsAreLetters DEF Sound
  <2>3. Pointed(d, n, open) /\ Shows(c, d)
    BY <2>2, TextDeltaSound
  <2>4. Says(c, d, content) /\ SparesTools(c, d)
    BY <2>2, TextDeltaSays
  <2> HIDE DEF d
  <2>5. d.buffer = <<>> /\ c.buffer = <<>> /\ (Waits(c) => Waits(d))
    BY <1>2, <2>3 DEF Shows, Waits
  <2>6. w \in Seq(Letters)
    BY <2>2, KeepTyped
  <2> HIDE DEF w
  <2>7. Keep(c.buffer, V) \o w = w \o Keep(d.buffer, V)
    <3>1. Keep(c.buffer, V) = <<>> /\ Keep(d.buffer, V) = <<>>
      BY <2>5, KeepEmpty
    <3> QED BY <3>1, <2>6, ConcatEmptySeq
  <2>8. Carries(c, d, V, w)
    BY <2>4, <2>7 DEF Carries, w
  <2> QED BY <2>1, <2>4, <2>5, <2>8 DEF Hands, w
<1> QED BY <1>1, <1>2

\* Text blocks are closed without a word, and no others.
LEMMA CloseTextSays ==
  ASSUME NEW c, NEW n, NEW open, Fits(c, n, open)
  PROVE  LET d == CloseText(c)
         IN  Says(c, d, <<>>) /\ SparesTools(c, d) /\ d \in Context /\ Fits(d, n, open)
             /\ KeepsRest(c, d) /\ Len(d.blocks) = Len(c.blocks)
<1> DEFINE S == OpenText(c)
           order == SetToSeq(S)
           d == CloseText(c)
<1>1. c \in Context /\ Len(c.blocks) \in Nat
  BY LengthsTyped DEF Fits
<1>2. /\ Fits(d, n, open) /\ Grows(c, d) /\ KeepsRest(c, d)
      /\ Len(d.blocks) = Len(c.blocks)
      /\ \A j \in 1 .. Len(c.blocks) :
           /\ d.blocks[j].kind = c.blocks[j].kind
           /\ d.blocks[j].open <=> c.blocks[j].open /\ c.blocks[j].kind # "text"
  BY CloseTextFits
<1>3. \A k \in Len(c.events) + 1 .. Len(d.events) : d.events[k].type = "content_block_stop"
  <2>1. S \in SUBSET OpenBlocks(c)
    BY DEF OpenText
  <2>2. d = StopBlocks(c, order)
    BY DEF CloseText
  <2> HIDE DEF S, d
  <2>3. Lists(order, S)
    BY <1>1, <2>1, OpenBlocksFinite, SetToSeqLists
  <2> HIDE DEF order
  <2> DEFINE x == StopBlocks(c, order)
  <2>4. /\ Fits(x, n, open) /\ Grows(c, x) /\ KeepsRest(c, x)
        /\ \A k \in Len(c.events) + 1 .. Len(x.events) : x.events[k].type = "content_block_stop"
        /\ Len(x.blocks) = Len(c.blocks)
        /\ \A j \in 1 .. Len(c.blocks) : /\ x.blocks[j].kind = c.blocks[j].kind
                                         /\ x.blocks[j].open <=> c.blocks[j].open /\ j \notin S
    BY <2>1, <2>3, StopBlocksFits
  <2> HIDE DEF x
  <2>5. d = x
    BY <2>2 DEF x
  <2> QED BY <2>4, <2>5
<1> HIDE DEF d
<1>4. d \in Context
  BY <1>2 DEF Fits
<1>5. Says(c, d, <<>>)
  BY <1>1, <1>2, <1>3, <1>4, SilentSays DEF Grows
<1>6. SparesTools(c, d)
  BY <1>1, <1>2 DEF SparesTools, KeepsRest
<1> QED BY <1>2, <1>4, <1>5, <1>6 DEF d

\* ProcessToolUse first ends the thinking or hands on what is held back in front of it.
BeforeTool(c) ==
  LET end == First(EndTagsAtBufferEnd(c.buffer))
      left == IF c.thinking = "inside" /\ EndTagsAtBufferEnd(c.buffer) # {}
              THEN LeaveThinking(c, end, <<>>) ELSE c
  IN IF left.thinking = "before" THEN FlushText(left) ELSE left

\* Behind the end tag at the end of the buffer nothing is missed.
LEMMA EndAtBufferEndHands ==
  ASSUME NEW c, NEW n, NEW open, Sound(c, n, open), c.thinking = "inside",
         EndTagsAtBufferEnd(c.buffer) # {}, NEW V, V \cap Hidden = {}
  PROVE  LET d == LeaveThinking(c, First(EndTagsAtBufferEnd(c.buffer)), <<>>)
         IN  /\ Sound(d, n, open) /\ Hands(c, d, V, <<>>)
             /\ d.thinking = "done" /\ d.buffer = <<>> /\ d.toolIndex = c.toolIndex
<1> DEFINE b == c.buffer
           end == First(EndTagsAtBufferEnd(b))
<1>1. /\ b \in Seq(Units) /\ Len(b) \in Nat /\ <<>> \in Seq(Units)
  BY LengthsTyped, EmptySeq DEF Sound, Pointed, Fits, Context
<1>2. end \in EndTagsAtBufferEnd(b)
  <2>1. EndTagsAtBufferEnd(b) \subseteq RealTags(b, CloseTag)
    BY DEF EndTagsAtBufferEnd
  <2> QED BY <2>1, <1>1, TagFound
<1>3. end \in 1 .. Len(b) - 1 /\ \A i \in end .. Len(b) : b[i] \in Hidden
  BY <1>1, <1>2, EndTagAtBufferEndHidden
<1> HIDE DEF end
<1>4. Keep(b, V) = Keep(SubSeq(b, 1, end - 1), V) \o Keep(<<>>, V)
  <2> DEFINE q == Len(b) + 1
  <2>1. end \in 1 .. Len(b) + 1 /\ q \in end .. Len(b) + 1 /\ q - 1 = Len(b) /\ q \in Int
    BY <1>1, <1>3
  <2> HIDE DEF q
  <2>2. \A i \in end .. q - 1 : b[i] \in Hidden
    BY <2>1, <1>3
  <2>3. Keep(b, V) = Keep(SubSeq(b, 1, end - 1), V) \o Keep(From(b, q), V)
    BY <1>1, <2>1, <2>2, CutOut
  <2>4. From(b, q) = <<>>
    <3>1. \A i \in q .. Len(b) : b[i] \in Units
      BY <1>1, <2>1
    <3>2. q > Len(b)
      BY <2>1, <1>1 DEF q
    <3> QED BY <3>2, <1>1, <2>1, SubSeqEmpty DEF From
  <2> QED BY <2>3, <2>4
<1>5. end \in 1 .. Len(b)
  BY <1>1, <1>3
<1>6. Hands(c, LeaveThinking(c, end, <<>>), V, <<>>)
  BY <1>1, <1>4, <1>5, LeaveThinkingHands
<1> DEFINE d == LeaveThinking(c, end, <<>>)
<1>7. /\ Sound(d, n, open) /\ Grows(c, d) /\ d.thinking = "done" /\ d.buffer = <<>>
      /\ d.toolIndex = c.toolIndex /\ d.hasTool = c.hasTool
  BY <1>1, <1>5, LeaveThinkingSound
<1> HIDE DEF d
<1>8. Hands(c, d, V, <<>>)
  BY <1>6 DEF d
<1> QED BY <1>7, <1>8 DEF d, end

\* Before a call nothing is missed.
LEMMA BeforeToolHands ==
  ASSUME NEW c, NEW n, NEW open, Sound(c, n, open), NEW V, V \cap Hidden = {}
  PROVE  LET d == BeforeTool(c)
         IN  /\ Sound(d, n, open) /\ Hands(c, d, V, <<>>) /\ d.toolIndex = c.toolIndex
             /\ Waits(c) => Waits(d)
             /\ c.buffer = <<>> \/ c.thinking = "before" => d.buffer = <<>>
<1> DEFINE end == First(EndTagsAtBufferEnd(c.buffer))
           left == IF c.thinking = "inside" /\ EndTagsAtBufferEnd(c.buffer) # {}
                   THEN LeaveThinking(c, end, <<>>) ELSE c
           d == BeforeTool(c)
<1>1. c \in Context
  BY DEF Sound, Pointed, Fits
<1>2. d = IF left.thinking = "before" THEN FlushText(left) ELSE left
  BY DEF BeforeTool
<1>3. CASE c.thinking = "inside" /\ EndTagsAtBufferEnd(c.buffer) # {}
  <2>1. left = LeaveThinking(c, end, <<>>)
    BY <1>3
  <2> HIDE DEF left, d
  <2>2. /\ Sound(left, n, open) /\ Hands(c, left, V, <<>>)
        /\ left.thinking = "done" /\ left.buffer = <<>> /\ left.toolIndex = c.toolIndex
    BY <1>3, <2>1, EndAtBufferEndHands
  <2>3. d = left
    BY <1>2, <2>2
  <2>4. ~Waits(c) /\ c.thinking # "before"
    BY <1>3 DEF Waits
  <2> QED BY <2>2, <2>3, <2>4 DEF d
<1>4. CASE ~(c.thinking = "inside" /\ EndTagsAtBufferEnd(c.buffer) # {}) /\ c.thinking = "before"
  <2>1. d = FlushText(c)
    BY <1>2, <1>4
  <2>2. Hands(c, FlushText(c), V, <<>>)
    BY FlushTextHands DEF Sound
  <2> HIDE DEF d
  <2>3. /\ Sound(d, n, open) /\ d.thinking = c.thinking /\ d.toolIndex = c.toolIndex
        /\ d.buffer = <<>>
    BY <2>1, FlushTextSound DEF Sound
  <2>4. Waits(d)
    <3>1. Len(<<>>) = 0
      OBVIOUS
    <3> QED BY <3>1, <1>4, <2>3 DEF Waits, Untagged
  <2> QED BY <2>1, <2>2, <2>3, <2>4 DEF d
<1>5. CASE ~(c.thinking = "inside" /\ EndTagsAtBufferEnd(c.buffer) # {}) /\ c.thinking # "before"
  <2>1. d = c
    BY <1>2, <1>5
  <2>2. Says(c, c, <<>>) /\ SparesTools(c, c)
    BY <1>1, SaysNothing, SparesToolsItself
  <2>3. Carries(c, c, V, <<>>)
    BY <1>1, <2>2, CarriesSame
  <2> HIDE DEF d
  <2> QED BY <1>5, <2>1, <2>2, <2>3 DEF Hands, d
<1> QED BY <1>3, <1>4, <1>5

\* ... and then gives the tool its input.
GiveTool(c, id, input, stop) ==
  LET i == IF c.toolIndex[id] # 0 THEN c.toolIndex[id] ELSE Len(c.blocks) + 1
      closed == CloseText([c EXCEPT !.toolIndex[id] = i, !.hasTool = TRUE])
      started == IF i \in DOMAIN closed.blocks THEN closed ELSE NewBlock(closed, "tool_use")
      grown == IF input THEN BlockDelta(started, i, "tool_use", <<id>>) ELSE started
  IN IF stop THEN StopBlock(grown, i) ELSE grown

\* The call of id has block i, which is open unless it has stopped, and no other call's block is closed.
CallGoesOn(c, d, id, i, stop) ==
  /\ d.toolIndex = [c.toolIndex EXCEPT ![id] = i]
  /\ i \in Nat /\ i # 0 /\ (i = c.toolIndex[id] \/ i > Len(c.blocks))
  /\ \A j \in 1 .. Len(c.blocks) :
       c.blocks[j].kind = "tool_use" /\ c.blocks[j].open /\ j # i => d.blocks[j].open
  /\ ~stop => d.blocks[i].open

\* What is not held back goes to the open block of the tool.
LEMMA ToolInputCarries ==
  ASSUME NEW c \in Context, NEW i \in Index, IsOpen(c, i), NEW id \in Tools, NEW V,
         Keep(<<id>>, V) = <<>> \/ Keep(c.buffer, V) = <<>>
  PROVE  LET d == BlockDelta(c, i, "tool_use", <<id>>)
         IN  /\ Carries(c, d, V, Keep(<<id>>, V)) /\ d \in Context
             /\ d.blocks = c.blocks /\ KeepsRest(c, d)
<1> DEFINE e == DeltaEvent(i, "tool_use", <<id>>)
           d == BlockDelta(c, i, "tool_use", <<id>>)
           w == Keep(<<id>>, V)
           B == Keep(c.buffer, V)
<1>1. d = Emit(c, e)
  BY DEF BlockDelta
<1>2. <<id>> \in Seq(Letters) /\ "tool_use" \in Kinds /\ c.buffer \in Seq(Letters)
  BY UnitsAreLetters DEF Letters, Kinds, Context
<1>3. Says(c, d, <<id>>)
  BY <1>1, <1>2, DeltaSays
<1>4. e \in Event
  BY <1>2 DEF DeltaEvent, Event, BlockEvent, DeltaEvents
<1> HIDE DEF e, d
<1>5. d \in Context /\ KeepsRest(c, d) /\ d.blocks = c.blocks
  BY <1>1, <1>4, EmitTyped
<1>6. w \in Seq(Letters) /\ B \in Seq(Letters)
  BY <1>2, KeepTyped
<1>7. w = <<>> \/ B = <<>>
  OBVIOUS
<1> HIDE DEF w, B
<1>8. B \o w = w \o B
  BY <1>6, <1>7, ConcatEmptySeq
<1>9. d.buffer = c.buffer
  BY <1>5 DEF KeepsRest
<1>10. Carries(c, d, V, w)
  BY <1>3, <1>8, <1>9 DEF Carries, w, B
<1> QED BY <1>5, <1>10 DEF d, w

\* A tool's input and what is held back are not both in the set.
LEMMA NothingIsMissed ==
  ASSUME NEW id \in Tools, NEW V, NEW b \in Seq(Units), id \notin V \/ V \cap Units = {} \/ b = <<>>
  PROVE  Keep(<<id>>, V) = <<>> \/ Keep(b, V) = <<>>
<1>1. CASE id \notin V
  <2>1. <<id>> \in Seq(Tools) /\ Len(<<id>>) = 1 /\ <<id>>[1] = id
    OBVIOUS
  <2>2. \A k \in 1 .. Len(<<id>>) : <<id>>[k] \notin V
    BY <1>1, <2>1
  <2>3. Keep(<<id>>, V) = <<>>
    BY <2>1, <2>2, KeepNothing
  <2> QED BY <2>3
<1>2. CASE V \cap Units = {}
  <2>1. \A k \in 1 .. Len(b) : b[k] \notin V
    BY <1>2
  <2>2. Keep(b, V) = <<>>
    BY <2>1, KeepNothing
  <2> QED BY <2>2
<1>3. CASE b = <<>>
  BY <1>3, KeepEmpty
<1> QED BY <1>1, <1>2, <1>3

\* A tool gets its input in a block that is open.
LEMMA GiveToolHands ==
  ASSUME NEW c, NEW n, NEW open, Sound(c, n, open),
         NEW id \in Tools, NEW input \in BOOLEAN, NEW stop \in BOOLEAN, NEW V,
         id \notin V \/ V \cap Units = {} \/ c.buffer = <<>>,
         c.toolIndex[id] # 0 => c.blocks[c.toolIndex[id]].open
  PROVE  LET d == GiveTool(c, id, input, stop)
         IN  /\ Carries(c, d, V, IF input THEN Keep(<<id>>, V) ELSE <<>>)
             /\ \E i : CallGoesOn(c, d, id, i, stop)
             /\ d.thinking = c.thinking /\ d.buffer = c.buffer
<1> DEFINE i == IF c.toolIndex[id] # 0 THEN c.toolIndex[id] ELSE Len(c.blocks) + 1
           noted == [c EXCEPT !.toolIndex[id] = i, !.hasTool = TRUE]
           closed == CloseText(noted)
           started == IF i \in DOMAIN closed.blocks THEN closed ELSE NewBlock(closed, "tool_use")
           grown == IF input THEN BlockDelta(started, i, "tool_use", <<id>>) ELSE started
           d == IF stop THEN StopBlock(grown, i) ELSE grown
           w == IF input THEN Keep(<<id>>, V) ELSE <<>>
<1>1. GiveTool(c, id, input, stop) = d
  BY DEF GiveTool
<1>2. /\ c \in Context /\ Len(c.blocks) \in Nat /\ c.toolIndex \in [Tools -> Nat]
      /\ IndexesPoint(c) /\ Fits(c, n, open) /\ c.buffer \in Seq(Units)
  BY LengthsTyped DEF Sound, Pointed, Fits, Context
<1>3. /\ i \in Index /\ i \in Nat /\ (i = c.toolIndex[id] \/ i > Len(c.blocks))
      /\ (PointsAt(c, i, "tool_use") /\ c.blocks[i].open) \/ i = Len(c.blocks) + 1
  <2>1. CASE c.toolIndex[id] # 0
    BY <2>1, <1>2 DEF IndexesPoint, PointsAt, Index
  <2>2. CASE c.toolIndex[id] = 0
    BY <2>2, <1>2 DEF Index
  <2> QED BY <2>1, <2>2
<1> HIDE DEF i
<1>4. /\ noted \in Context /\ noted.blocks = c.blocks /\ noted.events = c.events
      /\ noted.buffer = c.buffer /\ noted.thinking = c.thinking
      /\ noted.toolIndex = [c.toolIndex EXCEPT ![id] = i]
  BY <1>2, <1>3 DEF Context
<1> HIDE DEF noted
<1>5. Fits(noted, n, open) /\ Says(c, noted, <<>>)
  BY <1>2, <1>4, SaysNothing DEF Fits
<1>6. /\ Says(noted, closed, <<>>) /\ SparesTools(noted, closed) /\ closed \in Context
      /\ Fits(closed, n, open) /\ KeepsRest(noted, closed) /\ Len(closed.blocks) = Len(noted.blocks)
  BY <1>5, CloseTextSays
<1> HIDE DEF closed
<1>7. /\ Len(closed.blocks) = Len(c.blocks) /\ DOMAIN closed.blocks = 1 .. Len(c.blocks)
      /\ \A j \in 1 .. Len(c.blocks) :
           c.blocks[j].kind = "tool_use" => (closed.blocks[j].open <=> c.blocks[j].open)
      /\ closed.buffer = c.buffer /\ closed.thinking = c.thinking
      /\ closed.toolIndex = [c.toolIndex EXCEPT ![id] = i]
  BY <1>4, <1>6, LengthsTyped DEF SparesTools, KeepsRest
<1>8. /\ Says(closed, started, <<>>) /\ started \in Context /\ KeepsRest(closed, started)
      /\ Fits(started, n, open)
      /\ \A j \in 1 .. Len(c.blocks) : started.blocks[j] = closed.blocks[j]
      /\ Len(c.blocks) <= Len(started.blocks) /\ IsOpen(started, i)
  <2>1. CASE i \in DOMAIN closed.blocks
    <3>1. started = closed
      BY <2>1
    <3> HIDE DEF started
    <3>2. IsOpen(closed, i)
      BY <2>1, <1>2, <1>3, <1>7 DEF IsOpen, PointsAt
    <3>3. Says(closed, started, <<>>)
      BY <3>1, <1>6, SaysNothing
    <3> QED BY <3>1, <3>2, <3>3, <1>2, <1>6, <1>7 DEF KeepsRest
  <2>2. CASE i \notin DOMAIN closed.blocks
    <3>1. started = NewBlock(closed, "tool_use") /\ "tool_use" \in Kinds
      BY <2>2 DEF Kinds
    <3>2. i = Len(closed.blocks) + 1
      BY <2>2, <1>3, <1>7 DEF PointsAt
    <3>3. Says(closed, NewBlock(closed, "tool_use"), <<>>)
      BY <3>1, <1>6, NewBlockSays
    <3> HIDE DEF started
    <3>4. /\ Fits(started, n, open) /\ Grows(closed, started) /\ KeepsRest(closed, started)
          /\ Len(started.blocks) = Len(closed.blocks) + 1
          /\ started.blocks[Len(closed.blocks) + 1] = [kind |-> "tool_use", open |-> TRUE]
          /\ \A j \in 1 .. Len(closed.blocks) : started.blocks[j] = closed.blocks[j]
      BY <3>1, <1>6, NewBlockFits
    <3>5. started \in Context /\ DOMAIN started.blocks = 1 .. Len(started.blocks)
      BY <3>4, LengthsTyped DEF Fits
    <3>6. IsOpen(started, i)
      BY <3>2, <3>4, <3>5, <1>2, <1>7 DEF IsOpen
    <3> QED BY <3>1, <3>3, <3>4, <3>5, <3>6, <1>2, <1>7
  <2> QED BY <2>1, <2>2
<1> HIDE DEF started
<1>9. Says(c, started, <<>>) /\ started.buffer = c.buffer
  <2>1. Says(c, closed, <<>>)
    BY <1>2, <1>5, <1>6, SaysOnSilently
  <2>2. Says(c, started, <<>>)
    BY <2>1, <1>2, <1>8, SaysOnSilently
  <2> QED BY <2>2, <1>7, <1>8 DEF KeepsRest
<1>10. w \in Seq(Letters)
  <2>1. <<id>> \in Seq(Letters) /\ <<>> \in Seq(Letters)
    BY DEF Letters
  <2>2. Keep(<<id>>, V) \in Seq(Letters)
    BY <2>1, KeepTyped
  <2> QED BY <2>1, <2>2
<1>11. Carries(started, grown, V, w) /\ grown \in Context /\ grown.blocks = started.blocks
         /\ KeepsRest(started, grown)
  <2>1. CASE input
    <3>1. Keep(<<id>>, V) = <<>> \/ Keep(started.buffer, V) = <<>>
      BY <1>2, <1>9, NothingIsMissed
    <3>2. grown = BlockDelta(started, i, "tool_use", <<id>>) /\ w = Keep(<<id>>, V)
      BY <2>1
    <3> HIDE DEF grown, w
    <3> QED BY <3>1, <3>2, <1>3, <1>8, ToolInputCarries
  <2>2. CASE ~input
    <3>1. grown = started /\ w = <<>>
      BY <2>2
    <3>2. Says(started, started, <<>>)
      BY <1>8, SaysNothing
    <3>3. Carries(started, started, V, <<>>)
      BY <3>2, <1>8, CarriesSame
    <3> QED BY <3>1, <3>3, <1>8 DEF KeepsRest
  <2> QED BY <2>1, <2>2
<1> HIDE DEF grown, w
<1>12. /\ Says(grown, d, <<>>) /\ d \in Context /\ KeepsRest(grown, d)
       /\ \A j \in 1 .. Len(c.blocks) : grown.blocks[j].open /\ j # i => d.blocks[j].open
       /\ ~stop => d.blocks[i].open
  <2>1. CASE stop
    <3>1. d = StopBlock(grown, i) /\ Fits(grown, n, open)
      <4>1. Fits(grown, n, open)
        <5>1. CASE input
          <6>1. grown = BlockDelta(started, i, "tool_use", <<id>>)
            BY <5>1 DEF grown
          <6>2. <<id>> \in Seq(Letters) /\ "tool_use" \in Kinds /\ i \in Nat
            BY <1>3 DEF Letters, Kinds
          <6>3. /\ Fits(grown, n, open) /\ Extends(started, grown) /\ KeepsRest(started, grown)
                /\ grown.blocks = started.blocks
            BY <6>1, <6>2, <1>8, BlockDeltaFits
          <6> QED BY <6>3
        <5>2. CASE ~input
          BY <5>2, <1>8 DEF grown
        <5> QED BY <5>1, <5>2
      <4> QED BY <2>1, <4>1
    <3>2. Says(grown, StopBlock(grown, i), <<>>)
      BY <1>3, <1>11, StopBlockSays
    <3> HIDE DEF d
    <3>3. /\ Fits(d, n, open) /\ Grows(grown, d) /\ KeepsRest(grown, d)
          /\ Len(d.blocks) = Len(grown.blocks)
          /\ \A j \in 1 .. Len(grown.blocks) :
               /\ d.blocks[j].kind = grown.blocks[j].kind
               /\ d.blocks[j].open <=> grown.blocks[j].open /\ j # i
      BY <3>1, <1>3, StopBlockFits
    <3>4. \A j \in 1 .. Len(c.blocks) : j \in 1 .. Len(grown.blocks)
      <4>1. Len(started.blocks) \in Nat /\ grown.blocks = started.blocks
        BY <1>8, <1>11, LengthsTyped
      <4> QED BY <4>1, <1>2, <1>8
    <3> QED BY <2>1, <3>1, <3>2, <3>3, <3>4 DEF Fits
  <2>2. CASE ~stop
    <3>1. d = grown
      BY <2>2
    <3>2. grown.blocks[i].open
      BY <1>8, <1>11 DEF IsOpen
    <3>3. Says(grown, grown, <<>>)
      BY <1>11, SaysNothing
    <3> QED BY <3>1, <3>2, <3>3, <1>11 DEF KeepsRest
  <2> QED BY <2>1, <2>2
<1> HIDE DEF d
<1>13. d.buffer = c.buffer /\ d.thinking = c.thinking /\ d.toolIndex = [c.toolIndex EXCEPT ![id] = i]
  BY <1>7, <1>8, <1>11, <1>12 DEF KeepsRest
<1>14. CallGoesOn(c, d, id, i, stop)
  <2>1. \A j \in 1 .. Len(c.blocks) :
          c.blocks[j].kind = "tool_use" /\ c.blocks[j].open /\ j # i => d.blocks[j].open
    BY <1>7, <1>8, <1>11, <1>12
  <2>2. i # 0
    BY <1>3 DEF Index
  <2> QED BY <2>1, <2>2, <1>3, <1>12, <1>13 DEF CallGoesOn
<1>15. Carries(c, d, V, w)
  <2>1. PICK r : /\ Says(started, grown, r)
                 /\ Keep(started.buffer, V) \o w = Keep(r, V) \o Keep(grown.buffer, V)
    BY <1>11 DEF Carries
  <2>2. Says(c, grown, r)
    BY <2>1, <1>2, <1>9, SaysAfterSilence
  <2>3. Says(c, d, r)
    BY <2>2, <1>2, <1>12, SaysOnSilently
  <2>4. started.buffer = c.buffer /\ grown.buffer = d.buffer
    BY <1>9, <1>12 DEF KeepsRest
  <2> QED BY <2>1, <2>3, <2>4 DEF Carries
<1> QED BY <1>1, <1>13, <1>14, <1>15 DEF w

\* A tool's input is handed on behind the text, unless that is held back as thinking.
LEMMA ProcessToolUseHands ==
  ASSUME NEW c, NEW n, NEW open, Sound(c, n, open), Flushed(c),
         NEW id \in Tools, NEW input \in BOOLEAN, NEW stop \in BOOLEAN,
         NEW V, V \cap Hidden = {}, id \notin V \/ V \cap Units = {} \/ c.thinking = "before",
         c.toolIndex[id] # 0 => c.blocks[c.toolIndex[id]].open
  PROVE  LET d == ProcessToolUse(c, id, input, stop)
         IN  /\ Carries(c, d, V, IF input THEN Keep(<<id>>, V) ELSE <<>>)
             /\ \E i : CallGoesOn(c, d, id, i, stop)
             /\ Waits(c) => Waits(d)
             /\ c.buffer = <<>> => d.buffer = <<>>
<1> DEFINE x == BeforeTool(c)
           d == GiveTool(x, id, input, stop)
           w == IF input THEN Keep(<<id>>, V) ELSE <<>>
<1>1. /\ Sound(x, n, open) /\ Hands(c, x, V, <<>>) /\ x.toolIndex = c.toolIndex
      /\ Waits(c) => Waits(x)
      /\ c.buffer = <<>> \/ c.thinking = "before" => x.buffer = <<>>
  BY BeforeToolHands
<1>2. ProcessToolUse(c, id, input, stop) = d
  <2> DEFINE Turn(i) == LET closed == CloseText([x EXCEPT !.toolIndex[id] = i, !.hasTool = TRUE])
                            started == IF i \in DOMAIN closed.blocks THEN closed ELSE NewBlock(closed, "tool_use")
                            grown == IF input THEN BlockDelta(started, i, "tool_use", <<id>>) ELSE started
                        IN IF stop THEN StopBlock(grown, i) ELSE grown
             i == IF c.toolIndex[id] # 0 THEN c.toolIndex[id] ELSE Len(x.blocks) + 1
             j == IF x.toolIndex[id] # 0 THEN x.toolIndex[id] ELSE Len(x.blocks) + 1
  <2>1. ProcessToolUse(c, id, input, stop) = Turn(i)
    BY DEF ProcessToolUse, BeforeTool
  <2> HIDE DEF x
  <2>2. d = Turn(j)
    BY DEF GiveTool
  <2>3. i = j
    BY <1>1
  <2> HIDE DEF Turn, i, j, d
  <2> QED BY <2>1, <2>2, <2>3
<1> HIDE DEF x
<1>3. /\ c \in Context /\ x \in Context /\ Len(c.blocks) \in Nat /\ Len(x.blocks) \in Nat
      /\ IndexesPoint(c)
  BY <1>1, LengthsTyped DEF Sound, Pointed, Fits
<1>4. x.toolIndex[id] # 0 => x.blocks[x.toolIndex[id]].open
  <2>1. SparesTools(c, x)
    BY <1>1 DEF Hands
  <2>2. c.toolIndex[id] # 0 => PointsAt(c, c.toolIndex[id], "tool_use")
    BY <1>3 DEF IndexesPoint
  <2> QED BY <2>1, <2>2, <1>1 DEF SparesTools, PointsAt
<1>5. id \notin V \/ V \cap Units = {} \/ x.buffer = <<>>
  BY <1>1
<1>6. /\ Carries(x, d, V, w)
      /\ \E i : CallGoesOn(x, d, id, i, stop)
      /\ d.thinking = x.thinking /\ d.buffer = x.buffer
  BY <1>1, <1>4, <1>5, GiveToolHands
<1>7. d \in Context /\ w \in Seq(Letters) /\ <<>> \in Seq(Letters)
  <2>1. d \in Context
    BY <1>2, ProcessToolUseSound DEF Sound, Pointed, Fits
  <2>2. <<id>> \in Seq(Letters) /\ <<>> \in Seq(Letters)
    BY DEF Letters
  <2>3. Keep(<<id>>, V) \in Seq(Letters)
    BY <2>2, KeepTyped
  <2> QED BY <2>1, <2>2, <2>3
<1> HIDE DEF d, w
<1>8. Carries(c, d, V, w)
  <2>1. <<>> \o w = w
    BY <1>7, ConcatEmptySeq
  <2>2. Carries(c, d, V, <<>> \o w)
    BY <1>1, <1>3, <1>6, <1>7, CarriesOn DEF Hands
  <2> QED BY <2>1, <2>2
<1>9. \E i : CallGoesOn(c, d, id, i, stop)
  <2>1. PICK i : CallGoesOn(x, d, id, i, stop)
    BY <1>6
  <2>2. SparesTools(c, x)
    BY <1>1 DEF Hands
  <2>3. d.toolIndex = [c.toolIndex EXCEPT ![id] = i]
    BY <1>1, <2>1 DEF CallGoesOn
  <2>4. i \in Nat /\ i # 0 /\ (i = c.toolIndex[id] \/ i > Len(c.blocks)) /\ (~stop => d.blocks[i].open)
    BY <1>1, <1>3, <2>1, <2>2 DEF CallGoesOn, SparesTools
  <2>5. ASSUME NEW j \in 1 .. Len(c.blocks), c.blocks[j].kind = "tool_use", c.blocks[j].open, j # i
        PROVE  d.blocks[j].open
    <3>1. j \in 1 .. Len(x.blocks) /\ x.blocks[j].kind = "tool_use" /\ x.blocks[j].open
      BY <1>3, <2>2, <2>5 DEF SparesTools
    <3> QED BY <3>1, <2>1, <2>5 DEF CallGoesOn
  <2>6. CallGoesOn(c, d, id, i, stop)
    BY <2>3, <2>4, <2>5 DEF CallGoesOn
  <2> QED BY <2>6
<1>10. (Waits(c) => Waits(d)) /\ (c.buffer = <<>> => d.buffer = <<>>)
  BY <1>1, <1>6 DEF Waits
<1> QED BY <1>2, <1>8, <1>9, <1>10 DEF d, w

\* Events that say the same are said.
LEMMA SameSays ==
  ASSUME NEW c \in Context, NEW d, Len(d.events) \in Nat, Len(c.events) <= Len(d.events),
         \A k \in 1 .. Len(c.events) : TextOf(d.events[k]) = TextOf(c.events[k]),
         \A k \in Len(c.events) + 1 .. Len(d.events) : TextOf(d.events[k]) = <<>>
  PROVE  Says(c, d, <<>>)
<1>1. ASSUME NEW s, Spells(c.events, s)
      PROVE  Spells(d.events, s \o <<>>)
  <2>1. Len(c.events) \in Nat
    BY LengthsTyped
  <2>2. s \in Seq(Letters) /\ s \o <<>> = s
    BY <1>1, <2>1, SpellsTyped, ConcatEmptySeq
  <2>3. Spells(d.events, s)
    BY <1>1, <2>1, SpellsSame
  <2> QED BY <2>2, <2>3
<1> QED BY <1>1, EmptySeq DEF Says

\* At the end everything that is held back is handed on.
LEMMA FlushAllCarries ==
  ASSUME NEW c, NEW n, NEW open, Sound(c, n, open), NEW V, V \cap Hidden = {}
  PROVE  Carries(c, FlushAll(c), V, <<>>)
<1> DEFINE b == c.buffer
           end == First(EndTagsAtBufferEnd(b))
<1>1. c \in Context /\ b \in Seq(Units) /\ b \in Seq(Letters) /\ Pointed(c, n, open)
  BY UnitsAreLetters DEF Sound, Pointed, Fits, Context
<1>2. CASE b = <<>>
  <2>1. FlushAll(c) = c
    BY <1>2 DEF FlushAll
  <2>2. Says(c, c, <<>>)
    BY <1>1, SaysNothing
  <2> QED BY <2>1, <2>2, <1>1, CarriesSame
<1>3. CASE b # <<>> /\ c.thinking # "inside"
  <2>1. FlushAll(c) = FlushText(c)
    BY <1>3 DEF FlushAll
  <2> QED BY <2>1, <1>1, FlushTextHands DEF Hands
<1>4. CASE b # <<>> /\ c.thinking = "inside" /\ EndTagsAtBufferEnd(b) # {}
  <2> DEFINE d == LeaveThinking(c, end, <<>>)
  <2>1. FlushAll(c) = d
    BY <1>4 DEF FlushAll
  <2>2. /\ Sound(d, n, open) /\ Hands(c, d, V, <<>>)
        /\ d.thinking = "done" /\ d.buffer = <<>> /\ d.toolIndex = c.toolIndex
    BY <1>4, EndAtBufferEndHands
  <2> HIDE DEF d
  <2> QED BY <2>1, <2>2 DEF Hands
<1>5. CASE b # <<>> /\ c.thinking = "inside" /\ EndTagsAtBufferEnd(b) = {}
  <2> DEFINE x == EndThinking(c, b)
             d == [x EXCEPT !.buffer = <<>>]
  <2>1. FlushAll(c) = d
    BY <1>5 DEF FlushAll
  <2>2. Says(c, x, b) /\ x \in Context
    <3>1. Fits(x, n, open)
      BY <1>1, <1>5, EndThinkingFits
    <3>2. Says(c, x, b) /\ SparesTools(c, x)
      BY <1>1, <1>5, EndThinkingSays
    <3> QED BY <3>1, <3>2 DEF Fits
  <2> HIDE DEF x
  <2>3. d \in Context /\ d.events = x.events /\ d.buffer = <<>>
    <3>1. <<>> \in Seq(Units)
      BY EmptySeq
    <3> QED BY <3>1, <2>2 DEF Context
  <2> HIDE DEF d
  <2>4. Says(x, d, <<>>)
    BY <2>2, <2>3, SaysNothing
  <2>5. Says(c, d, b)
    BY <1>1, <2>2, <2>4, SaysOnSilently
  <2>6. Keep(c.buffer, V) = Keep(b, V) \o Keep(d.buffer, V)
    <3>1. Keep(b, V) \in Seq(Letters) /\ Keep(<<>>, V) = <<>>
      BY <1>1, KeepTyped, KeepEmpty
    <3> QED BY <3>1, <2>3, ConcatEmptySeq
  <2> QED BY <1>1, <2>1, <2>3, <2>5, <2>6, CarriesOnly
<1> QED BY <1>2, <1>3, <1>4, <1>5

\* The text that is missing is a blank.
LEMMA AddMissingTextCarries ==
  ASSUME NEW c, NEW n, NEW open, Pointed(c, n, open), NEW V, V \cap Hidden = {}
  PROVE  Carries(c, AddMissingText(c), V, <<>>)
<1>1. c \in Context
  BY DEF Pointed, Fits
<1>2. CASE c.thinkingIndex # 0 /\ \A i \in DOMAIN c.blocks : c.blocks[i].kind = "thinking"
  <2> DEFINE x == [c EXCEPT !.stopReason = "max_tokens"]
             d == TextDelta(x, <<Space>>)
             t == <<Space>>
  <2>1. AddMissingText(c) = d
    BY <1>2 DEF AddMissingText
  <2>2. /\ x \in Context /\ x.events = c.events /\ x.blocks = c.blocks
        /\ x.textIndex = c.textIndex /\ x.thinking = c.thinking
        /\ x.thinkingIndex = c.thinkingIndex /\ x.toolIndex = c.toolIndex /\ x.buffer = c.buffer
    BY <1>1 DEF Context
  <2> HIDE DEF x
  <2>3. Pointed(x, n, open)
    <3>1. IndexesPoint(x)
      BY <2>2, SameKindsPoint DEF Pointed
    <3> QED BY <3>1, <2>2 DEF Pointed, Fits
  <2>4. t \in Seq(Letters) /\ Len(t) = 1 /\ t[1] = Space
    BY DEF Letters
  <2> HIDE DEF t
  <2>5. Says(x, d, t) /\ SparesTools(x, d)
    BY <2>3, <2>4, TextDeltaSays DEF t
  <2>6. Pointed(d, n, open) /\ Shows(x, d)
    BY <2>3, <2>4, TextDeltaSound DEF t
  <2> HIDE DEF d
  <2>7. Says(c, x, <<>>)
    BY <1>1, <2>2, SaysNothing
  <2>8. Says(c, d, t)
    BY <1>1, <2>5, <2>7, SaysAfterSilence
  <2>9. Keep(t, V) = <<>>
    <3>1. \A i \in 1 .. Len(t) : t[i] \notin V
      BY <2>4 DEF Hidden, Blank
    <3> QED BY <2>4, <3>1, KeepNothing
  <2>10. d \in Context /\ d.buffer = c.buffer
    BY <2>2, <2>6 DEF Pointed, Fits, Shows
  <2>11. Keep(c.buffer, V) = Keep(t, V) \o Keep(d.buffer, V)
    <3>1. c.buffer \in Seq(Units)
      BY <1>1 DEF Context
    <3>2. Keep(c.buffer, V) \in Seq(Units)
      BY <3>1, KeepTyped
    <3> QED BY <3>2, <2>9, <2>10, ConcatEmptySeq
  <2>12. Carries(c, d, V, <<>>)
    BY <1>1, <2>8, <2>10, <2>11, CarriesOnly
  <2> QED BY <2>1, <2>12
<1>3. CASE ~(c.thinkingIndex # 0 /\ \A i \in DOMAIN c.blocks : c.blocks[i].kind = "thinking")
  <2>1. AddMissingText(c) = c
    BY <1>3 DEF AddMissingText
  <2>2. Says(c, c, <<>>)
    BY <1>1, SaysNothing
  <2> QED BY <2>1, <2>2, <1>1, CarriesSame
<1> QED BY <1>2, <1>3

\* The end of the message says nothing.
LEMMA EndMessageCarries ==
  ASSUME NEW c, NEW n, NEW open, Fits(c, n, open), NEW order, Lists(order, OpenBlocks(c)), NEW V
  PROVE  Carries(c, EndMessage(c, order), V, <<>>) /\ EndMessage(c, order) \in Context
<1> DEFINE d == EndMessage(c, order)
           m == Len(d.events)
<1>1. /\ Fits(d, n, open) /\ KeepsRest(c, d)
      /\ d.buffered = c.buffered /\ d.tokens = c.tokens
      /\ Len(d.blocks) = Len(c.blocks)
      /\ \A j \in 1 .. Len(c.blocks) : d.blocks[j].kind = c.blocks[j].kind /\ ~d.blocks[j].open
      /\ m \in Nat /\ m >= Len(c.events) + 2
      /\ \A k \in 1 .. Len(c.events) : d.events[k] = c.events[k]
      /\ \A k \in Len(c.events) + 1 .. m - 2 :
           d.events[k] \in BlockEvent /\ d.events[k].type = "content_block_stop"
      /\ d.events[m - 1] = [type |-> "message_delta", reason |-> StopReason(c), tokens |-> c.tokens]
      /\ d.events[m] = [type |-> "message_stop"]
  <2> HIDE DEF m, d
  <2> QED BY EndMessageEnds DEF m, d
<1>2. c \in Context /\ Len(c.events) \in Nat
  BY LengthsTyped DEF Fits
<1> HIDE DEF d
<1>3. ASSUME NEW k \in Len(c.events) + 1 .. m
      PROVE  TextOf(d.events[k]) = <<>>
  <2> HIDE DEF m
  <2>1. k \in Len(c.events) + 1 .. m - 2 \/ k = m - 1 \/ k = m
    BY <1>1, <1>2
  <2>2. d.events[k].type # "content_block_delta"
    BY <2>1, <1>1
  <2> QED BY <2>2 DEF TextOf
<1>4. Len(d.events) \in Nat /\ Len(c.events) <= Len(d.events)
  <2>1. m \in Nat /\ Len(c.events) <= m
    <3> HIDE DEF m
    <3> QED BY <1>1, <1>2
  <2> QED BY <2>1
<1>5. Says(c, d, <<>>)
  BY <1>1, <1>2, <1>3, <1>4, SameSays
<1>6. d \in Context /\ d.buffer = c.buffer
  BY <1>1 DEF Fits, KeepsRest
<1>7. Carries(c, d, V, <<>>)
  BY <1>2, <1>5, <1>6, CarriesSame
<1> QED BY <1>6, <1>7 DEF d

\* Finishing hands on all that is held back.
LEMMA FinishCarries ==
  ASSUME NEW c, NEW n, NEW open, Sound(c, n, open),
         NEW order \in SetToSeqs(OpenBlocks(AddMissingText(FlushAll(c)))),
         NEW V, V \cap Hidden = {}
  PROVE  Carries(c, EndMessage(AddMissingText(FlushAll(c)), order), V, <<>>)
<1> DEFINE f == FlushAll(c)
           g == AddMissingText(f)
           d == EndMessage(g, order)
<1>1. Pointed(f, n, open) /\ Carries(c, f, V, <<>>)
  <2>1. Pointed(f, n, open) /\ Grows(c, f) /\ f.hasTool = c.hasTool /\ f.buffer = <<>>
    BY FlushAllPointed
  <2> QED BY <2>1, FlushAllCarries
<1> HIDE DEF f
<1>2. Carries(f, g, V, <<>>)
  BY <1>1, AddMissingTextCarries
<1>3. Pointed(g, n, open)
  BY <1>1, AddMissingTextPointed
<1>4. order \in SetToSeqs(OpenBlocks(g))
  BY DEF f
<1> HIDE DEF g
<1>5. c \in Context /\ f \in Context /\ g \in Context /\ Fits(g, n, open)
  BY <1>1, <1>3 DEF Sound, Pointed, Fits
<1>6. Lists(order, OpenBlocks(g))
  <2>1. IsFiniteSet(OpenBlocks(g))
    BY <1>5, OpenBlocksFinite
  <2> QED BY <2>1, <1>4, SetToSeqsList
<1>7. Carries(g, d, V, <<>>) /\ d \in Context
  BY <1>5, <1>6, EndMessageCarries
<1> HIDE DEF d
<1>8. <<>> \in Seq(Letters) /\ <<>> \o <<>> = <<>>
  BY EmptySeq, ConcatEmptySeq
<1>9. Carries(c, g, V, <<>>)
  <2>1. Carries(c, g, V, <<>> \o <<>>)
    BY <1>1, <1>2, <1>5, <1>8, CarriesOn
  <2> QED BY <2>1, <1>8
<1>10. Carries(c, d, V, <<>>)
  <2>1. Carries(c, d, V, <<>> \o <<>>)
    BY <1>5, <1>7, <1>8, <1>9, CarriesOn
  <2> QED BY <2>1, <1>8
<1> QED BY <1>10 DEF d, g, f

-----------------------------------------------------------------------------
(* Nothing is swallowed.                                                    *)

\* What the client has, what it will be sent and what is held back is what was received.
HandedOn(V) ==
  \E s : /\ Spells(ctx.events, s)
         /\ (Keep(client.order, V) \o Keep(s, V)) \o Keep(ctx.buffer, V) = Keep(fed, V)

\* The calls that go on have an open block, each its own.
CallsOpen ==
  \A t \in upstream.calls :
    ~ctx.finished /\ ctx.toolIndex[t] # 0 => ctx.blocks[ctx.toolIndex[t]].open
OwnBlocks ==
  \A t, u \in Tools :
    ~ctx.finished /\ ctx.toolIndex[t] # 0 /\ ctx.toolIndex[t] = ctx.toolIndex[u] => t = u

HeldBack ==
  /\ ~ctx.enabled \/ ctx.finished => ctx.buffer = <<>>
  /\ Untagged(fed) /\ ~ctx.finished => Waits(ctx)

Handed ==
  /\ fed \in Seq(Letters)
  /\ CallsOpen /\ OwnBlocks /\ HeldBack
  /\ HandedOn(Visible) /\ HandedOn(Tools)
  /\ Untagged(fed) => HandedOn(Visible \cup Tools)

\* Texts in a row, for the algebra of it.
Texts == Seq(Letters)
Row(a, b) == a \o b

\* Two texts in a row are one.
LEMMA RowTexts ==
  ASSUME NEW a, NEW b, a \in Texts, b \in Texts
  PROVE  Row(a, b) \in Texts
BY ConcatProperties DEF Texts, Row

\* Three texts in a row.
LEMMA RowOfThree ==
  ASSUME NEW a, NEW b, NEW c, a \in Texts, b \in Texts, c \in Texts
  PROVE  Row(Row(a, b), c) = Row(a, Row(b, c))
<1>1. (a \o b) \o c = a \o (b \o c)
  BY InARow DEF Texts
<1> QED BY <1>1, Zenon DEF Row

\* What is kept of two in a row is what is kept of each.
LEMMA RowKept ==
  ASSUME NEW a, NEW b, a \in Texts, b \in Texts, NEW V
  PROVE  Keep(Row(a, b), V) = Row(Keep(a, V), Keep(b, V))
<1>1. Keep(a \o b, V) = Keep(a, V) \o Keep(b, V)
  BY KeepBoth DEF Texts
<1> QED BY <1>1, Zenon DEF Row

\* What is kept of a text is one.
LEMMA KeptText ==
  ASSUME NEW a, a \in Texts, NEW V
  PROVE  Keep(a, V) \in Texts
BY KeepTyped DEF Texts

\* More is handed on: O and then S was, B was held back and w came; R is handed on, D held back.
LEMMA MoreInARow ==
  ASSUME NEW O, NEW S, NEW B, NEW R, NEW D, NEW w, NEW F, O \in Texts,
         S \in Texts, B \in Texts, R \in Texts, D \in Texts,
         w \in Texts, Row(Row(O, S), B) = F, Row(B, w) = Row(R, D)
  PROVE  Row(Row(O, Row(S, R)), D) = Row(F, w)
<1>1. Row(O, Row(S, R)) = Row(Row(O, S), R)
  BY RowOfThree
<1>2. Row(O, S) \in Texts
  BY RowTexts
<1>3. Row(Row(Row(O, S), R), D) = Row(Row(O, S), Row(R, D))
  BY <1>2, RowOfThree
<1>4. Row(Row(Row(O, S), B), w) = Row(Row(O, S), Row(B, w))
  BY <1>2, RowOfThree
<1> QED BY <1>1, <1>3, <1>4, Zenon

\* The same of the texts whose letters in V these are.
LEMMA MoreKept ==
  ASSUME NEW o, NEW s, NEW b, NEW r, NEW d, NEW f, NEW g, NEW w, NEW V,
         o \in Texts, s \in Texts, b \in Texts, r \in Texts, d \in Texts, w \in Texts,
         Row(Row(Keep(o, V), Keep(s, V)), Keep(b, V)) = Keep(f, V),
         Row(Keep(b, V), w) = Row(Keep(r, V), Keep(d, V)), Keep(g, V) = Row(Keep(f, V), w)
  PROVE  Row(Row(Keep(o, V), Keep(Row(s, r), V)), Keep(d, V)) = Keep(g, V)
<1>1. Keep(Row(s, r), V) = Row(Keep(s, V), Keep(r, V))
  BY RowKept
<1>2. /\ Keep(o, V) \in Texts /\ Keep(s, V) \in Texts /\ Keep(r, V) \in Texts
      /\ Keep(b, V) \in Texts /\ Keep(d, V) \in Texts
  BY KeptText
<1>3. Row(Row(Keep(o, V), Row(Keep(s, V), Keep(r, V))), Keep(d, V)) = Row(Keep(f, V), w)
  BY <1>2, MoreInARow
<1> QED BY <1>1, <1>3, Zenon

\* What is sent moves from what will be said to what the client has.
LEMMA SentKept ==
  ASSUME NEW o, NEW x, NEW r, NEW B, NEW V, NEW K, o \in Texts, x \in Texts, r \in Texts,
         Row(Row(Keep(o, V), Keep(Row(x, r), V)), B) = K
  PROVE  Row(Row(Keep(Row(o, x), V), Keep(r, V)), B) = K
<1>1. /\ Keep(Row(x, r), V) = Row(Keep(x, V), Keep(r, V))
      /\ Keep(Row(o, x), V) = Row(Keep(o, V), Keep(x, V))
  BY RowKept
<1>2. Keep(o, V) \in Texts /\ Keep(x, V) \in Texts /\ Keep(r, V) \in Texts
  BY KeptText
<1>3. Row(Row(Keep(o, V), Keep(x, V)), Keep(r, V)) = Row(Keep(o, V), Row(Keep(x, V), Keep(r, V)))
  BY <1>2, RowOfThree
<1> QED BY <1>1, <1>3, Zenon

\* Of two texts in a row each is kept, and they are letters.
LEMMA KeepLetters ==
  ASSUME NEW a, NEW b, a \in Seq(Letters), b \in Seq(Letters), NEW V
  PROVE  Keep(a \o b, V) = Keep(a, V) \o Keep(b, V)
BY KeepBoth

\* Two texts in a row are one.
LEMMA JoinedTexts ==
  ASSUME NEW a, NEW b, a \in Seq(Letters), b \in Seq(Letters)
  PROVE  a \o b \in Seq(Letters)
BY ConcatProperties

\* What was received, w, is handed on or held back.
LEMMA HandedOnMore ==
  ASSUME NEW V, HandedOn(V), NEW w, w \in Seq(Letters), ctx \in Context, ctx' \in Context,
         client.order \in Seq(Letters), client'.order = client.order,
         Carries(ctx, ctx', V, w), Keep(fed', V) = Keep(fed, V) \o w
  PROVE  HandedOn(V)'
<1> DEFINE o == client.order
           b == ctx.buffer
           d == ctx'.buffer
           f == fed
           g == fed'
<1>1. PICK s : /\ Spells(ctx.events, s)
               /\ (Keep(o, V) \o Keep(s, V)) \o Keep(b, V) = Keep(f, V)
  BY DEF HandedOn
<1>2. PICK r : /\ Says(ctx, ctx', r)
               /\ Keep(b, V) \o w = Keep(r, V) \o Keep(d, V)
  BY DEF Carries
<1>3. Spells(ctx'.events, s \o r)
  BY <1>1, <1>2 DEF Says
<1>4. /\ o \in Texts /\ s \in Texts /\ r \in Texts
      /\ b \in Texts /\ d \in Texts /\ w \in Texts
  <2>1. s \in Seq(Letters)
    BY <1>1, LengthsTyped, SpellsTyped
  <2>2. r \in Seq(Letters)
    BY <1>2 DEF Says
  <2>3. ctx.buffer \in Seq(Units) /\ ctx'.buffer \in Seq(Units)
    BY DEF Context
  <2> QED BY <2>1, <2>2, <2>3, UnitsAreLetters DEF Texts
<1>5. /\ Row(Row(Keep(o, V), Keep(s, V)), Keep(b, V)) = Keep(f, V)
      /\ Row(Keep(b, V), w) = Row(Keep(r, V), Keep(d, V))
      /\ Keep(g, V) = Row(Keep(f, V), w) /\ client'.order = o
  BY <1>1, <1>2, Zenon DEF Row
<1> HIDE DEF o, b, d, f, g
<1>6. Row(Row(Keep(o, V), Keep(Row(s, r), V)), Keep(d, V)) = Keep(g, V)
  BY <1>4, <1>5, MoreKept
<1>7. (Keep(client'.order, V) \o Keep(s \o r, V)) \o Keep(ctx'.buffer, V) = Keep(fed', V)
  BY <1>5, <1>6, Zenon DEF d, g, Row
<1> QED BY <1>3, <1>7 DEF HandedOn

\* What is sent is what the client gets.
LEMMA HandedOnSent ==
  ASSUME NEW V, HandedOn(V), ctx.events \in Seq(Event), ctx.events # <<>>,
         ctx'.events = Tail(ctx.events), ctx'.buffer = ctx.buffer,
         client.order \in Seq(Letters),
         client'.order = client.order \o TextOf(Head(ctx.events)), fed' = fed
  PROVE  HandedOn(V)'
<1> DEFINE o == client.order
           x == TextOf(Head(ctx.events))
           B == Keep(ctx.buffer, V)
           K == Keep(fed, V)
<1>1. PICK s : Spells(ctx.events, s) /\ (Keep(o, V) \o Keep(s, V)) \o B = K
  BY DEF HandedOn
<1>2. PICK r \in Seq(Letters) : s = x \o r /\ Spells(Tail(ctx.events), r)
  BY <1>1, SpellsTail
<1>3. x \in Texts /\ o \in Texts /\ r \in Texts
  <2>1. Head(ctx.events) \in Event
    BY HeadTailProperties
  <2> QED BY <2>1, TextOfTyped DEF Texts
<1>4. client'.order = Row(o, x) /\ Keep(ctx'.buffer, V) = B /\ Keep(fed', V) = K
  BY Zenon DEF Row
<1>5. Row(Row(Keep(o, V), Keep(Row(x, r), V)), B) = K
  BY <1>1, <1>2, Zenon DEF Row
<1> HIDE DEF o, x, B, K
<1>6. Row(Row(Keep(Row(o, x), V), Keep(r, V)), B) = K
  BY <1>3, <1>5, SentKept
<1>7. (Keep(client'.order, V) \o Keep(r, V)) \o Keep(ctx'.buffer, V) = Keep(fed', V)
  BY <1>4, <1>6, Zenon DEF Row
<1>8. Spells(ctx'.events, r)
  BY <1>2
<1> QED BY <1>7, <1>8 DEF HandedOn

\* The sets of what is kept.
LEMMA WhatIsKept ==
  /\ Visible \cap Hidden = {} /\ Tools \cap Hidden = {} /\ (Visible \cup Tools) \cap Hidden = {}
  /\ Tools \cap Units = {} /\ \A id \in Tools : id \notin Visible
  /\ \A id \in Tools : id \notin ToSet(OpenTag)
BY ToolsAreNoText DEF Visible, Hidden

\* Each of two texts that have no tag in a row has none.
LEMMA UntaggedParts ==
  ASSUME NEW s \in Seq(Letters), NEW t \in Seq(Letters), Untagged(s \o t)
  PROVE  Untagged(s) /\ Untagged(t)
<1> DEFINE w == s \o t
<1>1. /\ Len(s) \in Nat /\ Len(t) \in Nat /\ Len(w) = Len(s) + Len(t)
      /\ \A i \in 1 .. Len(s) : w[i] = s[i]
      /\ \A i \in 1 .. Len(t) : w[Len(s) + i] = t[i]
  OBVIOUS
<1>2. \A i \in 1 .. Len(w) : w[i] \notin ToSet(OpenTag)
  BY DEF Untagged
<1> HIDE DEF w
<1>3. \A i \in 1 .. Len(s) : i \in 1 .. Len(w)
  BY <1>1
<1>4. \A i \in 1 .. Len(t) : Len(s) + i \in 1 .. Len(w)
  BY <1>1
<1>5. Untagged(s)
  BY <1>1, <1>2, <1>3 DEF Untagged
<1>6. Untagged(t)
  <2>1. ASSUME NEW i \in 1 .. Len(t)
        PROVE  t[i] \notin ToSet(OpenTag)
    <3>1. w[Len(s) + i] = t[i] /\ Len(s) + i \in 1 .. Len(w)
      BY <1>1, <1>4
    <3> QED BY <3>1, <1>2
  <2> QED BY <2>1 DEF Untagged
<1> QED BY <1>5, <1>6

\* What a handler finds, besides.
LEMMA ReadyHanded ==
  ASSUME IInv, Ready
  PROVE  /\ Sound(ctx, Len(client.kinds), client.open) /\ Flushed(ctx)
         /\ ctx \in Context /\ ~ctx.finished /\ client.order \in Seq(Letters)
         /\ IndexesPoint(ctx) /\ Len(ctx.blocks) \in Nat
         /\ upstream \in [rest : Seq(Units), events : Nat, calls : SUBSET Tools]
<1>1. /\ Sound(ctx, Len(client.kinds), client.open) /\ Flushed(ctx)
      /\ ctx \in Context /\ ~ctx.finished
      /\ upstream \in [rest : Seq(Units), events : Nat, calls : SUBSET Tools]
  BY ReadyContext
<1>2. client.order \in Seq(Letters)
  BY DEF IInv, Typed, Client
<1> QED BY <1>1, <1>2, LengthsTyped DEF Sound, Pointed

\* What a new answer begins with has no text.
LEMMA InitialEventsSay ==
  ASSUME NEW enabled \in BOOLEAN, NEW buffered \in BOOLEAN
  PROVE  LET d == InitialEvents(NewContext(enabled, buffered))
         IN  Spells(d.events, <<>>) /\ d.buffer = <<>> /\ d.toolIndex = [t \in Tools |-> 0]
<1> DEFINE c == NewContext(enabled, buffered)
           e == [type |-> "message_start", tokens |-> c.tokens]
           x == Emit(c, e)
           y == NewBlock(x, "text")
           d == [y EXCEPT !.textIndex = 1]
<1>1. /\ c \in Context /\ c.events = <<>> /\ c.blocks = <<>> /\ c.toolIndex = [t \in Tools |-> 0]
      /\ c.tokens = "estimated"
  BY NewContextTyped
<1>2. c.buffer = <<>>
  BY DEF NewContext
<1>3. InitialEvents(c) = IF c.enabled THEN x ELSE d
  BY DEF InitialEvents
<1> HIDE DEF c
<1>4. e \in Event /\ e \in MessageEvent /\ TextOf(e) = <<>> /\ ~Uses(e)
  BY <1>1 DEF MessageEvent, Event, Counts, TextOf, Uses
<1> HIDE DEF e
<1>5. /\ x \in Context /\ KeepsRest(c, x) /\ x.blocks = c.blocks
      /\ x.events = Append(c.events, e)
  BY <1>1, <1>4, EmitTyped
<1>6. Spells(x.events, <<>>)
  <2>1. Says(c, x, <<>>)
    BY <1>1, <1>4, EmitSays
  <2>2. Spells(c.events, <<>>)
    BY <1>1, SpellsNothing
  <2>3. Spells(x.events, <<>> \o <<>>)
    BY <2>1, <2>2 DEF Says
  <2>4. <<>> \o <<>> = <<>>
    OBVIOUS
  <2> QED BY <2>3, <2>4
<1> HIDE DEF x
<1>7. Spells(y.events, <<>>)
  <2>1. Says(x, y, <<>>)
    BY <1>5, NewBlockSays DEF Kinds
  <2> HIDE DEF y
  <2>2. Spells(y.events, <<>> \o <<>>)
    BY <2>1, <1>6 DEF Says
  <2>3. <<>> \o <<>> = <<>>
    OBVIOUS
  <2> QED BY <2>2, <2>3
<1>8. y \in Context /\ KeepsRest(x, y)
  <2> HIDE DEF y
  <2>1. Fits(x, 0, {})
    <3>1. Consistent(c.events, c.blocks, 0, {}) /\ c.events \in Seq(Event) /\ c.blocks \in Seq(Block)
      BY <1>1, NothingYetConsistent DEF Context
    <3> QED BY <3>1, <1>4, <1>5, DeltaConsistent DEF Fits
  <2>2. "text" \in Kinds
    BY DEF Kinds
  <2>3. Fits(y, 0, {}) /\ KeepsRest(x, y)
    BY <2>1, <2>2, NewBlockFits DEF y
  <2> QED BY <2>3 DEF Fits
<1> HIDE DEF y
<1>9. d.events = y.events /\ d.buffer = y.buffer /\ d.toolIndex = y.toolIndex
  BY <1>8 DEF Context
<1> HIDE DEF d
<1> QED BY <1>1, <1>2, <1>3, <1>5, <1>6, <1>7, <1>8, <1>9 DEF KeepsRest, c

\* A new answer has received and said nothing.
LEMMA InitHanded == Init => Handed
<1> SUFFICES ASSUME Init
             PROVE  Handed
  OBVIOUS
<1>1. PICK b \in Bounds, enabled \in BOOLEAN : \E text \in b.texts :
        ctx = InitialEvents(NewContext(enabled, b.buffered))
  BY DEF Init
<1>2. ctx = InitialEvents(NewContext(enabled, b.buffered)) /\ b.buffered \in BOOLEAN
  BY <1>1, StreamConstants
<1>3. ctx.thinking = "before"
  BY <1>2, InitialEventsSound
<1>4. Spells(ctx.events, <<>>) /\ ctx.buffer = <<>> /\ ctx.toolIndex = [t \in Tools |-> 0]
  BY <1>2, InitialEventsSay
<1>5. fed = <<>> /\ client.order = <<>>
  BY DEF Init, NewClient
<1>6. \A V : HandedOn(V)
  <2> SUFFICES ASSUME NEW V
               PROVE  HandedOn(V)
    OBVIOUS
  <2>1. Keep(<<>>, V) = <<>>
    BY KeepEmpty
  <2>2. (<<>> \o <<>>) \o <<>> = <<>>
    OBVIOUS
  <2> QED BY <2>1, <2>2, <1>4, <1>5 DEF HandedOn
<1>7. CallsOpen /\ OwnBlocks
  <2>1. \A t \in Tools : ctx.toolIndex[t] = 0
    BY <1>4
  <2>2. upstream.calls = Tools
    BY DEF Init
  <2> QED BY <2>1, <2>2 DEF CallsOpen, OwnBlocks
<1>8. HeldBack
  <2>1. Untagged(<<>>)
    BY DEF Untagged
  <2> QED BY <2>1, <1>3, <1>4 DEF HeldBack, Waits
<1>9. fed \in Seq(Letters)
  BY <1>5
<1> QED BY <1>6, <1>7, <1>8, <1>9 DEF Handed

\* A piece of text is handed on or held back.
LEMMA ReceiveTextHanded ==
  ASSUME IInv, IInv', Handed, ReceiveText
  PROVE  Handed'
<1>1. PICK n \in DOMAIN upstream.rest :
        /\ ctx' = ProcessAssistantResponse(ctx, SubSeq(upstream.rest, 1, n))
        /\ upstream' = [upstream EXCEPT !.rest = From(@, n + 1)]
        /\ fed' = fed \o SubSeq(upstream.rest, 1, n)
  BY DEF ReceiveText
<1> DEFINE content == SubSeq(upstream.rest, 1, n)
<1>2. Ready /\ client' = client
  BY DEF ReceiveText
<1>3. /\ Sound(ctx, Len(client.kinds), client.open) /\ Flushed(ctx)
      /\ ctx \in Context /\ ~ctx.finished /\ client.order \in Seq(Letters)
      /\ IndexesPoint(ctx) /\ Len(ctx.blocks) \in Nat
      /\ upstream \in [rest : Seq(Units), events : Nat, calls : SUBSET Tools]
  BY <1>2, ReadyHanded
<1>4. content \in Seq(Units)
  <2>1. /\ upstream.rest \in Seq(Units) /\ n \in 1 .. Len(upstream.rest)
        /\ Len(upstream.rest) \in Nat
    BY <1>1, <1>3
  <2>2. 1 \in Int /\ 1 <= 1 /\ n \in Int /\ n <= Len(upstream.rest)
    BY <2>1
  <2> QED BY <2>1, <2>2, PieceTyped
<1>5. ctx' = ProcessAssistantResponse(ctx, content) /\ fed' = fed \o content
  BY <1>1
<1>6. upstream'.calls = upstream.calls
  BY <1>1, <1>3
<1> HIDE DEF content
<1>7. ctx' \in Context /\ ctx'.finished = ctx.finished /\ ctx'.enabled = ctx.enabled
  <2>1. Sound(ctx', Len(client.kinds), client.open) /\ Grows(ctx, ctx')
    BY <1>3, <1>4, <1>5, ProcessAssistantResponseSound
  <2> QED BY <2>1 DEF Grows, Extends, Sound, Pointed, Fits
<1>8. fed \in Seq(Letters) /\ content \in Seq(Letters)
  BY <1>4, UnitsAreLetters DEF Handed
<1>9. fed' \in Seq(Letters)
  BY <1>5, <1>8, JoinedTexts
<1>10. ~ctx.enabled => ctx.buffer = <<>>
  BY DEF Handed, HeldBack
<1>11. ASSUME NEW V, V \cap Hidden = {}
       PROVE  /\ HandedOn(V) => HandedOn(V)'
              /\ SparesTools(ctx, ctx')
              /\ Waits(ctx) /\ Untagged(content) => Waits(ctx')
              /\ ~ctx.enabled => ctx'.buffer = <<>>
  <2>1. /\ Hands(ctx, ctx', V, Keep(content, V))
        /\ Waits(ctx) /\ Untagged(content) => Waits(ctx')
        /\ ~ctx.enabled => ctx'.buffer = <<>>
    BY <1>3, <1>4, <1>5, <1>10, <1>11, ProcessAssistantResponseHands
  <2>2. Keep(fed', V) = Keep(fed, V) \o Keep(content, V)
    <3>1. Keep(fed \o content, V) = Keep(fed, V) \o Keep(content, V)
      BY <1>8, KeepLetters
    <3> QED BY <3>1, <1>5, Zenon
  <2>3. Keep(content, V) \in Seq(Letters)
    BY <1>8, KeepTyped
  <2>4. client'.order = client.order
    BY <1>2
  <2>5. ASSUME HandedOn(V)
        PROVE  HandedOn(V)'
    BY <2>1, <2>2, <2>3, <2>4, <2>5, <1>3, <1>7, HandedOnMore DEF Hands
  <2> QED BY <2>1, <2>5 DEF Hands
<1>12. HandedOn(Visible)' /\ HandedOn(Tools)'
  <2>1. HandedOn(Visible) /\ HandedOn(Tools)
    BY DEF Handed
  <2> QED BY <2>1, <1>11, WhatIsKept
<1>13. Untagged(fed') => Untagged(fed) /\ Untagged(content)
  <2>1. ASSUME Untagged(fed \o content)
        PROVE  Untagged(fed) /\ Untagged(content)
    BY <2>1, <1>8, UntaggedParts
  <2> QED BY <2>1, <1>5
<1>14. Untagged(fed') => HandedOn(Visible \cup Tools)'
  <2>1. Untagged(fed) => HandedOn(Visible \cup Tools)
    BY DEF Handed
  <2> QED BY <2>1, <1>11, <1>13, WhatIsKept
<1>15. SparesTools(ctx, ctx') /\ (~ctx.enabled => ctx'.buffer = <<>>)
       /\ (Waits(ctx) /\ Untagged(content) => Waits(ctx'))
  BY <1>11, WhatIsKept
<1>16. CallsOpen' /\ OwnBlocks'
  <2>1. CallsOpen /\ OwnBlocks
    BY DEF Handed
  <2>2. OwnBlocks'
    BY <2>1, <1>3, <1>15 DEF OwnBlocks, SparesTools
  <2>3. ASSUME NEW t \in upstream.calls, ctx.toolIndex[t] # 0
        PROVE  ctx'.blocks[ctx.toolIndex[t]].open
    <3>1. t \in Tools
      BY <1>3
    <3>2. ctx.blocks[ctx.toolIndex[t]].open
      BY <2>1, <2>3, <1>3 DEF CallsOpen
    <3>3. PointsAt(ctx, ctx.toolIndex[t], "tool_use")
      BY <2>3, <3>1, <1>3 DEF IndexesPoint
    <3> QED BY <3>2, <3>3, <1>15 DEF SparesTools, PointsAt
  <2>4. ctx'.toolIndex = ctx.toolIndex
    BY <1>15 DEF SparesTools
  <2>5. CallsOpen'
    BY <2>3, <2>4, <1>6 DEF CallsOpen
  <2> QED BY <2>2, <2>5
<1>17. HeldBack'
  BY <1>3, <1>7, <1>13, <1>15 DEF Handed, HeldBack
<1> QED BY <1>9, <1>12, <1>14, <1>16, <1>17 DEF Handed

\* The open blocks stay with their calls.
LEMMA CallsGoOn ==
  ASSUME CallsOpen, OwnBlocks, IndexesPoint(ctx), ctx \in Context, ~ctx.finished,
         upstream.calls \subseteq Tools,
         NEW id \in Tools, NEW stop \in BOOLEAN, NEW i, CallGoesOn(ctx, ctx', id, i, stop),
         upstream'.calls = IF stop THEN upstream.calls \ {id} ELSE upstream.calls
  PROVE  CallsOpen' /\ OwnBlocks'
<1> DEFINE T == ctx.toolIndex
           l == Len(ctx.blocks)
<1>1. T \in [Tools -> Nat] /\ l \in Nat
  BY LengthsTyped DEF Context
<1>2. /\ ctx'.toolIndex = [T EXCEPT ![id] = i]
      /\ i \in Nat /\ i # 0 /\ (i = T[id] \/ i > l)
      /\ ~stop => ctx'.blocks[i].open
  BY DEF CallGoesOn
<1>3. ASSUME NEW t \in Tools, T[t] # 0
      PROVE  T[t] \in 1 .. l /\ ctx.blocks[T[t]].kind = "tool_use"
  BY <1>3 DEF IndexesPoint, PointsAt
<1>4. ASSUME NEW t \in Tools, t # id, T[t] # 0
      PROVE  T[t] # i
  <2>1. CASE i = T[id]
    BY <2>1, <1>2, <1>4 DEF OwnBlocks
  <2>2. CASE i > l
    BY <2>2, <1>1, <1>3, <1>4
  <2> QED BY <2>1, <2>2, <1>2
<1>5. ctx'.toolIndex[id] = i /\ \A t \in Tools : t # id => ctx'.toolIndex[t] = T[t]
  BY <1>1, <1>2
<1>6. OwnBlocks'
  <2>1. ASSUME NEW t \in Tools, NEW u \in Tools, ctx'.toolIndex[t] # 0,
               ctx'.toolIndex[t] = ctx'.toolIndex[u], t # u
        PROVE  FALSE
    <3>1. CASE t = id
      BY <2>1, <3>1, <1>4, <1>5
    <3>2. CASE u = id
      BY <2>1, <3>2, <1>4, <1>5
    <3>3. CASE t # id /\ u # id
      BY <2>1, <3>3, <1>5 DEF OwnBlocks
    <3> QED BY <3>1, <3>2, <3>3
  <2> QED BY <2>1 DEF OwnBlocks
<1>7. CallsOpen'
  <2>1. ASSUME NEW t \in upstream'.calls, ctx'.toolIndex[t] # 0
        PROVE  ctx'.blocks[ctx'.toolIndex[t]].open
    <3>1. t \in upstream.calls /\ t \in Tools
      OBVIOUS
    <3>2. CASE t = id
      <4>1. ~stop
        BY <3>2
      <4> QED BY <3>2, <4>1, <1>2, <1>5
    <3>3. CASE t # id
      <4>1. T[t] # 0 /\ ctx'.toolIndex[t] = T[t]
        BY <2>1, <3>1, <3>3, <1>5
      <4>2. ctx.blocks[T[t]].open
        BY <3>1, <4>1 DEF CallsOpen
      <4>3. T[t] \in 1 .. l /\ ctx.blocks[T[t]].kind = "tool_use" /\ T[t] # i
        BY <3>1, <3>3, <4>1, <1>3, <1>4
      <4> QED BY <4>1, <4>2, <4>3 DEF CallGoesOn
    <3> QED BY <3>2, <3>3
  <2> QED BY <2>1 DEF CallsOpen
<1> QED BY <1>6, <1>7

\* What a tool is given comes behind what was received before it.
LEMMA KeepFed ==
  ASSUME NEW s, s \in Seq(Letters), NEW id \in Tools, NEW input \in BOOLEAN, NEW V
  PROVE  /\ Keep(IF input THEN Append(s, id) ELSE s, V)
              = Keep(s, V) \o (IF input THEN Keep(<<id>>, V) ELSE <<>>)
         /\ (IF input THEN Keep(<<id>>, V) ELSE <<>>) \in Seq(Letters)
<1>1. <<id>> \in Seq(Letters)
  <2>1. id \in Letters
    BY DEF Letters
  <2> QED BY <2>1
<1>2. CASE input
  <2>1. Append(s, id) = s \o <<id>>
    OBVIOUS
  <2>2. Keep(s \o <<id>>, V) = Keep(s, V) \o Keep(<<id>>, V)
    <3> DEFINE x == <<id>>
    <3>1. x \in Seq(Letters)
      BY <1>1
    <3> HIDE DEF x
    <3>2. Keep(s \o x, V) = Keep(s, V) \o Keep(x, V)
      BY <3>1, KeepLetters
    <3> QED BY <3>2 DEF x
  <2>3. Keep(<<id>>, V) \in Seq(Letters)
    BY <1>1, KeepTyped
  <2> QED BY <1>2, <2>1, <2>2, <2>3
<1>3. CASE ~input
  <2>1. Keep(s, V) \in Seq(Letters)
    BY KeepTyped
  <2> HIDE DEF Keep
  <2>2. Keep(s, V) \o <<>> = Keep(s, V)
    BY <2>1, ConcatEmptySeq
  <2>3. <<>> \in Seq(Letters)
    OBVIOUS
  <2> QED BY <1>3, <2>2, <2>3
<1> QED BY <1>2, <1>3

\* A piece of a call is handed on; what is held back never waits behind it.
LEMMA ReceiveToolUseHanded ==
  ASSUME IInv, IInv', Handed, NEW id \in Tools, NEW input \in BOOLEAN, NEW stop \in BOOLEAN,
         ReceiveToolUse(id, input, stop)
  PROVE  Handed'
<1>1. /\ Ready /\ client' = client /\ id \in upstream.calls
      /\ ctx' = ProcessToolUse(ctx, id, input, stop)
      /\ upstream' = [upstream EXCEPT !.events = @ - 1, !.calls = IF stop THEN @ \ {id} ELSE @]
      /\ fed' = IF input THEN Append(fed, id) ELSE fed
  BY DEF ReceiveToolUse
<1>2. /\ Sound(ctx, Len(client.kinds), client.open) /\ Flushed(ctx)
      /\ ctx \in Context /\ ~ctx.finished /\ client.order \in Seq(Letters)
      /\ IndexesPoint(ctx) /\ Len(ctx.blocks) \in Nat
      /\ upstream \in [rest : Seq(Units), events : Nat, calls : SUBSET Tools]
  BY <1>1, ReadyHanded
<1>3. upstream'.calls = IF stop THEN upstream.calls \ {id} ELSE upstream.calls
  BY <1>1, <1>2
<1>4. ctx' \in Context /\ ctx'.finished = ctx.finished /\ ctx'.enabled = ctx.enabled
  <2>1. Sound(ctx', Len(client.kinds), client.open) /\ Grows(ctx, ctx')
    BY <1>1, <1>2, ProcessToolUseSound
  <2> QED BY <2>1 DEF Grows, Extends, Sound, Pointed, Fits
<1>5. fed \in Seq(Letters) /\ CallsOpen /\ OwnBlocks /\ HeldBack
  BY DEF Handed
<1>6. fed' \in Seq(Letters)
  <2>1. id \in Letters
    BY DEF Letters
  <2> QED BY <2>1, <1>1, <1>5
<1>7. ctx.toolIndex[id] # 0 => ctx.blocks[ctx.toolIndex[id]].open
  BY <1>1, <1>2, <1>5 DEF CallsOpen
<1>8. ASSUME NEW V, V \cap Hidden = {}, id \notin V \/ V \cap Units = {} \/ ctx.thinking = "before"
      PROVE  /\ HandedOn(V) => HandedOn(V)'
             /\ \E i : CallGoesOn(ctx, ctx', id, i, stop)
             /\ Waits(ctx) => Waits(ctx')
             /\ ctx.buffer = <<>> => ctx'.buffer = <<>>
  <2> DEFINE w == IF input THEN Keep(<<id>>, V) ELSE <<>>
  <2>1. /\ Carries(ctx, ctx', V, w)
        /\ \E i : CallGoesOn(ctx, ctx', id, i, stop)
        /\ Waits(ctx) => Waits(ctx')
        /\ ctx.buffer = <<>> => ctx'.buffer = <<>>
    BY <1>1, <1>2, <1>7, <1>8, ProcessToolUseHands
  <2>2. Keep(fed', V) = Keep(fed, V) \o w /\ w \in Seq(Letters)
    BY <1>1, <1>5, KeepFed
  <2> HIDE DEF w
  <2>3. client'.order = client.order
    BY <1>1
  <2>4. ASSUME HandedOn(V)
        PROVE  HandedOn(V)'
    BY <2>1, <2>2, <2>3, <2>4, <1>2, <1>4, HandedOnMore
  <2> QED BY <2>1, <2>4
<1>9. /\ HandedOn(Visible) => HandedOn(Visible)'
      /\ \E i : CallGoesOn(ctx, ctx', id, i, stop)
      /\ Waits(ctx) => Waits(ctx')
      /\ ctx.buffer = <<>> => ctx'.buffer = <<>>
  <2>1. Visible \cap Hidden = {} /\ id \notin Visible
    BY WhatIsKept
  <2> QED BY <2>1, <1>8
<1>10. HandedOn(Tools) => HandedOn(Tools)'
  <2>1. Tools \cap Hidden = {} /\ Tools \cap Units = {}
    BY WhatIsKept
  <2> QED BY <2>1, <1>8
<1>11. HandedOn(Visible)' /\ HandedOn(Tools)'
  BY <1>9, <1>10 DEF Handed
<1>12. Untagged(fed') => Untagged(fed)
  <2>1. CASE input
    <3>1. fed' = fed \o <<id>> /\ <<id>> \in Seq(Letters)
      <4>1. id \in Letters
        BY DEF Letters
      <4> QED BY <4>1, <2>1, <1>1, <1>5
    <3>2. ASSUME Untagged(fed \o <<id>>)
          PROVE  Untagged(fed)
      BY <3>1, <3>2, <1>5, UntaggedParts
    <3> QED BY <3>1, <3>2
  <2>2. CASE ~input
    BY <2>2, <1>1
  <2> QED BY <2>1, <2>2
<1>13. Untagged(fed') => Waits(ctx)
  BY <1>2, <1>5, <1>12 DEF HeldBack
<1>14. ASSUME Untagged(fed')
       PROVE  HandedOn(Visible \cup Tools)'
  <2>1. HandedOn(Visible \cup Tools)
    BY <1>12, <1>14 DEF Handed
  <2>2. (Visible \cup Tools) \cap Hidden = {} /\ ctx.thinking = "before"
    BY <1>13, <1>14, WhatIsKept DEF Waits
  <2> QED BY <2>1, <2>2, <1>8
<1>15. CallsOpen' /\ OwnBlocks'
  <2>1. PICK i : CallGoesOn(ctx, ctx', id, i, stop)
    BY <1>9
  <2>2. upstream.calls \subseteq Tools
    BY <1>2
  <2> QED BY <2>1, <2>2, <1>2, <1>3, <1>5, CallsGoOn
<1>16. HeldBack'
  BY <1>2, <1>4, <1>5, <1>9, <1>13 DEF HeldBack
<1> QED BY <1>6, <1>11, <1>14, <1>15, <1>16 DEF Handed

\* A note about tokens takes nothing along.
LEMMA ReceiveNoteHanded ==
  ASSUME IInv, Handed, NEW note \in {"usage", "full", "length"}, ReceiveNote(note)
  PROVE  Handed'
<1> DEFINE reason == CASE note = "full" -> "model_context_window_exceeded"
                       [] note = "length" -> "max_tokens"
                       [] OTHER -> ctx.stopReason
           tokens == IF note = "length" THEN ctx.tokens ELSE "measured"
<1>1. /\ Ready /\ client' = client /\ fed' = fed
      /\ ctx' = [ctx EXCEPT !.tokens = tokens, !.stopReason = reason]
      /\ upstream' = [upstream EXCEPT !.events = @ - 1]
  BY DEF ReceiveNote
<1>2. /\ ctx \in Context
      /\ upstream \in [rest : Seq(Units), events : Nat, calls : SUBSET Tools]
  BY <1>1, ReadyHanded
<1> HIDE DEF tokens, reason
<1>3. /\ ctx'.events = ctx.events /\ ctx'.blocks = ctx.blocks /\ ctx'.finished = ctx.finished
      /\ ctx'.buffer = ctx.buffer /\ ctx'.thinking = ctx.thinking /\ ctx'.enabled = ctx.enabled
      /\ ctx'.toolIndex = ctx.toolIndex
  BY <1>1, <1>2 DEF Context
<1>4. upstream'.calls = upstream.calls
  BY <1>1, <1>2
<1>5. \A V : HandedOn(V) => HandedOn(V)'
  BY <1>1, <1>3 DEF HandedOn
<1>6. CallsOpen' /\ OwnBlocks'
  BY <1>3, <1>4 DEF Handed, CallsOpen, OwnBlocks
<1>7. HeldBack'
  BY <1>1, <1>3 DEF Handed, HeldBack, Waits
<1> QED BY <1>1, <1>5, <1>6, <1>7 DEF Handed

\* The corrected token count changes no text.
LEMMA CorrectedSays ==
  ASSUME NEW E \in Seq(Event), NEW t \in Counts
  PROVE  \A k \in 1 .. Len(E) : TextOf(Corrected(E, t)[k]) = TextOf(E[k])
<1> DEFINE F == Corrected(E, t)
<1>1. \A k \in 1 .. Len(E) : /\ F[k].type = E[k].type
                             /\ E[k].type # "message_start" => F[k] = E[k]
  BY CorrectedTyped
<1> HIDE DEF F
<1> QED BY <1>1 DEF TextOf, F

\* What is still held back goes out before the answer ends.
LEMMA FinishHanded ==
  ASSUME IInv, IInv', Handed, Finish
  PROVE  Handed'
<1>1. Ready /\ client' = client /\ fed' = fed /\ upstream' = upstream
  BY DEF Finish
<1>2. /\ Sound(ctx, Len(client.kinds), client.open) /\ Flushed(ctx)
      /\ ctx \in Context /\ ~ctx.finished /\ client.order \in Seq(Letters)
      /\ IndexesPoint(ctx) /\ Len(ctx.blocks) \in Nat
      /\ upstream \in [rest : Seq(Units), events : Nat, calls : SUBSET Tools]
  BY <1>1, ReadyHanded
<1>3. PICK order \in SetToSeqs(OpenBlocks(AddMissingText(FlushAll(ctx)))) :
        LET ended == EndMessage(AddMissingText(FlushAll(ctx)), order)
        IN ctx' = [ended EXCEPT !.finished = TRUE,
                     !.events = IF ctx.buffered THEN Corrected(@, ctx.tokens) ELSE @]
  BY DEF Finish
<1> DEFINE d == EndMessage(AddMissingText(FlushAll(ctx)), order)
           F == IF ctx.buffered THEN Corrected(d.events, ctx.tokens) ELSE d.events
<1>4. Pointed(d, Len(client.kinds), client.open) /\ d.buffer = <<>>
  BY <1>2, FinishEvents
<1>5. \A V : V \cap Hidden = {} => Carries(ctx, d, V, <<>>)
  <2> HIDE DEF d
  <2>1. ASSUME NEW V, V \cap Hidden = {}
        PROVE  Carries(ctx, d, V, <<>>)
    BY <1>2, <2>1, FinishCarries DEF d
  <2> QED BY <2>1
<1>6. ctx' = [d EXCEPT !.finished = TRUE, !.events = F]
  BY <1>3
<1> HIDE DEF d
<1>8. d \in Context /\ d.events \in Seq(Event) /\ ctx.tokens \in Counts
  BY <1>2, <1>4 DEF Pointed, Fits, Context
<1>9. Len(F) = Len(d.events) /\ \A k \in 1 .. Len(d.events) : TextOf(F[k]) = TextOf(d.events[k])
  BY <1>8, CorrectedTyped, CorrectedSays
<1> HIDE DEF F
<1>10. /\ ctx'.events = F /\ ctx'.finished /\ ctx'.buffer = <<>>
  BY <1>4, <1>6, <1>8 DEF Context
<1>11. ctx' \in Context
  BY DEF IInv, ContextFits, Pointed, Fits
<1>12. Says(d, ctx', <<>>)
  <2>1. /\ Len(ctx'.events) \in Nat /\ Len(d.events) <= Len(ctx'.events)
        /\ \A k \in 1 .. Len(d.events) : TextOf(ctx'.events[k]) = TextOf(d.events[k])
        /\ \A k \in Len(d.events) + 1 .. Len(ctx'.events) : TextOf(ctx'.events[k]) = <<>>
    <3>1. Len(d.events) \in Nat
      BY <1>8, LengthsTyped
    <3> QED BY <3>1, <1>9, <1>10
  <2> QED BY <2>1, <1>8, SameSays
<1>13. ASSUME NEW V, V \cap Hidden = {}, HandedOn(V)
       PROVE  HandedOn(V)'
  <2>1. Carries(ctx, ctx', V, <<>>)
    <3>1. Carries(ctx, d, V, <<>>)
      BY <1>5, <1>13
    <3>2. PICK r : Says(ctx, d, r) /\ Keep(ctx.buffer, V) \o <<>> = Keep(r, V) \o Keep(d.buffer, V)
      BY <3>1 DEF Carries
    <3>3. Says(ctx, ctx', r)
      BY <3>2, <1>2, <1>12, SaysOnSilently
    <3>4. Keep(ctx.buffer, V) \o <<>> = Keep(r, V) \o Keep(ctx'.buffer, V)
      BY <3>2, <1>4, <1>10, Zenon
    <3> QED BY <3>3, <3>4 DEF Carries
  <2>2. Keep(fed', V) = Keep(fed, V) \o <<>> /\ <<>> \in Seq(Letters)
    <3>1. fed \in Seq(Letters)
      BY DEF Handed
    <3>2. Keep(fed, V) \in Seq(Letters)
      BY <3>1, KeepTyped
    <3>3. Keep(fed, V) \o <<>> = Keep(fed, V)
      BY <3>2, ConcatEmptySeq
    <3> QED BY <3>3, <1>1
  <2>3. client'.order = client.order
    BY <1>1
  <2> QED BY <2>1, <2>2, <2>3, <1>2, <1>11, <1>13, HandedOnMore
<1>14. HandedOn(Visible)' /\ HandedOn(Tools)'
  BY <1>13, WhatIsKept DEF Handed
<1>15. Untagged(fed') => HandedOn(Visible \cup Tools)'
  <2>1. Untagged(fed) => HandedOn(Visible \cup Tools)
    BY DEF Handed
  <2> QED BY <2>1, <1>1, <1>13, WhatIsKept
<1>16. CallsOpen' /\ OwnBlocks' /\ HeldBack'
  BY <1>10 DEF CallsOpen, OwnBlocks, HeldBack
<1> QED BY <1>1, <1>14, <1>15, <1>16 DEF Handed

\* What the client has made of an event's text.
LEMMA DeliveredOrder ==
  ASSUME IInv, Deliver
  PROVE  client'.order = client.order \o TextOf(Head(ctx.events))
<1> DEFINE e == Head(ctx.events)
<1>1. client \in Client /\ client.order \in Seq(Letters)
  BY DEF IInv, Typed, Client
<1>2. /\ \/ /\ e.type = "message_start"
            /\ client' = [Got(e) EXCEPT !.phase = "streaming", !.input = e.tokens]
         \/ /\ e.type = "content_block_start"
            /\ client' = [Got(e) EXCEPT !.kinds = Append(@, e.kind), !.open = @ \cup {e.index}]
         \/ /\ e.type = "content_block_delta"
            /\ client' = [Got(e) EXCEPT
                            !.thinking = IF e.kind = "thinking" THEN @ \o e.text ELSE @,
                            !.text = IF e.kind = "text" THEN @ \o e.text ELSE @,
                            !.order = @ \o e.text]
         \/ /\ e.type = "content_block_stop"
            /\ client' = [Got(e) EXCEPT !.open = @ \ {e.index}]
         \/ /\ e.type = "message_delta"
            /\ client' = [Got(e) EXCEPT !.phase = "closing", !.reason = e.reason, !.total = e.tokens]
         \/ /\ e.type = "message_stop"
            /\ client' = [Got(e) EXCEPT !.phase = "ended"]
  BY DeliverStep
<1>3. client.order \o <<>> = client.order
  BY <1>1, ConcatEmptySeq
<1> HIDE DEF e
<1> DEFINE g == Got(e)
<1>4. g.order = client.order /\ DOMAIN g = DOMAIN client
  <2>1. g = [client EXCEPT !.last = [type |-> e.type, index |-> IF "index" \in DOMAIN e THEN e.index ELSE 0]]
    BY DEF Got
  <2> HIDE DEF g
  <2> QED BY <2>1, <1>1 DEF Client
<1> HIDE DEF g
<1>5. DOMAIN g = {"phase", "kinds", "open", "last", "thinking", "text", "order", "input", "reason", "total"}
  BY <1>1, <1>4 DEF Client
<1>6. CASE e.type = "content_block_delta"
  <2>1. client' = [g EXCEPT !.thinking = IF e.kind = "thinking" THEN @ \o e.text ELSE @,
                            !.text = IF e.kind = "text" THEN @ \o e.text ELSE @,
                            !.order = @ \o e.text]
    BY <1>2, <1>6 DEF g
  <2>2. client'.order = client.order \o e.text
    BY <2>1, <1>4, <1>5
  <2> QED BY <2>2, <1>6 DEF TextOf, e
<1>7. CASE e.type # "content_block_delta"
  <2>1. client'.order = client.order
    <3>1. CASE e.type = "message_start"
      <4>1. client' = [g EXCEPT !.phase = "streaming", !.input = e.tokens]
        BY <1>2, <3>1 DEF g
      <4> QED BY <4>1, <1>4, <1>5
    <3>2. CASE e.type = "content_block_start"
      <4>1. client' = [g EXCEPT !.kinds = Append(@, e.kind), !.open = @ \cup {e.index}]
        BY <1>2, <3>2 DEF g
      <4> QED BY <4>1, <1>4, <1>5
    <3>3. CASE e.type = "content_block_stop"
      <4>1. client' = [g EXCEPT !.open = @ \ {e.index}]
        BY <1>2, <3>3 DEF g
      <4> QED BY <4>1, <1>4, <1>5
    <3>4. CASE e.type = "message_delta"
      <4>1. client' = [g EXCEPT !.phase = "closing", !.reason = e.reason, !.total = e.tokens]
        BY <1>2, <3>4 DEF g
      <4> QED BY <4>1, <1>4, <1>5
    <3>5. CASE e.type = "message_stop"
      <4>1. client' = [g EXCEPT !.phase = "ended"]
        BY <1>2, <3>5 DEF g
      <4> QED BY <4>1, <1>4, <1>5
    <3> QED BY <1>2, <1>7, <3>1, <3>2, <3>3, <3>4, <3>5
  <2> QED BY <2>1, <1>3, <1>7 DEF TextOf, e
<1> QED BY <1>6, <1>7

\* What is sent reaches the client in its order.
LEMMA DeliverHanded ==
  ASSUME IInv, Handed, Deliver
  PROVE  Handed'
<1>1. /\ ctx.events # <<>> /\ ctx' = [ctx EXCEPT !.events = Tail(@)]
      /\ fed' = fed /\ upstream' = upstream
  BY DEF Deliver
<1>2. ctx \in Context /\ ctx.events \in Seq(Event) /\ client.order \in Seq(Letters)
  BY DEF IInv, ContextFits, Pointed, Fits, Context, Typed, Client
<1>3. /\ ctx'.events = Tail(ctx.events) /\ ctx'.blocks = ctx.blocks
      /\ ctx'.finished = ctx.finished /\ ctx'.buffer = ctx.buffer
      /\ ctx'.thinking = ctx.thinking /\ ctx'.enabled = ctx.enabled
      /\ ctx'.toolIndex = ctx.toolIndex
  BY <1>1, <1>2 DEF Context
<1>4. client'.order = client.order \o TextOf(Head(ctx.events))
  BY DeliveredOrder
<1>5. ASSUME NEW V, HandedOn(V)
      PROVE  HandedOn(V)'
  BY <1>1, <1>2, <1>3, <1>4, <1>5, HandedOnSent
<1>6. HandedOn(Visible)' /\ HandedOn(Tools)'
  BY <1>5 DEF Handed
<1>7. Untagged(fed') => HandedOn(Visible \cup Tools)'
  <2>1. Untagged(fed) => HandedOn(Visible \cup Tools)
    BY DEF Handed
  <2> QED BY <2>1, <1>1, <1>5
<1>8. CallsOpen' /\ OwnBlocks'
  BY <1>1, <1>3 DEF Handed, CallsOpen, OwnBlocks
<1>9. HeldBack'
  BY <1>1, <1>3 DEF Handed, HeldBack, Waits
<1>10. fed' \in Seq(Letters)
  BY <1>1 DEF Handed
<1> QED BY <1>6, <1>7, <1>8, <1>9, <1>10 DEF Handed

\* Every step keeps what is handed on.
LEMMA StepHanded == IInv /\ IInv' /\ Handed /\ [Next]_vars => Handed'
<1> SUFFICES ASSUME IInv, IInv', Handed, [Next]_vars
             PROVE  Handed'
  OBVIOUS
<1>1. CASE ReceiveText
  BY <1>1, ReceiveTextHanded
<1>2. CASE \E id \in Tools, input, stop \in BOOLEAN : ReceiveToolUse(id, input, stop)
  BY <1>2, ReceiveToolUseHanded
<1>3. CASE \E note \in {"usage", "full", "length"} : ReceiveNote(note)
  BY <1>3, ReceiveNoteHanded
<1>4. CASE Finish
  BY <1>4, FinishHanded
<1>5. CASE Deliver
  BY <1>5, DeliverHanded
<1>6. CASE UNCHANGED vars
  BY <1>6 DEF vars, Handed, CallsOpen, OwnBlocks, HeldBack, HandedOn
<1>7. CASE Ended
  BY <1>6, <1>7 DEF Ended
<1> QED BY <1>1, <1>2, <1>3, <1>4, <1>5, <1>6, <1>7 DEF Next

\* However the text is cut, whatever of it is held back and whichever calls come between: when the
\* answer has ended the client has every letter and every piece of a call's input that was received,
\* each in order, and where no thinking tag was received they are in order with each other
\* (stream.rs: StreamContext::process_content_with_thinking, process_tool_use, generate_final_events).
THEOREM NothingLost == Spec => []NothingSwallowed
<1>1. IInv /\ Handed => NothingSwallowed
  <2> SUFFICES ASSUME IInv, Handed, client.phase = "ended"
               PROVE  /\ Keep(client.order, Visible) = Keep(fed, Visible)
                      /\ Keep(client.order, Tools) = Keep(fed, Tools)
                      /\ ToSet(fed) \cap ToSet(OpenTag) = {} =>
                           Keep(client.order, Visible \cup Tools) = Keep(fed, Visible \cup Tools)
    BY DEF NothingSwallowed
  <2>1. /\ ctx \in Context /\ client.order \in Seq(Letters) /\ ctx.finished
        /\ Len(ctx.events) = 0
    BY DEF IInv, ContextFits, Pointed, Fits, Typed, Client, MessageInTurn
  <2>2. ctx.buffer = <<>>
    BY <2>1 DEF Handed, HeldBack
  <2>3. ASSUME NEW V, HandedOn(V)
        PROVE  Keep(client.order, V) = Keep(fed, V)
    <3>1. PICK s : /\ Spells(ctx.events, s)
                   /\ (Keep(client.order, V) \o Keep(s, V)) \o Keep(ctx.buffer, V) = Keep(fed, V)
      BY <2>3 DEF HandedOn
    <3>2. s = <<>>
      BY <3>1, <2>1 DEF Spells, SpelledBy
    <3>3. Keep(<<>>, V) = <<>> /\ Keep(client.order, V) \in Seq(Letters)
      BY <2>1, KeepEmpty, KeepTyped
    <3> DEFINE O == Keep(client.order, V)
    <3>4. (O \o <<>>) \o <<>> = Keep(fed, V)
      BY <3>1, <3>2, <3>3, <2>2
    <3> HIDE DEF O
    <3>5. O \o <<>> = O
      BY <3>3, ConcatEmptySeq DEF O
    <3> QED BY <3>4, <3>5 DEF O
  <2>4. ASSUME ToSet(fed) \cap ToSet(OpenTag) = {}
        PROVE  Untagged(fed)
    <3>1. fed \in Seq(Letters)
      BY DEF Handed
    <3>2. \A k \in 1 .. Len(fed) : fed[k] \in ToSet(fed)
      BY <3>1 DEF ToSet
    <3> QED BY <3>2, <2>4 DEF Untagged
  <2> QED BY <2>3, <2>4 DEF Handed
<1> QED BY <1>1, InitHolds, StepKeeps, InitHanded, StepHanded, PTL DEF Spec

=============================================================================
