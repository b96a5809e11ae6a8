------------------------------ MODULE SseMessage ------------------------------
(***************************************************************************)
(* What a client of the Messages API may expect of the events of one       *)
(* answer, the promise stated at the head of SseStateManager (stream.rs):  *)
(* message_start comes first and once; every content block has the next    *)
(* index, is started once, receives its deltas while it is open and is     *)
(* stopped once; message_delta comes once, when every block is stopped;    *)
(* message_stop comes last.  KiroStream implements this specification.     *)
(***************************************************************************)
EXTENDS Naturals

VARIABLES
  phase,  \* "new", "streaming", "closing" (after message_delta), "ended"
  next,   \* how many blocks were started
  open,   \* the indexes of the open ones
  last    \* the last event: its type and the block it is about

vars == <<phase, next, open, last>>

Event(type, index) == [type |-> type, index |-> index]

Init == phase = "new" /\ next = 0 /\ open = {} /\ last = Event("none", 0)

MessageStart ==
  /\ phase = "new" /\ phase' = "streaming"
  /\ last' = Event("message_start", 0)
  /\ UNCHANGED <<next, open>>

BlockStart ==
  /\ phase = "streaming"
  /\ next' = next + 1 /\ open' = open \cup {next'}
  /\ last' = Event("content_block_start", next')
  /\ UNCHANGED phase

BlockDelta(i) ==
  /\ phase = "streaming" /\ i \in open
  /\ last' = Event("content_block_delta", i)
  /\ UNCHANGED <<phase, next, open>>

BlockStop(i) ==
  /\ phase = "streaming" /\ i \in open
  /\ open' = open \ {i}
  /\ last' = Event("content_block_stop", i)
  /\ UNCHANGED <<phase, next>>

MessageDelta ==
  /\ phase = "streaming" /\ open = {} /\ phase' = "closing"
  /\ last' = Event("message_delta", 0)
  /\ UNCHANGED <<next, open>>

MessageStop ==
  /\ phase = "closing" /\ phase' = "ended"
  /\ last' = Event("message_stop", 0)
  /\ UNCHANGED <<next, open>>

Next ==
  \/ MessageStart \/ BlockStart \/ MessageDelta \/ MessageStop
  \/ \E i \in open : BlockDelta(i) \/ BlockStop(i)

Spec == Init /\ [][Next]_vars
=============================================================================
