------------------------------ MODULE KiroStream ------------------------------
(***************************************************************************)
(* How kiro-rs turns the events of one upstream answer into the server-    *)
(* sent events of a Messages API answer (anthropic/stream.rs), driven by   *)
(* the stream handlers (anthropic/handlers.rs).  The upstream sends text   *)
(* in pieces cut anywhere, also inside a tag, pieces of tool calls and     *)
(* notes about token use.  With thinking enabled the text between          *)
(* <thinking> and </thinking> becomes a block of its own, so a piece that  *)
(* may be the beginning of a tag is held back in a buffer.                 *)
(*                                                                         *)
(* Text is a sequence of units.  A tag is two units, so that it can be cut *)
(* in the middle; what is held back scales with it.  Block indexes count   *)
(* from one.  The block map of SseStateManager is a sequence: an index is  *)
(* always used at once by the block it was taken for.                      *)
(***************************************************************************)
EXTENDS Integers, SequencesExt

CONSTANTS
  Units,      \* what an upstream text is made of
  Bounds,     \* bound: the texts and the number of other events with them, streamed or buffered
  Tools       \* ids of tool calls

ASSUME StreamConstants ==
  Bounds \subseteq [texts : SUBSET Seq(Units), events : Nat, buffered : BOOLEAN]

VARIABLES
  upstream,  \* [rest: text to come, events: how many others may come, calls: unfinished tool calls]
  fed,       \* history: the text and the tool inputs received so far
  split,     \* history: text came after a tool call
  notes,     \* history: the notes received so far
  ctx,       \* the StreamContext with its SseStateManager and the events not yet sent
  client     \* what the client has made of the events it received

vars == <<upstream, fed, split, notes, ctx, client>>

-----------------------------------------------------------------------------
(* Tags in a text.                                                         *)

OpenTag == <<"<thin", "king>">>
CloseTag == <<"</thin", "king/>">>
Newline == "nl"
Space == "sp"
Tab == "tab"
Blank == {Newline, Space, Tab}
Hidden == Blank \cup ToSet(OpenTag) \cup ToSet(CloseTag)

\* What a tool is given is not taken for text
ASSUME ToolsAreNoText == Tools \cap (Units \cup Hidden) = {}

\* QUOTE_CHARS has angle brackets too: a tag next to a tag counts as quoted
QuotesBefore == {"quote", "king>", "king/>"}
QuotesAfter == {"quote", "<thin", "</thin"}

IsBlank(text) == \A i \in DOMAIN text : text[i] \in Blank
From(text, p) == SubSeq(text, p, Len(text))
NonBlank(text) == SelectSeq(text, LAMBDA u : u \notin Blank)

TagAt(text, tag, p) == p + Len(tag) - 1 <= Len(text) /\ SubSeq(text, p, p + Len(tag) - 1) = tag
Quoted(text, tag, p) ==
  \/ p > 1 /\ text[p - 1] \in QuotesBefore
  \/ p + Len(tag) \in DOMAIN text /\ text[p + Len(tag)] \in QuotesAfter
RealTags(text, tag) == {p \in DOMAIN text : TagAt(text, tag, p) /\ ~Quoted(text, tag, p)}

\* Positions the find_real_thinking_* functions choose the first of
StartTags(text) == RealTags(text, OpenTag)
EndTags(text) ==
  {p \in RealTags(text, CloseTag) : IsPrefix(<<Newline, Newline>>, From(text, p + Len(CloseTag)))}
EndTagsAtBufferEnd(text) ==
  {p \in RealTags(text, CloseTag) : IsBlank(From(text, p + Len(CloseTag)))}

First(positions) == CHOOSE p \in positions : \A q \in positions : p <= q

\* The non-streaming answer: thinking and text of a complete text
Extract(text) ==
  LET start == First(StartTags(text))
      before == SubSeq(text, 1, start - 1)
      rest == From(text, start + Len(OpenTag))
      Parts(end, after) == [found |-> TRUE, thinking |-> SubSeq(rest, 1, end - 1),
                            text |-> (IF IsBlank(before) THEN <<>> ELSE before) \o after]
  IN IF StartTags(text) # {} /\ EndTags(rest) # {} THEN
       Parts(First(EndTags(rest)), From(rest, First(EndTags(rest)) + Len(CloseTag) + 2))
     ELSE IF StartTags(text) # {} /\ EndTagsAtBufferEnd(rest) # {} THEN
       Parts(First(EndTagsAtBufferEnd(rest)), <<>>)
     ELSE [found |-> FALSE, thinking |-> <<>>, text |-> text]

-----------------------------------------------------------------------------
(* SseStateManager.  Each operator is a method: it returns the context     *)
(* with the events it produced appended to the field events.               *)

Emit(c, e) == [c EXCEPT !.events = Append(@, e)]
DeltaEvent(i, kind, text) == [type |-> "content_block_delta", index |-> i, kind |-> kind, text |-> text]

IsOpen(c, i) == i \in DOMAIN c.blocks /\ c.blocks[i].open
OpenBlocks(c) == {i \in DOMAIN c.blocks : c.blocks[i].open}

StopBlock(c, i) ==
  IF IsOpen(c, i)
  THEN Emit([c EXCEPT !.blocks[i].open = FALSE], [type |-> "content_block_stop", index |-> i])
  ELSE c

\* The next index with the content_block_start of a new block
NewBlock(c, kind) ==
  Emit([c EXCEPT !.blocks = Append(@, [kind |-> kind, open |-> TRUE])],
       [type |-> "content_block_start", index |-> Len(c.blocks) + 1, kind |-> kind])

BlockDelta(c, i, kind, text) == IF IsOpen(c, i) THEN Emit(c, DeltaEvent(i, kind, text)) ELSE c

\* The blocks of order are stopped one after the other
StopBlocks(c, order) ==
  [c EXCEPT !.blocks = [i \in DOMAIN c.blocks |->
                          [c.blocks[i] EXCEPT !.open = @ /\ i \notin ToSet(order)]],
            !.events = @ \o [n \in DOMAIN order |->
                               [type |-> "content_block_stop", index |-> order[n]]]]

OpenText(c) == {i \in OpenBlocks(c) : c.blocks[i].kind = "text"}

\* Mutants: a tool call closes every open block; a closed text block is not marked so.
CloseEverything(c) == StopBlocks(c, SetToSeq(OpenBlocks(c)))
CloseUnmarked(c) == [StopBlocks(c, SetToSeq(OpenText(c))) EXCEPT !.blocks = c.blocks]

\* Of all blocks only text blocks give way to a tool call
CloseText(c) == StopBlocks(c, SetToSeq(OpenText(c)))

-----------------------------------------------------------------------------
(* StreamContext.                                                          *)

\* Mutant: the text block is kept although a tool call has closed it.
TextDeltaStale(c, text) ==
  IF c.textIndex # 0 THEN BlockDelta(c, c.textIndex, "text", text)
  ELSE LET new == [NewBlock(c, "text") EXCEPT !.textIndex = Len(c.blocks) + 1]
       IN BlockDelta(new, new.textIndex, "text", text)

\* create_text_delta_events: a text block that was closed is replaced by a new one
TextDelta(c, text) ==
  IF IsOpen(c, c.textIndex) /\ c.blocks[c.textIndex].kind = "text"
  THEN BlockDelta(c, c.textIndex, "text", text)
  ELSE LET new == [NewBlock(c, "text") EXCEPT !.textIndex = Len(c.blocks) + 1]
       IN BlockDelta(new, new.textIndex, "text", text)

\* create_thinking_delta_event does not ask the state manager
ThinkingDelta(c, text) == Emit(c, DeltaEvent(c.thinkingIndex, "thinking", text))

\* The thinking block gets the text before its end, an empty delta and its stop
EndThinking(c, text) ==
  LET shown == IF text = <<>> THEN c ELSE ThinkingDelta(c, text)
  IN StopBlock(ThinkingDelta(shown, <<>>), c.thinkingIndex)

LeaveThinking(c, end, rest) ==
  [EndThinking(c, SubSeq(c.buffer, 1, end - 1))
     EXCEPT !.thinking = "done", !.buffer = rest]

\* process_content_with_thinking loops at most once through its three branches, in this order
LookForStart(c) ==
  LET start == First(StartTags(c.buffer))
      before == SubSeq(c.buffer, 1, start - 1)
      safe == SubSeq(c.buffer, 1, Len(c.buffer) - Len(OpenTag))
      Shown(text) == IF IsBlank(text) THEN c ELSE TextDelta(c, text)
  IN IF StartTags(c.buffer) # {} THEN
       [NewBlock(Shown(before), "thinking")
          EXCEPT !.thinking = "inside", !.thinkingIndex = Len(Shown(before).blocks) + 1,
                 !.strip = TRUE, !.buffer = From(c.buffer, start + Len(OpenTag))]
     ELSE IF IsBlank(safe) THEN c
     ELSE [Shown(safe) EXCEPT !.buffer = From(c.buffer, Len(safe) + 1)]

StripNewline(c) ==
  [c EXCEPT !.buffer = IF c.strip /\ IsPrefix(<<Newline>>, @) THEN Tail(@) ELSE @,
            !.strip = @ /\ c.buffer = <<>>]

\* Mutant: only the tag is held back, not the blank line after it.
LookForEndEarly(c) ==
  LET end == First(EndTags(c.buffer))
      safe == SubSeq(c.buffer, 1, Len(c.buffer) - Len(CloseTag))
  IN IF EndTags(c.buffer) # {} THEN LeaveThinking(c, end, From(c.buffer, end + Len(CloseTag) + 2))
     ELSE IF safe = <<>> THEN c
     ELSE [ThinkingDelta(c, safe) EXCEPT !.buffer = From(c.buffer, Len(safe) + 1)]

LookForEnd(c) ==
  LET end == First(EndTags(c.buffer))
      held == Len(CloseTag) + 2
      safe == SubSeq(c.buffer, 1, Len(c.buffer) - held)
  IN IF EndTags(c.buffer) # {} THEN LeaveThinking(c, end, From(c.buffer, end + held))
     ELSE IF safe = <<>> THEN c
     ELSE [ThinkingDelta(c, safe) EXCEPT !.buffer = From(c.buffer, Len(safe) + 1)]

FlushText(c) == IF c.buffer = <<>> THEN c ELSE TextDelta([c EXCEPT !.buffer = <<>>], c.buffer)

ProcessContent(c, content) ==
  LET begun == [c EXCEPT !.buffer = @ \o content]
      started == IF begun.thinking = "before" THEN LookForStart(begun) ELSE begun
      ended == IF started.thinking = "inside" THEN LookForEnd(StripNewline(started)) ELSE started
  IN IF ended.thinking = "done" THEN FlushText(ended) ELSE ended

ProcessAssistantResponse(c, content) ==
  IF c.enabled THEN ProcessContent(c, content) ELSE TextDelta(c, content)

ProcessToolUse(c, id, input, stop) ==
  LET end == First(EndTagsAtBufferEnd(c.buffer))
      left == IF c.thinking = "inside" /\ EndTagsAtBufferEnd(c.buffer) # {}
              THEN LeaveThinking(c, end, <<>>) ELSE c
      flushed == IF left.thinking = "before" THEN FlushText(left) ELSE left
      i == IF c.toolIndex[id] # 0 THEN c.toolIndex[id] ELSE Len(flushed.blocks) + 1
      closed == CloseText([flushed EXCEPT !.toolIndex[id] = i, !.hasTool = TRUE])
      started == IF i \in DOMAIN closed.blocks THEN closed ELSE NewBlock(closed, "tool_use")
      grown == IF input THEN BlockDelta(started, i, "tool_use", <<id>>) ELSE started
  IN IF stop THEN StopBlock(grown, i) ELSE grown

\* generate_final_events up to the state manager's part
FlushAll(c) ==
  LET end == First(EndTagsAtBufferEnd(c.buffer))
  IN IF c.buffer = <<>> THEN c
     ELSE IF c.thinking # "inside" THEN FlushText(c)
     ELSE IF EndTagsAtBufferEnd(c.buffer) # {} THEN LeaveThinking(c, end, <<>>)
     ELSE [EndThinking(c, c.buffer) EXCEPT !.buffer = <<>>]

\* Nothing but thinking: the answer gets a text block and says that the budget was used up
AddMissingText(c) ==
  IF c.thinkingIndex # 0 /\ \A i \in DOMAIN c.blocks : c.blocks[i].kind = "thinking"
  THEN TextDelta([c EXCEPT !.stopReason = "max_tokens"], <<Space>>)
  ELSE c

\* Mutant: a tool call hides the limit that was reported.
ToolReasonFirst(c) ==
  IF c.hasTool THEN "tool_use" ELSE IF c.stopReason # "none" THEN c.stopReason ELSE "end_turn"

StopReason(c) ==
  IF c.stopReason # "none" THEN c.stopReason ELSE IF c.hasTool THEN "tool_use" ELSE "end_turn"

\* The state manager's part: the blocks left open are stopped in the order of a hash map
EndMessage(c, order) ==
  Emit(Emit(StopBlocks(c, order),
            [type |-> "message_delta", reason |-> StopReason(c), tokens |-> c.tokens]),
       [type |-> "message_stop"])

NewContext(enabled, buffered) ==
  [enabled |-> enabled, buffered |-> buffered,
   buffer |-> <<>>, thinking |-> "before", strip |-> FALSE, thinkingIndex |-> 0, textIndex |-> 0,
   toolIndex |-> [t \in Tools |-> 0], blocks |-> <<>>, hasTool |-> FALSE,
   stopReason |-> "none", tokens |-> "estimated", events |-> <<>>, finished |-> FALSE]

\* generate_initial_events
InitialEvents(c) ==
  LET started == Emit(c, [type |-> "message_start", tokens |-> c.tokens])
  IN IF c.enabled THEN started ELSE [NewBlock(started, "text") EXCEPT !.textIndex = 1]

\* Mutant: the first event keeps the estimate.
Uncorrected(events, tokens) == events

\* finish_and_get_all_events writes the final token count into the first event
Corrected(events, tokens) ==
  [i \in DOMAIN events |->
     IF events[i].type = "message_start" THEN [events[i] EXCEPT !.tokens = tokens] ELSE events[i]]

-----------------------------------------------------------------------------
(* The stream handlers and the two ends of the connection.                 *)

NewClient ==
  [phase |-> "new", kinds |-> <<>>, open |-> {}, last |-> [type |-> "none", index |-> 0],
   thinking |-> <<>>, text |-> <<>>, order |-> <<>>, input |-> "none", reason |-> "none",
   total |-> "none"]

Init ==
  /\ fed = <<>> /\ split = FALSE /\ notes = <<>>
  /\ \E b \in Bounds, enabled \in BOOLEAN : \E text \in b.texts :
       /\ upstream = [rest |-> text, events |-> b.events, calls |-> Tools]
       /\ ctx = InitialEvents(NewContext(enabled, b.buffered))
  /\ client = NewClient

\* The stream reads on when what it produced was sent; the buffered one sends nothing before the end
Ready == ~ctx.finished /\ (ctx.buffered \/ ctx.events = <<>>)

ReceiveText ==
  /\ Ready
  /\ \E n \in DOMAIN upstream.rest :
       LET content == SubSeq(upstream.rest, 1, n)
       IN /\ ctx' = ProcessAssistantResponse(ctx, content)
          /\ upstream' = [upstream EXCEPT !.rest = From(@, n + 1)]
          /\ fed' = fed \o content
  /\ split' = (split \/ ctx.hasTool)
  /\ UNCHANGED <<notes, client>>

\* Nothing comes for a call after its stop: the state manager would drop it with a warning
ReceiveToolUse(id, input, stop) ==
  /\ Ready /\ upstream.events > 0 /\ id \in upstream.calls
  /\ ctx' = ProcessToolUse(ctx, id, input, stop)
  /\ upstream' = [upstream EXCEPT !.events = @ - 1, !.calls = IF stop THEN @ \ {id} ELSE @]
  /\ fed' = IF input THEN Append(fed, id) ELSE fed
  /\ UNCHANGED <<split, notes, client>>

\* contextUsageEvent, below the limit and at it, and ContentLengthExceededException
ReceiveNote(note) ==
  /\ Ready /\ upstream.events > 0
  /\ ctx' = [ctx EXCEPT !.tokens = IF note = "length" THEN @ ELSE "measured",
                        !.stopReason = CASE note = "full" -> "model_context_window_exceeded"
                                         [] note = "length" -> "max_tokens"
                                         [] OTHER -> @]
  /\ upstream' = [upstream EXCEPT !.events = @ - 1]
  /\ notes' = Append(notes, note)
  /\ UNCHANGED <<fed, split, client>>

\* The upstream ends, early or late, or fails
Finish ==
  /\ Ready
  /\ LET flushed == AddMissingText(FlushAll(ctx))
     IN \E order \in SetToSeqs(OpenBlocks(flushed)) :
          LET ended == EndMessage(flushed, order)
          IN ctx' = [ended EXCEPT !.finished = TRUE,
                       !.events = IF ctx.buffered THEN Corrected(@, ctx.tokens) ELSE @]
  /\ UNCHANGED <<upstream, fed, split, notes, client>>

\* How the client assembles the answer from an event
Got(e) == [client EXCEPT !.last = [type |-> e.type, index |-> IF "index" \in DOMAIN e THEN e.index ELSE 0]]

Assemble(e) ==
  \/ /\ e.type = "message_start"
     /\ client' = [Got(e) EXCEPT !.phase = "streaming", !.input = e.tokens]
  \/ /\ e.type = "content_block_start"
     /\ client' = [Got(e) EXCEPT !.kinds = Append(@, e.kind), !.open = @ \cup {e.index}]
  \/ /\ e.type = "content_block_delta"
     /\ client' = [Got(e) EXCEPT !.thinking = IF e.kind = "thinking" THEN @ \o e.text ELSE @,
                                 !.text = IF e.kind = "text" THEN @ \o e.text ELSE @,
                                 !.order = @ \o e.text]
  \/ /\ e.type = "content_block_stop"
     /\ client' = [Got(e) EXCEPT !.open = @ \ {e.index}]
  \/ /\ e.type = "message_delta"
     /\ client' = [Got(e) EXCEPT !.phase = "closing", !.reason = e.reason, !.total = e.tokens]
  \/ /\ e.type = "message_stop"
     /\ client' = [Got(e) EXCEPT !.phase = "ended"]

Deliver ==
  /\ ctx.events # <<>> /\ (~ctx.buffered \/ ctx.finished)
  /\ Assemble(Head(ctx.events)) /\ ctx' = [ctx EXCEPT !.events = Tail(@)]
  /\ UNCHANGED <<upstream, fed, split, notes>>

Ended == client.phase = "ended" /\ UNCHANGED vars

Next ==
  \/ ReceiveText
  \/ \E id \in Tools, input, stop \in BOOLEAN : ReceiveToolUse(id, input, stop)
  \/ \E note \in {"usage", "full", "length"} : ReceiveNote(note)
  \/ Finish \/ Deliver \/ Ended

Spec == Init /\ [][Next]_vars

-----------------------------------------------------------------------------
(* Properties.                                                             *)

Kinds == {"text", "thinking", "tool_use"}
Reasons == {"end_turn", "tool_use", "max_tokens", "model_context_window_exceeded"}

\* The context's indexes point at blocks of their kind, an open thinking block
\* belongs to a context inside of it, and after the thinking nothing is held back.
TypeOK ==
  /\ upstream.events \in Nat /\ upstream.calls \subseteq Tools
  /\ ctx.thinking \in {"before", "inside", "done"}
  /\ ctx.blocks \in Seq([kind : Kinds, open : BOOLEAN])
  /\ ctx.buffer \in Seq(Units) /\ (ctx.thinking = "done" => ctx.buffer = <<>>)
  /\ ctx.textIndex # 0 => ctx.blocks[ctx.textIndex].kind = "text"
  /\ \A t \in Tools : ctx.toolIndex[t] # 0 => ctx.blocks[ctx.toolIndex[t]].kind = "tool_use"
  /\ (ctx.thinking = "before") = (ctx.thinkingIndex = 0)
  /\ ctx.thinkingIndex # 0 =>
       IsOpen(ctx, ctx.thinkingIndex) = (ctx.thinking = "inside" /\ ~ctx.finished)
  /\ client.reason \in Reasons \cup {"none"}

\* What of a sequence is in the set V, in order: a SelectSeq that a proof can unfold
Keep(s, V) ==
  LET f[i \in 0 .. Len(s)] ==
        IF i = 0 THEN <<>> ELSE IF s[i] \in V THEN Append(f[i - 1], s[i]) ELSE f[i - 1]
  IN f[Len(s)]

Visible == Units \ Hidden

\* Nothing is swallowed, repeated or reordered on its way through the tag buffer
\* and the changing text blocks: when the answer has ended the client has every
\* letter and every piece of a tool's input that was received, in order; where
\* there is no tag, letters and tool inputs are in order with each other too.
NothingSwallowed ==
  client.phase = "ended" =>
    /\ Keep(client.order, Visible) = Keep(fed, Visible)
    /\ Keep(client.order, Tools) = Keep(fed, Tools)
    /\ ToSet(fed) \cap ToSet(OpenTag) = {} =>
         Keep(client.order, Visible \cup Tools) = Keep(fed, Visible \cup Tools)

ReceivedText == SelectSeq(fed, LAMBDA u : u \notin Tools)

\* The closing tag is the last of the answer with more than two blanks behind it:
\* the stream holds back a tag and two units, so it has shown the tag's beginning.
EndLeaks ==
  LET start == First(StartTags(ReceivedText))
      rest == From(ReceivedText, start + Len(OpenTag))
  IN /\ StartTags(ReceivedText) # {} /\ EndTags(rest) = {} /\ EndTagsAtBufferEnd(rest) # {}
     /\ Len(rest) > First(EndTagsAtBufferEnd(rest)) + Len(CloseTag) + 1

\* The thinking and the text are those of the answer in one piece, blanks aside; a
\* tag that leaks is added to the thinking
SameAsExtract ==
  LET whole == Extract(ReceivedText)
      leaked == IF EndLeaks THEN CloseTag ELSE <<>>
  IN /\ NonBlank(client.thinking) = NonBlank(whole.thinking) \o leaked
     /\ NonBlank(client.text) = NonBlank(whole.text)

\* The answer has ended, it was asked to think, and there are two answers to compare:
\* no text follows a tool call, and a block that is opened is closed (one that is
\* not is shown as thinking only when streaming).
Comparable ==
  /\ client.phase = "ended" /\ ctx.enabled /\ ~split
  /\ Extract(ReceivedText).found \/ StartTags(ReceivedText) = {}

NoTagIsQuoted ==
  \A p \in DOMAIN ReceivedText, tag \in {OpenTag, CloseTag} :
    TagAt(ReceivedText, tag, p) => ~Quoted(ReceivedText, tag, p)

\* Where no tag is quoted, the streamed answer has the thinking and the text that
\* the answer in one piece would have, wherever the text was cut, in all cases but
\* one: a closing tag that leaks is shown, whole, at the end of the thinking.
StreamMatchesExtract == Comparable /\ NoTagIsQuoted => SameAsExtract

\* What was reported and what is called; an answer with nothing but thinking.
Limits == {i \in DOMAIN notes : notes[i] \in {"full", "length"}}
UsualReason ==
  IF Limits # {}
  THEN IF notes[Max(Limits)] = "full" THEN "model_context_window_exceeded" ELSE "max_tokens"
  ELSE IF ctx.hasTool THEN "tool_use" ELSE "end_turn"
ThinkingOnly ==
  ctx.thinkingIndex # 0 /\ client.kinds = <<"thinking", "text">> /\ client.text = <<Space>>

\* The stop reason is the one the answer in one piece gives: the last limit that
\* was reported, else whether a tool is called.  Only an answer with nothing but
\* thinking says max_tokens without one, and it always does: its text is one space
\* that was not received (where spaces are received the client cannot tell).
StopReasonMatches ==
  client.phase = "ended" =>
    /\ client.reason = UsualReason \/ (ThinkingOnly /\ client.reason = "max_tokens")
    /\ ThinkingOnly /\ Space \notin Units => client.reason = "max_tokens"

\* A buffered answer opens and closes with the same token count, the measured one
\* when the upstream reported it at any time before the end.
BufferedTokensAgree ==
  client.phase = "ended" /\ ctx.buffered =>
    /\ client.input = client.total
    /\ client.total = IF ToSet(notes) \cap {"usage", "full"} # {} THEN "measured" ELSE "estimated"

\* What the client receives is a well-formed message.
Message ==
  INSTANCE SseMessage WITH
    phase <- client.phase, next <- Len(client.kinds), open <- client.open, last <- client.last
SendsAMessage == Message!Spec
=============================================================================
