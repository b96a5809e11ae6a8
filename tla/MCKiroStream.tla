------------------------------ MODULE MCKiroStream ------------------------------
(* Small instances of KiroStream for TLC.                                   *)
EXTENDS KiroStream

\* Texts made of an open tag with a first thought, a closing tag, the blank line that
\* makes it count, another blank, a letter and a character that quotes a tag next to it.
\* The other blank is not the space the code itself adds: StopReasonMatches can tell them apart.
MixedWords ==
  {OpenTag \o <<"b">>, CloseTag, <<Newline, Newline>>, <<Tab>>, <<"a">>, <<"quote">>}

MixedUnits == UNION {ToSet(w) : w \in MixedWords}

Texts(n) == {FlattenSeq(words) : words \in BoundedSeq(MixedWords, n)}

\* Long texts alone, shorter ones with one or two tool calls and notes
TextOrTools ==
  {[texts |-> Texts(4), events |-> 0, buffered |-> FALSE],
   [texts |-> Texts(3), events |-> 1, buffered |-> FALSE],
   [texts |-> Texts(2), events |-> 2, buffered |-> FALSE],
   [texts |-> Texts(1), events |-> 2, buffered |-> TRUE]}
=============================================================================
