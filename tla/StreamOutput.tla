---------------------------- MODULE StreamOutput ----------------------------
(***************************************************************************)
(* The output items of a streamed answer (utils/middleware.py): how text   *)
(* with reasoning and code tags, native reasoning and the events of the    *)
(* Responses API change the list of items.  Text is a sequence of tokens,  *)
(* each a word or a whole tag; white space, attributes and times are left  *)
(* out, so a blank text is an empty one.                                   *)
(***************************************************************************)
EXTENDS Integers, Sequences, SequencesExt, FiniteSets

StartTag(kind) == IF kind = "code" THEN "<code>" ELSE "<think>"
EndTag(kind)   == IF kind = "code" THEN "</code>" ELSE "</think>"
Tag == {"<code>", "</code>", "<think>", "</think>"}

\* An output item.  `native' is the reasoning_content attribute, `id' the
\* call_id of a function call (and of its output).
Item(type, text) ==
  [type |-> type, status |-> "in_progress", native |-> FALSE, text |-> text, id |-> 0]

MessageItem(text) == Item("message", text)
Native(text)  == [Item("reasoning", text) EXCEPT !.native = TRUE]
Call(id)      == [Item("call", <<>>) EXCEPT !.id = id]
Result(id)    == [Item("result", <<>>) EXCEPT !.id = id, !.status = "completed"]

LastType(out) == IF out = <<>> THEN "none" ELSE Last(out).type

SetText(out, text) == [out EXCEPT ![Len(out)].text = text]
AddToLast(out, text) == SetText(out, Last(out).text \o text)
Complete(out) == [out EXCEPT ![Len(out)].status = "completed"]

\* A set of positions as a list, the first one first.
InOrder(P) ==
  CHOOSE at \in [1..Cardinality(P) -> P] : \A i, j \in DOMAIN at : i < j => at[i] < at[j]

\* The tokens of a text but one.
Omit(text, token) ==
  LET kept == InOrder({k \in 1..Len(text) : text[k] # token})
  IN  [k \in DOMAIN kept |-> text[kept[k]]]

AtMostOne(text, S) == \A i, j \in DOMAIN text : text[i] \in S /\ text[j] \in S => i = j

Ids(out, type) == {out[i].id : i \in {j \in 1..Len(out) : out[j].type = type}}

-----------------------------------------------------------------------------
(* A delta of the Chat Completions API                                     *)

\* delta.reasoning_content.
AddReasoning(out, word) ==
  IF LastType(out) = "reasoning" THEN AddToLast(out, <<word>>)
  ELSE Append(out, Native(<<word>>))

\* Text ends native reasoning.
CloseNative(out) ==
  IF LastType(out) = "reasoning" /\ Last(out).native
  THEN Append(Complete(out), MessageItem(<<>>)) ELSE out

InsideTagBlock(out) ==
  /\ LastType(out) \in {"reasoning", "code"}
  /\ Last(out).status = "in_progress" /\ ~Last(out).native

\* Mutant of AddValue: text inside a tag block starts a new message.
AddValueOutside(out, chunk) ==
  LET now == CloseNative(out)
  IN  IF LastType(now) = "message" THEN AddToLast(now, chunk)
      ELSE Append(now, MessageItem(chunk))

\* delta.content.
AddValue(out, chunk) ==
  LET now == CloseNative(out)
  IN  IF InsideTagBlock(now) \/ LastType(now) = "message" THEN AddToLast(now, chunk)
      ELSE Append(now, MessageItem(chunk))

\* Position of the first `token' in a text that contains it.
FirstIn(text, token) == SelectInSeq(text, LAMBDA t : t = token)

\* tag_output_handler, the last item is a block of this kind: at its end tag
\* the block is closed, or removed when it is blank, and a message follows.
EndBlock(kind, out) ==
  LET text   == Omit(Last(out).text, StartTag(kind))
      end    == FirstIn(text, EndTag(kind))
      block  == SubSeq(text, 1, end - 1)
      closed == SetText(IF kind = "reasoning" THEN Complete(out) ELSE out, block)
      rest   == MessageItem(SubSeq(text, end + 1, Len(text)))
  IN  IF EndTag(kind) \notin Range(Last(out).text) THEN [out |-> out, end |-> FALSE]
      ELSE [out |-> Append(IF block = <<>> THEN Front(out) ELSE closed, rest), end |-> TRUE]

\* tag_output_handler, the last item is a message with a start tag: the text
\* before it stays, the text after it opens a block.
StartBlock(kind, out) ==
  LET text  == Last(out).text
      start == FirstIn(text, StartTag(kind))
      after == SubSeq(text, start + 1, Len(text))
      kept  == IF start = 1 THEN Front(out) ELSE SetText(out, SubSeq(text, 1, start - 1))
      new   == Append(kept, Item(kind, after))
  IN  IF after = <<>> THEN [out |-> new, end |-> FALSE] ELSE EndBlock(kind, new)

\* tag_output_handler for a kind of tag.
TagOutput(kind, out) ==
  CASE LastType(out) = "message" /\ StartTag(kind) \in Range(Last(out).text) -> StartBlock(kind, out)
    [] LastType(out) = kind -> EndBlock(kind, out)
    [] OTHER -> [out |-> out, end |-> FALSE]

\* The text of a delta, with the tags looked for after it; `end' says that a
\* code block has ended, which ends the stream.
Value(out, chunk) == TagOutput("code", TagOutput("reasoning", AddValue(out, chunk)).out)

\* The end of stream_body_handler: a blank last message is dropped, unless it
\* is the only item, and open reasoning is completed.
CleanUp(out) ==
  LET kept == IF LastType(out) = "message" /\ Last(out).text = <<>> /\ Len(out) > 1
              THEN Front(out) ELSE out
  IN  IF LastType(kept) = "reasoning" THEN Complete(kept) ELSE kept

\* The placeholder of the next answer is not kept as an item of its own.
Trimmed(out) ==
  IF LastType(out) = "message" /\ Last(out).text = <<>> THEN Front(out) ELSE out

-----------------------------------------------------------------------------
(* Events of the Responses API, whose output_index counts from the first   *)
(* item of the current response (here from 1)                              *)

\* response.output_item.added.
ItemAdded(out, item) == Append(out, item)

\* response.*.delta: an index that is out of range changes nothing.
ItemDelta(out, i, word) ==
  IF i \in 1..Len(out) /\ out[i].type \in {"message", "reasoning"}
  THEN [out EXCEPT ![i].text = Append(@, word)] ELSE out

\* response.*.done of a field: a message gets its whole text, reasoning is
\* completed.  (response.output_item.done is taken for one and changes nothing.)
FieldDone(out, i, item) ==
  CASE i \notin 1..Len(out) -> out
    [] i \in 1..Len(out) /\ out[i].type = "message" -> [out EXCEPT ![i].text = item.text]
    [] i \in 1..Len(out) /\ out[i].type = "reasoning" -> [out EXCEPT ![i].status = "completed"]
    [] OTHER -> out

\* response.completed: the final output replaces what was streamed.
Completed(final) ==
  [i \in 1..Len(final) |->
     IF final[i].type = "reasoning" THEN [final[i] EXCEPT !.status = "completed"] ELSE final[i]]

-----------------------------------------------------------------------------
(* What the items mean                                                     *)

\* Where the tokens of the items are, in which order, and what they are.
Places(out) == UNION {{i} \X (1..Len(out[i].text)) : i \in 1..Len(out)}
Before(p, q) == p[1] < q[1] \/ (p[1] = q[1] /\ p[2] < q[2])
TokenAt(out, p) == out[p[1]].text[p[2]]

\* The words of the items are words from+1 to `to', each at one place and, if
\* `ordered', one after the other.  The words differ.
Hold(out, words, from, to, ordered) ==
  /\ \A p \in Places(out) :
       TokenAt(out, p) \notin Tag => \E n \in from+1..to : TokenAt(out, p) = words[n]
  /\ \A n \in from+1..to : \E p \in Places(out) : TokenAt(out, p) = words[n]
  /\ \A p, q \in Places(out) : Before(p, q) =>
       \A m, n \in from+1..to :
         TokenAt(out, p) = words[m] /\ TokenAt(out, q) = words[n] => m # n /\ (ordered => m < n)

\* The mode after a token: the kind of item a word would be in.
NextMode(mode, token) ==
  CASE mode = "message" /\ token = "<think>" -> "reasoning"
    [] mode = "message" /\ token = "<code>" -> "code"
    [] mode \in {"reasoning", "code"} /\ token = EndTag(mode) -> "message"
    [] OTHER -> mode

\* The modes of a text, the first one before its first token.
IsModes(modes, text) ==
  /\ modes \in [0..Len(text) -> {"message", "reasoning", "code"}]
  /\ modes[0] = "message"
  /\ \A i \in 1..Len(text) : modes[i] = NextMode(modes[i - 1], text[i])

HasWord(out, word, type) ==
  \E j \in 1..Len(out) : out[j].type = type /\ word \in Range(out[j].text)

\* The items hold each word of the text in an item of the kind its tags say.
HoldsAsTagged(out, text) ==
  \E modes \in [0..Len(text) -> {"message", "reasoning", "code"}] :
    /\ IsModes(modes, text)
    /\ \A i \in 1..Len(text) : text[i] \notin Tag => HasWord(out, text[i], modes[i - 1])

=============================================================================
