----------------------------- MODULE Generation -----------------------------
(***************************************************************************)
(* One chat completion task: process_chat of main.py and the response      *)
(* handlers of utils/middleware.py, from the payload to the record of the  *)
(* message, with tool calls, code interpreter rounds, provider failures    *)
(* and cancellation.                                                       *)
(*                                                                         *)
(* A step runs from one await to the next, so the task can be cancelled    *)
(* between any two steps.  The provider streams Chat Completions deltas or *)
(* Responses API events.                                                   *)
(***************************************************************************)
EXTENDS StreamOutput

CONSTANTS
  Vocabulary,    \* the words the provider sends, in order
  Earlier,       \* the text of a message that is continued
  MaxSent,       \* bound on the words, tags and calls of one generation
  MaxChunk,      \* bound on the tokens of one delta
  MaxItems,      \* bound on the items of one response (Responses API)
  CHAT_RESPONSE_MAX_TOOL_CALL_RETRIES,
  MAX_RETRIES,   \* of the code interpreter
  MaxCancels     \* stop commands that reach the task: more than one takes Redis

ASSUME GenerationAssumption ==
  /\ Vocabulary \in Seq(Range(Vocabulary))
  /\ IsInjective(Vocabulary) /\ Earlier \notin Range(Vocabulary) \cup Tag
  /\ Range(Vocabulary) \cap Tag = {} /\ MaxSent < Len(Vocabulary)
  /\ {MaxSent, MaxChunk, MaxItems, MaxCancels, MAX_RETRIES,
      CHAT_RESPONSE_MAX_TOOL_CALL_RETRIES} \subseteq Nat

VARIABLES
  pc,        \* where the task is
  caller,    \* whence stream_body_handler was called, "none" if the answer is not streamed
  style,     \* the provider's API
  realtime,  \* ENABLE_REALTIME_CHAT_SAVE
  output,
  prior,     \* prior_output
  acc,       \* response_tool_calls: the index of each argument object received
  calls,     \* tool_calls
  batch,     \* the tool calls of the current round
  ran,       \* how many of them have run
  toolTries, codeTries,
  db,        \* the stored message
  cancels,   \* cancellations so far
  response,  \* items of the current response, as the provider means them
  tokens,    \* text of the current response
  plain,     \* no delta held two tags, and native reasoning cut no block
  sent,      \* number of tokens, items and calls sent in all
  received,  \* every word of the answer, in order
  issued,    \* number of call ids in use
  executed   \* call ids whose tool was called, in order

control == <<pc, caller, toolTries, codeTries, cancels>>
items   == <<output, prior>>
tools   == <<acc, calls, batch, ran, issued, executed>>
reading == <<response, tokens, plain, sent, received>>
config  == <<style, realtime>>
generationVars == <<control, items, tools, reading, config, db>>

\* The domains of the variables.
GenerationTypeOK ==
  /\ pc \in {"payload", "stream", "ended", "tools", "calling", "request", "code", "running",
             "ask", "save", "shown", "background", "cancelling", "over"}
  /\ caller \in {"none", "first", "tools", "code"}
  /\ style \in {"chat", "responses"} /\ realtime \in BOOLEAN
  /\ \A item \in Range(output \o prior \o response \o db.output) :
       /\ item.type \in {"message", "reasoning", "code", "call", "result"}
       /\ item.status \in {"in_progress", "completed"}
       /\ Range(item.text) \subseteq Range(Vocabulary) \cup Tag \cup {Earlier}
       /\ item.id \in 0..issued /\ (item.id # 0 <=> item.type \in {"call", "result"})
  /\ db.done \in BOOLEAN /\ db.error \in BOOLEAN
  /\ ran \in 0..Len(batch) /\ cancels \in 0..MaxCancels /\ issued \in 0..MaxSent
  /\ toolTries \in 0..CHAT_RESPONSE_MAX_TOOL_CALL_RETRIES /\ codeTries \in 0..MAX_RETRIES

\* A new message, or one that is continued.
GenerationInit ==
  /\ pc = "payload" /\ caller = "none"
  /\ style \in {"chat", "responses"} /\ realtime \in BOOLEAN
  /\ received \in {<<>>, <<Earlier>>}
  /\ output = (IF received = <<>> THEN <<>> ELSE <<MessageItem(received)>>) /\ prior = <<>>
  /\ acc = <<>> /\ calls = <<>> /\ batch = <<>> /\ ran = 0 /\ issued = 0 /\ executed = <<>>
  /\ toolTries = 0 /\ codeTries = 0 /\ cancels = 0
  /\ db = [done |-> FALSE, error |-> FALSE, output |-> output]
  /\ response = <<>> /\ tokens = <<>> /\ plain = TRUE /\ sent = 0

-----------------------------------------------------------------------------
(* The stored message: each save merges the fields it gives.               *)

SaveDone(out) == db' = [db EXCEPT !.done = TRUE, !.output = IF realtime THEN @ ELSE out]
SaveError == db' = [db EXCEPT !.error = TRUE]

full_output == prior \o output

\* Mutant of SaveRealtime: the items of the earlier rounds are left out.
SaveRealtimeRound(out) == db' = IF realtime THEN [db EXCEPT !.output = out] ELSE db

\* With ENABLE_REALTIME_CHAT_SAVE every text delta is saved.
SaveRealtime(out) == db' = IF realtime THEN [db EXCEPT !.output = prior \o out] ELSE db

Goto(label) == pc' = label /\ UNCHANGED <<caller, toolTries, codeTries, cancels>>

\* The word the provider sends next.
NextWord == Vocabulary[Len(received) + 1]

-----------------------------------------------------------------------------
(* process_chat up to the response                                         *)

\* The request is answered with a stream.
ResponseStreams ==
  /\ pc = "payload"
  /\ pc' = "stream" /\ caller' = "first"
  /\ UNCHANGED <<toolTries, codeTries, cancels, items, tools, reading, config, db>>

\* An exception before there is a response, or a response that is an error.
PayloadFails ==
  /\ pc = "payload"
  /\ Goto("over") /\ SaveError
  /\ UNCHANGED <<items, tools, reading, config>>

\* non_streaming_chat_response_handler: the content is shown as done ...
ResponseWhole ==
  /\ pc = "payload" /\ sent < MaxSent
  /\ pc' = "shown"
  /\ output' = <<MessageItem(<<NextWord>>)>> /\ received' = <<NextWord>> /\ sent' = sent + 1
  /\ UNCHANGED <<caller, toolTries, codeTries, cancels, prior, tools, response, tokens, plain,
                 config, db>>

\* ... and then saved.
SaveWhole ==
  /\ pc = "shown"
  /\ Goto("background")
  /\ db' = [db EXCEPT !.done = TRUE, !.output = output]
  /\ UNCHANGED <<items, tools, reading, config>>

-----------------------------------------------------------------------------
(* stream_body_handler                                                     *)

\* The deltas a provider may send: one word and tags, cut anywhere.
Chunk ==
  {c \in UNION {[1..n -> {NextWord} \cup Tag] : n \in 1..MaxChunk} :
     AtMostOne(c, {NextWord})}

\* delta.content; the end of a code block ends the reading of the stream.
TextDelta(chunk) ==
  LET new == Value(output, chunk)
  IN  /\ pc = "stream" /\ style = "chat" /\ sent + Len(chunk) <= MaxSent
      /\ Goto(IF new.end THEN "ended" ELSE "stream")
      /\ output' = new.out
      /\ IF new.end THEN db' = db ELSE SaveRealtime(new.out)
      /\ tokens' = tokens \o chunk /\ sent' = sent + Len(chunk)
      /\ plain' = (plain /\ AtMostOne(chunk, Tag))
      /\ received' = IF NextWord \in Range(chunk) THEN Append(received, NextWord) ELSE received
      /\ UNCHANGED <<prior, tools, response, config>>

\* delta.reasoning_content.
ReasoningDelta ==
  /\ pc = "stream" /\ style = "chat" /\ sent < MaxSent
  /\ output' = AddReasoning(output, NextWord)
  /\ plain' = (plain /\ ~InsideTagBlock(output))
  /\ received' = Append(received, NextWord) /\ sent' = sent + 1
  /\ UNCHANGED <<control, prior, tools, response, tokens, config, db>>

\* delta.tool_calls: a new index, or more arguments for one that is there.
CallDelta ==
  /\ pc = "stream" /\ style = "chat" /\ sent < MaxSent
  /\ \E i \in Range(acc) \cup {Len(acc) + 1} : acc' = Append(acc, i)
  /\ issued' = issued + 1 /\ sent' = sent + 1
  /\ UNCHANGED <<control, items, calls, batch, ran, executed, response, tokens, plain, received,
                 config, db>>

\* response.output_item.added.
EventAdded(type) ==
  /\ pc = "stream" /\ style = "responses" /\ Len(response) < MaxItems
  /\ sent < MaxSent /\ sent' = sent + 1
  /\ issued' = IF type = "call" THEN issued + 1 ELSE issued
  /\ LET item == IF type = "call" THEN Call(issued') ELSE Item(type, <<>>)
     IN  /\ response' = Append(response, item)
         /\ output' = ItemAdded(output, item)
  /\ UNCHANGED <<control, prior, acc, calls, batch, ran, executed, tokens, plain, received, config, db>>

\* response.output_text.delta or response.reasoning_text.delta for an item.
EventDelta(i) ==
  /\ pc = "stream" /\ style = "responses" /\ sent < MaxSent
  /\ response[i].type \in {"message", "reasoning"} /\ response[i].status = "in_progress"
  /\ response' = [response EXCEPT ![i].text = Append(@, NextWord)]
  /\ output' = ItemDelta(output, i, NextWord)
  /\ received' = Append(received, NextWord) /\ sent' = sent + 1
  /\ UNCHANGED <<control, prior, tools, tokens, plain, config, db>>

\* The field of an item is done: response.output_text.done and the like.
EventDone(i) ==
  /\ pc = "stream" /\ style = "responses"
  /\ response[i].status = "in_progress"
  /\ response' = [response EXCEPT ![i].status = "completed"]
  /\ output' = FieldDone(output, i, response[i])
  /\ UNCHANGED <<control, prior, tools, tokens, plain, sent, received, config, db>>

\* response.completed.
EventCompleted ==
  /\ pc = "stream" /\ style = "responses"
  /\ Goto("ended")
  /\ output' = Completed(response)
  /\ UNCHANGED <<prior, tools, reading, config, db>>

\* _split_tool_calls: every argument object is a call with an id of its own.
split_tool_calls == [i \in 1..Len(acc) |-> issued - Len(acc) + i]

\* The function_call items that have no result yet (Responses API).
Unhandled(out) ==
  LET found == InOrder({i \in 1..Len(out) :
                          out[i].type = "call" /\ out[i].id \notin Ids(prior \o out, "result")})
  IN  [i \in DOMAIN found |-> out[found[i]].id]

\* Mutant of StreamEnds: the items of the earlier rounds are not put back.
StreamEndsForgetting ==
  /\ pc \in {"stream", "ended"}
  /\ Goto(IF caller = "code" THEN "code" ELSE "tools")
  /\ output' = CleanUp(output) /\ prior' = <<>> /\ acc' = <<>>
  /\ LET found == IF acc # <<>> THEN split_tool_calls ELSE Unhandled(output')
     IN  calls' = IF found = <<>> THEN calls ELSE Append(calls, found)
  /\ UNCHANGED <<batch, ran, issued, executed, reading, config, db>>

\* The stream is over: the last item is tidied and the tool calls are
\* collected; a tool round puts the items of the earlier rounds in front.
StreamEnds ==
  LET tidy  == CleanUp(output)
      found == IF acc # <<>> THEN split_tool_calls ELSE Unhandled(tidy)
  IN  /\ pc \in {"stream", "ended"}
      /\ Goto(IF caller = "code" THEN "code" ELSE "tools")
      /\ output' = IF caller = "tools" THEN prior \o tidy ELSE tidy
      /\ prior' = IF caller = "tools" THEN <<>> ELSE prior
      /\ calls' = IF found = <<>> THEN calls ELSE Append(calls, found)
      /\ acc' = <<>>
      /\ UNCHANGED <<batch, ran, issued, executed, reading, config, db>>

\* The stream breaks off: in the first one the exception reaches process_chat,
\* which stores an error; in a later round it ends the loop.
StreamFails ==
  /\ pc = "stream"
  /\ Goto(CASE caller = "first" -> "over" [] caller = "tools" -> "code" [] caller = "code" -> "save")
  /\ IF caller = "first" THEN SaveError ELSE UNCHANGED db
  /\ acc' = <<>>
  /\ UNCHANGED <<items, calls, batch, ran, issued, executed, reading, config>>

-----------------------------------------------------------------------------
(* The tool loop                                                           *)

\* Mutant of MoreTools: one round too many.
MoreToolsOneTooMany == calls # <<>> /\ toolTries <= CHAT_RESPONSE_MAX_TOOL_CALL_RETRIES

MoreTools == calls # <<>> /\ toolTries < CHAT_RESPONSE_MAX_TOOL_CALL_RETRIES

\* The next round: function_call items are added unless the stream had them.
ToolRound ==
  /\ pc = "tools" /\ MoreTools
  /\ pc' = "calling" /\ toolTries' = toolTries + 1
  /\ batch' = Head(calls) /\ calls' = Tail(calls) /\ ran' = 0
  /\ LET new == InOrder({i \in 1..Len(batch') : batch'[i] \notin Ids(output, "call")})
     IN  output' = output \o [i \in DOMAIN new |-> Call(batch'[new[i]])]
  /\ UNCHANGED <<caller, codeTries, cancels, prior, acc, issued, executed, reading, config, db>>

\* Mutant of ToolsOver: the queue must be empty.
ToolsOverDrained ==
  /\ pc = "tools" /\ calls = <<>>
  /\ Goto("code")
  /\ UNCHANGED <<items, tools, reading, config, db>>

ToolsOver ==
  /\ pc = "tools" /\ ~MoreTools
  /\ Goto("code")
  /\ UNCHANGED <<items, tools, reading, config, db>>

\* A tool is called, or not when its arguments cannot be parsed; an exception
\* of the tool is its result.
RunTool ==
  /\ pc = "calling" /\ ran < Len(batch)
  /\ ran' = ran + 1
  /\ executed' \in {executed, Append(executed, batch[ran + 1])}
  /\ UNCHANGED <<control, items, acc, calls, batch, issued, reading, config, db>>

\* An exception while a result is processed reaches process_chat.
ResultFails ==
  /\ pc = "calling" /\ ran < Len(batch)
  /\ Goto("over") /\ SaveError
  /\ UNCHANGED <<items, tools, reading, config>>

\* Mutant of ToolResults: a call that was not executed gets no result.
ToolResultsOfExecuted ==
  /\ pc = "calling" /\ ran = Len(batch)
  /\ Goto("request")
  /\ output' = [i \in DOMAIN output |->
                  IF output[i].type = "call" /\ output[i].id \in Range(batch)
                  THEN [output[i] EXCEPT !.status = "completed"] ELSE output[i]]
               \o SelectSeq([i \in DOMAIN batch |-> Result(batch[i])],
                            LAMBDA item : item.id \in Range(executed))
               \o <<MessageItem(<<>>)>>
  /\ UNCHANGED <<prior, tools, reading, config, db>>

\* Every call of the round has its result, and an empty message follows.
ToolResults ==
  /\ pc = "calling" /\ ran = Len(batch)
  /\ Goto("request")
  /\ output' = [i \in DOMAIN output |->
                  IF output[i].type = "call" /\ output[i].id \in Range(batch)
                  THEN [output[i] EXCEPT !.status = "completed"] ELSE output[i]]
               \o [i \in DOMAIN batch |-> Result(batch[i])]
               \o <<MessageItem(<<>>)>>
  /\ UNCHANGED <<prior, tools, reading, config, db>>

\* Mutant of ToolRequest: the new response is read into the old items.
ToolRequestKeeping ==
  /\ pc = "request"
  /\ pc' = "stream" /\ caller' = "tools"
  /\ prior' = <<>> /\ UNCHANGED output
  /\ response' = <<>> /\ tokens' = <<>> /\ plain' = TRUE
  /\ UNCHANGED <<toolTries, codeTries, cancels, tools, sent, received, config, db>>

\* The provider streams its answer to the results into a list of its own.
ToolRequest ==
  /\ pc = "request"
  /\ pc' = "stream" /\ caller' = "tools"
  /\ prior' = Trimmed(output) /\ output' = <<>>
  /\ response' = <<>> /\ tokens' = <<>> /\ plain' = TRUE
  /\ UNCHANGED <<toolTries, codeTries, cancels, tools, sent, received, config, db>>

\* An exception, or an answer that is not a stream, ends the loop.
ToolRequestFails ==
  /\ pc = "request"
  /\ pc' = "code"
  /\ UNCHANGED <<caller, toolTries, codeTries, cancels, items, tools, reading, config, db>>

-----------------------------------------------------------------------------
(* The code interpreter loop                                               *)

CodePending == LastType(output) = "code" /\ codeTries < MAX_RETRIES

CodeRound ==
  /\ pc = "code" /\ CodePending
  /\ pc' = "running" /\ codeTries' = codeTries + 1
  /\ UNCHANGED <<caller, toolTries, cancels, items, tools, reading, config, db>>

\* The block gets its result, whether or not running it raised.
CodeResult ==
  /\ pc = "running"
  /\ Goto("ask")
  /\ output' = Append(Complete(output), MessageItem(<<>>))
  /\ UNCHANGED <<prior, tools, reading, config, db>>

\* The answer to the result is read into the same items.
CodeRequest ==
  /\ pc = "ask"
  /\ pc' = "stream" /\ caller' = "code"
  /\ response' = <<>> /\ tokens' = <<>> /\ plain' = TRUE
  /\ UNCHANGED <<toolTries, codeTries, cancels, items, tools, sent, received, config, db>>

CodeRequestFails ==
  /\ pc = "ask"
  /\ pc' = "save"
  /\ UNCHANGED <<caller, toolTries, codeTries, cancels, items, tools, reading, config, db>>

-----------------------------------------------------------------------------
(* The end                                                                 *)

\* Every open item is completed and the message is saved.
Save ==
  /\ pc = "save" \/ (pc = "code" /\ ~CodePending)
  /\ Goto("background")
  /\ output' = [i \in DOMAIN output |-> [output[i] EXCEPT !.status = "completed"]]
  /\ SaveDone(output')
  /\ UNCHANGED <<prior, tools, reading, config>>

\* The last event is sent and background_tasks_handler writes follow-ups, a
\* title and tags, none of them part of the answer.
BackgroundEnds ==
  /\ pc = "background"
  /\ Goto("over")
  /\ UNCHANGED <<items, tools, reading, config, db>>

\* An exception there: process_chat stores it as the error of the message,
\* unless the answer was not streamed, whose handler ignores it.
BackgroundFails ==
  /\ pc = "background" /\ caller # "none"
  /\ Goto("over") /\ SaveError
  /\ UNCHANGED <<items, tools, reading, config>>

\* A cancellation arrives where the task awaits.  Inside response_handler it
\* is handled; before and in that handler it ends process_chat.
CancelGeneration ==
  /\ pc \in {"payload", "stream", "ended", "calling", "request", "running", "ask",
             "shown", "background", "cancelling"}
  /\ cancels < MaxCancels
  /\ cancels' = cancels + 1
  /\ pc' = IF caller = "none" \/ pc = "cancelling" THEN "over" ELSE "cancelling"
  /\ UNCHANGED <<caller, toolTries, codeTries, items, tools, reading, config, db>>

\* Mutant of CancelSave: only the event is sent.
CancelOnly ==
  /\ pc = "cancelling"
  /\ Goto("over")
  /\ UNCHANGED <<items, tools, reading, config, db>>

\* After `chat:tasks:cancel' has been sent the items of the round are saved.
CancelSave ==
  /\ pc = "cancelling"
  /\ Goto("over") /\ SaveDone(output)
  /\ UNCHANGED <<items, tools, reading, config>>

-----------------------------------------------------------------------------
Deltas ==
  \/ \E c \in Chunk : TextDelta(c)
  \/ ReasoningDelta
  \/ CallDelta
Events ==
  \/ \E type \in {"message", "reasoning", "call"} : EventAdded(type)
  \/ \E i \in DOMAIN response : EventDelta(i) \/ EventDone(i)
  \/ EventCompleted
Progress ==
  \/ ResponseStreams \/ PayloadFails \/ ResponseWhole \/ SaveWhole
  \/ Deltas \/ Events \/ StreamEnds \/ StreamFails
  \/ ToolRound \/ ToolsOver \/ RunTool \/ ResultFails \/ ToolResults
  \/ ToolRequest \/ ToolRequestFails
  \/ CodeRound \/ CodeResult \/ CodeRequest \/ CodeRequestFails
  \/ Save \/ BackgroundEnds \/ BackgroundFails \/ CancelSave

GenerationNext == Progress \/ CancelGeneration

\* The loop serves a task that can go on; that the provider answers and its
\* streams end is an assumption about the provider.
GenerationSpec == GenerationInit /\ [][GenerationNext]_generationVars /\ WF_generationVars(Progress)

-----------------------------------------------------------------------------
(* Properties                                                              *)

Over == pc = "over"

\* A message that is continued with the Responses API starts from items the
\* provider does not count: events then change the wrong items.
Fresh == received = <<>> \/ Head(received) # Earlier
Aligned == style = "chat" \/ Fresh

\* A stored answer has every word received, once and (but for items that the
\* provider fills out of order) in order, whatever tool and code rounds, tags
\* and cancellations there were (middleware.py:4426, 4600, 4668): what it may
\* lack is exactly prior_output, the rounds before one that was cut short.
NothingReceivedIsLost ==
  Over /\ db.done /\ ~realtime /\ Aligned =>
    Hold(prior \o db.output, received, 0, Len(received), style = "chat")

\* While deltas hold one tag at a time and native reasoning does not come in
\* the middle of a block, every word is in an item of the kind
\* the tags around it say, however the text is cut (middleware.py:3856-3940).
ParsedAsTagged ==
  pc = "stream" /\ style = "chat" /\ plain => HoldsAsTagged(output, tokens)

\* The items of a response are the provider's, so that an output_index finds
\* its item: the reason for starting a new list in each tool round
\* (middleware.py:4398-4402).
ResponseAligned ==
  style = "responses" /\ pc \in {"stream", "ended"} /\ (caller = "tools" \/ Fresh) =>
    /\ Len(output) = Len(response)
    /\ \A i \in DOMAIN output :
         output[i].type = response[i].type /\ output[i].text = response[i].text /\ output[i].id = response[i].id

\* A request to go on is never sent with a tool call that has no result, or
\* has two (middleware.py:4235-4275): providers refuse such messages.
AnsweredBeforeAsking ==
  pc \in {"request", "ask"} =>
    \A i \in DOMAIN output : output[i].type = "call" =>
      Cardinality({j \in DOMAIN output : output[j].type = "result" /\ output[j].id = output[i].id}) = 1

\* A tool call has its effects once (middleware.py:4013-4019, 4057).
ExecutedOnce == IsInjective(executed)

\* However often a provider repeats a call, over however many rounds, it is
\* executed once, and no request is sent before each call has its one result.
CallsAnsweredOnce == ExecutedOnce /\ AnsweredBeforeAsking

\* With ENABLE_REALTIME_CHAT_SAVE the store has all text that has been read,
\* after what earlier rounds left (middleware.py:3945).
RealtimeSaved ==
  realtime /\ style = "chat" /\ pc = "stream" /\ tokens # <<>> =>
    \E n \in 0..Len(received) :
      /\ Hold(db.output, received, 0, n, TRUE)
      /\ Range(tokens) \ Tag \subseteq {received[i] : i \in 1..n}

\* A streamed answer that one stop command ends is stored as done, or has an
\* error (middleware.py:4661-4685); a second stop command may prevent it.
StoppedIsRecorded ==
  Over /\ cancels = 1 /\ caller # "none" => db.done \/ db.error

\* Every generation ends.
Terminates == <>Over

=============================================================================
