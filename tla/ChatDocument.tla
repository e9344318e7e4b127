---------------------------- MODULE ChatDocument ----------------------------
(***************************************************************************)
(* The messages of one chat: one JSON document that every change rewrites  *)
(* as a whole (models/chats.py), and a copy of each message in the table   *)
(* chat_message.  Events of functions and tools change it from worker      *)
(* threads (get_event_emitter), generations save the text on the event     *)
(* loop, and an open tab shows the events and saves what it shows.         *)
(*                                                                         *)
(* A step is one query or commit.  The thread of an event goes on when the *)
(* task that awaits it is cancelled.                                       *)
(***************************************************************************)
EXTENDS FiniteSets

CONSTANTS
  Message,
  Event,   \* changes, each made once
  Task,    \* what emits them, one after the other: a function, a tool call
  None

ASSUME DocumentAssumption == None \notin Message \cup Event \cup Task

VARIABLES
  doc,       \* [Message -> what the document has]
  row,       \* [Message -> what its chat_message has]
  gone,      \* the chat has been deleted
  change,    \* [Event -> its kind and progress]
  awaiting,  \* [Task -> the event it awaits]
  tab,       \* [Message -> what the tab shows]
  hears,     \* the tab is connected
  heard,     \* it always has been
  behind,    \* messages changed without their row
  raced      \* the document has changed while a change of it was under way

vars == <<doc, row, gone, change, awaiting, tab, hears, heard, behind, raced>>

Kind == {"status", "message", "files", "replace", "save"}

Content == [content : SUBSET Event, files : SUBSET Event, status : SUBSET Event]
Empty == [content |-> {}, files |-> {}, status |-> {}]

Document == [Message -> Content]
Blank == [m \in Message |-> Empty]

Unborn == [pc |-> "new", kind |-> None, msg |-> None, base |-> {}, copy |-> Blank]

Change ==
  [ pc   : {"new", "get", "read", "row", "doc", "done"},
    kind : Kind \cup {None},
    msg  : Message \cup {None},
    base : SUBSET Event,  \* what is extended, of an earlier query
    copy : Document ]     \* the document that is changed

\* The domains of the variables.
TypeOK ==
  /\ doc \in Document
  /\ row \in [Message -> Content \cup {None}]
  /\ gone \in BOOLEAN /\ hears \in BOOLEAN /\ heard \in BOOLEAN /\ raced \in BOOLEAN
  /\ change \in [Event -> Change]
  /\ awaiting \in [Task -> Event \cup {None}]
  /\ tab \in Document
  /\ behind \in SUBSET Message

\* The tab has created the chat and its messages.
Init ==
  /\ doc = Blank /\ row = Blank /\ tab = Blank
  /\ gone = FALSE /\ hears = TRUE /\ heard = TRUE /\ raced = FALSE
  /\ change = [e \in Event |-> Unborn]
  /\ awaiting = [t \in Task |-> None]
  /\ behind = {}

stored == <<doc, row, gone, behind, raced>>
shown  == <<tab, hears, heard>>

\* A save runs on the event loop without an await.
LoopFree == \A e \in Event : change[e].kind = "save" => change[e].pc = "done"

\* Changes that have read the document.
UnderWay == {e \in Event : change[e].pc \in {"row", "doc"}}

-----------------------------------------------------------------------------
(* The tab                                                                 *)

\* Mutant of Shown: a status takes the place of the one before.
ShownLast(content, e, kind) ==
  CASE kind = "status" -> [content EXCEPT !.status = {e}]
    [] kind = "message" -> [content EXCEPT !.content = @ \cup {e}]
    [] kind = "files" -> [content EXCEPT !.files = {e}]
    [] kind \in {"replace", "save"} -> [content EXCEPT !.content = {e}]

\* chatEventHandler: files, and embeds, take the place of those before.
Shown(content, e, kind) ==
  CASE kind = "status" -> [content EXCEPT !.status = @ \cup {e}]
    [] kind = "message" -> [content EXCEPT !.content = @ \cup {e}]
    [] kind = "files" -> [content EXCEPT !.files = {e}]
    [] kind \in {"replace", "save"} -> [content EXCEPT !.content = {e}]

\* Mutant of Load: a chat that is gone is loaded as nothing.
LoadAny ==
  /\ LoopFree
  /\ tab' = (IF gone THEN None ELSE doc) /\ hears' = TRUE
  /\ heard' = (heard /\ tab = doc)
  /\ UNCHANGED <<stored, change, awaiting>>

\* The tab loads the chat, when it opens or to catch up.
Load ==
  /\ LoopFree /\ ~gone
  /\ tab' = doc /\ hears' = TRUE
  /\ heard' = (heard /\ tab = doc)
  /\ UNCHANGED <<stored, change, awaiting>>

Disconnect ==
  /\ hears
  /\ hears' = FALSE /\ heard' = FALSE
  /\ UNCHANGED <<stored, change, awaiting, tab>>

\* update_chat_by_id of the router: the history is the one the tab shows.
SaveTab ==
  /\ LoopFree /\ ~gone
  /\ doc' = tab
  /\ behind' = behind \cup {m \in Message : tab[m] # doc[m]}
  /\ raced' = (raced \/ UnderWay # {})
  /\ UNCHANGED <<row, gone, change, awaiting, shown>>

-----------------------------------------------------------------------------
(* Events                                                                  *)

Finish(e) ==
  /\ change' = [change EXCEPT ![e] = [Unborn EXCEPT !.pc = "done"]]
  /\ awaiting' = [t \in Task |-> IF awaiting[t] = e THEN None ELSE awaiting[t]]

\* The event is sent to the tab and then stored: text and files extend what a
\* first query finds.
Emit(t, e, kind, m) ==
  /\ LoopFree /\ awaiting[t] = None /\ change[e].pc = "new"
  /\ tab' = IF hears THEN [tab EXCEPT ![m] = Shown(@, e, kind)] ELSE tab
  /\ change' = [change EXCEPT ![e] =
       [@ EXCEPT !.pc = IF kind \in {"message", "files"} THEN "get" ELSE "read",
                 !.kind = kind, !.msg = m]]
  /\ awaiting' = [awaiting EXCEPT ![t] = e]
  /\ UNCHANGED <<stored, hears, heard>>

\* get_message_by_id_and_message_id; without the chat nothing is stored.
Get(e) ==
  LET m == change[e].msg
      base == IF change[e].kind = "files" THEN doc[m].files ELSE doc[m].content
  IN
  /\ change[e].pc = "get"
  /\ IF gone THEN Finish(e)
     ELSE /\ change' = [change EXCEPT ![e].pc = "read", ![e].base = base]
          /\ UNCHANGED awaiting
  /\ UNCHANGED <<stored, shown>>

\* get_chat_by_id.
Read(e) ==
  /\ change[e].pc = "read"
  /\ IF gone THEN Finish(e)
     ELSE /\ change' = [change EXCEPT ![e].copy = doc,
                                      ![e].pc = IF change[e].kind = "status" THEN "doc" ELSE "row"]
          /\ UNCHANGED awaiting
  /\ UNCHANGED <<stored, shown>>

\* Mutant of Changed: files do not extend those before.
ChangedNoExtend(e) ==
  LET m == change[e].msg
      old == change[e].copy[m]
  IN  [change[e].copy EXCEPT ![m] =
         CASE change[e].kind = "status" -> [old EXCEPT !.status = @ \cup {e}]
           [] change[e].kind = "message" -> [old EXCEPT !.content = change[e].base \cup {e}]
           [] change[e].kind = "files" -> [old EXCEPT !.files = {e}]
           [] change[e].kind \in {"replace", "save"} -> [old EXCEPT !.content = {e}]]

\* The document to be written.
Changed(e) ==
  LET m == change[e].msg
      old == change[e].copy[m]
  IN  [change[e].copy EXCEPT ![m] =
         CASE change[e].kind = "status" -> [old EXCEPT !.status = @ \cup {e}]
           [] change[e].kind = "message" -> [old EXCEPT !.content = change[e].base \cup {e}]
           [] change[e].kind = "files" -> [old EXCEPT !.files = change[e].base \cup {e}]
           [] change[e].kind \in {"replace", "save"} -> [old EXCEPT !.content = {e}]]

\* Mutant of WriteRow: the row is not repaired, only the new text is written.
WriteRowPart(e) ==
  LET m == change[e].msg IN
  /\ change[e].pc = "row"
  /\ change' = [change EXCEPT ![e].pc = "doc"]
  /\ \/ /\ row' = [row EXCEPT ![m] = IF @ = None THEN Changed(e)[m]
                                     ELSE [@ EXCEPT !.content = Changed(e)[m].content]]
        /\ behind' = behind \ {m}
     \/ behind' = behind \cup {m} /\ UNCHANGED row
  /\ UNCHANGED <<doc, gone, raced, awaiting, shown>>

\* ChatMessages.upsert_message of the whole message; its failure is logged.
WriteRow(e) ==
  LET m == change[e].msg IN
  /\ change[e].pc = "row"
  /\ change' = [change EXCEPT ![e].pc = "doc"]
  /\ \/ /\ row' = [row EXCEPT ![m] = Changed(e)[m]]
        /\ behind' = behind \ {m}
     \/ behind' = behind \cup {m} /\ UNCHANGED row
  /\ UNCHANGED <<doc, gone, raced, awaiting, shown>>

\* update_chat_by_id, which fails without the chat.
WriteDoc(e) ==
  LET c == change[e] IN
  /\ c.pc = "doc"
  /\ Finish(e)
  /\ doc' = IF gone THEN doc ELSE Changed(e)
  /\ behind' = IF c.kind = "status" THEN behind \cup {c.msg} ELSE behind
  /\ raced' = (raced \/ UnderWay # {e})
  /\ UNCHANGED <<row, gone, shown>>

\* The task is cancelled: its thread goes on once it has begun.
Cancel(t) ==
  LET e == awaiting[t] IN
  /\ LoopFree /\ e # None
  /\ \/ change[e].pc \in {"get", "read"} /\ Finish(e)
     \/ /\ change[e].pc \in {"read", "row", "doc"}
        /\ awaiting' = [awaiting EXCEPT ![t] = None]
        /\ UNCHANGED change
  /\ UNCHANGED <<stored, shown>>

-----------------------------------------------------------------------------
\* delete_chat_by_id.
Delete ==
  /\ LoopFree /\ ~gone
  /\ gone' = TRUE /\ doc' = Blank
  /\ row' = [m \in Message |-> None]
  /\ raced' = (raced \/ UnderWay # {})
  /\ UNCHANGED <<behind, change, awaiting, shown>>

Next ==
  \/ \E t \in Task, e \in Event, kind \in Kind, m \in Message : Emit(t, e, kind, m)
  \/ \E e \in Event : Get(e) \/ Read(e) \/ WriteRow(e) \/ WriteDoc(e)
  \/ \E t \in Task : Cancel(t)
  \/ Load \/ Disconnect \/ SaveTab \/ Delete

Spec == Init /\ [][Next]_vars

-----------------------------------------------------------------------------
(* Properties                                                              *)

\* The event e writes, over something it has not read.
StaleWrite(e) ==
  LET c == change[e]
  IN  /\ c.pc = "doc" /\ change'[e].pc = "done"
      /\ \/ c.copy # doc
         \/ c.kind = "message" /\ c.base # doc[c.msg].content
         \/ c.kind = "files" /\ c.base # doc[c.msg].files

\* The text of m is replaced on purpose.
Replaces(e, m) ==
  change[e].pc = "doc" /\ change'[e].pc = "done" /\ change[e].msg = m /\ change[e].kind \in {"replace", "save"}

\* What is stored stays (chats.py:485), also when a task is cancelled, except
\* under a change that has read the chat before, and when the tab saves; a tab
\* that has heard everything never takes back a status.
StaysStored ==
  [][\A m \in Message, e \in Event, part \in {"content", "files", "status"} :
       e \in doc[m][part] /\ e \notin doc'[m][part] =>
         \/ gone'
         \/ \E x \in Event : StaleWrite(x) \/ (part = "content" /\ Replaces(x, m))
         \/ UNCHANGED change /\ doc' = tab /\ (part = "status" => ~heard)]_vars

\* Every upsert repairs the row of its message (chats.py:475), after failures
\* and changes that left it out, as long as no changes overlap.
RowsRepaired ==
  ~raced /\ ~gone =>
    \A m \in Message \ behind :
      \/ row[m] = doc[m]
      \/ \E e \in UnderWay : change[e].msg = m

\* Only a change under way when the chat is deleted leaves a row (chats.py:1396).
NoRowsLeft == gone /\ ~raced => \A m \in Message : row[m] = None

\* The rows follow the document, whatever fails between the two transactions.
RowsFollow == RowsRepaired /\ NoRowsLeft

=============================================================================
