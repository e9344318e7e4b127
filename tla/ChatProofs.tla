----------------------------- MODULE ChatProofs -----------------------------
(***************************************************************************)
(* Proofs about ChatDocument, for any number of messages, changes and      *)
(* tasks: what is stored stays but under stale writes, and the rows follow *)
(* the document, whatever fails between the two transactions; and about    *)
(* Generation, which writes the answer: a stop leaves a record, a call has *)
(* its effects and its result once, an index of the provider finds its     *)
(* item, and every variable keeps its type.  What Generation does to the   *)
(* words of the answer is in AnswerProofs.                                 *)
(***************************************************************************)
EXTENDS ChatDocument, Generation, FiniteSetTheorems, SequenceTheorems, TLAPS

-----------------------------------------------------------------------------
(* The inductive invariant                                                 *)

\* A change that has begun changes a message; a status writes no row.
ChangeInv ==
  \A e \in Event :
    /\ change[e].pc \in {"get", "read", "row", "doc"} =>
         change[e].kind \in Kind /\ change[e].msg \in Message
    /\ change[e].pc = "row" => change[e].kind # "status"

\* A tab that has heard everything shows every status that is stored, about to
\* be stored, or part of a document about to be written back.
HeardInv ==
  heard =>
    /\ hears
    /\ \A m \in Message :
         /\ doc[m].status \subseteq tab[m].status
         /\ \A e \in Event :
              /\ change[e].copy[m].status \subseteq tab[m].status
              /\ change[e].kind = "status" /\ change[e].msg = m => e \in tab[m].status

\* As long as no changes overlap, a change writes back the document as it is,
\* and the row it has written is what the document will have.
RowInv ==
  ~raced =>
    /\ gone => UnderWay = {}
    /\ ~gone => \A e \in UnderWay :
         /\ change[e].copy = doc
         /\ UnderWay = {e} /\ change[e].pc = "doc" /\ change[e].kind # "status" =>
              change[e].msg \in behind \/ row[change[e].msg] = Changed(e)[change[e].msg]

IInv == TypeOK /\ ChangeInv /\ HeardInv /\ RowInv /\ RowsFollow

-----------------------------------------------------------------------------
(* Types                                                                   *)

LEMMA BlankType == Empty \in Content /\ Blank \in Document /\ Unborn \in Change
<1>1. Empty \in Content
  BY DEF Empty, Content
<1>2. Blank \in Document
  BY <1>1 DEF Blank, Document
<1>3. Unborn \in Change
  BY <1>2 DEF Unborn, Change
<1> QED BY <1>1, <1>2, <1>3

\* What a change makes of the document it has read: it sets or extends one part
\* of one message.
LEMMA ChangedIs ==
  ASSUME TypeOK, NEW e \in Event, change[e].kind \in Kind,
         NEW m \in Message, m = change[e].msg, NEW old \in Content, old = change[e].copy[m]
  PROVE  /\ Changed(e) \in Document
         /\ \A n \in Message \ {m} : Changed(e)[n] = change[e].copy[n]
         /\ Changed(e)[m].status = IF change[e].kind = "status" THEN old.status \cup {e} ELSE old.status
         /\ Changed(e)[m].files =
              IF change[e].kind = "files" THEN change[e].base \cup {e} ELSE old.files
         /\ change[e].kind = "message" => Changed(e)[m].content = change[e].base \cup {e}
         /\ change[e].kind \in {"status", "files"} => Changed(e)[m].content = old.content
<1> DEFINE new == CASE change[e].kind = "status" -> [old EXCEPT !.status = @ \cup {e}]
                    [] change[e].kind = "message" -> [old EXCEPT !.content = change[e].base \cup {e}]
                    [] change[e].kind = "files" -> [old EXCEPT !.files = change[e].base \cup {e}]
                    [] change[e].kind \in {"replace", "save"} -> [old EXCEPT !.content = {e}]
<1>1. Changed(e) = [change[e].copy EXCEPT ![m] = new]
  BY DEF Changed
<1>2. change[e].copy \in Document /\ change[e].base \in SUBSET Event
  BY DEF TypeOK, Change
<1>3. /\ new \in Content
      /\ new.status = IF change[e].kind = "status" THEN old.status \cup {e} ELSE old.status
      /\ new.files = IF change[e].kind = "files" THEN change[e].base \cup {e} ELSE old.files
      /\ change[e].kind = "message" => new.content = change[e].base \cup {e}
      /\ change[e].kind \in {"status", "files"} => new.content = old.content
  <2>1. CASE change[e].kind = "status"
    <3>1. new = [old EXCEPT !.status = @ \cup {e}]
      BY <2>1
    <3> QED BY <2>1, <3>1 DEF Content
  <2>2. CASE change[e].kind = "message"
    <3>1. new = [old EXCEPT !.content = change[e].base \cup {e}]
      BY <2>2
    <3> QED BY <1>2, <2>2, <3>1 DEF Content
  <2>3. CASE change[e].kind = "files"
    <3>1. new = [old EXCEPT !.files = change[e].base \cup {e}]
      BY <2>3
    <3> QED BY <1>2, <2>3, <3>1 DEF Content
  <2>4. CASE change[e].kind \in {"replace", "save"}
    <3>1. new = [old EXCEPT !.content = {e}]
      BY <2>4
    <3> QED BY <2>4, <3>1 DEF Content
  <2> QED BY <2>1, <2>2, <2>3, <2>4 DEF Kind
<1> HIDE DEF new
<1>4. /\ Changed(e) \in Document /\ Changed(e)[m] = new
      /\ \A n \in Message \ {m} : Changed(e)[n] = change[e].copy[n]
  BY <1>1, <1>2, <1>3 DEF Document
<1> QED BY <1>3, <1>4

\* The other messages stay as they were read.
LEMMA ChangedElsewhere ==
  ASSUME TypeOK, NEW e \in Event, change[e].kind \in Kind, change[e].msg \in Message
  PROVE  /\ Changed(e) \in Document
         /\ \A n \in Message \ {change[e].msg} : Changed(e)[n] = change[e].copy[n]
<1>1. PICK m \in Message : m = change[e].msg
  OBVIOUS
<1>2. PICK old \in Content : old = change[e].copy[m]
  BY DEF TypeOK, Change, Document
<1> QED BY <1>1, <1>2, ChangedIs

\* What an event makes of the message the tab shows.
LEMMA ShownIs ==
  ASSUME NEW c \in Content, NEW e \in Event, NEW kind \in Kind
  PROVE  /\ Shown(c, e, kind) \in Content
         /\ c.status \subseteq Shown(c, e, kind).status
         /\ kind = "status" => e \in Shown(c, e, kind).status
<1>1. CASE kind = "status"
  <2>1. Shown(c, e, kind) = [c EXCEPT !.status = @ \cup {e}]
    BY <1>1 DEF Shown
  <2> QED BY <2>1 DEF Content
<1>2. CASE kind = "message"
  <2>1. Shown(c, e, kind) = [c EXCEPT !.content = @ \cup {e}]
    BY <1>2 DEF Shown
  <2> QED BY <1>2, <2>1 DEF Content
<1>3. CASE kind = "files"
  <2>1. Shown(c, e, kind) = [c EXCEPT !.files = {e}]
    BY <1>3 DEF Shown
  <2> QED BY <1>3, <2>1 DEF Content
<1>4. CASE kind \in {"replace", "save"}
  <2>1. Shown(c, e, kind) = [c EXCEPT !.content = {e}]
    BY <1>4 DEF Shown
  <2> QED BY <1>4, <2>1 DEF Content
<1> QED BY <1>1, <1>2, <1>3, <1>4 DEF Kind

\* A change that ends is forgotten, and its task goes on.
LEMMA FinishFacts ==
  ASSUME TypeOK, NEW e \in Event, Finish(e)
  PROVE  /\ change' \in [Event -> Change] /\ awaiting' \in [Task -> Event \cup {None}]
         /\ change'[e].pc = "done" /\ change'[e].msg = None /\ change'[e].copy = Blank
         /\ \A x \in Event \ {e} : change'[x] = change[x]
<1> DEFINE ended == [Unborn EXCEPT !.pc = "done"]
<1>1. ended \in Change
  BY BlankType DEF Change
<1>2. ended.pc = "done" /\ ended.msg = None /\ ended.copy = Blank
  BY DEF Unborn
<1>3. change' = [change EXCEPT ![e] = ended]
  BY DEF Finish
<1> HIDE DEF ended
<1>4. awaiting' \in [Task -> Event \cup {None}]
  BY DEF Finish, TypeOK
<1> QED BY <1>1, <1>2, <1>3, <1>4 DEF TypeOK

LEMMA EmitFacts ==
  ASSUME TypeOK, NEW t \in Task, NEW e \in Event, NEW kind \in Kind, NEW m \in Message,
         Emit(t, e, kind, m)
  PROVE  /\ change' \in [Event -> Change]
         /\ change[e].pc = "new" /\ change'[e].pc \in {"get", "read"}
         /\ change'[e].kind = kind /\ change'[e].msg = m /\ change'[e].copy = change[e].copy
         /\ \A x \in Event \ {e} : change'[x] = change[x]
<1>1. change[e].pc = "new"
  BY DEF Emit
<1>2. PICK at \in {"get", "read"} :
        change' = [change EXCEPT ![e] = [change[e] EXCEPT !.pc = at, !.kind = kind, !.msg = m]]
  BY DEF Emit
<1>3. [change[e] EXCEPT !.pc = at, !.kind = kind, !.msg = m] \in Change
  <2>1. change[e] \in Change /\ doc \in Document
    BY DEF TypeOK
  <2> QED BY <2>1 DEF Change
<1>4. change'[e] = [change[e] EXCEPT !.pc = at, !.kind = kind, !.msg = m]
  BY <1>2 DEF TypeOK
<1>5. /\ change'[e].pc = at /\ change'[e].kind = kind /\ change'[e].msg = m
      /\ change'[e].copy = change[e].copy
  BY <1>4 DEF TypeOK, Change
<1> QED BY <1>1, <1>2, <1>3, <1>5 DEF TypeOK

LEMMA GetFacts ==
  ASSUME TypeOK, ChangeInv, NEW e \in Event, Get(e), ~gone
  PROVE  /\ change' \in [Event -> Change]
         /\ change[e].pc = "get" /\ change'[e].pc = "read"
         /\ change'[e].kind = change[e].kind /\ change'[e].msg = change[e].msg
         /\ change'[e].copy = change[e].copy
         /\ \A x \in Event \ {e} : change'[x] = change[x]
<1>1. change[e].pc = "get" /\ change[e].msg \in Message
  BY DEF Get, ChangeInv
<1>2. PICK base \in SUBSET Event : change' = [change EXCEPT ![e].pc = "read", ![e].base = base]
  <2>1. doc[change[e].msg].files \in SUBSET Event /\ doc[change[e].msg].content \in SUBSET Event
    BY <1>1 DEF TypeOK, Document, Content
  <2> QED BY <2>1 DEF Get
<1>3. change'[e] = [change[e] EXCEPT !.pc = "read", !.base = base]
  BY <1>2 DEF TypeOK, Change
<1>4. [change[e] EXCEPT !.pc = "read", !.base = base] \in Change
  <2>1. change[e] \in Change /\ doc \in Document
    BY DEF TypeOK
  <2> QED BY <2>1 DEF Change
<1>5. \A x \in Event \ {e} : change'[x] = change[x]
  BY <1>2 DEF TypeOK
<1>6. change' \in [Event -> Change]
  BY <1>2, <1>3, <1>4, <1>5 DEF TypeOK
<1> QED BY <1>1, <1>3, <1>5, <1>6 DEF TypeOK, Change

LEMMA ReadFacts ==
  ASSUME TypeOK, NEW e \in Event, Read(e), ~gone
  PROVE  /\ change' \in [Event -> Change]
         /\ change[e].pc = "read"
         /\ change'[e].pc = IF change[e].kind = "status" THEN "doc" ELSE "row"
         /\ change'[e].kind = change[e].kind /\ change'[e].msg = change[e].msg
         /\ change'[e].copy = doc
         /\ \A x \in Event \ {e} : change'[x] = change[x]
<1>1. change[e].pc = "read"
  BY DEF Read
<1>2. PICK at \in {"doc", "row"} : /\ at = IF change[e].kind = "status" THEN "doc" ELSE "row"
                                   /\ change' = [change EXCEPT ![e].copy = doc, ![e].pc = at]
  BY DEF Read
<1>3. change'[e] = [change[e] EXCEPT !.copy = doc, !.pc = at]
  BY <1>2 DEF TypeOK, Change
<1>4. [change[e] EXCEPT !.copy = doc, !.pc = at] \in Change
  <2>1. change[e] \in Change /\ doc \in Document
    BY DEF TypeOK
  <2> QED BY <2>1 DEF Change
<1>5. \A x \in Event \ {e} : change'[x] = change[x]
  BY <1>2 DEF TypeOK
<1>6. change' \in [Event -> Change]
  BY <1>2, <1>3, <1>4, <1>5 DEF TypeOK
<1> QED BY <1>1, <1>2, <1>3, <1>5, <1>6 DEF TypeOK, Change

LEMMA WriteRowFacts ==
  ASSUME TypeOK, NEW e \in Event, WriteRow(e)
  PROVE  /\ change' \in [Event -> Change]
         /\ change[e].pc = "row" /\ change'[e].pc = "doc"
         /\ change'[e].kind = change[e].kind /\ change'[e].msg = change[e].msg
         /\ change'[e].copy = change[e].copy /\ change'[e].base = change[e].base
         /\ \A x \in Event \ {e} : change'[x] = change[x]
<1>1. change[e].pc = "row" /\ change' = [change EXCEPT ![e].pc = "doc"]
  BY DEF WriteRow
<1>2. change'[e] = [change[e] EXCEPT !.pc = "doc"]
  BY <1>1 DEF TypeOK, Change
<1>3. [change[e] EXCEPT !.pc = "doc"] \in Change
  BY DEF TypeOK, Change
<1>4. \A x \in Event \ {e} : change'[x] = change[x]
  BY <1>1 DEF TypeOK
<1>5. change' \in [Event -> Change]
  BY <1>1, <1>2, <1>3, <1>4 DEF TypeOK
<1> QED BY <1>1, <1>2, <1>4, <1>5 DEF TypeOK, Change

LEMMA TypeNext ==
  ASSUME TypeOK, ChangeInv, [Next]_vars
  PROVE  TypeOK'
<1>1. CASE UNCHANGED vars
  BY <1>1 DEF TypeOK, vars
<1>2. ASSUME NEW t \in Task, NEW e \in Event, NEW kind \in Kind, NEW m \in Message,
             Emit(t, e, kind, m)
      PROVE  TypeOK'
  <2>1. tab' \in Document
    <3>1. tab[m] \in Content
      BY DEF TypeOK, Document
    <3>2. Shown(tab[m], e, kind) \in Content
      BY <3>1, ShownIs
    <3> QED BY <1>2, <3>2 DEF Emit, TypeOK, Document
  <2> QED BY <1>2, <2>1, EmitFacts DEF Emit, TypeOK, stored
<1>3. ASSUME NEW e \in Event, Get(e) PROVE TypeOK'
  BY <1>3, GetFacts, FinishFacts DEF Get, TypeOK, stored, shown
<1>4. ASSUME NEW e \in Event, Read(e) PROVE TypeOK'
  BY <1>4, ReadFacts, FinishFacts DEF Read, TypeOK, stored, shown
<1>5. ASSUME NEW e \in Event, WriteRow(e) PROVE TypeOK'
  <2>1. change[e].kind \in Kind /\ change[e].msg \in Message
    BY <1>5 DEF WriteRow, ChangeInv
  <2>2. Changed(e)[change[e].msg] \in Content
    BY <2>1, ChangedElsewhere DEF Document
  <2>3. row' \in [Message -> Content \cup {None}] /\ behind' \in SUBSET Message
    BY <1>5, <2>1, <2>2 DEF WriteRow, TypeOK
  <2> QED BY <1>5, <2>3, WriteRowFacts DEF WriteRow, TypeOK, shown
<1>6. ASSUME NEW e \in Event, WriteDoc(e) PROVE TypeOK'
  <2>1. change[e].kind \in Kind /\ change[e].msg \in Message
    BY <1>6 DEF WriteDoc, ChangeInv
  <2>2. Changed(e) \in Document
    BY <2>1, ChangedElsewhere
  <2>3. doc' \in Document /\ behind' \in SUBSET Message /\ raced' \in BOOLEAN
    BY <1>6, <2>1, <2>2 DEF WriteDoc, TypeOK
  <2> QED BY <1>6, <2>3, FinishFacts DEF WriteDoc, TypeOK, shown
<1>7. ASSUME NEW t \in Task, Cancel(t) PROVE TypeOK'
  <2>1. awaiting[t] \in Event
    BY <1>7 DEF Cancel, TypeOK
  <2>2. change' \in [Event -> Change] /\ awaiting' \in [Task -> Event \cup {None}]
    BY <1>7, <2>1, FinishFacts DEF Cancel, TypeOK
  <2> QED BY <1>7, <2>2 DEF Cancel, TypeOK, stored, shown
<1>8. CASE Load \/ Disconnect
  BY <1>8 DEF Load, Disconnect, TypeOK, stored
<1>9. CASE SaveTab
  BY <1>9 DEF SaveTab, TypeOK, shown
<1>10. CASE Delete
  BY <1>10, BlankType DEF Delete, TypeOK, shown
<1> QED BY <1>1, <1>2, <1>3, <1>4, <1>5, <1>6, <1>7, <1>8, <1>9, <1>10 DEF Next

-----------------------------------------------------------------------------
(* Changes, and what the tab shows                                         *)

LEMMA ChangeNext ==
  ASSUME TypeOK, ChangeInv, [Next]_vars
  PROVE  ChangeInv'
<1>1. ASSUME change' = change PROVE ChangeInv'
  BY <1>1 DEF ChangeInv
<1>2. ASSUME NEW e \in Event, Finish(e) PROVE ChangeInv'
  BY <1>2, FinishFacts DEF ChangeInv
<1>3. ASSUME NEW t \in Task, NEW e \in Event, NEW kind \in Kind, NEW m \in Message,
             Emit(t, e, kind, m)
      PROVE  ChangeInv'
  BY <1>3, EmitFacts DEF ChangeInv
<1>4. ASSUME NEW e \in Event, Get(e) PROVE ChangeInv'
  <2>1. CASE gone
    BY <1>2, <1>4, <2>1 DEF Get
  <2>2. CASE ~gone
    BY <1>4, <2>2, GetFacts DEF ChangeInv
  <2> QED BY <2>1, <2>2
<1>5. ASSUME NEW e \in Event, Read(e) PROVE ChangeInv'
  <2>1. CASE gone
    BY <1>2, <1>5, <2>1 DEF Read
  <2>2. CASE ~gone
    BY <1>5, <2>2, ReadFacts DEF ChangeInv
  <2> QED BY <2>1, <2>2
<1>6. ASSUME NEW e \in Event, WriteRow(e) PROVE ChangeInv'
  BY <1>6, WriteRowFacts DEF ChangeInv
<1>7. ASSUME NEW e \in Event, WriteDoc(e) PROVE ChangeInv'
  BY <1>2, <1>7 DEF WriteDoc
<1>8. ASSUME NEW t \in Task, Cancel(t) PROVE ChangeInv'
  <2>1. awaiting[t] \in Event
    BY <1>8 DEF Cancel, TypeOK
  <2> QED BY <1>1, <1>2, <1>8, <2>1 DEF Cancel
<1> QED BY <1>1, <1>3, <1>4, <1>5, <1>6, <1>7, <1>8 DEF Next, vars, Load, Disconnect, SaveTab, Delete

\* Changes go on, end, or read the document; the tab shows what it did.
LEMMA HeardFrame ==
  ASSUME TypeOK, HeardInv,
         heard' => heard /\ hears' /\ tab' = tab,
         heard' => \A m \in Message : doc'[m].status \subseteq tab[m].status,
         \A e \in Event : /\ change'[e].copy \in {change[e].copy, doc, Blank}
                          /\ \/ change'[e].msg = None
                             \/ change'[e].kind = change[e].kind /\ change'[e].msg = change[e].msg
  PROVE  HeardInv'
<1> SUFFICES ASSUME heard', NEW m \in Message
             PROVE  /\ hears'
                    /\ doc'[m].status \subseteq tab'[m].status
                    /\ \A e \in Event :
                         /\ change'[e].copy[m].status \subseteq tab'[m].status
                         /\ change'[e].kind = "status" /\ change'[e].msg = m => e \in tab'[m].status
  BY DEF HeardInv
<1>1. Blank[m].status = {}
  BY DEF Blank, Empty
<1> QED BY <1>1, DocumentAssumption DEF HeardInv

LEMMA HeardNext ==
  ASSUME TypeOK, ChangeInv, HeardInv, [Next]_vars
  PROVE  HeardInv'
<1>1. ASSUME UNCHANGED <<doc, tab, hears, heard, change>> PROVE HeardInv'
  BY <1>1 DEF HeardInv
<1>2. ASSUME NEW e \in Event, Finish(e), UNCHANGED <<doc, tab, hears, heard>> PROVE HeardInv'
  BY <1>2, FinishFacts, HeardFrame DEF HeardInv
<1>3. ASSUME NEW t \in Task, NEW e \in Event, NEW kind \in Kind, NEW m \in Message,
             Emit(t, e, kind, m)
      PROVE  HeardInv'
  <2> SUFFICES ASSUME heard PROVE HeardInv'
    BY <1>3 DEF Emit, HeardInv
  <2>1. hears /\ UNCHANGED <<doc, hears, heard>> /\ tab' = [tab EXCEPT ![m] = Shown(tab[m], e, kind)]
    BY <1>3 DEF Emit, stored, HeardInv
  <2>2. tab[m] \in Content
    BY DEF TypeOK, Document
  <2>3. \A n \in Message : tab[n].status \subseteq tab'[n].status
    BY <2>1, <2>2, ShownIs DEF TypeOK, Document
  <2>4. kind = "status" => e \in tab'[m].status
    BY <2>1, <2>2, ShownIs DEF TypeOK, Document
  <2>5. /\ change'[e].kind = kind /\ change'[e].msg = m /\ change'[e].copy = change[e].copy
        /\ \A x \in Event \ {e} : change'[x] = change[x]
    BY <1>3, EmitFacts
  <2> QED BY <2>1, <2>3, <2>4, <2>5 DEF HeardInv
<1>4. ASSUME NEW e \in Event, Get(e) PROVE HeardInv'
  <2>1. UNCHANGED <<doc, tab, hears, heard>>
    BY <1>4 DEF Get, stored, shown
  <2>2. CASE gone
    BY <1>2, <1>4, <2>1, <2>2 DEF Get
  <2>3. CASE ~gone
    BY <1>4, <2>1, <2>3, GetFacts, HeardFrame DEF HeardInv
  <2> QED BY <2>2, <2>3
<1>5. ASSUME NEW e \in Event, Read(e) PROVE HeardInv'
  <2>1. UNCHANGED <<doc, tab, hears, heard>>
    BY <1>5 DEF Read, stored, shown
  <2>2. CASE gone
    BY <1>2, <1>5, <2>1, <2>2 DEF Read
  <2>3. CASE ~gone
    BY <1>5, <2>1, <2>3, ReadFacts, HeardFrame DEF HeardInv
  <2> QED BY <2>2, <2>3
<1>6. ASSUME NEW e \in Event, WriteRow(e) PROVE HeardInv'
  <2>1. UNCHANGED <<doc, tab, hears, heard>>
    BY <1>6 DEF WriteRow, shown
  <2> QED BY <1>6, <2>1, WriteRowFacts, HeardFrame DEF HeardInv
<1>7. ASSUME NEW e \in Event, WriteDoc(e) PROVE HeardInv'
  <2> DEFINE m == change[e].msg
  <2>1. /\ change[e].pc = "doc" /\ UNCHANGED <<tab, hears, heard>> /\ Finish(e)
        /\ doc' = IF gone THEN doc ELSE Changed(e)
    BY <1>7 DEF WriteDoc, shown
  <2>2. change[e].kind \in Kind /\ m \in Message
    BY <2>1 DEF ChangeInv
  <2>3. ASSUME heard, NEW n \in Message PROVE Changed(e)[n].status \subseteq tab[n].status
    <3>1. CASE n # m
      BY <2>2, <2>3, <3>1, ChangedElsewhere DEF HeardInv
    <3>2. CASE n = m
      <4>1. PICK old \in Content : old = change[e].copy[n]
        BY DEF TypeOK, Change, Document
      <4>2. change[e].kind \in Kind /\ n = change[e].msg
        BY <2>2, <3>2
      <4> HIDE DEF m
      <4>3. Changed(e)[n].status = IF change[e].kind = "status" THEN old.status \cup {e} ELSE old.status
        BY <4>1, <4>2, ChangedIs
      <4> QED BY <2>3, <4>1, <4>2, <4>3 DEF HeardInv
    <3> QED BY <3>1, <3>2
  <2>4. heard => \A n \in Message : doc'[n].status \subseteq tab[n].status
    BY <2>1, <2>3 DEF HeardInv
  <2> QED BY <2>1, <2>4, FinishFacts, HeardFrame DEF HeardInv
<1>8. ASSUME NEW t \in Task, Cancel(t) PROVE HeardInv'
  <2>1. awaiting[t] \in Event /\ UNCHANGED <<doc, tab, hears, heard>>
    BY <1>8 DEF Cancel, stored, shown, TypeOK
  <2> QED BY <1>1, <1>2, <1>8, <2>1 DEF Cancel
<1>9. CASE Load \/ Disconnect
  BY <1>9, HeardFrame DEF Load, Disconnect, stored, HeardInv
<1>10. CASE SaveTab
  BY <1>10, HeardFrame DEF SaveTab, shown, HeardInv
<1>11. CASE Delete
  <2>1. \A m \in Message : Blank[m].status = {}
    BY DEF Blank, Empty
  <2> QED BY <1>11, <2>1, HeardFrame DEF Delete, shown, HeardInv
<1> QED BY <1>1, <1>3, <1>4, <1>5, <1>6, <1>7, <1>8, <1>9, <1>10, <1>11 DEF Next, vars

-----------------------------------------------------------------------------
(* The rows                                                                *)

\* What a change will write depends on what it has read.
LEMMA ChangedSame ==
  ASSUME NEW e \in Event,
         change'[e].kind = change[e].kind, change'[e].msg = change[e].msg,
         change'[e].copy = change[e].copy, change'[e].base = change[e].base
  PROVE  Changed(e)' = Changed(e)
BY DEF Changed

\* Nothing is stored, and what has read the document goes on.
LEMMA RowFrame ==
  ASSUME RowInv, RowsFollow, UNCHANGED <<doc, row, gone, behind, raced>>,
         \A e \in Event : change[e].pc \in {"row", "doc"} \/ change'[e].pc \in {"row", "doc"} =>
           change'[e] = change[e]
  PROVE  RowInv' /\ RowsFollow'
<1>1. UnderWay' = UnderWay /\ \A e \in UnderWay : e \in Event /\ change'[e] = change[e]
  BY DEF UnderWay
<1>2. \A e \in UnderWay : Changed(e)' = Changed(e)
  BY <1>1, ChangedSame
<1>3. RowInv'
  BY <1>1, <1>2 DEF RowInv
<1> QED BY <1>1, <1>3 DEF RowsFollow, RowsRepaired, NoRowsLeft

LEMMA RowNext ==
  ASSUME TypeOK, ChangeInv, RowInv, RowsFollow, [Next]_vars
  PROVE  RowInv' /\ RowsFollow'
<1>1. ASSUME UNCHANGED <<stored, change>> PROVE RowInv' /\ RowsFollow'
  BY <1>1, RowFrame DEF stored
<1>2. ASSUME NEW e \in Event, Finish(e), UNCHANGED stored, change[e].pc \in {"get", "read"}
      PROVE  RowInv' /\ RowsFollow'
  BY <1>2, FinishFacts, RowFrame DEF stored
<1>3. ASSUME NEW t \in Task, NEW e \in Event, NEW kind \in Kind, NEW m \in Message,
             Emit(t, e, kind, m)
      PROVE  RowInv' /\ RowsFollow'
  BY <1>3, EmitFacts, RowFrame DEF Emit, stored
<1>4. ASSUME NEW e \in Event, Get(e) PROVE RowInv' /\ RowsFollow'
  <2>1. change[e].pc = "get" /\ UNCHANGED stored
    BY <1>4 DEF Get
  <2>2. CASE gone
    BY <1>2, <1>4, <2>1, <2>2 DEF Get
  <2>3. CASE ~gone
    BY <1>4, <2>1, <2>3, GetFacts, RowFrame DEF stored
  <2> QED BY <2>2, <2>3
<1>5. ASSUME NEW e \in Event, Read(e) PROVE RowInv' /\ RowsFollow'
  <2>1. change[e].pc = "read" /\ UNCHANGED <<doc, row, gone, behind, raced>>
    BY <1>5 DEF Read, stored
  <2>2. CASE gone
    BY <1>2, <1>5, <2>1, <2>2 DEF Read, stored
  <2>3. CASE ~gone
    <3>1. /\ change'[e].pc = IF change[e].kind = "status" THEN "doc" ELSE "row"
          /\ change'[e].kind = change[e].kind /\ change'[e].copy = doc
          /\ \A x \in Event \ {e} : change'[x] = change[x]
      BY <1>5, <2>3, ReadFacts
    <3>2. UnderWay' = UnderWay \cup {e} /\ e \notin UnderWay
      BY <2>1, <3>1 DEF UnderWay
    <3>3. RowInv'
      BY <2>1, <2>3, <3>1, <3>2 DEF RowInv, UnderWay
    <3>4. \A x \in UnderWay : x \in UnderWay' /\ change'[x].msg = change[x].msg
      BY <3>1, <3>2 DEF UnderWay
    <3>5. RowsFollow'
      BY <2>1, <2>3, <3>4 DEF RowsFollow, RowsRepaired, NoRowsLeft
    <3> QED BY <3>3, <3>5
  <2> QED BY <2>2, <2>3
<1>6. ASSUME NEW e \in Event, WriteRow(e) PROVE RowInv' /\ RowsFollow'
  <2> DEFINE m == change[e].msg
  <2>1. /\ change[e].pc = "row" /\ change'[e].pc = "doc"
        /\ change'[e].kind = change[e].kind /\ change'[e].msg = m
        /\ change'[e].copy = change[e].copy
        /\ \A x \in Event \ {e} : change'[x] = change[x]
    BY <1>6, WriteRowFacts
  <2>2. UnderWay' = UnderWay /\ e \in UnderWay
    BY <2>1 DEF UnderWay
  <2>3. m \in Message /\ Changed(e)' = Changed(e)
    BY <1>6, <2>1, WriteRowFacts, ChangedSame DEF ChangeInv
  <2>4. /\ UNCHANGED <<doc, gone, raced>>
        /\ \/ row' = [row EXCEPT ![m] = Changed(e)[m]] /\ behind' = behind \ {m}
           \/ row' = row /\ behind' = behind \cup {m}
    BY <1>6 DEF WriteRow
  <2> HIDE DEF m
  <2>5. m \in behind' \/ row'[m] = Changed(e)[m]
    BY <2>3, <2>4 DEF TypeOK
  <2>6. \A n \in Message \ {m} : row'[n] = row[n] /\ (n \in behind <=> n \in behind')
    BY <2>4 DEF TypeOK
  <2>7. \A x \in UnderWay : x \in Event /\ change'[x].copy = change[x].copy /\ change'[x].msg = change[x].msg
    BY <2>1 DEF UnderWay, m
  <2>8. RowInv'
    <3> SUFFICES ASSUME ~raced
                 PROVE  /\ ~gone
                        /\ \A x \in UnderWay :
                             /\ change'[x].copy = doc
                             /\ UnderWay = {x} => m \in behind' \/ row'[m] = Changed(x)'[m]
      BY <2>1, <2>2, <2>4 DEF RowInv, m
    <3>1. ~gone
      BY <2>2 DEF RowInv
    <3>2. \A x \in UnderWay : UnderWay = {x} => x = e
      BY <2>2
    <3> QED BY <2>3, <2>5, <2>7, <3>1, <3>2 DEF RowInv
  <2>9. RowsFollow'
    <3>1. ASSUME ~raced', ~gone', NEW n \in Message, n \notin behind'
          PROVE  row'[n] = doc'[n] \/ \E x \in UnderWay' : change'[x].msg = n
      <4>1. CASE n = m
        BY <2>1, <2>2, <4>1
      <4>2. CASE n # m
        BY <2>2, <2>4, <2>6, <2>7, <3>1, <4>2 DEF RowsFollow, RowsRepaired
      <4> QED BY <4>1, <4>2
    <3>2. NoRowsLeft'
      BY <2>2, <2>4 DEF NoRowsLeft, RowInv
    <3> QED BY <3>1, <3>2 DEF RowsFollow, RowsRepaired
  <2> QED BY <2>8, <2>9
<1>7. ASSUME NEW e \in Event, WriteDoc(e) PROVE RowInv' /\ RowsFollow'
  <2> DEFINE m == change[e].msg
  <2>1. /\ change[e].pc = "doc" /\ Finish(e) /\ UNCHANGED <<row, gone>>
        /\ doc' = IF gone THEN doc ELSE Changed(e)
        /\ behind' = IF change[e].kind = "status" THEN behind \cup {m} ELSE behind
        /\ raced' = (raced \/ UnderWay # {e})
    BY <1>7 DEF WriteDoc
  <2>2. change[e].kind \in Kind /\ m \in Message
    BY <2>1 DEF ChangeInv
  <2> SUFFICES ASSUME ~raced' PROVE RowInv' /\ RowsFollow'
    BY DEF RowInv, RowsFollow, RowsRepaired, NoRowsLeft
  <2>3. UnderWay = {e} /\ ~raced
    BY <2>1
  <2>4. UnderWay' = {}
    BY <2>1, <2>3, FinishFacts DEF UnderWay
  <2>5. ~gone /\ change[e].copy = doc
    BY <2>3 DEF RowInv
  <2>6. ASSUME NEW n \in Message, n \notin behind' PROVE row'[n] = doc'[n]
    <3>1. CASE n = m
      <4>1. change[e].kind # "status" /\ m \notin behind
        BY <2>1, <2>6, <3>1
      <4>2. row[m] = Changed(e)[m]
        BY <2>1, <2>3, <2>5, <4>1 DEF RowInv
      <4> QED BY <2>1, <2>5, <3>1, <4>2
    <3>2. CASE n # m
      <4>1. doc'[n] = doc[n]
        BY <2>1, <2>2, <2>5, <3>2, ChangedElsewhere
      <4>2. n \notin behind
        BY <2>1, <2>6
      <4>3. row[n] = doc[n]
        BY <2>3, <2>5, <3>2, <4>2 DEF RowsFollow, RowsRepaired
      <4> QED BY <2>1, <4>1, <4>3
    <3> QED BY <3>1, <3>2
  <2> QED BY <2>1, <2>4, <2>5, <2>6 DEF RowInv, RowsFollow, RowsRepaired, NoRowsLeft
<1>8. ASSUME NEW t \in Task, Cancel(t) PROVE RowInv' /\ RowsFollow'
  <2>1. awaiting[t] \in Event /\ UNCHANGED stored
    BY <1>8 DEF Cancel, TypeOK
  <2> QED BY <1>1, <1>2, <1>8, <2>1 DEF Cancel
<1>9. CASE Load \/ Disconnect
  BY <1>1, <1>9 DEF Load, Disconnect
<1>10. CASE SaveTab
  <2>1. /\ doc' = tab /\ behind' = behind \cup {m \in Message : tab[m] # doc[m]}
        /\ raced' = (raced \/ UnderWay # {}) /\ UNCHANGED <<row, gone, change>> /\ ~gone
    BY <1>10 DEF SaveTab
  <2> SUFFICES ASSUME ~raced' PROVE RowInv' /\ RowsFollow'
    BY DEF RowInv, RowsFollow, RowsRepaired, NoRowsLeft
  <2>2. UnderWay = {} /\ UnderWay' = {} /\ ~raced
    BY <2>1 DEF UnderWay
  <2> QED BY <2>1, <2>2 DEF RowInv, RowsFollow, RowsRepaired, NoRowsLeft
<1>11. CASE Delete
  <2>1. /\ gone' /\ row' = [m \in Message |-> None] /\ change' = change
        /\ raced' = (raced \/ UnderWay # {})
    BY <1>11 DEF Delete
  <2>2. ~raced' => UnderWay' = {}
    BY <2>1 DEF UnderWay
  <2> QED BY <2>1, <2>2 DEF RowInv, RowsFollow, RowsRepaired, NoRowsLeft
<1> QED BY <1>1, <1>3, <1>4, <1>5, <1>6, <1>7, <1>8, <1>9, <1>10, <1>11 DEF Next, vars, stored

-----------------------------------------------------------------------------
(* Theorems                                                                *)

LEMMA Invariance == Spec => []IInv
<1>1. Init => IInv
  <2> SUFFICES ASSUME Init PROVE IInv
    OBVIOUS
  <2>1. TypeOK
    BY BlankType DEF Init, TypeOK, Document
  <2>2. UnderWay = {} /\ \A e \in Event : /\ change[e].pc = "new" /\ change[e].msg = None
                                          /\ change[e].copy = Blank
    BY DEF Init, UnderWay, Unborn
  <2>3. \A m \in Message : Blank[m].status = {}
    BY DEF Blank, Empty
  <2>4. ChangeInv /\ RowInv
    BY <2>2 DEF ChangeInv, RowInv
  <2>5. HeardInv
    BY <2>2, <2>3, DocumentAssumption DEF HeardInv, Init
  <2>6. RowsFollow
    BY DEF Init, RowsFollow, RowsRepaired, NoRowsLeft
  <2> QED BY <2>1, <2>4, <2>5, <2>6 DEF IInv
<1>2. IInv /\ [Next]_vars => IInv'
  BY TypeNext, ChangeNext, HeardNext, RowNext DEF IInv
<1> QED BY <1>1, <1>2, PTL DEF Spec

\* The document, the rows, the changes and the tab keep their domains.
THEOREM TypeCorrect == Spec => []TypeOK
<1>1. IInv => TypeOK
  BY DEF IInv
<1> QED BY Invariance, <1>1, PTL

\* models/chats.py:475: every upsert repairs the row of its message, and (:1396)
\* a deletion leaves no rows, as long as no changes overlap.
THEOREM RowsFollowDocument == Spec => []RowsFollow
<1>1. IInv => RowsFollow
  BY DEF IInv
<1> QED BY Invariance, <1>1, PTL

\* models/chats.py:485: what is stored stays, cancelled tasks included, unless the
\* chat is deleted, a text is replaced, the tab saves what it shows, or a change
\* is written over something that it has not read.
THEOREM StoredStays == Spec => StaysStored
<1>1. ASSUME IInv, [Next]_vars, NEW m \in Message, NEW e \in Event,
             NEW part \in {"content", "files", "status"},
             e \in doc[m][part], e \notin doc'[m][part], ~gone'
      PROVE  \/ \E x \in Event : StaleWrite(x) \/ (part = "content" /\ Replaces(x, m))
             \/ UNCHANGED change /\ doc' = tab /\ (part = "status" => ~heard)
  <2>1. \/ \E x \in Event : WriteDoc(x)
        \/ SaveTab
    BY <1>1 DEF Next, vars, Emit, Get, Read, WriteRow, Cancel, Load, Disconnect, Delete, stored
  <2>2. CASE SaveTab
    <3>1. UNCHANGED change /\ doc' = tab
      BY <2>2 DEF SaveTab
    <3>2. CASE part = "status"
      <4>1. e \in doc[m].status /\ e \notin tab[m].status
        BY <1>1, <3>1, <3>2
      <4> QED BY <1>1, <3>1, <4>1 DEF IInv, HeardInv
    <3> QED BY <3>1, <3>2
  <2>3. ASSUME NEW x \in Event, WriteDoc(x)
        PROVE  StaleWrite(x) \/ (part = "content" /\ Replaces(x, m))
    <3>1. /\ change[x].pc = "doc" /\ change'[x].pc = "done" /\ doc' = Changed(x)
      BY <1>1, <2>3, FinishFacts DEF WriteDoc, IInv
    <3>2. change[x].kind \in Kind /\ change[x].msg \in Message
      BY <1>1, <3>1 DEF IInv, ChangeInv
    <3> SUFFICES ASSUME ~StaleWrite(x) PROVE part = "content" /\ Replaces(x, m)
      OBVIOUS
    <3>3. /\ change[x].copy = doc
          /\ change[x].kind = "message" => change[x].base = doc[change[x].msg].content
          /\ change[x].kind = "files" => change[x].base = doc[change[x].msg].files
      BY <3>1 DEF StaleWrite
    <3>4. m = change[x].msg
      BY <1>1, <3>1, <3>2, <3>3, ChangedElsewhere DEF IInv
    <3>5. PICK old \in Content : old = doc[m]
      BY <1>1 DEF IInv, TypeOK, Document
    <3>6. /\ doc'[m].status = IF change[x].kind = "status" THEN old.status \cup {x} ELSE old.status
          /\ doc'[m].files = IF change[x].kind = "files" THEN change[x].base \cup {x} ELSE old.files
          /\ change[x].kind = "message" => doc'[m].content = change[x].base \cup {x}
          /\ change[x].kind \in {"status", "files"} => doc'[m].content = old.content
      <4>1. TypeOK /\ old = change[x].copy[m]
        BY <1>1, <3>3, <3>5 DEF IInv
      <4>2. change[x].kind \in Kind /\ m = change[x].msg /\ old = change[x].copy[m]
        BY <3>2, <3>4, <4>1
      <4>3. Changed(x)[m].status =
              IF change[x].kind = "status" THEN old.status \cup {x} ELSE old.status
        BY <4>1, <4>2, ChangedIs
      <4>4. Changed(x)[m].files =
              IF change[x].kind = "files" THEN change[x].base \cup {x} ELSE old.files
        BY <4>1, <4>2, ChangedIs
      <4>5. /\ change[x].kind = "message" => Changed(x)[m].content = change[x].base \cup {x}
            /\ change[x].kind \in {"status", "files"} => Changed(x)[m].content = old.content
        BY <4>1, <4>2, ChangedIs
      <4> QED BY <3>1, <4>3, <4>4, <4>5
    <3>7. old.status \subseteq doc'[m].status /\ old.files \subseteq doc'[m].files
      BY <3>3, <3>4, <3>5, <3>6
    <3>8. change[x].kind \in {"replace", "save"} \/ old.content \subseteq doc'[m].content
      BY <3>2, <3>3, <3>4, <3>5, <3>6 DEF Kind
    <3>9. part = "content" /\ change[x].kind \in {"replace", "save"}
      BY <1>1, <3>5, <3>7, <3>8
    <3> QED BY <3>1, <3>4, <3>9 DEF Replaces
  <2> QED BY <2>1, <2>2, <2>3
<1>2. ASSUME IInv, [Next]_vars
      PROVE  [\A m \in Message, e \in Event, part \in {"content", "files", "status"} :
                e \in doc[m][part] /\ e \notin doc'[m][part] =>
                  \/ gone'
                  \/ \E x \in Event : StaleWrite(x) \/ (part = "content" /\ Replaces(x, m))
                  \/ UNCHANGED change /\ doc' = tab /\ (part = "status" => ~heard)]_vars
  BY <1>1, <1>2
<1> QED BY Invariance, <1>2, PTL DEF Spec, StaysStored

-----------------------------------------------------------------------------
(* Generation, which fills in the last message of the chat: its stops      *)

\* The handlers that catch a cancellation are entered with the stream; before
\* that there is no answer to record.  A handler that is under way knows of one
\* stop command, and background tasks start after the answer has been stored.
RecordInv ==
  /\ cancels \in Nat /\ caller \in {"none", "first", "tools", "code"}
  /\ db \in [done : BOOLEAN, error : BOOLEAN, output : {db.output}]
  /\ caller = "none" => pc \in {"payload", "shown", "background", "over"}
  /\ pc = "cancelling" => cancels > 0
  /\ pc = "background" => db.done
  /\ pc = "over" /\ cancels <= 1 /\ caller # "none" => db.done \/ db.error

LEMMA RecordInit == GenerationInit => RecordInv
BY DEF GenerationInit, RecordInv

\* What a save leaves of the stored message.
LEMMA SavesRecord ==
  ASSUME db \in [done : BOOLEAN, error : BOOLEAN, output : {db.output}]
  PROVE  /\ SaveError => /\ db' \in [done : BOOLEAN, error : BOOLEAN, output : {db'.output}]
                         /\ db'.done = db.done /\ db'.error
         /\ \A out : SaveDone(out) =>
              /\ db' \in [done : BOOLEAN, error : BOOLEAN, output : {db'.output}]
              /\ db'.done
         /\ \A out : SaveRealtime(out) =>
              /\ db' \in [done : BOOLEAN, error : BOOLEAN, output : {db'.output}]
              /\ db'.done = db.done /\ db'.error = db.error
BY DEF SaveError, SaveDone, SaveRealtime

LEMMA RecordStep == RecordInv /\ [GenerationNext]_generationVars => RecordInv'
<1> SUFFICES ASSUME RecordInv, [GenerationNext]_generationVars PROVE RecordInv'
  OBVIOUS
<1> USE DEF RecordInv
<1>0. db \in [done : BOOLEAN, error : BOOLEAN, output : {db.output}]
  OBVIOUS
<1>1. CASE UNCHANGED generationVars
  BY <1>1 DEF generationVars, control, items, tools, reading, config
<1>2. CASE ResponseStreams
  BY <1>2 DEF ResponseStreams
<1>3. CASE PayloadFails \/ ResultFails \/ BackgroundFails
  BY <1>0, <1>3, SavesRecord DEF PayloadFails, ResultFails, BackgroundFails, Goto
<1>4. CASE SaveWhole
  BY <1>0, <1>4 DEF SaveWhole, Goto
<1>5. CASE Save \/ CancelSave
  BY <1>0, <1>5, SavesRecord DEF Save, CancelSave, Goto
<1>6. CASE Deltas
  BY <1>0, <1>6, SavesRecord DEF Deltas, TextDelta, ReasoningDelta, CallDelta, Goto, control
<1>7. CASE Events
  BY <1>7 DEF Events, EventAdded, EventDelta, EventDone, EventCompleted, Goto, control
<1>8. CASE StreamFails
  BY <1>0, <1>8, SavesRecord DEF StreamFails, Goto
<1>9. CASE StreamEnds \/ ResponseWhole
  BY <1>9 DEF StreamEnds, ResponseWhole, Goto
<1>10. CASE ToolRound \/ ToolsOver \/ RunTool \/ ToolResults \/ ToolRequest \/ ToolRequestFails
  BY <1>10 DEF ToolRound, ToolsOver, RunTool, ToolResults, ToolRequest, ToolRequestFails, Goto, control
<1>11. CASE CodeRound \/ CodeResult \/ CodeRequest \/ CodeRequestFails \/ BackgroundEnds
  BY <1>11 DEF CodeRound, CodeResult, CodeRequest, CodeRequestFails, BackgroundEnds, Goto
<1>12. CASE CancelGeneration
  BY <1>12 DEF CancelGeneration
<1> QED BY <1>1, <1>2, <1>3, <1>4, <1>5, <1>6, <1>7, <1>8, <1>9, <1>10, <1>11, <1>12 DEF GenerationNext, Progress

\* StoppedIsRecorded: a streamed answer that one stop command ends is stored as
\* done, or has an error, wherever the command arrives and however many rounds
\* of tools and code there were.
THEOREM StopsAreRecorded == GenerationSpec => []StoppedIsRecorded
<1>1. RecordInv => StoppedIsRecorded
  BY DEF RecordInv, StoppedIsRecorded, Over
<1> QED BY RecordInit, RecordStep, <1>1, PTL DEF GenerationSpec

-----------------------------------------------------------------------------
(* Positions in order                                                      *)

\* A finite set of positions can be put in order, in one way: each comes after
\* those below it.
LEMMA OrderExists ==
  ASSUME NEW P \in SUBSET Nat, IsFiniteSet(P)
  PROVE  \E at \in [1..Cardinality(P) -> P] : \A i, j \in DOMAIN at : i < j => at[i] < at[j]
<1> DEFINE Upto(p) == {q \in P : q <= p}
           rank == [p \in P |-> Cardinality(Upto(p))]
           C == Cardinality(P)
<1>1. C \in Nat /\ IsFiniteSet(1..C) /\ Cardinality(1..C) = C
  BY FS_CardinalityType, FS_Interval
<1>2. \A p \in P : IsFiniteSet(Upto(p)) /\ Cardinality(Upto(p)) \in 1..C
  <2> SUFFICES ASSUME NEW p \in P PROVE IsFiniteSet(Upto(p)) /\ Cardinality(Upto(p)) \in 1..C
    OBVIOUS
  <2>1. IsFiniteSet(Upto(p)) /\ Cardinality(Upto(p)) <= C /\ Cardinality(Upto(p)) \in Nat
    BY FS_Subset, FS_CardinalityType
  <2>2. p \in Upto(p)
    OBVIOUS
  <2>3. Cardinality(Upto(p)) # 0
    BY <2>1, <2>2, FS_EmptySet
  <2> QED BY <1>1, <2>1, <2>3
<1>3. ASSUME NEW p \in P, NEW q \in P, p < q PROVE rank[p] < rank[q]
  <2>0. p \in Nat /\ q \in Nat /\ \A x \in P : x \in Nat
    OBVIOUS
  <2>1. Upto(p) \in SUBSET Upto(q) /\ q \in Upto(q) /\ q \notin Upto(p)
    <3>1. \A x \in P : x <= p => x <= q
      BY <1>3, <2>0
    <3>2. q <= q /\ ~(q <= p)
      BY <1>3, <2>0
    <3> QED BY <3>1, <3>2
  <2>2. Cardinality(Upto(p)) <= Cardinality(Upto(q)) /\ Cardinality(Upto(p)) # Cardinality(Upto(q))
    BY <1>2, <2>1, FS_Subset
  <2> QED BY <1>2, <2>2
<1>4. rank \in [P -> 1..C]
  BY <1>2
<1> HIDE DEF rank
<1>5. rank \in Injection(P, 1..C)
  <2>1. \A p, q \in P : rank[p] = rank[q] => p = q
    BY <1>1, <1>3, <1>4
  <2> QED BY <1>4, <2>1 DEF Injection, IsInjective
<1>6. rank \in Surjection(P, 1..C)
  BY <1>1, <1>5, FS_Injection
<1>7. \A k \in 1..C : \E p \in P : rank[p] = k
  BY <1>6 DEF Surjection
<1> DEFINE at == [k \in 1..C |-> CHOOSE p \in P : rank[p] = k]
<1>8. at \in [1..C -> P] /\ \A k \in 1..C : rank[at[k]] = k
  BY <1>7
<1> HIDE DEF at
<1>9. \A i, j \in 1..C : i < j => at[i] < at[j]
  <2> SUFFICES ASSUME NEW i \in 1..C, NEW j \in 1..C, i < j PROVE at[i] < at[j]
    OBVIOUS
  <2>1. at[i] \in Nat /\ at[j] \in Nat /\ at[i] \in P /\ at[j] \in P
    BY <1>8
  <2>2. ~(at[j] < at[i])
    BY <1>1, <1>3, <1>8, <2>1
  <2>3. at[j] # at[i]
    BY <1>1, <1>8
  <2> QED BY <2>1, <2>2, <2>3
<1> QED BY <1>8, <1>9

\* InOrder lists each position once.
LEMMA InOrderIs ==
  ASSUME NEW P \in SUBSET Nat, IsFiniteSet(P)
  PROVE  /\ Cardinality(P) \in Nat
         /\ InOrder(P) \in [1..Cardinality(P) -> P]
         /\ \A i, j \in 1..Cardinality(P) : InOrder(P)[i] = InOrder(P)[j] => i = j
         /\ \A p \in P : \E i \in 1..Cardinality(P) : InOrder(P)[i] = p
<1> DEFINE at == InOrder(P)
           C == Cardinality(P)
<1>1. C \in Nat /\ IsFiniteSet(1..C) /\ Cardinality(1..C) = C
  BY FS_CardinalityType, FS_Interval
<1>2. at \in [1..C -> P] /\ \A i, j \in DOMAIN at : i < j => at[i] < at[j]
  BY OrderExists DEF InOrder
<1> HIDE DEF at
<1>3. \A i, j \in 1..C : at[i] = at[j] => i = j
  <2> SUFFICES ASSUME NEW i \in 1..C, NEW j \in 1..C, at[i] = at[j] PROVE i = j
    OBVIOUS
  <2>0. at[i] \in P
    BY <1>2
  <2>1. at[i] \in Nat
    BY <2>0
  <2>3. \A n \in Nat : ~(n < n)
    OBVIOUS
  <2>2. ~(i < j) /\ ~(j < i)
    BY <1>2, <2>1, <2>3
  <2> QED BY <1>1, <2>2
<1>4. at \in Injection(1..C, P)
  BY <1>2, <1>3 DEF Injection, IsInjective
<1>5. at \in Surjection(1..C, P)
  BY <1>1, <1>4, FS_Injection
<1> QED BY <1>1, <1>2, <1>3, <1>5 DEF Surjection, at

-----------------------------------------------------------------------------
(* Lists of items                                                          *)

ToolItem == {"call", "result"}

IsItem(r) == {"type", "status", "native", "text", "id"} \subseteq DOMAIN r /\ r.id \in Nat

ItemList(out) == out \in Seq(Range(out)) /\ \A i \in 1..Len(out) : IsItem(out[i])

\* The same items but for their text and status.
Retouched(new, out) ==
  /\ ItemList(new) /\ Len(new) = Len(out)
  /\ \A i \in 1..Len(out) : new[i].type = out[i].type /\ new[i].id = out[i].id

\* The same tool calls and results, at the same places.
Keeps(new, out) ==
  /\ ItemList(new)
  /\ \A i \in DOMAIN new : new[i].type \in ToolItem =>
       i \in DOMAIN out /\ out[i].type = new[i].type /\ out[i].id = new[i].id
  /\ \A i \in DOMAIN out : out[i].type \in ToolItem =>
       i \in DOMAIN new /\ new[i].type = out[i].type /\ new[i].id = out[i].id

LEMMA ListIs ==
  ASSUME NEW out, ItemList(out)
  PROVE  /\ Len(out) \in Nat /\ DOMAIN out = 1..Len(out)
         /\ out \in [1..Len(out) -> Range(out)]
BY LenProperties DEF ItemList

LEMMA MakeList ==
  ASSUME NEW n \in Nat, NEW S, NEW f \in [1..n -> S], \A i \in 1..n : IsItem(f[i])
  PROVE  ItemList(f) /\ Len(f) = n
<1>1. f \in [1..n -> Range(f)]
  BY DEF Range
<1>2. f \in Seq(Range(f)) /\ DOMAIN f = 1..n
  BY <1>1, SeqDef
<1>3. Len(f) \in Nat /\ DOMAIN f = 1..Len(f)
  BY <1>2, LenProperties
<1>4. Len(f) = n
  BY <1>2, <1>3
<1> QED BY <1>2, <1>4 DEF ItemList

LEMMA ListAppend ==
  ASSUME NEW out, ItemList(out), NEW r, IsItem(r)
  PROVE  /\ ItemList(Append(out, r)) /\ Len(Append(out, r)) = Len(out) + 1
         /\ \A i \in 1..Len(out) : Append(out, r)[i] = out[i]
         /\ Append(out, r)[Len(out) + 1] = r
<1> DEFINE S == Range(out) \cup {r}
           new == Append(out, r)
<1>1. Len(out) \in Nat /\ out \in Seq(S)
  BY ListIs, SeqDef DEF ItemList
<1>2. /\ new \in Seq(S) /\ Len(new) = Len(out) + 1
      /\ \A i \in 1..Len(out) : new[i] = out[i]
      /\ new[Len(out) + 1] = r
  BY <1>1, AppendProperties
<1>3. new \in [1..Len(out) + 1 -> S]
  BY <1>2, LenProperties
<1> HIDE DEF new
<1>4. \A i \in 1..Len(out) + 1 : IsItem(new[i])
  BY <1>1, <1>2 DEF ItemList
<1>5. Len(out) + 1 \in Nat
  BY <1>1
<1>6. ItemList(new)
  BY <1>3, <1>4, <1>5, MakeList
<1> QED BY <1>2, <1>6 DEF new

LEMMA ListConcat ==
  ASSUME NEW s, ItemList(s), NEW t, ItemList(t)
  PROVE  /\ ItemList(s \o t) /\ Len(s \o t) = Len(s) + Len(t)
         /\ \A i \in 1..Len(s) : (s \o t)[i] = s[i]
         /\ \A i \in 1..Len(t) : (s \o t)[Len(s) + i] = t[i]
<1> DEFINE S == Range(s) \cup Range(t)
           new == s \o t
<1>1. Len(s) \in Nat /\ s \in Seq(S) /\ Len(t) \in Nat /\ t \in Seq(S)
  BY ListIs, SeqDef DEF ItemList
<1>2. /\ new \in Seq(S) /\ Len(new) = Len(s) + Len(t)
      /\ \A i \in 1..Len(s) + Len(t) : new[i] = IF i <= Len(s) THEN s[i] ELSE t[i - Len(s)]
  BY <1>1, ConcatProperties
<1>3. new \in [1..Len(s) + Len(t) -> S]
  BY <1>2, LenProperties
<1> HIDE DEF new
<1>4. \A i \in 1..Len(s) : new[i] = s[i]
  BY <1>1, <1>2
<1>5. \A i \in 1..Len(t) : new[Len(s) + i] = t[i]
  BY <1>1, <1>2
<1>6. \A i \in 1..Len(s) + Len(t) : IsItem(new[i])
  <2>1. (\A i \in 1..Len(s) : IsItem(s[i])) /\ \A i \in 1..Len(t) : IsItem(t[i])
    BY DEF ItemList
  <2>2. ASSUME NEW i \in 1..Len(s) + Len(t)
        PROVE  \/ (i <= Len(s) /\ i \in 1..Len(s))
               \/ (~(i <= Len(s)) /\ i - Len(s) \in 1..Len(t))
    BY <1>1
  <2>3. ASSUME NEW i \in 1..Len(s) + Len(t) PROVE IsItem(new[i])
    <3>1. new[i] = IF i <= Len(s) THEN s[i] ELSE t[i - Len(s)]
      BY <1>2
    <3> QED BY <2>1, <2>2, <3>1
  <2> QED BY <2>3
<1>7. ItemList(new)
  <2>1. Len(s) + Len(t) \in Nat
    BY <1>1
  <2> QED BY <1>3, <1>6, <2>1, MakeList
<1> QED BY <1>2, <1>4, <1>5, <1>7 DEF new

LEMMA ListFront ==
  ASSUME NEW out, ItemList(out), out # <<>>
  PROVE  /\ ItemList(Front(out)) /\ Len(Front(out)) = Len(out) - 1 /\ Len(out) \in Nat \ {0}
         /\ \A i \in 1..Len(out) - 1 : Front(out)[i] = out[i]
<1> DEFINE new == Front(out)
           S == Range(out)
<1>1. Len(out) \in Nat \ {0} /\ out \in Seq(S) /\ out \in [1..Len(out) -> S]
  BY ListIs, EmptySeq DEF ItemList
<1>2. /\ new \in Seq(S) /\ Len(new) = Len(out) - 1
      /\ \A i \in 1..Len(out) - 1 : new[i] = out[i]
  <2>1. \A i \in 1..Len(out) - 1 : out[i] \in S
    BY <1>1
  <2>2. /\ SubSeq(out, 1, Len(out) - 1) \in Seq(S)
        /\ Len(SubSeq(out, 1, Len(out) - 1)) =
             IF 1 <= Len(out) - 1 THEN Len(out) - 1 - 1 + 1 ELSE 0
        /\ \A i \in 1..(Len(out) - 1) - 1 + 1 : SubSeq(out, 1, Len(out) - 1)[i] = out[1 + i - 1]
    BY <1>1, <2>1, SubSeqProperties
  <2>3. \A i \in 1..Len(out) - 1 : i \in 1..(Len(out) - 1) - 1 + 1 /\ 1 + i - 1 = i
    BY <1>1
  <2> QED BY <1>1, <2>2, <2>3 DEF Front
<1>3. new \in [1..Len(out) - 1 -> S]
  BY <1>2, LenProperties
<1> HIDE DEF new
<1>4. \A i \in 1..Len(out) - 1 : IsItem(new[i])
  BY <1>1, <1>2 DEF ItemList
<1>5. ItemList(new)
  <2>1. Len(out) - 1 \in Nat
    BY <1>1
  <2> QED BY <1>3, <1>4, <2>1, MakeList
<1> QED BY <1>1, <1>2, <1>5 DEF new

LEMMA ListSet ==
  ASSUME NEW out, ItemList(out), NEW i \in 1..Len(out), NEW r, IsItem(r)
  PROVE  /\ ItemList([out EXCEPT ![i] = r]) /\ Len([out EXCEPT ![i] = r]) = Len(out)
         /\ \A j \in 1..Len(out) : [out EXCEPT ![i] = r][j] = IF j = i THEN r ELSE out[j]
<1> DEFINE new == [out EXCEPT ![i] = r]
<1>1. Len(out) \in Nat /\ out \in [1..Len(out) -> Range(out)]
  BY ListIs
<1>2. new \in [1..Len(out) -> Range(out) \cup {r}]
  BY <1>1
<1>3. \A j \in 1..Len(out) : new[j] = IF j = i THEN r ELSE out[j]
  BY <1>1
<1> HIDE DEF new
<1>4. \A j \in 1..Len(out) : IsItem(new[j])
  BY <1>3 DEF ItemList
<1>5. ItemList(new) /\ Len(new) = Len(out)
  BY <1>1, <1>2, <1>4, MakeList
<1> QED BY <1>3, <1>5 DEF new

LEMMA RetouchedKeeps ==
  ASSUME NEW out, ItemList(out), NEW new, Retouched(new, out)
  PROVE  Keeps(new, out)
BY ListIs DEF Retouched, Keeps

LEMMA KeepsItself == ASSUME NEW out, ItemList(out) PROVE Keeps(out, out)
BY DEF Keeps

LEMMA KeepsFurther ==
  ASSUME NEW a, NEW b, NEW c, Keeps(b, a), Keeps(c, b)
  PROVE  Keeps(c, a)
BY DEF Keeps

LEMMA AppendKeeps ==
  ASSUME NEW out, ItemList(out), NEW r, IsItem(r), r.type \notin ToolItem
  PROVE  Keeps(Append(out, r), out)
<1> DEFINE new == Append(out, r)
<1>1. /\ ItemList(new) /\ Len(new) = Len(out) + 1
      /\ \A i \in 1..Len(out) : new[i] = out[i]
      /\ new[Len(out) + 1] = r
  BY ListAppend
<1>2. Len(out) \in Nat /\ DOMAIN out = 1..Len(out)
  BY ListIs
<1> HIDE DEF new
<1>3. DOMAIN new = 1..Len(out) + 1
  BY <1>1, ListIs
<1>4. \A i \in DOMAIN new : i \in DOMAIN out \/ i = Len(out) + 1
  BY <1>2, <1>3
<1>5. \A i \in DOMAIN out : i \in DOMAIN new
  BY <1>2, <1>3
<1> QED BY <1>1, <1>2, <1>4, <1>5 DEF Keeps, new

LEMMA FrontKeeps ==
  ASSUME NEW out, ItemList(out), out # <<>>, Last(out).type \notin ToolItem
  PROVE  Keeps(Front(out), out)
<1> DEFINE new == Front(out)
<1>1. /\ ItemList(new) /\ Len(new) = Len(out) - 1 /\ Len(out) \in Nat \ {0}
      /\ \A i \in 1..Len(out) - 1 : new[i] = out[i]
  BY ListFront
<1>2. DOMAIN out = 1..Len(out)
  BY ListIs
<1> HIDE DEF new
<1>3. DOMAIN new = 1..Len(out) - 1
  BY <1>1, ListIs
<1>4. \A i \in DOMAIN out : i \in DOMAIN new \/ i = Len(out)
  BY <1>1, <1>2, <1>3
<1>5. \A i \in DOMAIN new : i \in DOMAIN out
  BY <1>1, <1>2, <1>3
<1>6. out[Len(out)].type \notin ToolItem
  BY DEF Last
<1> QED BY <1>1, <1>3, <1>4, <1>5, <1>6 DEF Keeps, new

\* Changing the text or the status of one item.
LEMMA SetsRetouch ==
  ASSUME NEW out, ItemList(out), NEW i \in 1..Len(out)
  PROVE  /\ \A text : Retouched([out EXCEPT ![i].text = text], out)
         /\ \A status : Retouched([out EXCEPT ![i].status = status], out)
<1>1. IsItem(out[i]) /\ i \in DOMAIN out
  BY ListIs DEF ItemList
<1>2. ASSUME NEW r, IsItem(r), r.type = out[i].type, r.id = out[i].id
      PROVE  Retouched([out EXCEPT ![i] = r], out)
  BY <1>2, ListSet DEF Retouched
<1>3. ASSUME NEW text PROVE Retouched([out EXCEPT ![i].text = text], out)
  <2> DEFINE r == [out[i] EXCEPT !.text = text]
  <2>1. IsItem(r) /\ r.type = out[i].type /\ r.id = out[i].id
    BY <1>1 DEF IsItem
  <2>2. [out EXCEPT ![i].text = text] = [out EXCEPT ![i] = r]
    OBVIOUS
  <2> HIDE DEF r
  <2> QED BY <1>2, <2>1, <2>2
<1>4. ASSUME NEW status PROVE Retouched([out EXCEPT ![i].status = status], out)
  <2> DEFINE r == [out[i] EXCEPT !.status = status]
  <2>1. IsItem(r) /\ r.type = out[i].type /\ r.id = out[i].id
    BY <1>1 DEF IsItem
  <2>2. [out EXCEPT ![i].status = status] = [out EXCEPT ![i] = r]
    OBVIOUS
  <2> HIDE DEF r
  <2> QED BY <1>2, <2>1, <2>2
<1> QED BY <1>3, <1>4

LEMMA LastIs ==
  ASSUME NEW out, ItemList(out), out # <<>>
  PROVE  Len(out) \in 1..Len(out) /\ Last(out) = out[Len(out)]
BY ListFront DEF Last

LEMMA SetTextRetouches ==
  ASSUME NEW out, ItemList(out), out # <<>>, NEW text
  PROVE  Retouched(SetText(out, text), out) /\ Retouched(Complete(out), out)
BY LastIs, SetsRetouch DEF SetText, Complete

LEMMA NewItems ==
  /\ \A type, text : IsItem(Item(type, text)) /\ Item(type, text).type = type
  /\ \A text : IsItem(MessageItem(text)) /\ MessageItem(text).type = "message"
  /\ \A text : IsItem(Native(text)) /\ Native(text).type = "reasoning"
  /\ \A id \in Nat : /\ IsItem(Call(id)) /\ Call(id).type = "call" /\ Call(id).id = id
                     /\ IsItem(Result(id)) /\ Result(id).type = "result" /\ Result(id).id = id
BY DEF IsItem, Item, MessageItem, Native, Call, Result

-----------------------------------------------------------------------------
(* Text leaves the tool calls alone                                        *)

\* Changing the last item and adding another one after it.
LEMMA LastThenAppendKeeps ==
  ASSUME NEW out, ItemList(out), NEW mid, Retouched(mid, out), NEW r, IsItem(r),
         r.type \notin ToolItem
  PROVE  Keeps(Append(mid, r), out)
<1>1. ItemList(mid) /\ Keeps(mid, out)
  BY RetouchedKeeps DEF Retouched
<1>2. Keeps(Append(mid, r), mid)
  BY <1>1, AppendKeeps
<1> QED BY <1>1, <1>2, KeepsFurther

LEMMA MessageAppendKeeps ==
  ASSUME NEW out, ItemList(out), NEW text
  PROVE  Keeps(Append(out, MessageItem(text)), out)
BY NewItems, AppendKeeps DEF ToolItem

LEMMA AddToLastKeeps ==
  ASSUME NEW out, ItemList(out), out # <<>>, NEW text
  PROVE  Keeps(AddToLast(out, text), out)
BY SetTextRetouches, RetouchedKeeps DEF AddToLast

LEMMA AddReasoningKeeps ==
  ASSUME NEW out, ItemList(out), NEW word
  PROVE  Keeps(AddReasoning(out, word), out)
<1>1. LastType(out) = "reasoning" => out # <<>>
  BY DEF LastType
<1>2. Keeps(Append(out, Native(<<word>>)), out)
  BY NewItems, AppendKeeps DEF ToolItem
<1> QED BY <1>1, <1>2, AddToLastKeeps DEF AddReasoning

LEMMA CloseNativeKeeps ==
  ASSUME NEW out, ItemList(out)
  PROVE  Keeps(CloseNative(out), out)
<1>1. CASE LastType(out) = "reasoning" /\ Last(out).native
  <2>1. out # <<>>
    BY <1>1 DEF LastType
  <2>2. Retouched(Complete(out), out)
    BY <2>1, SetTextRetouches
  <2> QED BY <1>1, <2>2, LastThenAppendKeeps, NewItems DEF CloseNative, ToolItem
<1>2. CASE ~(LastType(out) = "reasoning" /\ Last(out).native)
  BY <1>2, KeepsItself DEF CloseNative
<1> QED BY <1>1, <1>2

LEMMA AddValueKeeps ==
  ASSUME NEW out, ItemList(out), NEW chunk
  PROVE  Keeps(AddValue(out, chunk), out)
<1> DEFINE now == CloseNative(out)
<1>1. ItemList(now) /\ Keeps(now, out)
  BY CloseNativeKeeps DEF Keeps
<1>2. InsideTagBlock(now) \/ LastType(now) = "message" => now # <<>>
  BY DEF InsideTagBlock, LastType
<1> HIDE DEF now
<1>3. AddValue(out, chunk) = IF InsideTagBlock(now) \/ LastType(now) = "message"
                             THEN AddToLast(now, chunk) ELSE Append(now, MessageItem(chunk))
  BY DEF AddValue, now
<1>4. Keeps(AddValue(out, chunk), now)
  BY <1>1, <1>2, <1>3, AddToLastKeeps, MessageAppendKeeps
<1> QED BY <1>1, <1>4, KeepsFurther

LEMMA EndBlockKeeps ==
  ASSUME NEW kind, NEW out, ItemList(out), out # <<>>, Last(out).type \notin ToolItem
  PROVE  Keeps(EndBlock(kind, out).out, out)
<1>1. \A text : Retouched(SetText(out, text), out)
  BY SetTextRetouches
<1>2. \A text : Retouched(SetText(Complete(out), text), out)
  <2> DEFINE mid == Complete(out)
  <2>1. Retouched(mid, out)
    BY SetTextRetouches
  <2> HIDE DEF mid
  <2>2. ItemList(mid) /\ mid # <<>>
    BY <2>1, ListFront, ListIs, EmptySeq DEF Retouched
  <2>3. \A text : Retouched(SetText(mid, text), mid)
    BY <2>2, SetTextRetouches
  <2> QED BY <2>1, <2>3 DEF Retouched, mid
<1>3. \A rest : Keeps(Append(Front(out), MessageItem(rest)), out)
  BY FrontKeeps, ListFront, MessageAppendKeeps, KeepsFurther
<1>4. \A text, rest : /\ Keeps(Append(SetText(out, text), MessageItem(rest)), out)
                      /\ Keeps(Append(SetText(Complete(out), text), MessageItem(rest)), out)
  BY <1>1, <1>2, LastThenAppendKeeps, NewItems DEF ToolItem
<1>5. \/ EndBlock(kind, out).out = out
      \/ \E rest : EndBlock(kind, out).out = Append(Front(out), MessageItem(rest))
      \/ \E text, rest : EndBlock(kind, out).out = Append(SetText(out, text), MessageItem(rest))
      \/ \E text, rest :
           EndBlock(kind, out).out = Append(SetText(Complete(out), text), MessageItem(rest))
  BY DEF EndBlock
<1> QED BY <1>3, <1>4, <1>5, KeepsItself

LEMMA StartBlockKeeps ==
  ASSUME NEW kind \in {"code", "reasoning"}, NEW out, ItemList(out), out # <<>>,
         Last(out).type = "message"
  PROVE  Keeps(StartBlock(kind, out).out, out)
<1>1. PICK kept, after : /\ kept = Front(out) \/ \E text : kept = SetText(out, text)
                         /\ \/ StartBlock(kind, out).out = Append(kept, Item(kind, after))
                            \/ StartBlock(kind, out).out =
                                 EndBlock(kind, Append(kept, Item(kind, after))).out
  BY DEF StartBlock
<1>2. Keeps(kept, out) /\ ItemList(kept)
  BY <1>1, FrontKeeps, SetTextRetouches, RetouchedKeeps DEF Keeps, ToolItem
<1> DEFINE r == Item(kind, after)
           new == Append(kept, r)
<1>3. IsItem(r) /\ r.type = kind
  BY NewItems
<1> HIDE DEF r
<1>4. Keeps(new, kept) /\ ItemList(new) /\ Len(new) = Len(kept) + 1 /\ new[Len(kept) + 1] = r
  BY <1>2, <1>3, AppendKeeps, ListAppend DEF ToolItem
<1>5. new # <<>> /\ Last(new).type \notin ToolItem
  <2>1. Len(kept) \in Nat
    BY <1>2, ListIs
  <2>2. Len(new) # 0
    BY <1>4, <2>1
  <2>3. Last(new) = r
    BY <1>4 DEF Last
  <2> QED BY <1>3, <2>2, <2>3 DEF ToolItem
<1> HIDE DEF new
<1>6. Keeps(EndBlock(kind, new).out, new)
  BY <1>4, <1>5, EndBlockKeeps
<1>7. StartBlock(kind, out).out \in {new, EndBlock(kind, new).out}
  BY <1>1 DEF new, r
<1> QED BY <1>2, <1>4, <1>6, <1>7, KeepsFurther

LEMMA TagOutputKeeps ==
  ASSUME NEW kind \in {"code", "reasoning"}, NEW out, ItemList(out)
  PROVE  Keeps(TagOutput(kind, out).out, out)
<1>1. LastType(out) \in {"message", kind} => out # <<>> /\ Last(out).type = LastType(out)
  BY DEF LastType
<1>2. CASE LastType(out) = "message" /\ StartTag(kind) \in Range(Last(out).text)
  BY <1>1, <1>2, StartBlockKeeps DEF TagOutput
<1>3. CASE ~(LastType(out) = "message" /\ StartTag(kind) \in Range(Last(out).text)) /\ LastType(out) = kind
  <2>1. Keeps(EndBlock(kind, out).out, out)
    BY <1>1, <1>3, EndBlockKeeps DEF ToolItem
  <2> QED BY <1>3, <2>1 DEF TagOutput
<1>4. CASE ~(LastType(out) = "message" /\ StartTag(kind) \in Range(Last(out).text)) /\ LastType(out) # kind
  BY <1>4, KeepsItself DEF TagOutput
<1> QED BY <1>2, <1>3, <1>4

LEMMA ValueKeeps ==
  ASSUME NEW out, ItemList(out), NEW chunk
  PROVE  Keeps(Value(out, chunk).out, out)
<1> DEFINE a == AddValue(out, chunk)
           b == TagOutput("reasoning", a).out
<1>1. Keeps(a, out) /\ ItemList(a)
  BY AddValueKeeps DEF Keeps
<1> HIDE DEF a
<1>2. Keeps(b, a) /\ ItemList(b)
  BY <1>1, TagOutputKeeps DEF Keeps
<1> HIDE DEF b
<1>3. Keeps(TagOutput("code", b).out, b)
  BY <1>2, TagOutputKeeps
<1> QED BY <1>1, <1>2, <1>3, KeepsFurther DEF Value, a, b

\* What is left out at the end of a stream is the last item, a blank message.
LEMMA CleanUpKeeps ==
  ASSUME NEW out, ItemList(out)
  PROVE  /\ Keeps(CleanUp(out), out) /\ Keeps(Trimmed(out), out)
         /\ Len(CleanUp(out)) <= Len(out) /\ Len(Trimmed(out)) <= Len(out)
         /\ \A i \in 1..Len(CleanUp(out)) : CleanUp(out)[i].type = out[i].type
         /\ \A i \in 1..Len(Trimmed(out)) : Trimmed(out)[i].type = out[i].type
<1>0. Len(out) \in Nat
  BY ListIs
<1>1. ASSUME LastType(out) = "message"
      PROVE  /\ Keeps(Front(out), out) /\ ItemList(Front(out)) /\ Len(Front(out)) = Len(out) - 1
             /\ \A i \in 1..Len(out) - 1 : Front(out)[i] = out[i]
  <2>1. out # <<>> /\ Last(out).type \notin ToolItem
    BY <1>1 DEF LastType, ToolItem
  <2> QED BY <2>1, FrontKeeps, ListFront
<1> DEFINE Shorter(new, old) == /\ Keeps(new, old) /\ ItemList(new) /\ Len(new) <= Len(old)
                                /\ \A i \in 1..Len(new) : new[i].type = old[i].type
<1>2. LastType(out) = "message" => Shorter(Front(out), out)
  BY <1>0, <1>1
<1>3. Shorter(out, out)
  BY <1>0, KeepsItself
<1>4. Shorter(Trimmed(out), out)
  BY <1>2, <1>3 DEF Trimmed
<1>5. Shorter(CleanUp(out), out)
  <2>1. PICK kept \in {out, Front(out)} :
          /\ kept = out \/ LastType(out) = "message"
          /\ CleanUp(out) = IF LastType(kept) = "reasoning" THEN Complete(kept) ELSE kept
    BY DEF CleanUp
  <2>2. Shorter(kept, out)
    BY <1>2, <1>3, <2>1
  <2>3. LastType(kept) = "reasoning" => kept # <<>>
    BY DEF LastType
  <2>4. LastType(kept) = "reasoning" => Retouched(Complete(kept), kept)
    BY <2>2, <2>3, SetTextRetouches
  <2>5. LastType(kept) = "reasoning" => Keeps(Complete(kept), out)
    BY <2>2, <2>4, RetouchedKeeps, KeepsFurther
  <2> QED BY <2>1, <2>2, <2>4, <2>5 DEF Retouched
<1> QED BY <1>4, <1>5

-----------------------------------------------------------------------------
(* The inductive invariant behind CallsAnsweredOnce                        *)

NoResult(out, id) == \A j \in DOMAIN out : out[j].type = "result" => out[j].id # id

OneResult(out, id) ==
  \E j \in DOMAIN out :
    /\ out[j].type = "result" /\ out[j].id = id
    /\ \A k \in DOMAIN out : out[k].type = "result" /\ out[k].id = id => k = j

Answered(out) == \A i \in DOMAIN out : out[i].type = "call" => OneResult(out, out[i].id)

Without(out, type) == \A i \in DOMAIN out : out[i].type # type

ResultsUpto(out, n) == \A i \in DOMAIN out : out[i].type = "result" => out[i].id <= n

\* No two calls of a list have the same id.
CallsDiffer(out) ==
  \A i, j \in DOMAIN out :
    out[i].type = "call" /\ out[j].type = "call" /\ out[i].id = out[j].id => i = j

\* What is executed or has a result is older than the calls of the stream.
IdInv ==
  /\ issued \in Nat /\ acc \in Seq(Nat) /\ Len(acc) <= issued
  /\ executed \in Seq(Nat) /\ calls \in Seq(Seq(Nat)) /\ batch \in Seq(Nat)
  /\ ran \in 0..Len(batch)
  /\ ItemList(output) /\ ItemList(prior) /\ ItemList(response)
  /\ IsInjective(executed)
  /\ \A k \in DOMAIN executed : executed[k] <= issued - Len(acc)
  /\ ResultsUpto(output, issued - Len(acc)) /\ ResultsUpto(prior, issued - Len(acc))
  /\ pc \notin {"stream", "ended", "cancelling", "over"} => acc = <<>>

\* The Responses API has no code blocks, so there are no code rounds.
StyleInv ==
  /\ style \in {"chat", "responses"}
  /\ style = "responses" =>
       /\ acc = <<>> /\ caller # "code" /\ pc \notin {"running", "ask"}
       /\ Without(output, "code") /\ Without(prior, "code") /\ Without(response, "code")

\* While a response is read, the calls before it are answered; those of a
\* response of the Responses API are new ones.
StreamInv ==
  pc \in {"stream", "ended"} =>
    /\ caller \in {"first", "tools", "code"}
    /\ caller # "code" => calls = <<>> /\ Without(output, "result")
    /\ caller = "tools" => Answered(prior)
    /\ style = "chat" => Answered(output)
    /\ style = "responses" =>
         /\ Without(response, "result") /\ CallsDiffer(response) /\ CallsDiffer(output)
         /\ \A i \in DOMAIN output : output[i].type = "call" =>
              \E j \in DOMAIN response : response[j].type = "call" /\ response[j].id = output[i].id
         /\ \A j \in DOMAIN response : response[j].type = "call" =>
              /\ response[j].id <= issued /\ response[j].id \notin Range(executed)
              /\ NoResult(prior, response[j].id)

\* The calls of one round.
Round(b) == IsInjective(b) /\ \A k \in DOMAIN b : b[k] <= issued /\ NoResult(output, b[k])

AnsweredBut(b) ==
  \A i \in DOMAIN output : output[i].type = "call" =>
    OneResult(output, output[i].id) \/ output[i].id \in Range(b)

\* Before the tools of a round run, their calls are the only ones unanswered.
RoundInv ==
  /\ pc = "payload" => /\ calls = <<>> /\ response = <<>>
                       /\ Without(output, "call") /\ Without(output, "result")
  /\ pc = "tools" =>
       /\ style = "chat" => Answered(output)
       /\ calls = <<>> => Answered(output)
       /\ calls # <<>> =>
            /\ Len(calls) = 1 /\ Round(Head(calls)) /\ AnsweredBut(Head(calls))
            /\ Range(Head(calls)) \cap Range(executed) = {}
  /\ pc = "calling" =>
       /\ calls = <<>> /\ Round(batch) /\ AnsweredBut(batch)
       /\ \A k \in DOMAIN batch : k > ran => batch[k] \notin Range(executed)
  /\ pc = "request" => calls = <<>> /\ Answered(output)
  /\ pc \in {"code", "running", "ask"} /\ style = "chat" => Answered(output)
  /\ pc = "running" => output # <<>>

AnswerInv == IdInv /\ StyleInv /\ StreamInv /\ RoundInv

\* What a list has that keeps its tool calls and results.
LEMMA KeptFacts ==
  ASSUME NEW out, NEW new, Keeps(new, out)
  PROVE  /\ ItemList(new)
         /\ \A id : OneResult(out, id) => OneResult(new, id)
         /\ \A id : NoResult(out, id) => NoResult(new, id)
         /\ \A n : ResultsUpto(out, n) => ResultsUpto(new, n)
         /\ Answered(out) => Answered(new)
         /\ Without(out, "call") => Without(new, "call")
         /\ Without(out, "result") => Without(new, "result")
         /\ CallsDiffer(out) => CallsDiffer(new)
         /\ \A i \in DOMAIN new : new[i].type = "call" =>
              i \in DOMAIN out /\ out[i].type = "call" /\ out[i].id = new[i].id
<1> USE DEF Keeps, ToolItem
<1>1. ASSUME NEW id, OneResult(out, id) PROVE OneResult(new, id)
  BY <1>1 DEF OneResult
<1>2. ASSUME Answered(out) PROVE Answered(new)
  BY <1>1, <1>2 DEF Answered
<1>3. /\ ItemList(new)
      /\ \A id : NoResult(out, id) => NoResult(new, id)
      /\ \A n : ResultsUpto(out, n) => ResultsUpto(new, n)
  BY DEF NoResult, ResultsUpto
<1>4. /\ Without(out, "call") => Without(new, "call")
      /\ Without(out, "result") => Without(new, "result")
  BY DEF Without
<1>5. CallsDiffer(out) => CallsDiffer(new)
  BY DEF CallsDiffer
<1> QED BY <1>1, <1>2, <1>3, <1>4, <1>5

LEMMA EmptyListFacts ==
  /\ ItemList(<<>>) /\ Answered(<<>>) /\ CallsDiffer(<<>>)
  /\ \A type : Without(<<>>, type)
  /\ \A n : ResultsUpto(<<>>, n)
<1>1. DOMAIN <<>> = {} /\ Len(<<>>) = 0 /\ <<>> \in Seq(Range(<<>>))
  BY EmptySeq
<1> QED BY <1>1 DEF ItemList, Answered, CallsDiffer, Without, ResultsUpto

LEMMA OneMessage ==
  ASSUME NEW text
  PROVE  /\ ItemList(<<MessageItem(text)>>)
         /\ \A type : type # "message" => Without(<<MessageItem(text)>>, type)
         /\ \A n : ResultsUpto(<<MessageItem(text)>>, n)
<1> DEFINE r == MessageItem(text)
<1>1. IsItem(r) /\ r.type = "message"
  BY NewItems
<1> HIDE DEF r
<1> DEFINE out == <<r>>
<1>2. out \in [1..1 -> {r}] /\ DOMAIN out = 1..1 /\ \A i \in 1..1 : out[i] = r
  OBVIOUS
<1> HIDE DEF out
<1>3. ItemList(out)
  BY <1>1, <1>2, MakeList
<1>4. \A type : type # "message" => Without(out, type)
  BY <1>1, <1>2 DEF Without
<1>5. \A n : ResultsUpto(out, n)
  BY <1>1, <1>2 DEF ResultsUpto
<1> QED BY <1>3, <1>4, <1>5 DEF r, out

LEMMA AnswerInit == GenerationInit => AnswerInv
<1> SUFFICES ASSUME GenerationInit PROVE AnswerInv
  OBVIOUS
<1>1. ItemList(output) /\ Without(output, "call") /\ Without(output, "result") /\ Without(output, "code")
      /\ \A n : ResultsUpto(output, n)
  BY EmptyListFacts, OneMessage DEF GenerationInit
<1>2. \A S : <<>> \in Seq(S)
  BY EmptySeq
<1>3. DOMAIN <<>> = {} /\ Len(<<>>) = 0
  BY EmptySeq
<1>4. IdInv
  BY <1>1, <1>2, <1>3, EmptyListFacts DEF GenerationInit, IdInv, IsInjective
<1>5. StyleInv /\ StreamInv /\ RoundInv
  BY <1>1, EmptyListFacts DEF GenerationInit, StyleInv, StreamInv, RoundInv
<1> QED BY <1>4, <1>5 DEF AnswerInv

\* The steps that change neither the items nor the calls.
LEMMA QuietSteps ==
  ASSUME AnswerInv,
         \/ UNCHANGED generationVars
         \/ ResponseStreams \/ PayloadFails \/ SaveWhole \/ ToolsOver \/ ResultFails
         \/ ToolRequestFails \/ CodeRound \/ CodeRequestFails \/ BackgroundEnds \/ BackgroundFails
         \/ CancelGeneration \/ CancelSave
  PROVE  AnswerInv'
<1> USE DEF AnswerInv
<1>1. /\ output' = output /\ prior' = prior /\ response' = response /\ style' = style
      /\ acc' = acc /\ calls' = calls /\ batch' = batch /\ ran' = ran
      /\ issued' = issued /\ executed' = executed
  BY DEF generationVars, control, items, tools, reading, config, ResponseStreams, PayloadFails,
     SaveWhole, ToolsOver, ResultFails, ToolRequestFails, CodeRound, CodeRequestFails,
     BackgroundEnds, BackgroundFails, CancelGeneration, CancelSave
<1>2. \/ pc' = pc /\ caller' = caller
      \/ pc = "payload" /\ pc' = "stream" /\ caller' = "first"
      \/ /\ caller' = caller
         /\ \/ pc' \in {"over", "cancelling"}
            \/ pc \in {"shown", "ask"} /\ pc' \in {"background", "save"}
            \/ pc = "tools" /\ pc' = "code"
            \/ pc = "request" /\ pc' = "code"
            \/ pc = "code" /\ pc' = "running" /\ LastType(output) = "code"
  BY DEF generationVars, control, ResponseStreams, PayloadFails,
     SaveWhole, ToolsOver, ResultFails, ToolRequestFails, CodeRound, CodeRequestFails,
     BackgroundEnds, BackgroundFails, CancelGeneration, CancelSave, Goto, CodePending
<1>3. IdInv'
  BY <1>1, <1>2 DEF IdInv
<1>4. pc' = "running" /\ pc # "running" => output # <<>> /\ ~Without(output, "code")
  <2>1. SUFFICES ASSUME pc' = "running", pc # "running", output = <<>> \/ Without(output, "code")
                 PROVE  FALSE
    OBVIOUS
  <2>2. LastType(output) = "code"
    BY <1>2, <2>1
  <2>3. output # <<>> /\ Last(output).type = "code"
    BY <2>2 DEF LastType
  <2>4. Len(output) \in DOMAIN output /\ output[Len(output)].type = "code"
    BY <2>3, LastIs, ListIs DEF IdInv
  <2> QED BY <2>1, <2>3, <2>4 DEF Without
<1>5. StyleInv'
  BY <1>1, <1>2, <1>4 DEF StyleInv
<1>6. StreamInv'
  <2>1. CASE pc' = pc /\ caller' = caller
    BY <1>1, <2>1 DEF StreamInv
  <2>2. CASE pc = "payload" /\ pc' = "stream" /\ caller' = "first"
    <3>1. /\ calls = <<>> /\ response = <<>>
          /\ Without(output, "call") /\ Without(output, "result")
      BY <2>2 DEF RoundInv
    <3>2. Answered(output) /\ CallsDiffer(output)
      BY <3>1 DEF Without, Answered, CallsDiffer
    <3>3. DOMAIN response = {} /\ Without(response, "result") /\ CallsDiffer(response)
      BY <3>1, EmptyListFacts
    <3> QED BY <1>1, <2>2, <3>1, <3>2, <3>3 DEF StreamInv, Without
  <2>3. CASE pc' \notin {"stream", "ended"}
    BY <2>3 DEF StreamInv
  <2> QED BY <1>2, <2>1, <2>2, <2>3
<1>7. RoundInv'
  <2>1. CASE pc' = pc
    BY <1>1, <2>1 DEF RoundInv, Round, AnsweredBut
  <2>2. CASE pc' \in {"stream", "over", "cancelling", "background", "save"}
    BY <2>2 DEF RoundInv
  <2>3. CASE pc \in {"tools", "request"} /\ pc' = "code"
    BY <1>1, <2>3 DEF RoundInv
  <2>4. CASE pc = "code" /\ pc' = "running"
    BY <1>1, <1>4, <2>4 DEF RoundInv
  <2> QED BY <1>2, <2>1, <2>2, <2>3, <2>4
<1> QED BY <1>3, <1>5, <1>6, <1>7

\* The steps that change texts and status only.
LEMMA KeptSteps ==
  ASSUME AnswerInv, Keeps(output', output),
         UNCHANGED <<prior, acc, calls, batch, ran, issued, executed, response, style, caller>>,
         \/ pc = "stream" /\ pc' \in {"stream", "ended"} /\ style = "chat"
         \/ pc = "running" /\ pc' = "ask" /\ style = "chat"
         \/ pc' = "background" /\ acc = <<>> /\ (Without(output, "code") => Without(output', "code"))
  PROVE  AnswerInv'
<1> USE DEF AnswerInv
<1>1. /\ ItemList(output')
      /\ \A n : ResultsUpto(output, n) => ResultsUpto(output', n)
      /\ Answered(output) => Answered(output')
      /\ Without(output, "result") => Without(output', "result")
  BY KeptFacts
<1>2. IdInv'
  BY <1>1 DEF IdInv
<1>3. StyleInv'
  BY DEF StyleInv
<1>4. StreamInv'
  BY <1>1 DEF StreamInv
<1>5. RoundInv'
  BY <1>1 DEF RoundInv
<1> QED BY <1>2, <1>3, <1>4, <1>5

LEMMA TextSteps ==
  ASSUME AnswerInv, ReasoningDelta \/ \E c \in Chunk : TextDelta(c)
  PROVE  AnswerInv'
<1>1. ItemList(output)
  BY DEF AnswerInv, IdInv
<1>2. CASE ReasoningDelta
  <2>1. Keeps(output', output)
    BY <1>1, <1>2, AddReasoningKeeps DEF ReasoningDelta
  <2> QED BY <1>2, <2>1, KeptSteps DEF ReasoningDelta, control, tools, config
<1>3. CASE \E c \in Chunk : TextDelta(c)
  <2>1. PICK c : TextDelta(c)
    BY <1>3
  <2>2. Keeps(output', output)
    BY <1>1, <2>1, ValueKeeps DEF TextDelta
  <2>3. /\ UNCHANGED <<prior, acc, calls, batch, ran, issued, executed, response, style, caller>>
        /\ pc = "stream" /\ pc' \in {"stream", "ended"} /\ style = "chat"
    BY <2>1 DEF TextDelta, Goto, tools, config
  <2> QED BY <2>2, <2>3, KeptSteps
<1> QED BY <1>2, <1>3

LEMMA CodeResultStep ==
  ASSUME AnswerInv, CodeResult PROVE AnswerInv'
<1>1. ItemList(output) /\ output # <<>> /\ style = "chat"
  BY DEF AnswerInv, IdInv, RoundInv, StyleInv, CodeResult
<1>2. Retouched(Complete(output), output)
  BY <1>1, SetTextRetouches
<1>3. Keeps(output', output)
  BY <1>1, <1>2, LastThenAppendKeeps, NewItems DEF CodeResult, ToolItem
<1> QED BY <1>1, <1>3, KeptSteps DEF CodeResult, Goto, tools, reading, config

LEMMA SaveStep ==
  ASSUME AnswerInv, Save PROVE AnswerInv'
<1>1. ItemList(output) /\ acc = <<>>
  BY DEF AnswerInv, IdInv, Save
<1>2. Len(output) \in Nat /\ DOMAIN output = 1..Len(output) /\ \A i \in 1..Len(output) : IsItem(output[i])
  BY <1>1, ListIs DEF ItemList
<1> DEFINE f == [i \in 1..Len(output) |-> [output[i] EXCEPT !.status = "completed"]]
<1>3. /\ f \in [1..Len(output) -> Range(f)]
      /\ \A i \in 1..Len(output) :
           IsItem(f[i]) /\ f[i].type = output[i].type /\ f[i].id = output[i].id
  BY <1>2 DEF Range, IsItem
<1>4. output' = f
  BY <1>2 DEF Save
<1> HIDE DEF f
<1>5. Retouched(f, output)
  BY <1>2, <1>3, MakeList DEF Retouched
<1>6. Keeps(output', output)
  BY <1>1, <1>4, <1>5, RetouchedKeeps
<1>7. Without(output, "code") => Without(output', "code")
  BY <1>2, <1>3, <1>4, <1>5, ListIs DEF Without, Retouched
<1> QED BY <1>1, <1>6, <1>7, KeptSteps DEF Save, Goto, tools, reading, config

LEMMA StreamFailsStep ==
  ASSUME AnswerInv, StreamFails PROVE AnswerInv'
<1> USE DEF AnswerInv
<1>1. /\ pc = "stream" /\ acc' = <<>> /\ caller' = caller
      /\ UNCHANGED <<output, prior, calls, batch, ran, issued, executed, response, style>>
  BY DEF StreamFails, Goto, items, reading, config
<1>2. \/ pc' \in {"over", "save"}
      \/ pc' = "code" /\ caller = "tools"
  BY DEF StreamFails, Goto, StreamInv
<1>3. Len(acc') = 0 /\ acc' \in Seq(Nat) /\ issued - Len(acc) <= issued - 0 /\ Len(acc) \in Nat
  BY <1>1, EmptySeq, LenProperties DEF IdInv
<1>4. ResultsUpto(output, issued) /\ ResultsUpto(prior, issued) /\ \A k \in DOMAIN executed : executed[k] <= issued
  <2>1. \A id \in Nat : id <= issued - Len(acc) => id <= issued
    BY <1>3 DEF IdInv
  <2>2. \A k \in DOMAIN executed : executed[k] \in Nat
    BY LenProperties DEF IdInv
  <2>3. (\A i \in DOMAIN output : output[i].id \in Nat) /\ \A i \in DOMAIN prior : prior[i].id \in Nat
    BY ListIs DEF IdInv, ItemList, IsItem
  <2> QED BY <2>1, <2>2, <2>3 DEF IdInv, ResultsUpto
<1>5. IdInv'
  <2>1. issued - 0 = issued /\ 0 <= issued
    BY DEF IdInv
  <2> QED BY <1>1, <1>3, <1>4, <2>1 DEF IdInv
<1>6. StyleInv'
  BY <1>1, <1>2 DEF StyleInv
<1>7. StreamInv'
  BY <1>2 DEF StreamInv
<1>8. RoundInv'
  BY <1>1, <1>2 DEF RoundInv, StreamInv
<1> QED BY <1>5, <1>6, <1>7, <1>8

LEMMA ResponseWholeStep ==
  ASSUME AnswerInv, ResponseWhole PROVE AnswerInv'
<1> USE DEF AnswerInv
<1>1. /\ pc = "payload" /\ pc' = "shown" /\ output' = <<MessageItem(<<NextWord>>)>>
      /\ UNCHANGED <<prior, acc, calls, batch, ran, issued, executed, response, style, caller>>
  BY DEF ResponseWhole, tools, config
<1>2. /\ ItemList(output') /\ Without(output', "code")
      /\ \A n : ResultsUpto(output', n)
  BY <1>1, OneMessage
<1>3. IdInv' /\ StyleInv'
  BY <1>1, <1>2 DEF IdInv, StyleInv
<1>4. StreamInv' /\ RoundInv'
  BY <1>1 DEF StreamInv, RoundInv
<1> QED BY <1>3, <1>4

LEMMA CallDeltaStep ==
  ASSUME AnswerInv, CallDelta PROVE AnswerInv'
<1> USE DEF AnswerInv
<1>1. PICK i \in Range(acc) \cup {Len(acc) + 1} :
        /\ acc' = Append(acc, i) /\ issued' = issued + 1
        /\ pc = "stream" /\ style = "chat" /\ pc' = pc /\ caller' = caller
        /\ UNCHANGED <<output, prior, calls, batch, ran, executed, response, style>>
  BY DEF CallDelta, control, items, config
<1>2. acc \in Seq(Nat) /\ Len(acc) \in Nat /\ issued \in Nat /\ i \in Nat
  BY LenProperties DEF IdInv, Range
<1>3. acc' \in Seq(Nat) /\ Len(acc') = Len(acc) + 1
  BY <1>1, <1>2, AppendProperties
<1>4. issued' - Len(acc') = issued - Len(acc) /\ issued' \in Nat /\ Len(acc') <= issued'
  BY <1>1, <1>2, <1>3 DEF IdInv
<1>5. IdInv'
  BY <1>1, <1>3, <1>4 DEF IdInv
<1>6. StyleInv' /\ StreamInv' /\ RoundInv'
  BY <1>1 DEF StyleInv, StreamInv, RoundInv
<1> QED BY <1>5, <1>6

\* A new response is read.
LEMMA RequestSteps ==
  ASSUME AnswerInv, ToolRequest \/ CodeRequest PROVE AnswerInv'
<1> USE DEF AnswerInv
<1>0. ItemList(output)
  BY DEF IdInv
<1>1. /\ pc' = "stream" /\ response' = <<>> /\ acc = <<>>
      /\ UNCHANGED <<acc, calls, batch, ran, issued, executed, style>>
  BY DEF ToolRequest, CodeRequest, tools, config, items, IdInv
<1>2. CASE ToolRequest
  <2>1. pc = "request" /\ caller' = "tools" /\ prior' = Trimmed(output) /\ output' = <<>>
    BY <1>2 DEF ToolRequest
  <2>2. Keeps(prior', output) /\ (Without(output, "code") => Without(prior', "code"))
    <3>1. DOMAIN output = 1..Len(output) /\ Len(output) \in Nat
      BY <1>0, ListIs
    <3>2. /\ Keeps(prior', output) /\ Len(prior') <= Len(output)
          /\ \A i \in 1..Len(prior') : prior'[i].type = output[i].type
      BY <1>0, <2>1, CleanUpKeeps
    <3>3. DOMAIN prior' = 1..Len(prior') /\ Len(prior') \in Nat
      BY <3>2, ListIs DEF Keeps
    <3>4. \A i \in DOMAIN prior' : i \in DOMAIN output
      BY <3>1, <3>2, <3>3
    <3> QED BY <3>2, <3>3, <3>4 DEF Without
  <2>3. IdInv'
    BY <1>1, <2>1, <2>2, KeptFacts, EmptyListFacts DEF IdInv
  <2>4. StyleInv'
    BY <1>1, <2>1, <2>2, EmptyListFacts DEF StyleInv
  <2>5. StreamInv'
    <3>1. calls = <<>> /\ Answered(prior') /\ DOMAIN <<>> = {}
      BY <2>1, <2>2, KeptFacts, EmptySeq DEF RoundInv
    <3> QED BY <1>1, <2>1, <3>1, EmptyListFacts DEF StreamInv
  <2>6. RoundInv'
    BY <1>1 DEF RoundInv
  <2> QED BY <2>3, <2>4, <2>5, <2>6
<1>3. CASE CodeRequest
  <2>1. pc = "ask" /\ caller' = "code" /\ UNCHANGED <<prior, output>>
    BY <1>3 DEF CodeRequest, items
  <2>2. style = "chat" /\ Answered(output)
    BY <2>1 DEF StyleInv, RoundInv
  <2>3. IdInv' /\ StyleInv' /\ StreamInv' /\ RoundInv'
    BY <1>1, <2>1, <2>2, EmptyListFacts DEF IdInv, StyleInv, StreamInv, RoundInv
  <2> QED BY <2>3
<1> QED BY <1>2, <1>3

\* The steps of a response of the Responses API that keep its items.
LEMMA KeptEvents ==
  ASSUME AnswerInv, pc = "stream", pc' \in {"stream", "ended"}, style = "responses",
         Keeps(response', response), Keeps(output', output) \/ Keeps(output', response),
         Without(output', "code"), Without(response', "code"),
         UNCHANGED <<prior, acc, calls, batch, ran, issued, executed, style, caller>>
  PROVE  AnswerInv'
<1> USE DEF AnswerInv
<1>1. /\ acc = <<>> /\ caller # "code" /\ calls = <<>> /\ Without(output, "result")
      /\ Without(response, "result") /\ CallsDiffer(response) /\ CallsDiffer(output)
  BY DEF StyleInv, StreamInv
<1>2. /\ ItemList(response') /\ Without(response', "result") /\ CallsDiffer(response')
      /\ \A j \in DOMAIN response' : response'[j].type = "call" =>
           j \in DOMAIN response /\ response[j].type = "call" /\ response[j].id = response'[j].id
      /\ \A j \in DOMAIN response : response[j].type = "call" =>
           j \in DOMAIN response' /\ response'[j].type = "call" /\ response'[j].id = response[j].id
  BY <1>1, KeptFacts DEF Keeps, ToolItem
<1>3. PICK list : list \in {output, response} /\ Keeps(output', list)
  OBVIOUS
<1>4. Without(list, "result") /\ CallsDiffer(list)
  BY <1>1, <1>3
<1>5. /\ ItemList(output') /\ Without(output', "result") /\ CallsDiffer(output')
      /\ \A i \in DOMAIN output' : output'[i].type = "call" =>
           i \in DOMAIN list /\ list[i].type = "call" /\ list[i].id = output'[i].id
  BY <1>3, <1>4, KeptFacts
<1>6. \A i \in DOMAIN output' : output'[i].type = "call" =>
        \E j \in DOMAIN response' : response'[j].type = "call" /\ response'[j].id = output'[i].id
  BY <1>2, <1>3, <1>5 DEF StreamInv
<1>7. \A n : ResultsUpto(output', n)
  BY <1>5 DEF Without, ResultsUpto
<1>8. IdInv'
  BY <1>2, <1>5, <1>7 DEF IdInv
<1>9. StyleInv'
  BY <1>1 DEF StyleInv
<1>10. StreamInv'
  BY <1>1, <1>2, <1>5, <1>6 DEF StreamInv
<1>11. RoundInv'
  BY DEF RoundInv
<1> QED BY <1>8, <1>9, <1>10, <1>11

LEMMA RetouchedWithout ==
  ASSUME NEW out, ItemList(out), NEW new, Retouched(new, out), NEW type, Without(out, type)
  PROVE  Without(new, type)
<1>1. DOMAIN new = 1..Len(out) /\ DOMAIN out = 1..Len(out)
  BY ListIs DEF Retouched
<1> QED BY <1>1 DEF Without, Retouched

LEMMA SameRetouched == ASSUME NEW out, ItemList(out) PROVE Retouched(out, out)
BY DEF Retouched

LEMMA EventDeltaStep ==
  ASSUME AnswerInv, NEW i \in DOMAIN response, EventDelta(i) \/ EventDone(i) PROVE AnswerInv'
<1> USE DEF AnswerInv
<1>1. /\ pc = "stream" /\ pc' = "stream" /\ style = "responses"
      /\ UNCHANGED <<prior, acc, calls, batch, ran, issued, executed, style, caller>>
  BY DEF EventDelta, EventDone, control, tools, config
<1>2. /\ ItemList(response) /\ ItemList(output) /\ i \in 1..Len(response)
      /\ Without(output, "code") /\ Without(response, "code")
  BY <1>1, ListIs DEF IdInv, StyleInv
<1>3. Retouched(response', response)
  <2>1. \/ response' = [response EXCEPT ![i].text = Append(response[i].text, NextWord)]
        \/ response' = [response EXCEPT ![i].status = "completed"]
    BY DEF EventDelta, EventDone
  <2>2. /\ \A text : Retouched([response EXCEPT ![i].text = text], response)
        /\ \A status : Retouched([response EXCEPT ![i].status = status], response)
    BY <1>2, SetsRetouch
  <2> QED BY <2>1, <2>2
<1>4. Retouched(output', output)
  <2>1. \/ output' = output
        \/ i \in 1..Len(output) /\ \E text : output' = [output EXCEPT ![i].text = text]
        \/ i \in 1..Len(output) /\ \E status : output' = [output EXCEPT ![i].status = status]
    <3>1. CASE EventDelta(i)
      <4>1. \/ output' = output
            \/ i \in 1..Len(output) /\ output' = [output EXCEPT ![i].text = Append(output[i].text, NextWord)]
        BY <3>1 DEF EventDelta, ItemDelta
      <4> QED BY <4>1
    <3>2. CASE EventDone(i)
      <4>1. \/ output' = output
            \/ i \in 1..Len(output) /\ output' = [output EXCEPT ![i].text = response[i].text]
            \/ i \in 1..Len(output) /\ output' = [output EXCEPT ![i].status = "completed"]
        BY <3>2 DEF EventDone, FieldDone
      <4> QED BY <4>1
    <3> QED BY <3>1, <3>2
  <2>2. Retouched(output, output)
    BY <1>2, SameRetouched
  <2>3. i \in 1..Len(output) =>
          /\ \A text : Retouched([output EXCEPT ![i].text = text], output)
          /\ \A status : Retouched([output EXCEPT ![i].status = status], output)
    BY <1>2, SetsRetouch
  <2> QED BY <2>1, <2>2, <2>3
<1>5. /\ Keeps(response', response) /\ Keeps(output', output)
      /\ Without(response', "code") /\ Without(output', "code")
  BY <1>2, <1>3, <1>4, RetouchedKeeps, RetouchedWithout
<1> QED BY <1>1, <1>5, KeptEvents

LEMMA EventCompletedStep ==
  ASSUME AnswerInv, EventCompleted PROVE AnswerInv'
<1> USE DEF AnswerInv
<1>1. /\ pc = "stream" /\ pc' = "ended" /\ style = "responses" /\ output' = Completed(response)
      /\ UNCHANGED <<response, prior, acc, calls, batch, ran, issued, executed, style, caller>>
  BY DEF EventCompleted, Goto, tools, reading, config
<1>2. /\ ItemList(response) /\ Without(response, "code")
      /\ Len(response) \in Nat /\ \A i \in 1..Len(response) : IsItem(response[i])
  BY <1>1, ListIs DEF IdInv, StyleInv, ItemList
<1> DEFINE f == Completed(response)
<1>3. /\ f \in [1..Len(response) -> Range(f)]
      /\ \A i \in 1..Len(response) :
           IsItem(f[i]) /\ f[i].type = response[i].type /\ f[i].id = response[i].id
  <2>1. /\ f \in [1..Len(response) -> Range(f)]
        /\ \A i \in 1..Len(response) :
             f[i] \in {response[i], [response[i] EXCEPT !.status = "completed"]}
    BY DEF Completed, Range
  <2> HIDE DEF f
  <2> QED BY <1>2, <2>1 DEF IsItem
<1> HIDE DEF f
<1>4. Retouched(f, response)
  BY <1>2, <1>3, MakeList DEF Retouched
<1>5. Keeps(output', response) /\ Without(output', "code") /\ Keeps(response, response)
  BY <1>1, <1>2, <1>4, RetouchedKeeps, RetouchedWithout, KeepsItself DEF f
<1> QED BY <1>1, <1>2, <1>5, KeptEvents

LEMMA EventAddedStep ==
  ASSUME AnswerInv, NEW type \in {"message", "reasoning", "call"}, EventAdded(type) PROVE AnswerInv'
<1> USE DEF AnswerInv
<1>1. PICK item : /\ item = IF type = "call" THEN Call(issued') ELSE Item(type, <<>>)
                  /\ response' = Append(response, item) /\ output' = Append(output, item)
                  /\ issued' = IF type = "call" THEN issued + 1 ELSE issued
                  /\ pc = "stream" /\ pc' = "stream" /\ style = "responses"
                  /\ UNCHANGED <<prior, acc, calls, batch, ran, executed, style, caller>>
  BY DEF EventAdded, ItemAdded, control, config
<1>2. /\ issued \in Nat /\ issued' \in Nat /\ issued <= issued' /\ acc = <<>> /\ Len(acc) = 0
      /\ ItemList(output) /\ ItemList(response) /\ ItemList(prior)
  BY <1>1, EmptySeq DEF IdInv, StyleInv
<1>3. /\ IsItem(item) /\ item.type = type
      /\ type = "call" => item.id = issued + 1
  BY <1>1, <1>2, NewItems
<1>4. /\ ItemList(response') /\ Len(response') = Len(response) + 1 /\ response'[Len(response) + 1] = item
      /\ \A i \in 1..Len(response) : response'[i] = response[i]
      /\ Len(response) \in Nat /\ DOMAIN response = 1..Len(response)
      /\ DOMAIN response' = 1..Len(response) + 1
  BY <1>1, <1>2, <1>3, ListAppend, ListIs
<1>5. /\ ItemList(output') /\ Len(output') = Len(output) + 1 /\ output'[Len(output) + 1] = item
      /\ \A i \in 1..Len(output) : output'[i] = output[i]
      /\ Len(output) \in Nat /\ DOMAIN output = 1..Len(output)
      /\ DOMAIN output' = 1..Len(output) + 1
  BY <1>1, <1>2, <1>3, ListAppend, ListIs
<1>6. \A i \in DOMAIN response' : \/ (i \in DOMAIN response /\ response'[i] = response[i])
                                  \/ (i = Len(response) + 1 /\ response'[i] = item)
  BY <1>4
<1>7. \A i \in DOMAIN output' : \/ (i \in DOMAIN output /\ output'[i] = output[i])
                                \/ (i = Len(output) + 1 /\ output'[i] = item)
  BY <1>5
<1>8. \A i \in DOMAIN response : i \in DOMAIN response' /\ response'[i] = response[i]
  BY <1>4
<1>9. caller # "code" /\ calls = <<>> /\ caller \in {"first", "tools", "code"}
  BY <1>1 DEF StreamInv, StyleInv
<1>10. /\ \A i \in DOMAIN response : response[i].id \in Nat
       /\ \A i \in DOMAIN prior : prior[i].id \in Nat
       /\ \A k \in DOMAIN executed : executed[k] \in Nat
  BY <1>2, ListIs, LenProperties DEF ItemList, IsItem, IdInv
<1>11. \A type1 \in {"code", "result"} : Without(response', type1) /\ Without(output', type1)
  <2>1. /\ Without(response, "code") /\ Without(output, "code")
        /\ Without(response, "result") /\ Without(output, "result")
    BY <1>1, <1>9 DEF StyleInv, StreamInv
  <2> QED BY <1>3, <1>6, <1>7, <2>1 DEF Without
<1>12. issued - Len(acc) = issued /\ issued' - Len(acc) = issued' /\ Len(acc) <= issued'
  <2>1. \A n \in Nat : n - 0 = n /\ 0 <= n
    OBVIOUS
  <2> QED BY <1>2, <2>1
<1>13. IdInv'
  <2>1. ResultsUpto(output', issued')
    BY <1>11 DEF ResultsUpto, Without
  <2>2. ResultsUpto(prior, issued')
    BY <1>2, <1>10, <1>12 DEF IdInv, ResultsUpto
  <2>3. \A k \in DOMAIN executed : executed[k] <= issued'
    BY <1>2, <1>10, <1>12 DEF IdInv
  <2> QED BY <1>1, <1>2, <1>4, <1>5, <1>12, <2>1, <2>2, <2>3 DEF IdInv
<1>14. StyleInv'
  BY <1>1, <1>11 DEF StyleInv
<1>15. \A j \in DOMAIN response : response[j].type = "call" => response[j].id # issued + 1 /\ response[j].id <= issued'
  <2>1. \A j \in DOMAIN response : response[j].type = "call" => response[j].id <= issued
    BY <1>1 DEF StreamInv
  <2> QED BY <1>2, <1>10, <2>1
<1>16. CallsDiffer(response')
  <2>1. CallsDiffer(response)
    BY <1>1 DEF StreamInv
  <2> QED BY <1>3, <1>6, <1>15, <2>1 DEF CallsDiffer
<1>17. \A i \in DOMAIN output' : output'[i].type = "call" =>
         \E j \in DOMAIN response' : response'[j].type = "call" /\ response'[j].id = output'[i].id
  <2>1. Len(response) + 1 \in DOMAIN response'
    BY <1>4
  <2>2. \A i \in DOMAIN output : output[i].type = "call" =>
          \E j \in DOMAIN response : response[j].type = "call" /\ response[j].id = output[i].id
    BY <1>1 DEF StreamInv
  <2> QED BY <1>4, <1>7, <1>8, <2>1, <2>2
<1>18. CallsDiffer(output')
  <2>1. CallsDiffer(output)
    BY <1>1 DEF StreamInv
  <2>2. \A i \in DOMAIN output : output[i].type = "call" => output[i].id # issued + 1
    BY <1>1, <1>15 DEF StreamInv
  <2> QED BY <1>3, <1>7, <2>1, <2>2 DEF CallsDiffer
<1>19. \A j \in DOMAIN response' : response'[j].type = "call" =>
         /\ response'[j].id <= issued' /\ response'[j].id \notin Range(executed)
         /\ NoResult(prior, response'[j].id)
  <2>1. ASSUME type = "call"
        PROVE  item.id <= issued' /\ item.id \notin Range(executed) /\ NoResult(prior, item.id)
    <3>1. item.id = issued + 1 /\ issued' = issued + 1
      BY <1>1, <1>3, <2>1
    <3>2. \A n \in Nat : n <= issued => n # issued + 1
      BY <1>2
    <3>3. \A k \in DOMAIN executed : executed[k] # issued + 1
      BY <1>10, <1>12, <3>2 DEF IdInv
    <3>4. \A k \in DOMAIN prior : prior[k].type = "result" => prior[k].id # issued + 1
      BY <1>10, <1>12, <3>2 DEF IdInv, ResultsUpto
    <3> QED BY <1>2, <3>1, <3>3, <3>4 DEF NoResult, Range
  <2>2. \A j \in DOMAIN response : response[j].type = "call" =>
         /\ response[j].id <= issued' /\ response[j].id \notin Range(executed)
         /\ NoResult(prior, response[j].id)
    BY <1>1, <1>15 DEF StreamInv
  <2> QED BY <1>3, <1>6, <2>1, <2>2
<1>20. StreamInv'
  BY <1>1, <1>9, <1>11, <1>16, <1>17, <1>18, <1>19 DEF StreamInv
<1>21. RoundInv'
  BY <1>1 DEF RoundInv
<1> QED BY <1>13, <1>14, <1>20, <1>21

\* Each call of a list is one of two others.
CallsFrom(c, a, b) ==
  \A i \in DOMAIN c : c[i].type = "call" =>
    \/ \E j \in DOMAIN a : a[j].type = "call" /\ a[j].id = c[i].id
    \/ \E j \in DOMAIN b : b[j].type = "call" /\ b[j].id = c[i].id

\* What comes of a list with results when one without them is put after it.
LEMMA ConcatFacts ==
  ASSUME NEW a, ItemList(a), NEW b, ItemList(b), Without(b, "result")
  PROVE  /\ ItemList(a \o b)
         /\ \A id : OneResult(a, id) => OneResult(a \o b, id)
         /\ \A id : NoResult(a, id) => NoResult(a \o b, id)
         /\ \A n : ResultsUpto(a, n) => ResultsUpto(a \o b, n)
         /\ \A type : Without(a, type) /\ Without(b, type) => Without(a \o b, type)
         /\ CallsFrom(a \o b, a, b)
<1> DEFINE c == a \o b
<1>1. /\ ItemList(c) /\ Len(c) = Len(a) + Len(b)
      /\ \A i \in 1..Len(a) : c[i] = a[i]
      /\ \A i \in 1..Len(b) : c[Len(a) + i] = b[i]
  BY ListConcat
<1> HIDE DEF c
<1>2. /\ Len(a) \in Nat /\ DOMAIN a = 1..Len(a) /\ Len(b) \in Nat /\ DOMAIN b = 1..Len(b)
      /\ DOMAIN c = 1..Len(a) + Len(b)
  BY <1>1, ListIs
<1>3. \A i \in DOMAIN a : i \in DOMAIN c /\ c[i] = a[i]
  BY <1>1, <1>2
<1>4. \A i \in DOMAIN c : \/ (i \in DOMAIN a /\ c[i] = a[i])
                          \/ \E j \in DOMAIN b : c[i] = b[j]
  <2> SUFFICES ASSUME NEW i \in DOMAIN c, i \notin DOMAIN a
               PROVE  \E j \in DOMAIN b : c[i] = b[j]
    BY <1>3
  <2>1. i - Len(a) \in DOMAIN b /\ Len(a) + (i - Len(a)) = i
    BY <1>2
  <2> QED BY <1>1, <1>2, <2>1
<1>5. \A i \in DOMAIN c : c[i].type = "result" => i \in DOMAIN a /\ c[i] = a[i]
  BY <1>4 DEF Without
<1>6. \A id : OneResult(a, id) => OneResult(c, id)
  BY <1>3, <1>5 DEF OneResult
<1>7. /\ \A id : NoResult(a, id) => NoResult(c, id)
      /\ \A n : ResultsUpto(a, n) => ResultsUpto(c, n)
  BY <1>5 DEF NoResult, ResultsUpto
<1>8. \A type : Without(a, type) /\ Without(b, type) => Without(c, type)
  BY <1>4 DEF Without
<1>9. CallsFrom(c, a, b)
  BY <1>4 DEF CallsFrom
<1> QED BY <1>1, <1>6, <1>7, <1>8, <1>9 DEF c

\* The calls that have no result, in order.
LEMMA UnhandledIs ==
  ASSUME NEW out, ItemList(out), ItemList(prior)
  PROVE  /\ Unhandled(out) \in Seq(Nat)
         /\ \A k \in DOMAIN Unhandled(out) : \E i \in DOMAIN out :
              /\ out[i].type = "call" /\ out[i].id = Unhandled(out)[k]
              /\ NoResult(prior, out[i].id) /\ NoResult(out, out[i].id)
         /\ CallsDiffer(out) => IsInjective(Unhandled(out))
         /\ \A i \in DOMAIN out :
              out[i].type = "call" /\ NoResult(prior, out[i].id) /\ NoResult(out, out[i].id) =>
                out[i].id \in Range(Unhandled(out))
<1> DEFINE c == prior \o out
           P == {i \in 1..Len(out) : out[i].type = "call" /\ out[i].id \notin Ids(c, "result")}
           at == InOrder(P)
           n == Cardinality(P)
           found == [i \in DOMAIN at |-> out[at[i]].id]
<1>1. /\ Len(out) \in Nat /\ DOMAIN out = 1..Len(out)
      /\ \A i \in DOMAIN out : out[i].id \in Nat
  BY ListIs DEF ItemList, IsItem
<1>2. \A id : id \notin Ids(c, "result") <=> NoResult(prior, id) /\ NoResult(out, id)
  <2>1. /\ ItemList(c) /\ Len(c) = Len(prior) + Len(out)
        /\ \A i \in 1..Len(prior) : c[i] = prior[i]
        /\ \A i \in 1..Len(out) : c[Len(prior) + i] = out[i]
    BY ListConcat
  <2> HIDE DEF c
  <2>2. Len(prior) \in Nat /\ DOMAIN prior = 1..Len(prior) /\ DOMAIN c = 1..Len(c)
    BY <2>1, ListIs
  <2>3. \A id : id \in Ids(c, "result") <=> \E i \in DOMAIN c : c[i].type = "result" /\ c[i].id = id
    BY <2>2 DEF Ids
  <2>4. \A i \in DOMAIN prior : i \in DOMAIN c /\ c[i] = prior[i]
    BY <1>1, <2>1, <2>2
  <2>5. \A i \in DOMAIN out : Len(prior) + i \in DOMAIN c /\ c[Len(prior) + i] = out[i]
    BY <1>1, <2>1, <2>2
  <2>6. ASSUME NEW i \in DOMAIN c
        PROVE  (\E j \in DOMAIN prior : c[i] = prior[j]) \/ (\E j \in DOMAIN out : c[i] = out[j])
    <3>1. CASE i <= Len(prior)
      BY <2>1, <2>2, <3>1
    <3>2. CASE ~(i <= Len(prior))
      <4>1. i - Len(prior) \in DOMAIN out /\ Len(prior) + (i - Len(prior)) = i
        BY <1>1, <2>1, <2>2, <3>2
      <4> QED BY <1>1, <2>1, <4>1
    <3> QED BY <3>1, <3>2
  <2> QED BY <2>3, <2>4, <2>5, <2>6 DEF NoResult
<1>3. P \in SUBSET Nat /\ IsFiniteSet(P) /\ P \in SUBSET DOMAIN out
  <2>1. P \in SUBSET (1..Len(out)) /\ IsFiniteSet(1..Len(out)) /\ \A i \in 1..Len(out) : i \in Nat
    BY <1>1, FS_Interval
  <2> QED BY <1>1, <2>1, FS_Subset
<1>4. \A i : i \in P <=> /\ i \in DOMAIN out /\ out[i].type = "call"
                         /\ NoResult(prior, out[i].id) /\ NoResult(out, out[i].id)
  BY <1>1, <1>2
<1>5. Unhandled(out) = found
  BY DEF Unhandled
<1> HIDE DEF P
<1>6. /\ n \in Nat /\ at \in [1..n -> P]
      /\ \A i, j \in 1..n : at[i] = at[j] => i = j
      /\ \A p \in P : \E i \in 1..n : at[i] = p
  BY <1>3, InOrderIs
<1> HIDE DEF n, at
<1>7. DOMAIN found = 1..n /\ \A k \in 1..n : at[k] \in P /\ found[k] = out[at[k]].id
  BY <1>6
<1>8. found \in [1..n -> Nat]
  BY <1>1, <1>3, <1>6
<1>9. found \in Seq(Nat)
  BY <1>6, <1>8, SeqDef
<1> HIDE DEF found
<1>10. \A k \in DOMAIN found : \E i \in DOMAIN out :
              /\ out[i].type = "call" /\ out[i].id = found[k]
              /\ NoResult(prior, out[i].id) /\ NoResult(out, out[i].id)
  BY <1>4, <1>7
<1>11. CallsDiffer(out) => IsInjective(found)
  BY <1>4, <1>6, <1>7 DEF CallsDiffer, IsInjective
<1>12. \A i \in DOMAIN out :
         out[i].type = "call" /\ NoResult(prior, out[i].id) /\ NoResult(out, out[i].id) =>
           out[i].id \in Range(found)
  <2> SUFFICES ASSUME NEW i \in P PROVE out[i].id \in Range(found)
    BY <1>4
  <2>1. PICK k \in 1..n : at[k] = i
    BY <1>6
  <2> QED BY <1>7, <2>1 DEF Range
<1> QED BY <1>5, <1>9, <1>10, <1>11, <1>12

\* What is older than the pending calls is older than the next one.
LEMMA OldIds ==
  ASSUME IdInv
  PROVE  /\ ResultsUpto(output, issued) /\ ResultsUpto(prior, issued)
         /\ \A k \in DOMAIN executed : executed[k] <= issued
         /\ Len(acc) \in Nat /\ issued - 0 = issued /\ 0 <= issued
<1>1. Len(acc) \in Nat /\ \A id \in Nat : id <= issued - Len(acc) => id <= issued
  BY LenProperties DEF IdInv
<1>2. \A k \in DOMAIN executed : executed[k] \in Nat
  BY LenProperties DEF IdInv
<1>3. (\A i \in DOMAIN output : output[i].id \in Nat) /\ \A i \in DOMAIN prior : prior[i].id \in Nat
  BY ListIs DEF IdInv, ItemList, IsItem
<1>4. issued - 0 = issued /\ 0 <= issued
  BY DEF IdInv
<1> QED BY <1>1, <1>2, <1>3, <1>4 DEF IdInv, ResultsUpto

LEMMA StreamEndsStep ==
  ASSUME AnswerInv, StreamEnds PROVE AnswerInv'
<1> USE DEF AnswerInv
<1>0. PICK tidy, found :
        /\ tidy = CleanUp(output)
        /\ found = IF acc # <<>> THEN split_tool_calls ELSE Unhandled(tidy)
        /\ pc \in {"stream", "ended"} /\ caller' = caller
        /\ pc' = IF caller = "code" THEN "code" ELSE "tools"
        /\ output' = IF caller = "tools" THEN prior \o tidy ELSE tidy
        /\ prior' = IF caller = "tools" THEN <<>> ELSE prior
        /\ calls' = IF found = <<>> THEN calls ELSE Append(calls, found)
        /\ acc' = <<>>
        /\ UNCHANGED <<batch, ran, issued, executed, response, style>>
  BY DEF StreamEnds, Goto, reading, config
<1>1. /\ IdInv /\ ItemList(output) /\ ItemList(prior) /\ issued \in Nat
      /\ acc \in Seq(Nat) /\ Len(acc) \in Nat /\ Len(acc) <= issued /\ DOMAIN acc = 1..Len(acc)
  BY LenProperties DEF IdInv
<1>2. /\ Keeps(tidy, output) /\ ItemList(tidy)
      /\ Without(output, "code") => Without(tidy, "code")
  <2>1. /\ Keeps(tidy, output) /\ Len(tidy) <= Len(output)
        /\ \A i \in 1..Len(tidy) : tidy[i].type = output[i].type
    BY <1>0, <1>1, CleanUpKeeps
  <2>2. /\ DOMAIN tidy = 1..Len(tidy) /\ Len(tidy) \in Nat
        /\ DOMAIN output = 1..Len(output) /\ Len(output) \in Nat
    BY <1>1, <2>1, ListIs DEF Keeps
  <2>3. \A i \in DOMAIN tidy : i \in DOMAIN output
    BY <2>1, <2>2
  <2> QED BY <2>1, <2>2, <2>3 DEF Keeps, Without
<1>3. /\ \A id : OneResult(output, id) => OneResult(tidy, id)
      /\ \A id : NoResult(output, id) => NoResult(tidy, id)
      /\ \A n : ResultsUpto(output, n) => ResultsUpto(tidy, n)
      /\ Answered(output) => Answered(tidy)
      /\ Without(output, "result") => Without(tidy, "result")
      /\ CallsDiffer(output) => CallsDiffer(tidy)
      /\ \A i \in DOMAIN tidy : tidy[i].type = "call" =>
              i \in DOMAIN output /\ output[i].type = "call" /\ output[i].id = tidy[i].id
  BY <1>2, KeptFacts
<1>4. /\ caller \in {"first", "tools", "code"}
      /\ caller # "code" => /\ calls = <<>> /\ Without(output, "result") /\ Without(tidy, "result")
      /\ caller = "tools" => Answered(prior)
      /\ style = "chat" => Answered(output) /\ Answered(tidy)
      /\ style \in {"chat", "responses"} /\ (style = "responses" => caller # "code" /\ acc = <<>>)
  BY <1>0, <1>3 DEF StreamInv, StyleInv
<1>5. /\ ResultsUpto(output, issued) /\ ResultsUpto(prior, issued) /\ ResultsUpto(tidy, issued)
      /\ \A k \in DOMAIN executed : executed[k] <= issued
      /\ issued - 0 = issued /\ 0 <= issued
  BY <1>1, <1>3, OldIds
<1>6. /\ found \in Seq(Nat) /\ IsInjective(found)
      /\ \A k \in DOMAIN found : /\ found[k] <= issued /\ found[k] \notin Range(executed)
                                 /\ NoResult(prior, found[k]) /\ NoResult(tidy, found[k])
  <2>1. CASE acc # <<>>
    <3>1. found = [i \in 1..Len(acc) |-> issued - Len(acc) + i]
      BY <1>0, <2>1 DEF split_tool_calls
    <3>2. \A k \in 1..Len(acc) : /\ issued - Len(acc) + k \in Nat /\ issued - Len(acc) + k <= issued
                                 /\ ~(issued - Len(acc) + k <= issued - Len(acc))
      BY <1>1
    <3>3. found \in [1..Len(acc) -> Nat] /\ DOMAIN found = 1..Len(acc)
      BY <3>1, <3>2
    <3>4. found \in Seq(Nat)
      BY <1>1, <3>3, SeqDef
    <3>5. \A k, l \in 1..Len(acc) : issued - Len(acc) + k = issued - Len(acc) + l => k = l
      BY <1>1
    <3>6. IsInjective(found)
      BY <3>1, <3>3, <3>5 DEF IsInjective
    <3>7. \A k \in DOMAIN found : found[k] <= issued /\ ~(found[k] <= issued - Len(acc))
      BY <3>1, <3>2, <3>3
    <3>8. /\ ResultsUpto(prior, issued - Len(acc)) /\ ResultsUpto(tidy, issued - Len(acc))
          /\ \A k \in DOMAIN executed : executed[k] <= issued - Len(acc)
      BY <1>1, <1>3 DEF IdInv
    <3>9. \A k \in DOMAIN found : /\ found[k] \notin Range(executed)
                                  /\ NoResult(prior, found[k]) /\ NoResult(tidy, found[k])
      BY <3>7, <3>8 DEF ResultsUpto, NoResult, Range
    <3> QED BY <3>4, <3>6, <3>7, <3>9
  <2>2. CASE acc = <<>>
    <3>1. found = Unhandled(tidy)
      BY <1>0, <2>2
    <3>2. /\ found \in Seq(Nat) /\ (CallsDiffer(tidy) => IsInjective(found))
          /\ \A k \in DOMAIN found : \E i \in DOMAIN tidy :
                tidy[i].type = "call" /\ tidy[i].id = found[k]
                /\ NoResult(prior, tidy[i].id) /\ NoResult(tidy, tidy[i].id)
      BY <1>1, <1>2, <3>1, UnhandledIs
    <3>3. CASE style = "chat"
      <4>1. \A i \in DOMAIN tidy : tidy[i].type = "call" => ~NoResult(tidy, tidy[i].id)
        BY <1>4, <3>3 DEF Answered, OneResult, NoResult
      <4>2. DOMAIN found = {}
        BY <3>2, <4>1
      <4> QED BY <3>2, <4>2 DEF IsInjective
    <3>4. CASE style = "responses"
      <4>1. CallsDiffer(tidy)
        BY <1>0, <1>3, <3>4 DEF StreamInv
      <4>2. \A i \in DOMAIN tidy : tidy[i].type = "call" =>
              tidy[i].id <= issued /\ tidy[i].id \notin Range(executed)
        <5>1. \A i \in DOMAIN output : output[i].type = "call" =>
                output[i].id <= issued /\ output[i].id \notin Range(executed)
          BY <1>0, <3>4 DEF StreamInv
        <5> QED BY <1>3, <5>1
      <4> QED BY <3>2, <4>1, <4>2
    <3> QED BY <1>4, <3>3, <3>4
  <2> QED BY <2>1, <2>2
<1>7. caller # "code" =>
        \A i \in DOMAIN tidy : tidy[i].type = "call" => tidy[i].id \in Range(found)
  <2> SUFFICES ASSUME caller # "code", NEW i \in DOMAIN tidy, tidy[i].type = "call"
               PROVE  tidy[i].id \in Range(found)
    OBVIOUS
  <2>1. Without(tidy, "result")
    BY <1>4
  <2>2. NoResult(tidy, tidy[i].id)
    BY <2>1 DEF Without, NoResult
  <2>3. ~OneResult(tidy, tidy[i].id)
    BY <2>1 DEF Without, OneResult
  <2>4. style = "responses"
    BY <1>4, <2>3 DEF Answered
  <2>5. found = Unhandled(tidy)
    BY <1>0, <1>4, <2>4
  <2>6. NoResult(prior, tidy[i].id)
    <3>1. \A j \in DOMAIN output : output[j].type = "call" => NoResult(prior, output[j].id)
      BY <1>0, <2>4 DEF StreamInv
    <3> QED BY <1>3, <3>1
  <2> QED BY <1>1, <1>2, <2>2, <2>5, <2>6, UnhandledIs
<1>8. /\ ItemList(output') /\ ItemList(prior') /\ ResultsUpto(output', issued) /\ ResultsUpto(prior', issued)
      /\ style = "responses" => Without(output', "code") /\ Without(prior', "code")
      /\ style = "chat" => Answered(output')
      /\ \A id : NoResult(prior, id) /\ NoResult(tidy, id) => NoResult(output', id)
      /\ caller # "code" => \A i \in DOMAIN output' : output'[i].type = "call" =>
                               OneResult(output', output'[i].id) \/ output'[i].id \in Range(found)
  <2>1. CASE caller = "tools"
    <3>1. output' = prior \o tidy /\ prior' = <<>> /\ Without(tidy, "result") /\ Answered(prior)
      BY <1>0, <1>4, <2>1
    <3>2. /\ ItemList(output')
          /\ \A id : OneResult(prior, id) => OneResult(output', id)
          /\ \A id : NoResult(prior, id) => NoResult(output', id)
          /\ \A n : ResultsUpto(prior, n) => ResultsUpto(output', n)
          /\ \A type : Without(prior, type) /\ Without(tidy, type) => Without(output', type)
          /\ CallsFrom(output', prior, tidy)
      BY <1>1, <1>2, <3>1, ConcatFacts
    <3>3. \A i \in DOMAIN output' : output'[i].type = "call" =>
            OneResult(output', output'[i].id) \/ output'[i].id \in Range(found)
      BY <1>7, <2>1, <3>1, <3>2 DEF Answered, CallsFrom
    <3>4. style = "chat" => Answered(output')
      <4>1. style = "chat" => Without(tidy, "call")
        BY <1>4, <3>1 DEF Answered, OneResult, Without
      <4> QED BY <3>1, <3>2, <4>1 DEF Answered, Without, CallsFrom
    <3>5. style = "responses" => Without(output', "code")
      BY <1>2, <3>2 DEF StyleInv
    <3> QED BY <1>5, <3>1, <3>2, <3>3, <3>4, <3>5, EmptyListFacts
  <2>2. CASE caller # "tools"
    <3>1. output' = tidy /\ prior' = prior
      BY <1>0, <2>2
    <3> QED BY <1>1, <1>2, <1>4, <1>5, <1>7, <3>1 DEF StyleInv
  <2> QED BY <2>1, <2>2
<1>9. /\ calls' \in Seq(Seq(Nat))
      /\ caller # "code" => \/ found = <<>> /\ calls' = <<>>
                            \/ calls' # <<>> /\ Len(calls') = 1 /\ Head(calls') = found
  <2>1. calls \in Seq(Seq(Nat)) /\ Append(calls, found) \in Seq(Seq(Nat))
    BY <1>6, AppendProperties DEF IdInv
  <2>2. calls = <<>> => /\ Append(calls, found) # <<>> /\ Len(Append(calls, found)) = 1
                        /\ Head(Append(calls, found)) = found
    BY <1>6, <2>1, AppendProperties, HeadTailAppend, EmptySeq
  <2> QED BY <1>0, <1>4, <2>1, <2>2
<1>10. IdInv'
  <2>1. <<>> \in Seq(Nat) /\ Len(<<>>) = 0
    BY EmptySeq
  <2> QED BY <1>0, <1>1, <1>5, <1>8, <1>9, <2>1 DEF IdInv
<1>11. StyleInv'
  BY <1>0, <1>4, <1>8 DEF StyleInv
<1>12. StreamInv'
  BY <1>0 DEF StreamInv
<1>13. RoundInv'
  <2>1. CASE caller = "code"
    BY <1>0, <1>8, <2>1 DEF RoundInv
  <2>2. CASE caller # "code"
    <3>1. pc' = "tools"
      BY <1>0, <2>2
    <3>2. found = <<>> => Answered(output')
      <4>1. found = <<>> => Range(found) = {}
        BY DEF Range
      <4> QED BY <1>8, <2>2, <4>1 DEF Answered
    <3>3. calls' # <<>> =>
            /\ Len(calls') = 1 /\ Round(Head(calls))' /\ AnsweredBut(Head(calls))'
            /\ Range(Head(calls')) \cap Range(executed') = {}
      <4> SUFFICES ASSUME calls' # <<>>
                   PROVE  /\ Len(calls') = 1 /\ Round(Head(calls))' /\ AnsweredBut(Head(calls))'
                          /\ Range(Head(calls')) \cap Range(executed') = {}
        OBVIOUS
      <4>1. Len(calls') = 1 /\ Head(calls') = found
        BY <1>9, <2>2
      <4>2. AnsweredBut(Head(calls))'
        BY <1>8, <2>2, <4>1 DEF AnsweredBut
      <4>3. Round(Head(calls))'
        BY <1>0, <1>6, <1>8, <4>1 DEF Round
      <4>4. Range(Head(calls')) \cap Range(executed') = {}
        BY <1>0, <1>6, <4>1 DEF Range
      <4> QED BY <4>1, <4>2, <4>3, <4>4
    <3> QED BY <1>0, <1>8, <1>9, <2>2, <3>1, <3>2, <3>3 DEF RoundInv
  <2> QED BY <2>1, <2>2
<1> QED BY <1>10, <1>11, <1>12, <1>13

\* The calls of a round that the items do not have yet.
LEMMA NewCalls ==
  ASSUME NEW b \in Seq(Nat), NEW P \in SUBSET (1..Len(b))
  PROVE  /\ ItemList([i \in DOMAIN InOrder(P) |-> Call(b[InOrder(P)[i]])])
         /\ \A type : type # "call" => Without([i \in DOMAIN InOrder(P) |-> Call(b[InOrder(P)[i]])], type)
         /\ \A j \in DOMAIN [i \in DOMAIN InOrder(P) |-> Call(b[InOrder(P)[i]])] :
              [i \in DOMAIN InOrder(P) |-> Call(b[InOrder(P)[i]])][j].id \in Range(b)
<1> DEFINE at == InOrder(P)
           n == Cardinality(P)
           new == [i \in DOMAIN at |-> Call(b[at[i]])]
<1>1. Len(b) \in Nat /\ DOMAIN b = 1..Len(b) /\ \A k \in 1..Len(b) : b[k] \in Nat /\ k \in Nat
  BY LenProperties
<1>2. IsFiniteSet(P) /\ P \in SUBSET Nat
  <2>1. IsFiniteSet(1..Len(b)) /\ \A k \in 1..Len(b) : k \in Nat
    BY <1>1, FS_Interval
  <2> QED BY <2>1, FS_Subset
<1>3. n \in Nat /\ at \in [1..n -> P]
  BY <1>2, InOrderIs
<1> HIDE DEF at, n
<1>4. \A k \in Nat : IsItem(Call(k)) /\ Call(k).type = "call" /\ Call(k).id = k
  BY NewItems
<1>5. DOMAIN new = 1..n /\ \A i \in 1..n : /\ at[i] \in DOMAIN b /\ b[at[i]] \in Nat
                                           /\ new[i] = Call(b[at[i]])
  BY <1>1, <1>3
<1>6. new \in [1..n -> Range(new)]
  BY <1>5 DEF Range
<1> HIDE DEF new
<1>7. ItemList(new)
  <2>1. \A i \in 1..n : IsItem(new[i])
    BY <1>4, <1>5
  <2> QED BY <1>3, <1>6, <2>1, MakeList
<1>8. \A type : type # "call" => Without(new, type)
  BY <1>4, <1>5 DEF Without
<1>9. \A i \in DOMAIN new : new[i].id \in Range(b)
  BY <1>4, <1>5 DEF Range
<1> QED BY <1>7, <1>8, <1>9 DEF new, at

LEMMA ToolRoundStep ==
  ASSUME AnswerInv, ToolRound PROVE AnswerInv'
<1> USE DEF AnswerInv
<1>0. PICK fresh, all :
        /\ fresh = LET P == {i \in 1..Len(batch') : batch'[i] \notin Ids(output, "call")}
                   IN  [i \in DOMAIN InOrder(P) |-> Call(batch'[InOrder(P)[i]])]
        /\ all = output \o fresh /\ output' = all
        /\ pc = "tools" /\ calls # <<>> /\ pc' = "calling" /\ caller' = caller
        /\ batch' = Head(calls) /\ calls' = Tail(calls) /\ ran' = 0
        /\ UNCHANGED <<prior, acc, issued, executed, response, style>>
  BY DEF ToolRound, MoreTools, reading, config
<1>1. /\ IdInv /\ ItemList(output) /\ calls \in Seq(Seq(Nat)) /\ acc = <<>> /\ issued \in Nat
      /\ Len(calls) = 1
      /\ Round(Head(calls)) /\ AnsweredBut(Head(calls))
      /\ Range(Head(calls)) \cap Range(executed) = {}
  BY <1>0 DEF IdInv, RoundInv
<1>2. Head(calls) \in Seq(Nat) /\ Tail(calls) = <<>> /\ Tail(calls) \in Seq(Seq(Nat))
  <2>1. /\ Head(calls) \in Seq(Nat) /\ Tail(calls) \in Seq(Seq(Nat))
        /\ Len(Tail(calls)) = Len(calls) - 1
    BY <1>0, <1>1, HeadTailProperties
  <2>2. Len(Tail(calls)) = 0
    BY <1>1, <2>1
  <2>3. \A s \in Seq(Seq(Nat)) : s # <<>> => Len(s) \in Nat \ {0}
    BY EmptySeq
  <2>4. Tail(calls) = <<>>
    BY <2>1, <2>2, <2>3
  <2> QED BY <2>1, <2>4
<1>3. PICK b \in Seq(Nat) : b = Head(calls) /\ batch' = b
  BY <1>0, <1>2
<1>4. Len(b) \in Nat /\ DOMAIN b = 1..Len(b)
  BY <1>3, LenProperties
<1>5. /\ ItemList(fresh) /\ (\A type : type # "call" => Without(fresh, type))
      /\ \A i \in DOMAIN fresh : fresh[i].id \in Range(b)
  <2> DEFINE P == {i \in 1..Len(b) : b[i] \notin Ids(output, "call")}
  <2>1. P \in SUBSET (1..Len(b))
    OBVIOUS
  <2>2. fresh = [i \in DOMAIN InOrder(P) |-> Call(b[InOrder(P)[i]])]
    BY <1>0, <1>3
  <2> HIDE DEF P
  <2> QED BY <2>1, <2>2, NewCalls
<1>6. /\ ItemList(all)
      /\ \A id : OneResult(output, id) => OneResult(all, id)
      /\ \A id : NoResult(output, id) => NoResult(all, id)
      /\ \A n : ResultsUpto(output, n) => ResultsUpto(all, n)
      /\ Without(output, "code") => Without(all, "code")
      /\ CallsFrom(all, output, fresh)
  <2>1. Without(fresh, "result") /\ Without(fresh, "code")
    BY <1>5
  <2>2. all = output \o fresh
    BY <1>0
  <2> QED BY <1>1, <1>5, <2>1, <2>2, ConcatFacts
<1>7. IdInv'
  <2>1. 0 \in 0..Len(b)
    BY <1>4
  <2> QED BY <1>0, <1>1, <1>2, <1>3, <1>6, <2>1 DEF IdInv
<1>8. StyleInv'
  BY <1>0, <1>6 DEF StyleInv
<1>9. StreamInv'
  BY <1>0 DEF StreamInv
<1>10. AnsweredBut(batch)'
  <2>1. \A i \in DOMAIN all : all[i].type = "call" => OneResult(all, all[i].id) \/ all[i].id \in Range(b)
    BY <1>1, <1>3, <1>5, <1>6 DEF AnsweredBut, CallsFrom
  <2> QED BY <1>0, <1>3, <2>1 DEF AnsweredBut
<1>11. Round(batch)'
  BY <1>0, <1>1, <1>3, <1>6 DEF Round
<1>12. \A k \in DOMAIN b : b[k] \notin Range(executed)
  BY <1>1, <1>3 DEF Range
<1>13. RoundInv'
  BY <1>0, <1>2, <1>3, <1>10, <1>11, <1>12 DEF RoundInv
<1> QED BY <1>7, <1>8, <1>9, <1>13

LEMMA RunToolStep ==
  ASSUME AnswerInv, RunTool PROVE AnswerInv'
<1> USE DEF AnswerInv
<1>0. /\ pc = "calling" /\ ran < Len(batch) /\ ran' = ran + 1
      /\ executed' \in {executed, Append(executed, batch[ran + 1])}
      /\ UNCHANGED <<pc, caller, output, prior, acc, calls, batch, issued, response, style>>
  BY DEF RunTool, control, items, reading, config
<1>1. /\ batch \in Seq(Nat) /\ executed \in Seq(Nat) /\ issued \in Nat /\ acc = <<>>
      /\ ran \in 0..Len(batch) /\ IsInjective(executed)
      /\ Len(batch) \in Nat /\ DOMAIN batch = 1..Len(batch)
      /\ \A k \in DOMAIN batch : batch[k] \in Nat
  BY <1>0, LenProperties DEF IdInv
<1>2. /\ IsInjective(batch) /\ \A k \in DOMAIN batch : batch[k] <= issued
      /\ \A k \in DOMAIN batch : k > ran => batch[k] \notin Range(executed)
  BY <1>0 DEF RoundInv, Round
<1>3. ran + 1 \in DOMAIN batch /\ ran + 1 > ran /\ ran' \in 0..Len(batch)
      /\ \A k \in DOMAIN batch : k > ran + 1 => k > ran /\ k # ran + 1
  BY <1>0, <1>1
<1>4. PICK id \in Nat : /\ id = batch[ran + 1] /\ id <= issued /\ id \notin Range(executed)
                        /\ \A k \in DOMAIN batch : k > ran + 1 => batch[k] # id
  <2>1. \A k \in DOMAIN batch : k > ran + 1 => batch[k] # batch[ran + 1]
    BY <1>2, <1>3 DEF IsInjective
  <2> QED BY <1>1, <1>2, <1>3, <2>1
<1>5. /\ \A k \in DOMAIN executed : executed[k] <= issued
      /\ issued - 0 = issued /\ Len(executed) \in Nat /\ DOMAIN executed = 1..Len(executed)
      /\ Len(<<>>) = 0
  BY OldIds, <1>1, LenProperties, EmptySeq
<1> DEFINE more == Append(executed, id)
<1>6. /\ more \in Seq(Nat) /\ Len(more) = Len(executed) + 1 /\ more[Len(executed) + 1] = id
      /\ \A k \in 1..Len(executed) : more[k] = executed[k]
  BY <1>1, AppendProperties
<1> HIDE DEF more
<1>7. DOMAIN more = 1..Len(executed) + 1
  BY <1>6, LenProperties
<1>8. \A k \in DOMAIN more : \/ (k \in DOMAIN executed /\ more[k] = executed[k])
                             \/ (k = Len(executed) + 1 /\ more[k] = id)
  BY <1>5, <1>6, <1>7
<1>9. IsInjective(more)
  <2>1. \A k \in DOMAIN executed : executed[k] # id
    BY <1>4 DEF Range
  <2> QED BY <1>1, <1>8, <2>1 DEF IsInjective
<1>10. \A k \in DOMAIN more : more[k] <= issued
  BY <1>4, <1>5, <1>8
<1>11. \A k \in DOMAIN batch : k > ran + 1 => batch[k] \notin Range(more)
  <2>1. \A x \in Range(more) : x \in Range(executed) \/ x = id
    BY <1>8 DEF Range
  <2> QED BY <1>2, <1>3, <1>4, <2>1
<1>12. executed' \in {executed, more}
  BY <1>0, <1>4 DEF more
<1>13. /\ executed' \in Seq(Nat) /\ IsInjective(executed')
       /\ \A k \in DOMAIN executed' : executed'[k] <= issued
       /\ \A k \in DOMAIN batch : k > ran + 1 => batch[k] \notin Range(executed')
  BY <1>1, <1>2, <1>3, <1>5, <1>6, <1>9, <1>10, <1>11, <1>12
<1>14. IdInv'
  BY <1>0, <1>1, <1>3, <1>5, <1>13 DEF IdInv
<1>15. StyleInv'
  BY <1>0 DEF StyleInv
<1>16. StreamInv'
  BY <1>0 DEF StreamInv
<1>17. RoundInv'
  BY <1>0, <1>13 DEF RoundInv, Round, AnsweredBut
<1> QED BY <1>14, <1>15, <1>16, <1>17

\* One list and then another.
Joined(c, a, b) ==
  /\ ItemList(c) /\ Len(c) = Len(a) + Len(b)
  /\ \A i \in 1..Len(a) : c[i] = a[i]
  /\ \A i \in 1..Len(b) : c[Len(a) + i] = b[i]

LEMMA ConcatJoins == ASSUME NEW a, ItemList(a), NEW b, ItemList(b) PROVE Joined(a \o b, a, b)
BY ListConcat DEF Joined

\* The results of a round after a list in which only its calls are unanswered.
LEMMA ResultsAnswer ==
  ASSUME NEW a, ItemList(a), NEW b \in Seq(Nat), IsInjective(b), NEW n, ResultsUpto(a, n),
         \A k \in DOMAIN b : b[k] <= n /\ NoResult(a, b[k]),
         \A i \in DOMAIN a : a[i].type = "call" => OneResult(a, a[i].id) \/ a[i].id \in Range(b)
  PROVE  /\ ItemList(a \o [k \in DOMAIN b |-> Result(b[k])])
         /\ Answered(a \o [k \in DOMAIN b |-> Result(b[k])])
         /\ ResultsUpto(a \o [k \in DOMAIN b |-> Result(b[k])], n)
         /\ Without(a, "code") => Without(a \o [k \in DOMAIN b |-> Result(b[k])], "code")
<1>0. PICK results : results = [k \in DOMAIN b |-> Result(b[k])]
  OBVIOUS
<1> DEFINE c == a \o results
<1>1. Len(b) \in Nat /\ DOMAIN b = 1..Len(b) /\ \A k \in 1..Len(b) : b[k] \in Nat
  BY LenProperties
<1>2. \A id \in Nat : IsItem(Result(id)) /\ Result(id).type = "result" /\ Result(id).id = id
  BY NewItems
<1>3. /\ DOMAIN results = 1..Len(b)
      /\ \A k \in 1..Len(b) : IsItem(results[k]) /\ results[k].type = "result" /\ results[k].id = b[k]
  BY <1>0, <1>1, <1>2
<1>4. results \in [1..Len(b) -> Range(results)]
  BY <1>0, <1>3 DEF Range
<1>5. ItemList(results) /\ Len(results) = Len(b)
  BY <1>1, <1>3, <1>4, MakeList
<1>6. /\ ItemList(c) /\ Len(c) = Len(a) + Len(b)
      /\ \A i \in 1..Len(a) : c[i] = a[i]
      /\ \A i \in 1..Len(b) : c[Len(a) + i] = results[i]
  <2>1. Joined(c, a, results)
    BY <1>5, ConcatJoins
  <2> HIDE DEF c
  <2> QED BY <1>5, <2>1 DEF Joined
<1> HIDE DEF c
<1>7. Len(a) \in Nat /\ DOMAIN a = 1..Len(a) /\ DOMAIN c = 1..Len(a) + Len(b)
  BY <1>6, ListIs
<1>8. \A i \in DOMAIN a : i \in DOMAIN c /\ c[i] = a[i]
  BY <1>1, <1>6, <1>7
<1>9. \A k \in DOMAIN b : /\ Len(a) + k \in DOMAIN c
                          /\ c[Len(a) + k].type = "result" /\ c[Len(a) + k].id = b[k]
  BY <1>1, <1>3, <1>6, <1>7
<1>10. \A i \in DOMAIN c : (i \in DOMAIN a /\ c[i] = a[i]) \/ (\E k \in DOMAIN b : i = Len(a) + k)
  <2> SUFFICES ASSUME NEW i \in DOMAIN c, i \notin DOMAIN a
               PROVE  \E k \in DOMAIN b : i = Len(a) + k
    BY <1>8
  <2>1. i - Len(a) \in DOMAIN b /\ i = Len(a) + (i - Len(a))
    BY <1>1, <1>7
  <2> QED BY <2>1
<1>11. \A i \in DOMAIN c :
         \/ (i \in DOMAIN a /\ c[i] = a[i])
         \/ (\E k \in DOMAIN b : i = Len(a) + k /\ c[i].type = "result" /\ c[i].id = b[k])
  BY <1>9, <1>10
<1>12. ASSUME NEW id, OneResult(a, id), id \notin Range(b) PROVE OneResult(c, id)
  <2>1. PICK j \in DOMAIN a : /\ a[j].type = "result" /\ a[j].id = id
                              /\ \A k \in DOMAIN a : a[k].type = "result" /\ a[k].id = id => k = j
    BY <1>12 DEF OneResult
  <2>2. \A k \in DOMAIN b : b[k] # id
    BY <1>12 DEF Range
  <2> QED BY <1>8, <1>11, <2>1, <2>2 DEF OneResult
<1>13. ASSUME NEW k \in DOMAIN b PROVE OneResult(c, b[k])
  <2>1. \A j \in DOMAIN a : a[j].type = "result" => a[j].id # b[k]
    BY DEF NoResult
  <2>2. \A l \in DOMAIN b : b[l] = b[k] => l = k
    BY DEF IsInjective
  <2>3. \A i \in DOMAIN c : c[i].type = "result" /\ c[i].id = b[k] => i = Len(a) + k
    BY <1>11, <2>1, <2>2
  <2> QED BY <1>9, <2>3 DEF OneResult
<1>14. \A id \in Range(b) : OneResult(c, id)
  BY <1>13 DEF Range
<1>15. Answered(c)
  <2> SUFFICES ASSUME NEW i \in DOMAIN c, c[i].type = "call" PROVE OneResult(c, c[i].id)
    BY DEF Answered
  <2>1. i \in DOMAIN a /\ c[i] = a[i]
    BY <1>11
  <2> QED BY <1>12, <1>14, <2>1
<1>16. ResultsUpto(c, n) /\ (Without(a, "code") => Without(c, "code"))
  BY <1>11 DEF ResultsUpto, Without
<1> QED BY <1>0, <1>6, <1>15, <1>16 DEF c

LEMMA ToolResultsStep ==
  ASSUME AnswerInv, ToolResults PROVE AnswerInv'
<1> USE DEF AnswerInv
<1> DEFINE called == [i \in DOMAIN output |->
                        IF output[i].type = "call" /\ output[i].id \in Range(batch)
                        THEN [output[i] EXCEPT !.status = "completed"] ELSE output[i]]
           round == called \o [i \in DOMAIN batch |-> Result(batch[i])]
           all   == round \o <<MessageItem(<<>>)>>
<1>0. /\ pc = "calling" /\ pc' = "request" /\ output' = all
      /\ UNCHANGED <<caller, prior, acc, calls, batch, ran, issued, executed, response, style>>
  BY DEF ToolResults, Goto, tools, reading, config
<1>1. /\ ItemList(output) /\ batch \in Seq(Nat) /\ IsInjective(batch) /\ calls = <<>> /\ acc = <<>>
      /\ \A k \in DOMAIN batch : batch[k] <= issued /\ NoResult(output, batch[k])
      /\ AnsweredBut(batch)
  BY <1>0 DEF IdInv, RoundInv, Round
<1>2. DOMAIN output = 1..Len(output) /\ Len(output) \in Nat /\ \A i \in DOMAIN output : IsItem(output[i])
  BY <1>1, ListIs DEF ItemList
<1>3. Retouched(called, output)
  <2>1. \A i \in 1..Len(output) : /\ IsItem(called[i])
                                  /\ called[i].type = output[i].type /\ called[i].id = output[i].id
    BY <1>2 DEF IsItem
  <2>2. called \in [1..Len(output) -> Range(called)]
    BY <1>2 DEF Range
  <2> HIDE DEF called
  <2>3. ItemList(called) /\ Len(called) = Len(output)
    BY <1>2, <2>1, <2>2, MakeList
  <2> QED BY <2>1, <2>3 DEF Retouched
<1> HIDE DEF called
<1>4. /\ ItemList(called)
      /\ \A id : OneResult(output, id) => OneResult(called, id)
      /\ \A id : NoResult(output, id) => NoResult(called, id)
      /\ \A n : ResultsUpto(output, n) => ResultsUpto(called, n)
      /\ \A i \in DOMAIN called : called[i].type = "call" =>
              i \in DOMAIN output /\ output[i].type = "call" /\ output[i].id = called[i].id
  BY <1>1, <1>3, RetouchedKeeps, KeptFacts
<1>5. Without(output, "code") => Without(called, "code")
  BY <1>1, <1>3, RetouchedWithout
<1>6. ResultsUpto(output, issued) /\ issued - 0 = issued
  BY OldIds
<1>7. \A i \in DOMAIN called : called[i].type = "call" =>
        OneResult(called, called[i].id) \/ called[i].id \in Range(batch)
  BY <1>1, <1>4 DEF AnsweredBut
<1>8. \A k \in DOMAIN batch : batch[k] <= issued /\ NoResult(called, batch[k])
  BY <1>1, <1>4
<1>9. /\ ItemList(round) /\ Answered(round) /\ ResultsUpto(round, issued)
      /\ Without(called, "code") => Without(round, "code")
  <2>1. ResultsUpto(called, issued)
    BY <1>4, <1>6
  <2> QED BY <1>1, <1>4, <1>7, <1>8, <2>1, ResultsAnswer
<1> HIDE DEF round
<1>10. /\ ItemList(<<MessageItem(<<>>)>>)
       /\ \A type : type # "message" => Without(<<MessageItem(<<>>)>>, type)
  BY OneMessage
<1>11. /\ ItemList(all) /\ ResultsUpto(all, issued)
       /\ Without(round, "code") => Without(all, "code")
       /\ \A id : OneResult(round, id) => OneResult(all, id)
       /\ \A i \in DOMAIN all : all[i].type = "call" =>
            \E j \in DOMAIN round : round[j].type = "call" /\ round[j].id = all[i].id
  <2> DEFINE one == <<MessageItem(<<>>)>>
  <2>1. /\ ItemList(one) /\ Without(one, "call") /\ Without(one, "code") /\ Without(one, "result")
    BY <1>10
  <2> HIDE DEF one
  <2>2. all = round \o one
    BY DEF one
  <2> HIDE DEF all
  <2> QED BY <1>9, <2>1, <2>2, ConcatFacts DEF Without, CallsFrom
<1> HIDE DEF all
<1>12. Answered(all)
  BY <1>9, <1>11 DEF Answered
<1>13. IdInv'
  <2>1. Len(<<>>) = 0
    BY EmptySeq
  <2> QED BY <1>0, <1>1, <1>6, <1>11, <2>1 DEF IdInv
<1>14. StyleInv'
  BY <1>0, <1>5, <1>9, <1>11 DEF StyleInv
<1>15. StreamInv' /\ RoundInv'
  BY <1>0, <1>1, <1>12 DEF StreamInv, RoundInv
<1> QED BY <1>13, <1>14, <1>15

LEMMA AnswerStep ==
  AnswerInv /\ [GenerationNext]_generationVars => AnswerInv'
<1> SUFFICES ASSUME AnswerInv, [GenerationNext]_generationVars PROVE AnswerInv'
  OBVIOUS
<1>1. CASE Deltas
  BY <1>1, TextSteps, CallDeltaStep DEF Deltas
<1>2. CASE Events
  <2>1. CASE \E type \in {"message", "reasoning", "call"} : EventAdded(type)
    BY <2>1, EventAddedStep
  <2>2. CASE \E i \in DOMAIN response : EventDelta(i) \/ EventDone(i)
    BY <2>2, EventDeltaStep
  <2>3. CASE EventCompleted
    BY <2>3, EventCompletedStep
  <2> QED BY <1>2, <2>1, <2>2, <2>3 DEF Events
<1>3. CASE \/ UNCHANGED generationVars
           \/ ResponseStreams \/ PayloadFails \/ SaveWhole \/ ToolsOver \/ ResultFails
           \/ ToolRequestFails \/ CodeRound \/ CodeRequestFails \/ BackgroundEnds
           \/ BackgroundFails \/ CancelGeneration \/ CancelSave
  BY <1>3, QuietSteps
<1>4. CASE ResponseWhole
  BY <1>4, ResponseWholeStep
<1>5. CASE StreamEnds
  BY <1>5, StreamEndsStep
<1>6. CASE StreamFails
  BY <1>6, StreamFailsStep
<1>7. CASE ToolRound
  BY <1>7, ToolRoundStep
<1>8. CASE RunTool
  BY <1>8, RunToolStep
<1>9. CASE ToolResults
  BY <1>9, ToolResultsStep
<1>10. CASE ToolRequest \/ CodeRequest
  BY <1>10, RequestSteps
<1>11. CASE CodeResult
  BY <1>11, CodeResultStep
<1>12. CASE Save
  BY <1>12, SaveStep
<1> QED BY <1>1, <1>2, <1>3, <1>4, <1>5, <1>6, <1>7, <1>8, <1>9, <1>10, <1>11, <1>12
        DEF GenerationNext, Progress

LEMMA AnsweredOnce == AnswerInv => CallsAnsweredOnce
<1> SUFFICES ASSUME AnswerInv PROVE CallsAnsweredOnce
  OBVIOUS
<1>1. ExecutedOnce
  BY DEF AnswerInv, IdInv, ExecutedOnce
<1>2. pc \in {"request", "ask"} => Answered(output)
  BY DEF AnswerInv, RoundInv, StyleInv
<1>3. ASSUME NEW i \in DOMAIN output, OneResult(output, output[i].id)
      PROVE  Cardinality({j \in DOMAIN output :
                            output[j].type = "result" /\ output[j].id = output[i].id}) = 1
  <2> DEFINE found == {j \in DOMAIN output : output[j].type = "result" /\ output[j].id = output[i].id}
  <2>1. \E j : found = {j}
    BY <1>3 DEF OneResult
  <2> QED BY <2>1, FS_Singleton
<1>4. AnsweredBeforeAsking
  BY <1>2, <1>3 DEF AnsweredBeforeAsking, Answered
<1> QED BY <1>1, <1>4 DEF CallsAnsweredOnce

\* However many rounds of tools and code there are, and whatever calls the
\* provider repeats, cuts into deltas or is stopped in, no call is executed
\* twice and a request goes out only when each call has exactly one result
\* (middleware.py:4013-4275).
THEOREM CallsAreAnsweredOnce == GenerationSpec => []CallsAnsweredOnce
<1>1. GenerationInit => AnswerInv
  BY AnswerInit
<1>2. AnswerInv /\ [GenerationNext]_generationVars => AnswerInv'
  BY AnswerStep
<1>3. AnswerInv => CallsAnsweredOnce
  BY AnsweredOnce
<1> QED BY <1>1, <1>2, <1>3, PTL DEF GenerationSpec

-----------------------------------------------------------------------------
(* The items of a response are the provider's                              *)

\* A message that is not continued starts with no items, and what has been
\* received only grows, so that such a message stays one.
AlignInv ==
  style = "responses" =>
    /\ received \in Seq(Range(received))
    /\ pc = "payload" /\ Fresh => output = <<>>
    /\ ResponseAligned

\* The item at each place is the same but for its status.
SameItems(out, final) ==
  /\ Len(out) = Len(final)
  /\ \A i \in DOMAIN out :
       out[i].type = final[i].type /\ out[i].text = final[i].text /\ out[i].id = final[i].id

LEMMA AppendWord ==
  ASSUME NEW s, s \in Seq(Range(s)), NEW w
  PROVE  /\ Append(s, w) \in Seq(Range(Append(s, w)))
         /\ s # <<>> => Append(s, w) # <<>> /\ Head(Append(s, w)) = Head(s)
<1> DEFINE S == Range(s) \cup {w}
           new == Append(s, w)
<1>1. s \in Seq(S) /\ w \in S /\ Len(s) \in Nat
  BY LenProperties, SeqDef
<1>2. new \in Seq(S) /\ new # <<>> /\ Head(new) = IF s = <<>> THEN w ELSE Head(s)
  <2>1. new \in Seq(S) /\ new # <<>>
    BY <1>1, AppendProperties
  <2>2. Head(new) = IF s = <<>> THEN w ELSE Head(s)
    BY <1>1, HeadTailAppend
  <2> QED BY <2>1, <2>2
<1>3. Len(new) \in Nat /\ new \in [1..Len(new) -> S]
  BY <1>2, LenProperties
<1> HIDE DEF new
<1>4. new \in [1..Len(new) -> Range(new)]
  BY <1>3 DEF Range
<1>5. new \in Seq(Range(new))
  BY <1>3, <1>4, SeqDef
<1> QED BY <1>2, <1>5 DEF new

LEMMA AppendSame ==
  ASSUME NEW out, ItemList(out), NEW final, ItemList(final), SameItems(out, final), NEW r, IsItem(r)
  PROVE  SameItems(Append(out, r), Append(final, r))
<1> DEFINE a == Append(out, r)
           b == Append(final, r)
<1>1. /\ ItemList(a) /\ Len(a) = Len(out) + 1 /\ a[Len(out) + 1] = r
      /\ \A i \in 1..Len(out) : a[i] = out[i]
      /\ Len(b) = Len(final) + 1 /\ b[Len(final) + 1] = r
      /\ \A i \in 1..Len(final) : b[i] = final[i]
  BY ListAppend
<1> HIDE DEF a, b
<1>2. /\ Len(out) \in Nat /\ DOMAIN out = 1..Len(out) /\ Len(out) = Len(final)
      /\ DOMAIN a = 1..Len(out) + 1
  BY <1>1, ListIs DEF SameItems
<1>3. \A i \in DOMAIN a : i \in 1..Len(out) \/ i = Len(out) + 1
  BY <1>2
<1>4. SameItems(a, b)
  BY <1>1, <1>2, <1>3 DEF SameItems
<1> QED BY <1>4 DEF a, b

LEMMA CompletedSame ==
  ASSUME NEW final, ItemList(final) PROVE SameItems(Completed(final), final)
<1>1. Len(final) \in Nat /\ \A i \in 1..Len(final) : IsItem(final[i])
  BY ListIs DEF ItemList
<1> DEFINE f == Completed(final)
<1>2. /\ f \in [1..Len(final) -> Range(f)]
      /\ \A i \in 1..Len(final) : /\ IsItem(f[i]) /\ f[i].type = final[i].type
                                  /\ f[i].text = final[i].text /\ f[i].id = final[i].id
  <2>1. /\ f \in [1..Len(final) -> Range(f)]
        /\ \A i \in 1..Len(final) :
             f[i] \in {final[i], [final[i] EXCEPT !.status = "completed"]}
    BY DEF Completed, Range
  <2> HIDE DEF f
  <2> QED BY <1>1, <2>1 DEF IsItem
<1> HIDE DEF f
<1>3. ItemList(f) /\ Len(f) = Len(final) /\ DOMAIN f = 1..Len(final)
  BY <1>1, <1>2, MakeList
<1>4. SameItems(f, final)
  BY <1>2, <1>3 DEF SameItems
<1> QED BY <1>4 DEF f

\* An event for an item finds it at its place.
LEMMA DeltaSame ==
  ASSUME NEW out, ItemList(out), NEW final, ItemList(final), SameItems(out, final),
         NEW i \in DOMAIN final, NEW word
  PROVE  /\ final[i].type \in {"message", "reasoning"} =>
               SameItems(ItemDelta(out, i, word), [final EXCEPT ![i].text = Append(@, word)])
         /\ SameItems(FieldDone(out, i, final[i]), [final EXCEPT ![i].status = "completed"])
<1>1. /\ Len(out) \in Nat /\ DOMAIN out = 1..Len(out) /\ DOMAIN final = 1..Len(out) /\ Len(final) = Len(out)
      /\ \A j \in 1..Len(out) : IsItem(out[j]) /\ IsItem(final[j])
      /\ \A j \in 1..Len(out) : /\ out[j].type = final[j].type
                                /\ out[j].text = final[j].text /\ out[j].id = final[j].id
  BY ListIs DEF SameItems, ItemList
<1>2. ASSUME NEW r, IsItem(r), NEW q, IsItem(q),
             r.type = q.type, r.text = q.text, r.id = q.id
      PROVE  SameItems([out EXCEPT ![i] = r], [final EXCEPT ![i] = q])
  <2>1. /\ ItemList([out EXCEPT ![i] = r]) /\ Len([out EXCEPT ![i] = r]) = Len(out)
        /\ \A j \in 1..Len(out) : [out EXCEPT ![i] = r][j] = IF j = i THEN r ELSE out[j]
        /\ Len([final EXCEPT ![i] = q]) = Len(out)
        /\ \A j \in 1..Len(out) : [final EXCEPT ![i] = q][j] = IF j = i THEN q ELSE final[j]
    <3>1. i \in 1..Len(out) /\ i \in 1..Len(final)
      BY <1>1
    <3>2. /\ ItemList([out EXCEPT ![i] = r]) /\ Len([out EXCEPT ![i] = r]) = Len(out)
          /\ \A j \in 1..Len(out) : [out EXCEPT ![i] = r][j] = IF j = i THEN r ELSE out[j]
      BY <1>2, <3>1, ListSet
    <3>3. /\ Len([final EXCEPT ![i] = q]) = Len(final)
          /\ \A j \in 1..Len(final) : [final EXCEPT ![i] = q][j] = IF j = i THEN q ELSE final[j]
      BY <1>2, <3>1, ListSet
    <3> QED BY <1>1, <3>2, <3>3
  <2>2. DOMAIN [out EXCEPT ![i] = r] = 1..Len(out)
    BY <1>1
  <2> QED BY <1>1, <1>2, <2>1, <2>2 DEF SameItems
<1>3. ASSUME NEW text
      PROVE  SameItems([out EXCEPT ![i].text = text], [final EXCEPT ![i].text = text])
  <2> DEFINE r == [out[i] EXCEPT !.text = text]
             q == [final[i] EXCEPT !.text = text]
  <2>1. IsItem(r) /\ IsItem(q) /\ r.type = q.type /\ r.text = q.text /\ r.id = q.id
    BY <1>1 DEF IsItem
  <2>2. /\ [out EXCEPT ![i].text = text] = [out EXCEPT ![i] = r]
        /\ [final EXCEPT ![i].text = text] = [final EXCEPT ![i] = q]
    OBVIOUS
  <2> HIDE DEF r, q
  <2> QED BY <1>2, <2>1, <2>2
<1>4. ASSUME NEW r, IsItem(r), r.type = out[i].type, r.text = out[i].text, r.id = out[i].id
      PROVE  SameItems([out EXCEPT ![i] = r], [final EXCEPT ![i].status = "completed"])
  <2> DEFINE q == [final[i] EXCEPT !.status = "completed"]
  <2>1. IsItem(q) /\ r.type = q.type /\ r.text = q.text /\ r.id = q.id
    BY <1>1, <1>4 DEF IsItem
  <2>2. [final EXCEPT ![i].status = "completed"] = [final EXCEPT ![i] = q]
    OBVIOUS
  <2> HIDE DEF q
  <2> QED BY <1>2, <1>4, <2>1, <2>2
<1>5. final[i].type \in {"message", "reasoning"} =>
        SameItems(ItemDelta(out, i, word), [final EXCEPT ![i].text = Append(@, word)])
  <2> SUFFICES ASSUME final[i].type \in {"message", "reasoning"}
               PROVE  SameItems(ItemDelta(out, i, word), [final EXCEPT ![i].text = Append(@, word)])
    OBVIOUS
  <2>1. PICK text : text = Append(out[i].text, word)
    OBVIOUS
  <2>2. ItemDelta(out, i, word) = [out EXCEPT ![i].text = text]
    BY <1>1, <2>1 DEF ItemDelta
  <2>3. [final EXCEPT ![i].text = Append(@, word)] = [final EXCEPT ![i].text = text]
    BY <1>1, <2>1
  <2> QED BY <1>3, <2>2, <2>3
<1>6. SameItems(FieldDone(out, i, final[i]), [final EXCEPT ![i].status = "completed"])
  <2>1. CASE out[i].type = "message"
    <3> DEFINE r == [out[i] EXCEPT !.text = final[i].text]
    <3>1. IsItem(r) /\ r.type = out[i].type /\ r.text = out[i].text /\ r.id = out[i].id
      BY <1>1 DEF IsItem
    <3>2. FieldDone(out, i, final[i]) = [out EXCEPT ![i] = r]
      BY <1>1, <2>1 DEF FieldDone
    <3> HIDE DEF r
    <3> QED BY <1>4, <3>1, <3>2
  <2>2. CASE out[i].type = "reasoning"
    <3> DEFINE r == [out[i] EXCEPT !.status = "completed"]
    <3>1. IsItem(r) /\ r.type = out[i].type /\ r.text = out[i].text /\ r.id = out[i].id
      BY <1>1 DEF IsItem
    <3>2. FieldDone(out, i, final[i]) = [out EXCEPT ![i] = r]
      BY <1>1, <2>2 DEF FieldDone
    <3> HIDE DEF r
    <3> QED BY <1>4, <3>1, <3>2
  <2>3. CASE out[i].type \notin {"message", "reasoning"}
    <3> DEFINE r == out[i]
    <3>1. FieldDone(out, i, final[i]) = out
      BY <1>1, <2>3 DEF FieldDone
    <3>2. out = [out EXCEPT ![i] = out[i]]
      BY <1>1, ListIs
    <3> QED BY <1>1, <1>4, <3>1, <3>2
  <2> QED BY <2>1, <2>2, <2>3
<1> QED BY <1>5, <1>6

LEMMA AlignInit == GenerationInit => AlignInv
<1> SUFFICES ASSUME GenerationInit PROVE AlignInv
  OBVIOUS
<1>1. received \in Seq(Range(received))
  <2>1. <<>> \in Seq(Range(<<>>))
    BY EmptySeq
  <2>2. <<Earlier>> \in Seq(Range(<<Earlier>>))
    <3>1. <<Earlier>> \in [1..1 -> Range(<<Earlier>>)]
      BY DEF Range
    <3> QED BY <3>1, SeqDef
  <2> QED BY <2>1, <2>2 DEF GenerationInit
<1>2. Fresh => output = <<>>
  BY DEF GenerationInit, Fresh
<1>3. ResponseAligned
  BY DEF GenerationInit, ResponseAligned
<1> QED BY <1>1, <1>2, <1>3 DEF AlignInv

LEMMA AlignStep ==
  AnswerInv /\ AlignInv /\ [GenerationNext]_generationVars => AlignInv'
<1> SUFFICES ASSUME AnswerInv, AlignInv, [GenerationNext]_generationVars PROVE AlignInv'
  OBVIOUS
<1>1. style' = style
  BY DEF GenerationNext, Progress, Deltas, Events, generationVars, config,
     ResponseStreams, PayloadFails, ResponseWhole, SaveWhole, TextDelta, ReasoningDelta, CallDelta,
     EventAdded, EventDelta, EventDone, EventCompleted, StreamEnds, StreamFails, ToolRound, ToolsOver,
     RunTool, ResultFails, ToolResults, ToolRequest, ToolRequestFails, CodeRound, CodeResult,
     CodeRequest, CodeRequestFails, Save, BackgroundEnds, BackgroundFails, CancelSave, CancelGeneration
<1> SUFFICES ASSUME style = "responses"
             PROVE  /\ received' \in Seq(Range(received'))
                    /\ pc' = "payload" /\ Fresh' => output' = <<>>
                    /\ ResponseAligned'
  BY <1>1 DEF AlignInv
<1>2. /\ received \in Seq(Range(received)) /\ ItemList(output) /\ ItemList(response)
      /\ pc \notin {"running", "ask"} /\ caller # "code"
      /\ pc = "payload" /\ Fresh => output = <<>>
      /\ pc = "payload" => response = <<>>
      /\ pc \in {"stream", "ended"} /\ (caller = "tools" \/ Fresh) => SameItems(output, response)
  BY DEF AlignInv, AnswerInv, IdInv, StyleInv, RoundInv, ResponseAligned, SameItems
<1> DEFINE Goal == /\ received' \in Seq(Range(received'))
                   /\ pc' = "payload" /\ Fresh' => output' = <<>>
                   /\ pc' \in {"stream", "ended"} /\ (caller' = "tools" \/ Fresh') =>
                        SameItems(output', response')
<1> SUFFICES Goal
  BY DEF ResponseAligned, SameItems
<1>3. CASE UNCHANGED <<pc, caller, output, response, received>>
  BY <1>2, <1>3 DEF Fresh
<1>4. CASE UNCHANGED received /\ pc' \notin {"payload", "stream", "ended"}
  BY <1>2, <1>4
<1>5. CASE ResponseStreams
  <2>1. pc = "payload" /\ pc' = "stream" /\ caller' = "first" /\ UNCHANGED <<output, response, received>>
    BY <1>5 DEF ResponseStreams, items, reading
  <2>2. SameItems(<<>>, <<>>)
    BY EmptySeq DEF SameItems
  <2> QED BY <1>2, <2>1, <2>2 DEF Fresh
<1>6. CASE ResponseWhole
  <2>1. received' = <<NextWord>> /\ pc' = "shown"
    BY <1>6 DEF ResponseWhole
  <2>2. <<NextWord>> \in [1..1 -> Range(<<NextWord>>)]
    BY DEF Range
  <2>3. <<NextWord>> \in Seq(Range(<<NextWord>>))
    BY <2>2, SeqDef
  <2> QED BY <2>1, <2>3
<1>7. CASE ToolRequest
  <2>1. output' = <<>> /\ response' = <<>> /\ received' = received /\ pc' = "stream"
    BY <1>7 DEF ToolRequest
  <2>2. SameItems(<<>>, <<>>)
    BY EmptySeq DEF SameItems
  <2> QED BY <1>2, <2>1, <2>2
<1>8. ASSUME NEW type \in {"message", "reasoning", "call"}, EventAdded(type) PROVE Goal
  <2>1. PICK item : /\ item = IF type = "call" THEN Call(issued') ELSE Item(type, <<>>)
                    /\ response' = Append(response, item) /\ output' = Append(output, item)
                    /\ pc = "stream" /\ UNCHANGED <<pc, caller, received>>
                    /\ issued' = IF type = "call" THEN issued + 1 ELSE issued
    BY <1>8 DEF EventAdded, ItemAdded, control
  <2>2. issued' \in Nat
    BY <2>1 DEF AnswerInv, IdInv
  <2>3. IsItem(item)
    BY <2>1, <2>2, NewItems
  <2>4. SameItems(output, response) => SameItems(output', response')
    BY <1>2, <2>1, <2>3, AppendSame
  <2> QED BY <1>2, <2>1, <2>4 DEF Fresh
<1>9. ASSUME NEW i \in DOMAIN response, EventDelta(i) \/ EventDone(i) PROVE Goal
  <2>1. /\ pc = "stream" /\ UNCHANGED <<pc, caller>>
        /\ \/ received' = Append(received, NextWord)
           \/ received' = received
        /\ \/ /\ response[i].type \in {"message", "reasoning"}
              /\ response' = [response EXCEPT ![i].text = Append(@, NextWord)]
              /\ output' = ItemDelta(output, i, NextWord)
           \/ /\ response' = [response EXCEPT ![i].status = "completed"]
              /\ output' = FieldDone(output, i, response[i])
    BY <1>9 DEF EventDelta, EventDone, control
  <2>2. SameItems(output, response) => SameItems(output', response')
    <3> SUFFICES ASSUME SameItems(output, response) PROVE SameItems(output', response')
      OBVIOUS
    <3>1. /\ response[i].type \in {"message", "reasoning"} =>
               SameItems(ItemDelta(output, i, NextWord), [response EXCEPT ![i].text = Append(@, NextWord)])
          /\ SameItems(FieldDone(output, i, response[i]), [response EXCEPT ![i].status = "completed"])
      BY <1>2, DeltaSame
    <3> QED BY <2>1, <3>1
  <2>3. received' \in Seq(Range(received')) /\ (Fresh' => Fresh)
    BY <1>2, <2>1, AppendWord DEF Fresh
  <2> QED BY <1>2, <2>1, <2>2, <2>3
<1>10. CASE EventCompleted
  <2>1. /\ pc = "stream" /\ pc' = "ended" /\ output' = Completed(response)
        /\ UNCHANGED <<response, received, caller>>
    BY <1>10 DEF EventCompleted, Goto, reading
  <2> QED BY <1>2, <2>1, CompletedSame
<1>11. CASE Deltas \/ CodeRequest
  BY <1>2, <1>11 DEF Deltas, TextDelta, ReasoningDelta, CallDelta, CodeRequest
<1>12. CASE \/ PayloadFails \/ SaveWhole \/ StreamEnds \/ StreamFails
            \/ ToolRound \/ ToolsOver \/ ResultFails \/ ToolResults \/ ToolRequestFails
            \/ CodeRound \/ CodeResult \/ CodeRequestFails
            \/ Save \/ BackgroundEnds \/ BackgroundFails \/ CancelSave \/ CancelGeneration
  <2>1. UNCHANGED received
    BY <1>12 DEF reading, PayloadFails, SaveWhole, StreamEnds, StreamFails, ToolRound, ToolsOver,
       ResultFails, ToolResults, ToolRequestFails, CodeRound, CodeResult,
       CodeRequestFails, Save, BackgroundEnds, BackgroundFails, CancelSave, CancelGeneration
  <2>2. CASE StreamFails
    <3>1. caller \in {"first", "tools", "code"}
      BY <2>2 DEF AnswerInv, StreamInv, StreamFails
    <3> QED BY <1>4, <2>1, <2>2, <3>1 DEF StreamFails, Goto
  <2>3. CASE ~StreamFails
    <3>1. pc' \notin {"payload", "stream", "ended"}
      BY <1>12, <2>3 DEF Goto, PayloadFails, SaveWhole, StreamEnds, ToolRound, ToolsOver,
         ResultFails, ToolResults, ToolRequestFails, CodeRound, CodeResult,
         CodeRequestFails, Save, BackgroundEnds, BackgroundFails, CancelSave, CancelGeneration
    <3> QED BY <1>4, <2>1, <3>1
  <2> QED BY <2>2, <2>3
<1>13. CASE RunTool \/ UNCHANGED generationVars
  BY <1>3, <1>13 DEF RunTool, generationVars, control, items, reading
<1> QED BY <1>3, <1>5, <1>6, <1>7, <1>8, <1>9, <1>10, <1>11, <1>12, <1>13
        DEF GenerationNext, Progress, Events

\* Through any number of tool rounds, with items added, filled and finished in
\* any order, an output_index of the provider finds its item
\* (middleware.py:4398-4402); a continued message is left out by Fresh.
THEOREM ItemsAreTheProviders == GenerationSpec => []ResponseAligned
<1>1. GenerationInit => AnswerInv /\ AlignInv
  BY AnswerInit, AlignInit
<1>2. AnswerInv /\ AlignInv /\ [GenerationNext]_generationVars => AnswerInv' /\ AlignInv'
  BY AnswerStep, AlignStep
<1>3. AnswerInv /\ AlignInv => ResponseAligned
  BY DEF AnswerInv, StyleInv, AlignInv, ResponseAligned
<1> QED BY <1>1, <1>2, <1>3, PTL DEF GenerationSpec

-----------------------------------------------------------------------------
(* The words of a list of items                                            *)

\* Whatever words a list holds, the new one holds too.
WordsKept(new, out) ==
  \A words, from, to, ordered :
    (\A n \in from+1..to : words[n] \notin Tag) /\ Hold(out, words, from, to, ordered)
      => Hold(new, words, from, to, ordered)

\* Keeping words is transitive ...
LEMMA WordsKeptFurther ==
  ASSUME NEW a, NEW b, NEW c, WordsKept(b, a), WordsKept(c, b)
  PROVE  WordsKept(c, a)
BY DEF WordsKept

\* ... and reflexive.
LEMMA WordsKeptItself == \A out : WordsKept(out, out)
BY DEF WordsKept

\* A place is an item and a position in its text.
LEMMA PlaceIs ==
  ASSUME NEW out
  PROVE  /\ \A p \in Places(out) : \E i \in 1..Len(out) : \E k \in 1..Len(out[i].text) : p = <<i, k>>
         /\ \A i \in 1..Len(out) : \A k \in 1..Len(out[i].text) : <<i, k>> \in Places(out)
         /\ \A i, k : <<i, k>> \in Places(out) => i \in 1..Len(out) /\ k \in 1..Len(out[i].text)
         /\ \A i, k : TokenAt(out, <<i, k>>) = out[i].text[k]
<1>1. \A p \in Places(out) : \E i \in 1..Len(out) : \E k \in 1..Len(out[i].text) : p = <<i, k>>
  BY DEF Places
<1>2. \A i \in 1..Len(out) : \A k \in 1..Len(out[i].text) : <<i, k>> \in Places(out)
  BY DEF Places
<1>3. \A i, k : <<i, k>> \in Places(out) => i \in 1..Len(out) /\ k \in 1..Len(out[i].text)
  BY DEF Places
<1>4. \A i, k : TokenAt(out, <<i, k>>) = out[i].text[k]
  BY DEF TokenAt
<1> QED BY <1>1, <1>2, <1>3, <1>4

\* The place of a token of an item.
LEMMA PlaceOf ==
  ASSUME NEW out, NEW i \in 1..Len(out), NEW k \in 1..Len(out[i].text)
  PROVE  <<i, k>> \in Places(out) /\ TokenAt(out, <<i, k>>) = out[i].text[k]
BY PlaceIs

\* The order of two places.
LEMMA BeforeIs == \A i, j, k, l : Before(<<i, k>>, <<j, l>>) <=> i < j \/ (i = j /\ k < l)
BY DEF Before

\* Words that are moved, none of them before another one it was after.
LEMMA MovedKeeps ==
  ASSUME NEW out, NEW new, NEW g,
         \A p \in Places(new) : TokenAt(new, p) \notin Tag =>
           g[p] \in Places(out) /\ TokenAt(out, g[p]) = TokenAt(new, p),
         \A p, q \in Places(new) :
           TokenAt(new, p) \notin Tag /\ TokenAt(new, q) \notin Tag /\ Before(p, q)
             => Before(g[p], g[q]),
         \A q \in Places(out) : TokenAt(out, q) \notin Tag =>
           \E p \in Places(new) : TokenAt(new, p) = TokenAt(out, q)
  PROVE  WordsKept(new, out)
<1> SUFFICES ASSUME NEW words, NEW from, NEW to, NEW ordered,
                    \A n \in from+1..to : words[n] \notin Tag,
                    Hold(out, words, from, to, ordered)
             PROVE  Hold(new, words, from, to, ordered)
  BY DEF WordsKept
<1>1. \A p \in Places(new) :
        TokenAt(new, p) \notin Tag => \E n \in from+1..to : TokenAt(new, p) = words[n]
  BY DEF Hold
<1>2. \A n \in from+1..to : \E p \in Places(new) : TokenAt(new, p) = words[n]
  BY DEF Hold
<1>3. ASSUME NEW p \in Places(new), NEW q \in Places(new), Before(p, q),
             NEW m \in from+1..to, NEW n \in from+1..to,
             TokenAt(new, p) = words[m], TokenAt(new, q) = words[n]
      PROVE  m # n /\ (ordered => m < n)
  <2>1. TokenAt(new, p) \notin Tag /\ TokenAt(new, q) \notin Tag
    BY <1>3
  <2>2. /\ g[p] \in Places(out) /\ TokenAt(out, g[p]) = words[m]
        /\ g[q] \in Places(out) /\ TokenAt(out, g[q]) = words[n]
        /\ Before(g[p], g[q])
    BY <1>3, <2>1
  <2> QED BY <2>2 DEF Hold
<1> QED BY <1>1, <1>2, <1>3 DEF Hold

\* Lists with the same texts but for empty ones at the end.
LEMMA PaddedKeeps ==
  ASSUME NEW out, ItemList(out), NEW new, ItemList(new),
         \A i \in 1..Len(new) : i \in 1..Len(out) => new[i].text = out[i].text,
         \A i \in 1..Len(new) : i \notin 1..Len(out) => new[i].text = <<>>,
         \A i \in 1..Len(out) : i \notin 1..Len(new) => out[i].text = <<>>
  PROVE  WordsKept(new, out)
<1>1. Len(<<>>) = 0 /\ 1..0 = {}
  BY EmptySeq
<1>2. ASSUME NEW i, NEW k, <<i, k>> \in Places(new)
      PROVE  <<i, k>> \in Places(out) /\ TokenAt(out, <<i, k>>) = TokenAt(new, <<i, k>>)
  <2>1. i \in 1..Len(new) /\ k \in 1..Len(new[i].text)
    BY <1>2, PlaceIs
  <2>2. i \in 1..Len(out)
    BY <1>1, <2>1
  <2> QED BY <2>1, <2>2, PlaceIs
<1>3. ASSUME NEW i, NEW k, <<i, k>> \in Places(out)
      PROVE  <<i, k>> \in Places(new) /\ TokenAt(new, <<i, k>>) = TokenAt(out, <<i, k>>)
  <2>1. i \in 1..Len(out) /\ k \in 1..Len(out[i].text)
    BY <1>3, PlaceIs
  <2>2. i \in 1..Len(new)
    BY <1>1, <2>1
  <2> QED BY <2>1, <2>2, PlaceIs
<1>4. \A p \in Places(new) : p \in Places(out) /\ TokenAt(out, p) = TokenAt(new, p)
  BY <1>2, PlaceIs
<1>5. \A p \in Places(out) : p \in Places(new) /\ TokenAt(new, p) = TokenAt(out, p)
  BY <1>3, PlaceIs
<1> DEFINE g == [p \in Places(new) |-> p]
<1>6. \A p \in Places(new) : g[p] = p
  OBVIOUS
<1> HIDE DEF g
<1> QED BY <1>4, <1>5, <1>6, MovedKeeps

\* Only what comes from the last text on differs: h says where in it the
\* tokens that are not tags were.
SameTexts(new, out, n) == \A i \in 1..n : new[i].text = out[i].text

\* The items from the last old one on have the words of its text, each word at
\* the position h gives, in the same order; the items before it are the old ones.
FromLast(new, out, h) ==
  LET n == Len(out)
      t == out[n].text
  IN  /\ Len(new) >= n
      /\ SameTexts(new, out, n - 1)
      /\ \A i \in n..Len(new) : \A k \in 1..Len(new[i].text) : new[i].text[k] \notin Tag =>
           h[<<i, k>>] \in 1..Len(t) /\ t[h[<<i, k>>]] = new[i].text[k]
      /\ \A i, j \in n..Len(new) : \A k \in 1..Len(new[i].text) : \A l \in 1..Len(new[j].text) :
           new[i].text[k] \notin Tag /\ new[j].text[l] \notin Tag /\ (i < j \/ (i = j /\ k < l))
             => h[<<i, k>>] < h[<<j, l>>]
      /\ \A k \in 1..Len(t) : t[k] \notin Tag =>
           \E i \in n..Len(new) : \E l \in 1..Len(new[i].text) : new[i].text[l] = t[k]

\* If only the last text is spread over items, in order, no word is lost.
LEMMA LastTextKeeps ==
  ASSUME NEW out, ItemList(out), Len(out) > 0, NEW new, ItemList(new), NEW h, FromLast(new, out, h)
  PROVE  WordsKept(new, out)
<1>0. PICK n, len, t : n = Len(out) /\ len = Len(new) /\ t = out[n].text
  OBVIOUS
<1>1. /\ n > 0 /\ len >= n
      /\ \A i \in 1..n - 1 : new[i].text = out[i].text
  BY <1>0 DEF FromLast, SameTexts
<1>2. \A i \in n..len : \A k \in 1..Len(new[i].text) : new[i].text[k] \notin Tag =>
           h[<<i, k>>] \in 1..Len(t) /\ t[h[<<i, k>>]] = new[i].text[k]
  BY <1>0 DEF FromLast
<1>3. \A i, j \in n..len : \A k \in 1..Len(new[i].text) : \A l \in 1..Len(new[j].text) :
           new[i].text[k] \notin Tag /\ new[j].text[l] \notin Tag /\ (i < j \/ (i = j /\ k < l))
             => h[<<i, k>>] < h[<<j, l>>]
  BY <1>0 DEF FromLast
<1>4. \A k \in 1..Len(t) : t[k] \notin Tag =>
           \E i \in n..len : \E l \in 1..Len(new[i].text) : new[i].text[l] = t[k]
  BY <1>0 DEF FromLast
<1>5. n \in Nat \ {0} /\ len \in Nat
  BY <1>0, <1>1, ListIs
<1> DEFINE g == [p \in Places(new) |-> IF p[1] < n THEN p ELSE <<n, h[p]>>]
<1>6. ASSUME NEW p \in Places(new)
      PROVE  \/ \E i \in 1..n - 1 : \E k \in 1..Len(new[i].text) : p = <<i, k>> /\ g[p] = p
             \/ \E i \in n..len : \E k \in 1..Len(new[i].text) : p = <<i, k>> /\ g[p] = <<n, h[p]>>
  <2>1. PICK i \in 1..len : \E k \in 1..Len(new[i].text) : p = <<i, k>>
    BY <1>0, PlaceIs
  <2>2. PICK k \in 1..Len(new[i].text) : p = <<i, k>>
    BY <2>1
  <2>3. g[p] = IF i < n THEN p ELSE <<n, h[p]>>
    BY <2>2
  <2>4. i < n => i \in 1..n - 1
    BY <1>0, <1>5
  <2>5. ~(i < n) => i \in n..len
    BY <1>5
  <2> QED BY <2>2, <2>3, <2>4, <2>5
<1> HIDE DEF g
<1>7. ASSUME NEW p \in Places(new), TokenAt(new, p) \notin Tag
      PROVE  g[p] \in Places(out) /\ TokenAt(out, g[p]) = TokenAt(new, p)
  <2>1. CASE \E i \in 1..n - 1 : \E k \in 1..Len(new[i].text) : p = <<i, k>> /\ g[p] = p
    <3>1. PICK i \in 1..n - 1 : \E k \in 1..Len(new[i].text) : p = <<i, k>> /\ g[p] = p
      BY <2>1
    <3>2. PICK k \in 1..Len(new[i].text) : p = <<i, k>> /\ g[p] = p
      BY <3>1
    <3>3. i \in 1..Len(out) /\ new[i].text = out[i].text
      BY <1>0, <1>5, <1>1
    <3>4. k \in 1..Len(out[i].text)
      BY <3>3
    <3>5. TokenAt(new, p) = new[i].text[k] /\ TokenAt(out, p) = out[i].text[k] /\ p \in Places(out)
      BY <3>2, <3>3, <3>4, PlaceOf, PlaceIs
    <3> QED BY <3>2, <3>3, <3>5
  <2>2. CASE \E i \in n..len : \E k \in 1..Len(new[i].text) : p = <<i, k>> /\ g[p] = <<n, h[p]>>
    <3>1. PICK i \in n..len : \E k \in 1..Len(new[i].text) : p = <<i, k>> /\ g[p] = <<n, h[p]>>
      BY <2>2
    <3>2. PICK k \in 1..Len(new[i].text) : p = <<i, k>> /\ g[p] = <<n, h[p]>>
      BY <3>1
    <3>3. TokenAt(new, p) = new[i].text[k]
      BY <3>2, PlaceIs
    <3>4. h[p] \in 1..Len(t) /\ t[h[p]] = new[i].text[k]
      BY <1>7, <1>2, <3>2, <3>3
    <3>5. n \in 1..Len(out)
      BY <1>0, <1>5
    <3>6. h[p] \in 1..Len(out[n].text) /\ out[n].text[h[p]] = new[i].text[k]
      BY <1>0, <3>4
    <3>7. <<n, h[p]>> \in Places(out) /\ TokenAt(out, <<n, h[p]>>) = out[n].text[h[p]]
      BY <3>5, <3>6, PlaceOf
    <3> QED BY <3>2, <3>3, <3>6, <3>7
  <2> QED BY <1>6, <2>1, <2>2
<1>8. ASSUME NEW p \in Places(new), NEW q \in Places(new),
             TokenAt(new, p) \notin Tag, TokenAt(new, q) \notin Tag, Before(p, q)
      PROVE  Before(g[p], g[q])
  <2>1. ASSUME NEW i \in 1..n - 1, NEW k, p = <<i, k>>, g[p] = p PROVE Before(g[p], g[q])
    <3>1. CASE g[q] = q
      BY <1>8, <2>1, <3>1
    <3>2. CASE g[q] = <<n, h[q]>>
      BY <1>5, <2>1, <3>2 DEF Before
    <3> QED BY <1>6, <3>1, <3>2
  <2>2. ASSUME NEW i \in n..len, NEW k \in 1..Len(new[i].text), p = <<i, k>>, g[p] = <<n, h[p]>>
        PROVE  Before(g[p], g[q])
    <3>1. ASSUME NEW j \in 1..n - 1, NEW l, q = <<j, l>> PROVE FALSE
      <4>1. i < j \/ i = j
        BY <1>8, <2>2, <3>1 DEF Before
      <4> QED BY <1>5, <4>1
    <3>2. ASSUME NEW j \in n..len, NEW l \in 1..Len(new[j].text), q = <<j, l>>, g[q] = <<n, h[q]>>
          PROVE  Before(g[p], g[q])
      <4>1. /\ new[i].text[k] \notin Tag /\ new[j].text[l] \notin Tag
            /\ i < j \/ (i = j /\ k < l)
        <5>1. TokenAt(new, p) = new[i].text[k] /\ TokenAt(new, q) = new[j].text[l]
          BY <2>2, <3>2 DEF TokenAt
        <5>2. i < j \/ (i = j /\ k < l)
          BY <1>8, <2>2, <3>2, BeforeIs
        <5> QED BY <1>8, <5>1, <5>2
      <4>2. h[p] < h[q]
        BY <1>3, <2>2, <3>2, <4>1
      <4>3. Before(<<n, h[p]>>, <<n, h[q]>>)
        BY <4>2, BeforeIs
      <4> QED BY <2>2, <3>2, <4>3
    <3> QED BY <1>6, <3>1, <3>2
  <2> QED BY <1>6, <2>1, <2>2
<1>9. ASSUME NEW q \in Places(out), TokenAt(out, q) \notin Tag
      PROVE  \E p \in Places(new) : TokenAt(new, p) = TokenAt(out, q)
  <2>0. PICK i \in 1..Len(out) : \E k \in 1..Len(out[i].text) : q = <<i, k>>
    BY <1>9, PlaceIs
  <2>1. PICK k \in 1..Len(out[i].text) : q = <<i, k>>
    BY <2>0
  <2>2. TokenAt(out, q) = out[i].text[k]
    BY <2>1, PlaceIs
  <2>3. CASE i < n
    <3>1. i \in 1..n - 1 /\ i \in 1..Len(new)
      BY <1>0, <1>5, <1>1, <2>3
    <3>2. k \in 1..Len(new[i].text) /\ new[i].text[k] = out[i].text[k]
      BY <1>1, <3>1
    <3>3. q \in Places(new)
      BY <2>1, <3>1, <3>2, PlaceIs
    <3>4. TokenAt(new, q) = new[i].text[k]
      BY <2>1, PlaceIs
    <3> QED BY <2>2, <3>2, <3>3, <3>4
  <2>4. CASE ~(i < n)
    <3>1. i = n
      BY <1>0, <1>5, <2>4
    <3>2. k \in 1..Len(t) /\ t[k] \notin Tag
      BY <1>0, <1>9, <2>2, <3>1
    <3>3. PICK j \in n..len : \E l \in 1..Len(new[j].text) : new[j].text[l] = t[k]
      BY <1>4, <3>2
    <3>4. j \in 1..Len(new)
      BY <1>0, <1>5
    <3>5. PICK l \in 1..Len(new[j].text) : new[j].text[l] = t[k]
      BY <3>3
    <3>6. <<j, l>> \in Places(new) /\ TokenAt(new, <<j, l>>) = new[j].text[l]
      BY <3>4, PlaceOf
    <3> QED BY <1>0, <2>2, <3>1, <3>5, <3>6
  <2> QED BY <2>3, <2>4
<1> QED BY <1>7, <1>8, <1>9, MovedKeeps

\* The positions of a set come in their order.
LEMMA InOrderSorted ==
  ASSUME NEW P \in SUBSET Nat, IsFiniteSet(P)
  PROVE  \A i, j \in 1..Cardinality(P) : i < j => InOrder(P)[i] < InOrder(P)[j]
<1>1. /\ InOrder(P) \in [1..Cardinality(P) -> P]
      /\ \A i, j \in DOMAIN InOrder(P) : i < j => InOrder(P)[i] < InOrder(P)[j]
  BY OrderExists DEF InOrder
<1> QED BY <1>1

\* A set of positions has a first one.
LEMMA LeastPosition ==
  ASSUME NEW n \in Nat, NEW P \in SUBSET (1..n), P # {}
  PROVE  \E p \in P : \A q \in P : p <= q
<1>1. P \in SUBSET Nat /\ IsFiniteSet(P)
  <2>1. IsFiniteSet(1..n) /\ \A k \in 1..n : k \in Nat
    BY FS_Interval
  <2> QED BY <2>1, FS_Subset
<1> DEFINE at == InOrder(P)
           C == Cardinality(P)
<1>2. /\ C \in Nat /\ at \in [1..C -> P]
      /\ \A p \in P : \E i \in 1..C : at[i] = p
      /\ \A i, j \in 1..C : i < j => at[i] < at[j]
  BY <1>1, InOrderIs, InOrderSorted
<1> HIDE DEF at, C
<1>3. 1 \in 1..C
  <2>1. PICK p \in P, i \in 1..C : at[i] = p
    BY <1>2
  <2> QED BY <1>2, <2>1
<1>4. \A i \in 1..C : at[1] <= at[i]
  <2> SUFFICES ASSUME NEW i \in 1..C PROVE at[1] <= at[i]
    OBVIOUS
  <2>1. at[1] \in Nat /\ at[i] \in Nat
    BY <1>1, <1>2, <1>3
  <2>2. i = 1 \/ 1 < i
    BY <1>2
  <2>3. 1 < i => at[1] < at[i]
    BY <1>2, <1>3
  <2> QED BY <2>1, <2>2, <2>3
<1>5. ASSUME NEW q \in P PROVE at[1] <= q
  <2>1. PICK i \in 1..C : at[i] = q
    BY <1>2
  <2> QED BY <1>4, <2>1
<1>6. at[1] \in P
  BY <1>2, <1>3
<1> QED BY <1>5, <1>6

\* FirstIn is the first position of a token that the text has.
LEMMA FirstInIs ==
  ASSUME NEW text, Len(text) \in Nat, NEW token, \E k \in 1..Len(text) : text[k] = token
  PROVE  /\ FirstIn(text, token) \in 1..Len(text) /\ text[FirstIn(text, token)] = token
         /\ \A k \in 1..Len(text) : text[k] = token => FirstIn(text, token) <= k
<1> DEFINE I == {k \in 1..Len(text) : text[k] = token}
<1>1. I # {} /\ I \in SUBSET (1..Len(text))
  OBVIOUS
<1>2. \E p \in I : \A q \in I : p <= q
  BY <1>1, LeastPosition
<1>3. Min(I) \in I /\ \A q \in I : Min(I) <= q
  BY <1>2 DEF Min
<1>4. FirstIn(text, token) = Min(I)
  BY <1>1 DEF FirstIn, SelectInSeq
<1> QED BY <1>3, <1>4

\* A text is made of tokens of another one, at the positions `at'.
PartOf(u, t, at) ==
  /\ \A k \in 1..Len(u) : at[k] \in 1..Len(t) /\ t[at[k]] = u[k]
  /\ \A k, l \in 1..Len(u) : k < l => at[k] < at[l]

\* The words of a text.
WordsOf(text) == {text[k] : k \in 1..Len(text)} \ Tag

\* u is a text without a token.
IsWithout(u, text, token) ==
  /\ \E kept : PartOf(u, text, kept)
  /\ \A k \in 1..Len(text) : text[k] # token => \E l \in 1..Len(u) : u[l] = text[k]

\* Omit takes out a token and nothing else.
LEMMA OmitIs ==
  ASSUME NEW S, NEW text \in Seq(S), NEW token
  PROVE  /\ Omit(text, token) \in Seq(S)
         /\ \A k \in 1..Len(Omit(text, token)) : Omit(text, token)[k] # token
         /\ \E kept : /\ PartOf(Omit(text, token), text, kept)
                      /\ \A k \in 1..Len(text) : text[k] # token => \E l \in 1..Len(Omit(text, token)) : kept[l] = k
         /\ \A k \in 1..Len(text) : text[k] # token =>
              \E l \in 1..Len(Omit(text, token)) : Omit(text, token)[l] = text[k]
<1> DEFINE P == {k \in 1..Len(text) : text[k] # token}
           kept == InOrder(P)
           C == Cardinality(P)
           new == [k \in 1..C |-> text[kept[k]]]
<1>0. Len(text) \in Nat /\ text \in [1..Len(text) -> S]
  BY LenProperties
<1>1. P \in SUBSET Nat /\ IsFiniteSet(P)
  <2>1. IsFiniteSet(1..Len(text)) /\ \A k \in 1..Len(text) : k \in Nat
    BY <1>0, FS_Interval
  <2> QED BY <2>1, FS_Subset
<1>2. /\ C \in Nat /\ kept \in [1..C -> P]
      /\ \A p \in P : \E i \in 1..C : kept[i] = p
      /\ \A i, j \in 1..C : i < j => kept[i] < kept[j]
  BY <1>1, InOrderIs, InOrderSorted
<1>3. Omit(text, token) = new
  BY <1>2 DEF Omit
<1> HIDE DEF kept, C
<1>4. /\ \A k \in 1..C : kept[k] \in 1..Len(text) /\ text[kept[k]] # token /\ text[kept[k]] \in S
  BY <1>0, <1>2
<1>5. new \in [1..C -> S]
  BY <1>4
<1>6. new \in Seq(S) /\ Len(new) = C
  BY <1>2, <1>5, SeqDef, LenProperties
<1>7. \A k \in 1..C : new[k] = text[kept[k]]
  OBVIOUS
<1>8. \A k \in 1..Len(text) : text[k] # token => \E l \in 1..C : new[l] = text[k]
  BY <1>2, <1>7
<1> HIDE DEF new
<1>9. PartOf(new, text, kept)
  BY <1>2, <1>4, <1>6, <1>7 DEF PartOf
<1>10. \A k \in 1..C : new[k] # token
  BY <1>4, <1>7
<1>11. \A k \in 1..Len(text) : text[k] # token => \E l \in 1..C : kept[l] = k
  BY <1>2
<1> QED BY <1>3, <1>6, <1>8, <1>9, <1>10, <1>11

\* The same in a name.
LEMMA OmitIsWithout ==
  ASSUME NEW S, NEW text \in Seq(S), NEW token
  PROVE  IsWithout(Omit(text, token), text, token)
<1>1. PICK u : u = Omit(text, token)
  OBVIOUS
<1>2. \E kept : /\ PartOf(u, text, kept)
                /\ \A k \in 1..Len(text) : text[k] # token => \E l \in 1..Len(u) : kept[l] = k
  BY <1>1, OmitIs
<1>3. \A k \in 1..Len(text) : text[k] # token => \E l \in 1..Len(u) : u[l] = text[k]
  BY <1>1, OmitIs
<1> QED BY <1>1, <1>2, <1>3 DEF IsWithout

\* A piece of a text.
LEMMA PieceIs ==
  ASSUME NEW S, NEW text \in Seq(S), NEW a \in Nat \ {0}, NEW b \in Nat, a <= b + 1, b <= Len(text)
  PROVE  /\ SubSeq(text, a, b) \in Seq(S) /\ Len(SubSeq(text, a, b)) = b - a + 1
         /\ \A k \in 1..b - a + 1 : /\ SubSeq(text, a, b)[k] = text[a + k - 1]
                                    /\ a + k - 1 \in a..b /\ a + k - 1 \in 1..Len(text)
<1>1. Len(text) \in Nat /\ \A k \in 1..Len(text) : text[k] \in S
  BY LenProperties
<1>2. \A k \in a..b : k \in 1..Len(text)
  BY <1>1
<1>3. \A k \in a..b : text[k] \in S
  BY <1>1, <1>2
<1>4. /\ SubSeq(text, a, b) \in Seq(S)
      /\ Len(SubSeq(text, a, b)) = IF a <= b THEN b - a + 1 ELSE 0
      /\ \A k \in 1..b - a + 1 : SubSeq(text, a, b)[k] = text[a + k - 1]
  BY <1>3, SubSeqProperties
<1>5. \A k \in 1..b - a + 1 : a + k - 1 \in a..b
  OBVIOUS
<1>6. (IF a <= b THEN b - a + 1 ELSE 0) = b - a + 1
  OBVIOUS
<1> QED BY <1>2, <1>4, <1>5, <1>6

\* The tokens of a text up to a position.
LEMMA HeadIs ==
  ASSUME NEW S, NEW text \in Seq(S), NEW b \in Nat, b <= Len(text), NEW u, u = SubSeq(text, 1, b)
  PROVE  /\ u \in Seq(S) /\ Len(u) = b
         /\ \A k \in 1..b : u[k] = text[k] /\ k \in 1..Len(text)
<1>1. 1 \in Nat \ {0} /\ 1 <= b + 1 /\ b - 1 + 1 = b
  OBVIOUS
<1>2. /\ u \in Seq(S) /\ Len(u) = b - 1 + 1
      /\ \A k \in 1..b - 1 + 1 : u[k] = text[1 + k - 1] /\ 1 + k - 1 \in 1..Len(text)
  BY <1>1, PieceIs
<1>3. \A k \in 1..b : 1 + k - 1 = k
  OBVIOUS
<1> QED BY <1>1, <1>2, <1>3

\* The tokens of a text after a position.
LEMMA RestIs ==
  ASSUME NEW S, NEW text \in Seq(S), NEW e \in Nat, e <= Len(text),
         NEW u, u = SubSeq(text, e + 1, Len(text))
  PROVE  /\ u \in Seq(S) /\ Len(u) = Len(text) - e
         /\ \A k \in 1..Len(text) - e : u[k] = text[e + k] /\ e + k \in 1..Len(text)
<1>1. PICK a, b : a = e + 1 /\ b = Len(text)
  OBVIOUS
<1>2. a \in Nat \ {0} /\ b \in Nat /\ a <= b + 1 /\ b <= Len(text)
  <2>1. Len(text) \in Nat
    BY LenProperties
  <2> QED BY <1>1, <2>1
<1>3. u = SubSeq(text, a, b)
  BY <1>1
<1>4. /\ u \in Seq(S) /\ Len(u) = b - a + 1
      /\ \A k \in 1..b - a + 1 : u[k] = text[a + k - 1] /\ a + k - 1 \in 1..Len(text)
  <2>1. /\ SubSeq(text, a, b) \in Seq(S) /\ Len(SubSeq(text, a, b)) = b - a + 1
        /\ \A k \in 1..b - a + 1 : /\ SubSeq(text, a, b)[k] = text[a + k - 1]
                                   /\ a + k - 1 \in a..b /\ a + k - 1 \in 1..Len(text)
    BY <1>2, PieceIs
  <2> QED BY <1>3, <2>1
<1>5. b - a + 1 = Len(text) - e /\ \A k \in 1..Len(text) - e : a + k - 1 = e + k
  BY <1>1, <1>2
<1> QED BY <1>4, <1>5

-----------------------------------------------------------------------------
(* Texts and their parts                                                   *)

\* u and v are parts of t, and u is wholly before v.
Parts(u, at, v, av, t) ==
  /\ PartOf(u, t, at) /\ PartOf(v, t, av)
  /\ \A k \in 1..Len(u) : \A l \in 1..Len(v) : at[k] < av[l]

\* The last text is replaced by one text ...
LEMMA OneTextKeeps ==
  ASSUME NEW out, ItemList(out), Len(out) > 0, NEW new, ItemList(new), Len(new) = Len(out),
         SameTexts(new, out, Len(out) - 1), NEW at,
         NEW u, u = new[Len(out)].text, NEW t, t = out[Len(out)].text, PartOf(u, t, at), WordsOf(t) \subseteq WordsOf(u)
  PROVE  WordsKept(new, out)
<1> DEFINE n == Len(out)
           h == [p \in Places(new) |-> at[p[2]]]
<1>1. n \in Nat /\ n \in n..n /\ n \in 1..Len(new) /\ Len(new) >= n /\ \A i \in n..n : i = n
  BY ListIs
<1>2. ASSUME NEW k \in 1..Len(u) PROVE h[<<n, k>>] = at[k]
  <2>1. <<n, k>> \in Places(new)
    BY <1>1, PlaceOf
  <2> QED BY <2>1
<1> HIDE DEF h
<1>3. ASSUME NEW i \in n..n, NEW k \in 1..Len(new[i].text)
      PROVE  h[<<i, k>>] \in 1..Len(t) /\ t[h[<<i, k>>]] = new[i].text[k]
  <2>1. i = n /\ k \in 1..Len(u)
    BY <1>1
  <2> QED BY <1>2, <2>1 DEF PartOf
<1>4. ASSUME NEW i \in n..n, NEW j \in n..n,
             NEW k \in 1..Len(new[i].text), NEW l \in 1..Len(new[j].text), i < j \/ (i = j /\ k < l)
      PROVE  h[<<i, k>>] < h[<<j, l>>]
  <2>1. i = n /\ j = n /\ k \in 1..Len(u) /\ l \in 1..Len(u)
    BY <1>1
  <2>2. k < l
    BY <1>1, <1>4, <2>1
  <2> QED BY <1>2, <2>1, <2>2 DEF PartOf
<1>5. ASSUME NEW k \in 1..Len(t), t[k] \notin Tag
      PROVE  \E i \in n..n : \E l \in 1..Len(new[i].text) : new[i].text[l] = t[k]
  <2>1. t[k] \in WordsOf(u)
    BY <1>5 DEF WordsOf
  <2>2. PICK l \in 1..Len(u) : u[l] = t[k]
    BY <2>1 DEF WordsOf
  <2>3. l \in 1..Len(new[n].text) /\ new[n].text[l] = t[k]
    BY <2>2
  <2> QED BY <1>1, <2>3
<1>6. FromLast(new, out, h)
  BY <1>1, <1>3, <1>4, <1>5 DEF FromLast
<1> QED BY <1>6, LastTextKeeps

\* ... or by two.
LEMMA TwoTextsKeep ==
  ASSUME NEW out, ItemList(out), Len(out) > 0, NEW new, ItemList(new), Len(new) = Len(out) + 1,
         SameTexts(new, out, Len(out) - 1), NEW at, NEW av,
         NEW u, u = new[Len(out)].text, NEW v, v = new[Len(out) + 1].text,
         NEW t, t = out[Len(out)].text, Parts(u, at, v, av, t),
         WordsOf(t) \subseteq WordsOf(u) \cup WordsOf(v)
  PROVE  WordsKept(new, out)
<1> DEFINE n == Len(out)
           h == [p \in Places(new) |-> IF p[1] = n THEN at[p[2]] ELSE av[p[2]]]
<1>1. /\ n \in Nat /\ n \in 1..Len(new) /\ n + 1 \in 1..Len(new) /\ n # n + 1
      /\ n \in n..n + 1 /\ n + 1 \in n..n + 1 /\ n + 1 >= n
      /\ \A i \in n..n + 1 : i = n \/ i = n + 1
      /\ ~(n + 1 < n)
  BY ListIs
<1>2. ASSUME NEW k \in 1..Len(u) PROVE h[<<n, k>>] = at[k]
  <2>1. <<n, k>> \in Places(new)
    BY <1>1, PlaceOf
  <2> QED BY <2>1
<1>3. ASSUME NEW k \in 1..Len(v) PROVE h[<<n + 1, k>>] = av[k]
  <2>1. <<n + 1, k>> \in Places(new)
    BY <1>1, PlaceOf
  <2> QED BY <1>1, <2>1
<1> HIDE DEF h
<1>4. ASSUME NEW i \in n..n + 1, NEW k \in 1..Len(new[i].text)
      PROVE  h[<<i, k>>] \in 1..Len(t) /\ t[h[<<i, k>>]] = new[i].text[k]
  <2>1. CASE i = n
    <3>1. k \in 1..Len(u)
      BY <2>1
    <3> QED BY <1>2, <2>1, <3>1 DEF Parts, PartOf
  <2>2. CASE i = n + 1
    <3>1. k \in 1..Len(v)
      BY <2>2
    <3> QED BY <1>3, <2>2, <3>1 DEF Parts, PartOf
  <2> QED BY <1>1, <2>1, <2>2
<1>5. ASSUME NEW i \in n..n + 1, NEW j \in n..n + 1,
             NEW k \in 1..Len(new[i].text), NEW l \in 1..Len(new[j].text), i < j \/ (i = j /\ k < l)
      PROVE  h[<<i, k>>] < h[<<j, l>>]
  <2>1. CASE i = n /\ j = n
    <3>1. k < l /\ k \in 1..Len(u) /\ l \in 1..Len(u)
      BY <1>1, <1>5, <2>1
    <3> QED BY <1>2, <2>1, <3>1 DEF Parts, PartOf
  <2>2. CASE i = n + 1 /\ j = n + 1
    <3>1. k < l /\ k \in 1..Len(v) /\ l \in 1..Len(v)
      BY <1>1, <1>5, <2>2
    <3>2. av[k] < av[l]
      BY <3>1 DEF Parts, PartOf
    <3>3. h[<<i, k>>] = av[k] /\ h[<<j, l>>] = av[l]
      BY <1>3, <2>2, <3>1
    <3> QED BY <3>2, <3>3
  <2>3. CASE i = n /\ j = n + 1
    <3>1. k \in 1..Len(u) /\ l \in 1..Len(v)
      BY <2>3
    <3>2. at[k] < av[l]
      BY <3>1 DEF Parts
    <3>3. h[<<i, k>>] = at[k] /\ h[<<j, l>>] = av[l]
      BY <1>2, <1>3, <2>3, <3>1
    <3> QED BY <3>2, <3>3
  <2>4. ~(i = n + 1 /\ j = n)
    BY <1>1, <1>5
  <2> QED BY <1>1, <2>1, <2>2, <2>3, <2>4
<1>6. ASSUME NEW k \in 1..Len(t), t[k] \notin Tag
      PROVE  \E i \in n..n + 1 : \E l \in 1..Len(new[i].text) : new[i].text[l] = t[k]
  <2>1. t[k] \in WordsOf(t)
    BY <1>6 DEF WordsOf
  <2>2. t[k] \in WordsOf(u) \/ t[k] \in WordsOf(v)
    BY <2>1
  <2>3. CASE t[k] \in WordsOf(u)
    <3>1. PICK l \in 1..Len(u) : u[l] = t[k]
      BY <2>3 DEF WordsOf
    <3>2. l \in 1..Len(new[n].text) /\ new[n].text[l] = t[k]
      BY <3>1
    <3> QED BY <1>1, <3>2
  <2>4. CASE t[k] \in WordsOf(v)
    <3>1. PICK l \in 1..Len(v) : v[l] = t[k]
      BY <2>4 DEF WordsOf
    <3>2. l \in 1..Len(new[n + 1].text) /\ new[n + 1].text[l] = t[k]
      BY <3>1
    <3> QED BY <1>1, <3>2
  <2> QED BY <2>2, <2>3, <2>4
<1>7. FromLast(new, out, h)
  BY <1>1, <1>4, <1>5, <1>6 DEF FromLast
<1> QED BY <1>7, LastTextKeeps

\* One tag is left out of the last text.
LEMMA OmitKeeps ==
  ASSUME NEW out, ItemList(out), Len(out) > 0, NEW new, ItemList(new), Len(new) = Len(out),
         SameTexts(new, out, Len(out) - 1), NEW S, NEW t \in Seq(S), t = out[Len(out)].text,
         NEW tag \in Tag, new[Len(out)].text = Omit(t, tag)
  PROVE  WordsKept(new, out)
<1>1. PICK u : u = Omit(t, tag)
  OBVIOUS
<1>2. IsWithout(u, t, tag)
  BY <1>1, OmitIsWithout
<1>3. PICK kept : PartOf(u, t, kept)
  BY <1>2 DEF IsWithout
<1>4. WordsOf(t) \subseteq WordsOf(u)
  BY <1>2 DEF IsWithout, WordsOf
<1>5. u = new[Len(out)].text
  BY <1>1
<1> QED BY <1>3, <1>4, <1>5, OneTextKeeps

\* The last text is cut in two at a tag.
LEMMA SplitKeeps ==
  ASSUME NEW out, ItemList(out), Len(out) > 0, NEW new, ItemList(new), Len(new) = Len(out) + 1,
         SameTexts(new, out, Len(out) - 1), NEW S, NEW t \in Seq(S), t = out[Len(out)].text,
         NEW e \in 1..Len(t), t[e] \in Tag,
         new[Len(out)].text = SubSeq(t, 1, e - 1), new[Len(out) + 1].text = SubSeq(t, e + 1, Len(t))
  PROVE  WordsKept(new, out)
<1>1. PICK u, v : u = new[Len(out)].text /\ v = new[Len(out) + 1].text
  OBVIOUS
<1>2. Len(t) \in Nat /\ e \in Nat /\ e >= 1 /\ e <= Len(t)
  BY LenProperties
<1>3. /\ Len(u) = e - 1
      /\ \A k \in 1..e - 1 : u[k] = t[k] /\ k \in 1..Len(t)
  <2>1. e - 1 \in Nat /\ e - 1 <= Len(t)
    BY <1>2
  <2> QED BY <1>1, <2>1, HeadIs
<1>4. /\ Len(v) = Len(t) - e
      /\ \A k \in 1..Len(t) - e : v[k] = t[e + k] /\ e + k \in 1..Len(t)
  BY <1>1, <1>2, RestIs
<1> DEFINE at == [k \in 1..e - 1 |-> k]
           av == [k \in 1..Len(t) - e |-> e + k]
<1>5. (\A k \in 1..e - 1 : at[k] = k) /\ \A k \in 1..Len(t) - e : av[k] = e + k
  OBVIOUS
<1> HIDE DEF at, av
<1>6. \A k \in 1..Len(u) : at[k] \in 1..Len(t) /\ t[at[k]] = u[k]
  BY <1>3, <1>5
<1>7. ASSUME NEW k \in 1..Len(v) PROVE av[k] \in 1..Len(t) /\ t[av[k]] = v[k]
  <2>1. k \in 1..Len(t) - e
    BY <1>4
  <2>2. av[k] = e + k /\ v[k] = t[e + k] /\ e + k \in 1..Len(t)
    BY <1>4, <1>5, <2>1
  <2> QED BY <2>2
<1>8. PartOf(u, t, at)
  BY <1>3, <1>5, <1>6 DEF PartOf
<1>9. PartOf(v, t, av)
  BY <1>2, <1>4, <1>5, <1>7 DEF PartOf
<1>10. ASSUME NEW k \in 1..Len(u), NEW l \in 1..Len(v) PROVE at[k] < av[l]
  <2>1. k \in 1..e - 1 /\ at[k] = k
    BY <1>3, <1>5
  <2>2. l \in 1..Len(t) - e /\ av[l] = e + l
    BY <1>4, <1>5
  <2>3. k < e + l
    BY <1>2, <2>1, <2>2
  <2> QED BY <2>1, <2>2, <2>3
<1>11. ASSUME NEW k \in 1..Len(t), t[k] \notin Tag
       PROVE  (\E l \in 1..Len(u) : u[l] = t[k]) \/ (\E l \in 1..Len(v) : v[l] = t[k])
  <2>1. k # e
    BY <1>11
  <2>2. k < e \/ k > e
    BY <1>2, <2>1
  <2>3. k < e => k \in 1..e - 1
    BY <1>2
  <2>4. k > e => k - e \in 1..Len(t) - e /\ e + (k - e) = k
    BY <1>2
  <2> QED BY <1>3, <1>4, <2>2, <2>3, <2>4
<1>12. Parts(u, at, v, av, t) /\ WordsOf(t) \subseteq WordsOf(u) \cup WordsOf(v)
  BY <1>8, <1>9, <1>10, <1>11 DEF Parts, WordsOf
<1> QED BY <1>1, <1>12, TwoTextsKeep

\* The last text loses the tag it starts with.
LEMMA BeheadKeeps ==
  ASSUME NEW out, ItemList(out), Len(out) > 0, NEW new, ItemList(new), Len(new) = Len(out),
         SameTexts(new, out, Len(out) - 1), NEW S, NEW t \in Seq(S), t = out[Len(out)].text,
         1 \in 1..Len(t), t[1] \in Tag,
         new[Len(out)].text = SubSeq(t, 2, Len(t))
  PROVE  WordsKept(new, out)
<1>1. PICK u : u = new[Len(out)].text
  OBVIOUS
<1>2. Len(t) \in Nat /\ Len(t) >= 1
  BY LenProperties
<1>3. /\ Len(u) = Len(t) - 1
      /\ \A k \in 1..Len(t) - 1 : u[k] = t[1 + k] /\ 1 + k \in 1..Len(t)
  <2>1. 1 + 1 = 2 /\ 1 \in Nat
    OBVIOUS
  <2>2. u = SubSeq(t, 1 + 1, Len(t))
    BY <1>1, <2>1
  <2> QED BY <1>2, <2>1, <2>2, RestIs
<1> DEFINE at == [k \in 1..Len(t) - 1 |-> 1 + k]
<1>4. \A k \in 1..Len(t) - 1 : at[k] = 1 + k
  OBVIOUS
<1> HIDE DEF at
<1>5. \A k \in 1..Len(u) : at[k] \in 1..Len(t) /\ t[at[k]] = u[k]
  BY <1>3, <1>4
<1>6. PartOf(u, t, at)
  BY <1>2, <1>3, <1>4, <1>5 DEF PartOf
<1>7. ASSUME NEW k \in 1..Len(t), t[k] \notin Tag
      PROVE  \E l \in 1..Len(u) : u[l] = t[k]
  <2>1. k # 1
    BY <1>7
  <2>2. k - 1 \in 1..Len(t) - 1 /\ 1 + (k - 1) = k
    BY <1>2, <2>1
  <2> QED BY <1>3, <2>2
<1>8. ASSUME NEW w \in WordsOf(t) PROVE w \in WordsOf(u)
  <2>1. PICK k \in 1..Len(t) : t[k] = w /\ w \notin Tag
    BY DEF WordsOf
  <2>2. PICK l \in 1..Len(u) : u[l] = w
    BY <1>7, <2>1
  <2> QED BY <2>1, <2>2 DEF WordsOf
<1> QED BY <1>1, <1>6, <1>8, OneTextKeeps

\* The words differ and are no tags.
DifferentWords(words, from, to) ==
  /\ from \in Nat /\ to \in Nat /\ from <= to
  /\ \A n \in from+1..to : words[n] \notin Tag
  /\ \A m, n \in from+1..to : words[m] = words[n] => m = n

\* Hold looks at the words of its range only.
LEMMA HoldAgrees ==
  ASSUME NEW out, NEW words, NEW other, NEW from, NEW to, NEW ordered,
         \A n \in from+1..to : other[n] = words[n], Hold(out, words, from, to, ordered)
  PROVE  Hold(out, other, from, to, ordered)
BY DEF Hold

\* No items hold no words.
LEMMA HoldNothing ==
  ASSUME NEW words, NEW n \in Nat, NEW ordered
  PROVE  Hold(<<>>, words, n, n, ordered)
<1>1. Places(<<>>) = {}
  <2>1. 1..Len(<<>>) = {}
    BY EmptySeq
  <2> QED BY <2>1 DEF Places
<1>2. n+1..n = {}
  OBVIOUS
<1> QED BY <1>1, <1>2 DEF Hold

\* Text `u' is `t' with tags, and the word w at most once, at its end.
Grown(u, t, w) ==
  /\ Len(t) \in Nat /\ Len(u) \in Nat /\ Len(t) <= Len(u)
  /\ \A k \in 1..Len(t) : u[k] = t[k]
  /\ \A k \in Len(t)+1..Len(u) : u[k] \in Tag \cup {w}
  /\ \A k, l \in Len(t)+1..Len(u) : u[k] = w /\ u[l] = w => k = l

\* The text of item j has got word w, the other texts are the same.
GrownAt(new, out, j, w) ==
  /\ Len(new) = Len(out) /\ j \in 1..Len(out)
  /\ \A i \in 1..Len(out) : i # j => new[i].text = out[i].text
  /\ Grown(new[j].text, out[j].text, w)

\* Where the tokens of a list are in which one text has grown.
LEMMA GrownPlaces ==
  ASSUME NEW out, ItemList(out), NEW new, NEW j, NEW w, GrownAt(new, out, j, w)
  PROVE  /\ \A p \in Places(out) : p \in Places(new) /\ TokenAt(new, p) = TokenAt(out, p)
         /\ \A p \in Places(new) : p \notin Places(out) =>
              \E k \in Len(out[j].text)+1..Len(new[j].text) : p = <<j, k>> /\ TokenAt(new, p) = new[j].text[k]
<1>1. ASSUME NEW p \in Places(out)
      PROVE  p \in Places(new) /\ TokenAt(new, p) = TokenAt(out, p)
  <2>1. PICK i \in 1..Len(out) : \E k \in 1..Len(out[i].text) : p = <<i, k>>
    BY PlaceIs
  <2>2. PICK k \in 1..Len(out[i].text) : p = <<i, k>>
    BY <2>1
  <2>3. i \in 1..Len(new) /\ k \in 1..Len(new[i].text) /\ new[i].text[k] = out[i].text[k]
    <3>1. CASE i = j
      <4>1. Len(out[j].text) \in Nat /\ Len(new[j].text) \in Nat /\ Len(out[j].text) <= Len(new[j].text)
        BY DEF GrownAt, Grown
      <4>2. k \in 1..Len(new[j].text)
        BY <3>1, <4>1
      <4> QED BY <3>1, <4>2 DEF GrownAt, Grown
    <3>2. CASE i # j
      BY <3>2 DEF GrownAt
    <3> QED BY <3>1, <3>2
  <2> QED BY <2>2, <2>3, PlaceOf
<1>2. ASSUME NEW p \in Places(new), p \notin Places(out)
      PROVE  \E k \in Len(out[j].text)+1..Len(new[j].text) : p = <<j, k>> /\ TokenAt(new, p) = new[j].text[k]
  <2>1. PICK i \in 1..Len(new) : \E k \in 1..Len(new[i].text) : p = <<i, k>>
    BY PlaceIs
  <2>2. PICK k \in 1..Len(new[i].text) : p = <<i, k>>
    BY <2>1
  <2>3. i \in 1..Len(out) /\ k \notin 1..Len(out[i].text)
    BY <1>2, <2>2, PlaceOf DEF GrownAt
  <2>4. i = j
    BY <2>3 DEF GrownAt
  <2>5. k \in Len(out[j].text)+1..Len(new[j].text)
    <3>1. Len(out[j].text) \in Nat /\ Len(new[j].text) \in Nat
      BY DEF GrownAt, Grown
    <3> QED BY <2>3, <2>4, <3>1
  <2> QED BY <2>2, <2>4, <2>5 DEF TokenAt
<1> QED BY <1>1, <1>2

\* The next word has been added to a text, with tags around it.
LEMMA WordAdded ==
  ASSUME NEW out, ItemList(out), NEW new, NEW j, NEW w, GrownAt(new, out, j, w),
         NEW words, NEW from, NEW to, NEW ordered, ordered => j = Len(out),
         DifferentWords(words, from, to + 1), to \in Nat, from <= to, words[to + 1] = w,
         Hold(out, words, from, to, ordered),
         \E k \in Len(out[j].text)+1..Len(new[j].text) : new[j].text[k] = w
  PROVE  Hold(new, words, from, to + 1, ordered)
<1> DEFINE old == Len(out[j].text)
<1>1. /\ from \in Nat /\ to \in Nat /\ to + 1 \in from+1..to + 1
      /\ \A n \in from+1..to : n \in from+1..to + 1 /\ n < to + 1
      /\ \A n \in from+1..to + 1 : n \in from+1..to \/ n = to + 1
  BY DEF DifferentWords
<1>2. w \notin Tag /\ \A n \in from+1..to : words[n] # w /\ words[n] \notin Tag
  BY <1>1 DEF DifferentWords
<1>3. /\ \A p \in Places(out) : p \in Places(new) /\ TokenAt(new, p) = TokenAt(out, p)
      /\ \A p \in Places(new) : p \notin Places(out) =>
              \E k \in old+1..Len(new[j].text) : p = <<j, k>> /\ TokenAt(new, p) = new[j].text[k]
  BY GrownPlaces
<1>4. ASSUME NEW p \in Places(out), TokenAt(out, p) \notin Tag
      PROVE  \E n \in from+1..to : TokenAt(out, p) = words[n]
  BY <1>4 DEF Hold
<1>5. ASSUME NEW p \in Places(new), p \notin Places(out)
      PROVE  \E k \in old+1..Len(new[j].text) : p = <<j, k>> /\ new[j].text[k] = TokenAt(new, p) /\ TokenAt(new, p) \in Tag \cup {w}
  BY <1>3, <1>5 DEF GrownAt, Grown
<1>6. \A p \in Places(new) : TokenAt(new, p) \notin Tag => \E n \in from+1..to + 1 : TokenAt(new, p) = words[n]
  <2> SUFFICES ASSUME NEW p \in Places(new), TokenAt(new, p) \notin Tag
               PROVE  \E n \in from+1..to + 1 : TokenAt(new, p) = words[n]
    OBVIOUS
  <2>1. CASE p \in Places(out)
    BY <1>1, <1>3, <1>4, <2>1
  <2>2. CASE p \notin Places(out)
    BY <1>1, <1>5, <2>2
  <2> QED BY <2>1, <2>2
<1>7. \A n \in from+1..to + 1 : \E p \in Places(new) : TokenAt(new, p) = words[n]
  <2>1. \A n \in from+1..to : \E p \in Places(new) : TokenAt(new, p) = words[n]
    BY <1>3 DEF Hold
  <2>2. \E p \in Places(new) : TokenAt(new, p) = w
    <3>1. PICK k \in old+1..Len(new[j].text) : new[j].text[k] = w
      OBVIOUS
    <3>2. old \in Nat /\ Len(new[j].text) \in Nat /\ j \in 1..Len(new)
      BY DEF GrownAt, Grown
    <3>3. k \in 1..Len(new[j].text)
      BY <3>2
    <3>4. <<j, k>> \in Places(new) /\ TokenAt(new, <<j, k>>) = new[j].text[k]
      BY <3>2, <3>3, PlaceOf
    <3> QED BY <3>1, <3>4
  <2> QED BY <1>1, <2>1, <2>2
<1>8. ASSUME NEW p \in Places(new), NEW q \in Places(new), Before(p, q),
             NEW m \in from+1..to + 1, NEW n \in from+1..to + 1,
             TokenAt(new, p) = words[m], TokenAt(new, q) = words[n]
      PROVE  m # n /\ (ordered => m < n)
  <2>1. TokenAt(new, p) \notin Tag /\ TokenAt(new, q) \notin Tag
    BY <1>1, <1>2, <1>8
  <2>2. ASSUME NEW r \in Places(out), NEW o \in from+1..to + 1, TokenAt(new, r) = words[o]
        PROVE  o \in from+1..to /\ TokenAt(out, r) = words[o]
    <3>1. TokenAt(out, r) = words[o] /\ words[o] \notin Tag
      BY <1>1, <1>2, <1>3, <2>2
    <3>2. words[o] # w
      BY <1>2, <1>4, <3>1
    <3> QED BY <1>1, <3>1, <3>2
  <2>3. ASSUME NEW r \in Places(new), r \notin Places(out), NEW o \in from+1..to + 1, TokenAt(new, r) = words[o]
        PROVE  o = to + 1 /\ \E k \in old+1..Len(new[j].text) : r = <<j, k>> /\ new[j].text[k] = w
    BY <1>1, <1>2, <1>5, <2>3
  <2>4. CASE p \in Places(out) /\ q \in Places(out)
    BY <1>8, <2>2, <2>4 DEF Hold
  <2>5. CASE p \in Places(out) /\ q \notin Places(out)
    <3>1. m \in from+1..to /\ n = to + 1
      BY <1>8, <2>2, <2>3, <2>5
    <3> QED BY <1>1, <3>1
  <2>6. CASE p \notin Places(out) /\ q \in Places(out)
    <3>1. n \in from+1..to /\ m = to + 1
      BY <1>8, <2>2, <2>3, <2>6
    <3>2. PICK k \in old+1..Len(new[j].text) : p = <<j, k>>
      BY <1>8, <2>3, <2>6
    <3>3. PICK i \in 1..Len(out) : \E l \in 1..Len(out[i].text) : q = <<i, l>>
      BY <2>6, PlaceIs
    <3>4. PICK l \in 1..Len(out[i].text) : q = <<i, l>>
      BY <3>3
    <3>5. j < i \/ (i = j /\ k < l)
      BY <1>8, <3>2, <3>4, BeforeIs
    <3>6. old \in Nat /\ Len(new[j].text) \in Nat /\ Len(out) \in Nat
      BY ListIs DEF GrownAt, Grown
    <3>7. ~(i = j /\ k < l)
      BY <3>2, <3>4, <3>6
    <3>8. ~(ordered /\ j < i)
      BY <3>6
    <3> QED BY <1>1, <3>1, <3>5, <3>7, <3>8
  <2>7. CASE p \notin Places(out) /\ q \notin Places(out)
    <3>1. PICK k \in old+1..Len(new[j].text) : p = <<j, k>> /\ new[j].text[k] = w
      BY <1>8, <2>3, <2>7
    <3>2. PICK l \in old+1..Len(new[j].text) : q = <<j, l>> /\ new[j].text[l] = w
      BY <1>8, <2>3, <2>7
    <3>3. k = l
      BY <3>1, <3>2 DEF GrownAt, Grown
    <3>4. j < j \/ k < k
      BY <1>8, <3>1, <3>2, <3>3, BeforeIs
    <3>5. j \in Nat /\ k \in Nat
      BY DEF GrownAt, Grown
    <3> QED BY <3>4, <3>5
  <2> QED BY <2>4, <2>5, <2>6, <2>7
<1> QED BY <1>6, <1>7, <1>8 DEF Hold

\* Only tags have been added.
LEMMA TagsAdded ==
  ASSUME NEW out, ItemList(out), NEW new, NEW j, NEW w, GrownAt(new, out, j, w),
         ~ \E k \in Len(out[j].text)+1..Len(new[j].text) : new[j].text[k] = w
  PROVE  WordsKept(new, out)
<1>1. /\ \A p \in Places(out) : p \in Places(new) /\ TokenAt(new, p) = TokenAt(out, p)
      /\ \A p \in Places(new) : p \notin Places(out) => TokenAt(new, p) \in Tag
  <2>1. \A k \in Len(out[j].text)+1..Len(new[j].text) : new[j].text[k] \in Tag
    BY DEF GrownAt, Grown
  <2>2. /\ \A p \in Places(out) : p \in Places(new) /\ TokenAt(new, p) = TokenAt(out, p)
        /\ \A p \in Places(new) : p \notin Places(out) =>
             \E k \in Len(out[j].text)+1..Len(new[j].text) : p = <<j, k>> /\ TokenAt(new, p) = new[j].text[k]
    BY GrownPlaces
  <2> QED BY <2>1, <2>2
<1> DEFINE g == [p \in Places(new) |-> p]
<1>2. \A p \in Places(new) : g[p] = p
  OBVIOUS
<1> HIDE DEF g
<1> QED BY <1>1, <1>2, MovedKeeps

\* A place of the second list in the joined one, ...
LEMMA PlaceInSecond ==
  ASSUME NEW a, ItemList(a), NEW b, ItemList(b), NEW c, Joined(c, a, b),
         NEW i \in 1..Len(b), NEW k, <<i, k>> \in Places(b)
  PROVE  <<Len(a) + i, k>> \in Places(c) /\ TokenAt(c, <<Len(a) + i, k>>) = TokenAt(b, <<i, k>>)
<1>1. k \in 1..Len(b[i].text)
  BY PlaceIs
<1>2. PICK j : j = Len(a) + i
  OBVIOUS
<1>3. j \in 1..Len(c) /\ c[j] = b[i]
  BY <1>2, ListIs DEF Joined
<1>4. <<j, k>> \in Places(c) /\ TokenAt(c, <<j, k>>) = b[i].text[k]
  BY <1>1, <1>3, PlaceOf
<1> QED BY <1>1, <1>2, <1>4, PlaceOf

\* ... a place of the first one, ...
LEMMA PlaceInFirst ==
  ASSUME NEW a, ItemList(a), NEW b, ItemList(b), NEW c, Joined(c, a, b), NEW i, NEW k, <<i, k>> \in Places(a)
  PROVE  <<i, k>> \in Places(c) /\ TokenAt(c, <<i, k>>) = TokenAt(a, <<i, k>>)
<1>1. i \in 1..Len(a) /\ k \in 1..Len(a[i].text)
  BY PlaceIs
<1>2. i \in 1..Len(c) /\ c[i] = a[i]
  BY <1>1, ListIs DEF Joined
<1> QED BY <1>1, <1>2, PlaceOf

\* The places of a list that is two lists.
InEither(p, a, b) ==
  \/ p \in Places(a) /\ p[1] <= Len(a)
  \/ \E i \in 1..Len(b) : \E k : p = <<Len(a) + i, k>> /\ <<i, k>> \in Places(b)

\* ... and there are no others.
LEMMA PlaceInEither ==
  ASSUME NEW a, ItemList(a), NEW b, ItemList(b), NEW c, Joined(c, a, b), NEW p \in Places(c)
  PROVE  InEither(p, a, b)
<1>1. PICK j \in 1..Len(c) : \E k \in 1..Len(c[j].text) : p = <<j, k>>
  BY PlaceIs
<1>2. PICK k \in 1..Len(c[j].text) : p = <<j, k>>
  BY <1>1
<1>3. CASE j \in 1..Len(a)
  <2>1. p \in Places(a)
    BY <1>2, <1>3, PlaceOf DEF Joined
  <2> QED BY <1>2, <1>3, <2>1 DEF InEither
<1>4. CASE j \notin 1..Len(a)
  <2>1. PICK i : i = j - Len(a)
    OBVIOUS
  <2>2. i \in 1..Len(b) /\ j = Len(a) + i
    BY <1>4, <2>1, ListIs DEF Joined
  <2>3. c[j] = b[i]
    BY <2>2 DEF Joined
  <2>4. <<i, k>> \in Places(b)
    BY <1>2, <2>2, <2>3, PlaceOf
  <2> QED BY <1>2, <2>2, <2>4 DEF InEither
<1> QED BY <1>3, <1>4

\* A list of two that hold words in turn holds all of them.
LEMMA HoldBoth ==
  ASSUME NEW a, ItemList(a), NEW b, ItemList(b), NEW c, Joined(c, a, b), NEW words, NEW ordered,
         NEW from \in Nat, NEW mid \in Nat, NEW to \in Nat, from <= mid, mid <= to,
         DifferentWords(words, from, to),
         Hold(a, words, from, mid, ordered), Hold(b, words, mid, to, ordered)
  PROVE  Hold(c, words, from, to, ordered)
<1>1. Len(a) \in Nat /\ Len(b) \in Nat
  BY ListIs
<1>2. ASSUME NEW i, NEW k, <<i, k>> \in Places(a)
      PROVE  <<i, k>> \in Places(c) /\ TokenAt(c, <<i, k>>) = TokenAt(a, <<i, k>>)
  BY <1>2, PlaceInFirst
<1>3. ASSUME NEW i \in 1..Len(b), NEW k, <<i, k>> \in Places(b)
      PROVE  <<Len(a) + i, k>> \in Places(c) /\ TokenAt(c, <<Len(a) + i, k>>) = TokenAt(b, <<i, k>>)
  BY <1>3, PlaceInSecond
<1>4. ASSUME NEW p \in Places(c)
      PROVE  \/ p \in Places(a) /\ p[1] <= Len(a)
             \/ \E i \in 1..Len(b) : \E k : p = <<Len(a) + i, k>> /\ <<i, k>> \in Places(b)
  <2>1. InEither(p, a, b)
    BY PlaceInEither
  <2> QED BY <2>1 DEF InEither
<1>5. /\ Len(a) \in Nat /\ Len(b) \in Nat
      /\ \A i, k : <<i, k>> \in Places(a) => <<i, k>> \in Places(c) /\ TokenAt(c, <<i, k>>) = TokenAt(a, <<i, k>>)
      /\ \A i \in 1..Len(b) : \A k : <<i, k>> \in Places(b) =>
           <<Len(a) + i, k>> \in Places(c) /\ TokenAt(c, <<Len(a) + i, k>>) = TokenAt(b, <<i, k>>)
      /\ \A p \in Places(c) :
           \/ p \in Places(a) /\ p[1] <= Len(a)
           \/ \E i \in 1..Len(b) : \E k : p = <<Len(a) + i, k>> /\ <<i, k>> \in Places(b)
  BY <1>1, <1>2, <1>3, <1>4
<1>6. /\ \A n \in from+1..mid : n \in from+1..to
      /\ \A n \in mid+1..to : n \in from+1..to
      /\ \A n \in from+1..to : n \in from+1..mid \/ n \in mid+1..to
      /\ \A m \in from+1..mid : \A n \in mid+1..to : m < n /\ m # n
  OBVIOUS
<1> DEFINE Left(p) == p \in Places(a) /\ p[1] <= Len(a) /\ TokenAt(c, p) = TokenAt(a, p)
           Right(p, i, k) == /\ i \in 1..Len(b) /\ p = <<Len(a) + i, k>> /\ <<i, k>> \in Places(b)
                             /\ TokenAt(c, p) = TokenAt(b, <<i, k>>)
<1>7. ASSUME NEW p \in Places(c) PROVE Left(p) \/ \E i, k : Right(p, i, k)
  <2>1. CASE p \in Places(a) /\ p[1] <= Len(a)
    <3>1. PICK i, k : p = <<i, k>>
      BY <2>1, PlaceIs
    <3> QED BY <1>5, <2>1, <3>1
  <2>2. CASE \E i \in 1..Len(b) : \E k : p = <<Len(a) + i, k>> /\ <<i, k>> \in Places(b)
    <3>1. PICK i \in 1..Len(b) : \E k : p = <<Len(a) + i, k>> /\ <<i, k>> \in Places(b)
      BY <2>2
    <3>2. PICK k : p = <<Len(a) + i, k>> /\ <<i, k>> \in Places(b)
      BY <3>1
    <3>3. TokenAt(c, <<Len(a) + i, k>>) = TokenAt(b, <<i, k>>)
      BY <1>5, <3>2
    <3>4. Right(p, i, k)
      BY <3>2, <3>3
    <3> QED BY <3>4
  <2> QED BY <1>5, <2>1, <2>2
<1>8. ASSUME NEW p \in Places(a), TokenAt(a, p) \notin Tag PROVE \E n \in from+1..mid : TokenAt(a, p) = words[n]
  BY <1>8 DEF Hold
<1>9. ASSUME NEW p \in Places(b), TokenAt(b, p) \notin Tag PROVE \E n \in mid+1..to : TokenAt(b, p) = words[n]
  BY <1>9 DEF Hold
<1>10. ASSUME NEW p \in Places(c), TokenAt(c, p) \notin Tag PROVE \E n \in from+1..to : TokenAt(c, p) = words[n]
  BY <1>6, <1>7, <1>8, <1>9, <1>10
<1>11. ASSUME NEW n \in from+1..to PROVE \E p \in Places(c) : TokenAt(c, p) = words[n]
  <2>1. CASE n \in from+1..mid
    <3>1. PICK p \in Places(a) : TokenAt(a, p) = words[n]
      BY <2>1 DEF Hold
    <3>2. PICK i, k : p = <<i, k>>
      BY PlaceIs
    <3> QED BY <1>5, <3>1, <3>2
  <2>2. CASE n \in mid+1..to
    <3>1. PICK p \in Places(b) : TokenAt(b, p) = words[n]
      BY <2>2 DEF Hold
    <3>2. PICK i \in 1..Len(b) : \E k \in 1..Len(b[i].text) : p = <<i, k>>
      BY PlaceIs
    <3>3. PICK k \in 1..Len(b[i].text) : p = <<i, k>>
      BY <3>2
    <3>4. /\ <<Len(a) + i, k>> \in Places(c)
          /\ TokenAt(c, <<Len(a) + i, k>>) = TokenAt(b, <<i, k>>)
      BY <1>5, <3>1, <3>3
    <3> QED BY <3>1, <3>3, <3>4
  <2> QED BY <1>6, <2>1, <2>2
<1>12. ASSUME NEW p \in Places(c), NEW q \in Places(c), Before(p, q),
              NEW m \in from+1..to, NEW n \in from+1..to, TokenAt(c, p) = words[m], TokenAt(c, q) = words[n]
       PROVE  m # n /\ (ordered => m < n)
  <2>0. /\ words[m] \notin Tag /\ words[n] \notin Tag
        /\ \A o \in from+1..to : (words[o] = words[m] => o = m) /\ (words[o] = words[n] => o = n)
    BY DEF DifferentWords
  <2>1. Left(p) => m \in from+1..mid
    BY <1>6, <1>8, <1>12, <2>0
  <2>2. Left(q) => n \in from+1..mid
    BY <1>6, <1>8, <1>12, <2>0
  <2>3. ASSUME NEW i, NEW k, Right(p, i, k) PROVE m \in mid+1..to
    BY <1>6, <1>9, <1>12, <2>0, <2>3
  <2>4. ASSUME NEW i, NEW k, Right(q, i, k) PROVE n \in mid+1..to
    BY <1>6, <1>9, <1>12, <2>0, <2>4
  <2>5. CASE Left(p) /\ Left(q)
    BY <1>12, <2>1, <2>2, <2>5 DEF Hold
  <2>6. ASSUME Left(p), NEW i, NEW k, Right(q, i, k) PROVE m # n /\ (ordered => m < n)
    BY <1>6, <2>1, <2>4, <2>6
  <2>7. ASSUME NEW i, NEW k, Right(p, i, k), Left(q) PROVE FALSE
    <3>1. PICK j \in 1..Len(a) : \E l \in 1..Len(a[j].text) : q = <<j, l>>
      BY <2>7, PlaceIs
    <3>2. PICK l : q = <<j, l>>
      BY <3>1
    <3>3. Len(a) + i < j \/ Len(a) + i = j
      BY <1>12, <2>7, <3>2, BeforeIs
    <3> QED BY <1>5, <2>7, <3>3
  <2>8. ASSUME NEW i, NEW k, Right(p, i, k), NEW j, NEW l, Right(q, j, l)
        PROVE  m # n /\ (ordered => m < n)
    <3>1. Before(<<i, k>>, <<j, l>>)
      <4>1. Len(a) + i < Len(a) + j \/ (Len(a) + i = Len(a) + j /\ k < l)
        BY <1>12, <2>8, BeforeIs
      <4>2. i < j \/ (i = j /\ k < l)
        BY <1>5, <2>8, <4>1
      <4> QED BY <4>2, BeforeIs
    <3>2. m \in mid+1..to /\ n \in mid+1..to
      BY <2>3, <2>4, <2>8
    <3> QED BY <1>12, <2>8, <3>1, <3>2 DEF Hold
  <2> QED BY <1>7, <2>5, <2>6, <2>7, <2>8
<1> QED BY <1>10, <1>11, <1>12 DEF Hold

-----------------------------------------------------------------------------
(* The types of the items                                                  *)

\* What texts are made of.
Token == Range(Vocabulary) \cup Tag \cup {Earlier}

\* The domain of an item: only calls and results have an id.
TypedItem(r) ==
  /\ r.type \in {"message", "reasoning", "code"} \cup ToolItem
  /\ r.status \in {"in_progress", "completed"}
  /\ r.text \in Seq(Token)
  /\ r.id # 0 <=> r.type \in ToolItem

\* A list of such items.
TypedList(out) == ItemList(out) /\ \A i \in 1..Len(out) : TypedItem(out[i])

\* The items that the code makes are of this domain.
LEMMA TypedNew ==
  /\ \A type \in {"message", "reasoning", "code"}, text \in Seq(Token) :
       TypedItem(Item(type, text)) /\ Item(type, text).text = text /\ Item(type, text).status = "in_progress"
         /\ Item(type, text).native = FALSE
  /\ \A text \in Seq(Token) :
       /\ TypedItem(MessageItem(text)) /\ MessageItem(text).text = text
       /\ TypedItem(Native(text)) /\ Native(text).text = text /\ Native(text).native = TRUE
  /\ \A id \in Nat \ {0} : /\ TypedItem(Call(id)) /\ Call(id).text = <<>>
                           /\ TypedItem(Result(id)) /\ Result(id).text = <<>>
<1>1. <<>> \in Seq(Token)
  BY EmptySeq
<1> QED BY <1>1 DEF TypedItem, Item, MessageItem, Native, Call, Result, ToolItem

\* An item at the end of a list; a blank one keeps the words.
LEMMA AppendTyped ==
  ASSUME NEW out, TypedList(out), NEW r, IsItem(r), TypedItem(r)
  PROVE  /\ TypedList(Append(out, r)) /\ Len(Append(out, r)) = Len(out) + 1
         /\ \A i \in 1..Len(out) : Append(out, r)[i] = out[i]
         /\ Append(out, r)[Len(out) + 1] = r
         /\ r.text = <<>> => WordsKept(Append(out, r), out)
<1> DEFINE new == Append(out, r)
<1>1. /\ ItemList(out) /\ Len(out) \in Nat
      /\ ItemList(new) /\ Len(new) = Len(out) + 1
      /\ \A i \in 1..Len(out) : new[i] = out[i]
      /\ new[Len(out) + 1] = r
  BY ListAppend, ListIs DEF TypedList
<1> HIDE DEF new
<1>2. \A i \in 1..Len(new) : i \in 1..Len(out) \/ i = Len(out) + 1
  BY <1>1
<1>3. TypedList(new)
  BY <1>1, <1>2 DEF TypedList
<1>4. ASSUME r.text = <<>> PROVE WordsKept(new, out)
  <2>1. \A i \in 1..Len(new) : i \in 1..Len(out) => new[i].text = out[i].text
    BY <1>1
  <2>2. \A i \in 1..Len(new) : i \notin 1..Len(out) => new[i].text = <<>>
    BY <1>1, <1>2, <1>4
  <2>3. \A i \in 1..Len(out) : i \in 1..Len(new)
    BY <1>1
  <2> QED BY <1>1, <2>1, <2>2, <2>3, PaddedKeeps
<1> QED BY <1>1, <1>3, <1>4 DEF new

\* A list without its last item, which loses no word if that one is blank.
LEMMA FrontTyped ==
  ASSUME NEW out, TypedList(out), out # <<>>
  PROVE  /\ TypedList(Front(out)) /\ Len(Front(out)) = Len(out) - 1 /\ Len(out) \in Nat \ {0}
         /\ \A i \in 1..Len(out) - 1 : Front(out)[i] = out[i]
         /\ Last(out).text = <<>> => WordsKept(Front(out), out)
<1> DEFINE new == Front(out)
<1>1. /\ ItemList(out) /\ Len(out) \in Nat \ {0}
      /\ ItemList(new) /\ Len(new) = Len(out) - 1
      /\ \A i \in 1..Len(out) - 1 : new[i] = out[i]
  BY ListFront DEF TypedList
<1> HIDE DEF new
<1>2. \A i \in 1..Len(new) : i \in 1..Len(out) /\ i \in 1..Len(out) - 1
  BY <1>1
<1>3. TypedList(new)
  BY <1>1, <1>2 DEF TypedList
<1>4. ASSUME Last(out).text = <<>> PROVE WordsKept(new, out)
  <2>1. \A i \in 1..Len(new) : i \in 1..Len(out) => new[i].text = out[i].text
    BY <1>1
  <2>2. \A i \in 1..Len(out) : i \notin 1..Len(new) => i = Len(out)
    BY <1>1
  <2>3. out[Len(out)].text = <<>>
    BY <1>4 DEF Last
  <2> QED BY <1>1, <1>2, <2>1, <2>2, <2>3, PaddedKeeps
<1> QED BY <1>1, <1>3, <1>4 DEF new

\* An item in the place of another.
LEMMA SetTyped ==
  ASSUME NEW out, TypedList(out), NEW i \in 1..Len(out), NEW r, IsItem(r), TypedItem(r)
  PROVE  /\ TypedList([out EXCEPT ![i] = r]) /\ Len([out EXCEPT ![i] = r]) = Len(out)
         /\ \A j \in 1..Len(out) : [out EXCEPT ![i] = r][j] = IF j = i THEN r ELSE out[j]
BY ListSet DEF TypedList

\* The last item gets another text or is completed.
LEMMA SetTextTyped ==
  ASSUME NEW out, TypedList(out), out # <<>>, NEW text \in Seq(Token)
  PROVE  LET new == SetText(out, text)
             n == Len(out)
         IN  /\ TypedList(new) /\ Len(new) = n /\ n \in Nat \ {0} /\ SameTexts(new, out, n - 1)
             /\ new[n].text = text /\ new[n].type = out[n].type
             /\ new[n].status = out[n].status /\ new[n].native = out[n].native
             /\ \A i \in 1..n - 1 : new[i] = out[i]
<1> DEFINE n == Len(out)
           r == [out[n] EXCEPT !.text = text]
<1>1. n \in Nat \ {0} /\ n \in 1..Len(out)
  BY FrontTyped
<1>2. IsItem(out[n]) /\ TypedItem(out[n])
  BY <1>1 DEF TypedList, ItemList
<1>3. /\ IsItem(r) /\ r.text = text /\ r.type = out[n].type /\ r.id = out[n].id
      /\ r.status = out[n].status /\ r.native = out[n].native
  BY <1>2 DEF IsItem
<1>4. TypedItem(r)
  BY <1>2, <1>3 DEF TypedItem
<1>5. SetText(out, text) = [out EXCEPT ![n] = r]
  BY DEF SetText
<1> HIDE DEF r
<1>6. /\ TypedList([out EXCEPT ![n] = r]) /\ Len([out EXCEPT ![n] = r]) = Len(out)
      /\ \A j \in 1..Len(out) : [out EXCEPT ![n] = r][j] = IF j = n THEN r ELSE out[j]
  BY <1>1, <1>3, <1>4, SetTyped
<1> HIDE DEF n
<1>7. PICK new : new = SetText(out, text)
  OBVIOUS
<1>8. TypedList(new) /\ Len(new) = n /\ \A j \in 1..n : new[j] = IF j = n THEN r ELSE out[j]
  BY <1>5, <1>6, <1>7 DEF n
<1>9. \A i \in 1..n - 1 : new[i] = out[i]
  BY <1>1, <1>8
<1>10. new[n] = r
  BY <1>1, <1>8 DEF n
<1> QED BY <1>1, <1>3, <1>7, <1>8, <1>9, <1>10 DEF SameTexts, n

\* The last item is completed.
LEMMA CompleteTyped ==
  ASSUME NEW out, TypedList(out), out # <<>>
  PROVE  LET new == Complete(out)
             n == Len(out)
         IN  /\ TypedList(new) /\ Len(new) = n /\ n \in Nat \ {0}
             /\ new[n].text = out[n].text /\ new[n].type = out[n].type /\ new[n].status = "completed"
             /\ \A i \in 1..n - 1 : new[i] = out[i]
             /\ WordsKept(new, out)
<1> DEFINE n == Len(out)
           r == [out[n] EXCEPT !.status = "completed"]
<1>1. n \in Nat \ {0} /\ n \in 1..Len(out)
  BY FrontTyped
<1>2. IsItem(out[n]) /\ TypedItem(out[n])
  BY <1>1 DEF TypedList, ItemList
<1>3. /\ IsItem(r) /\ r.text = out[n].text /\ r.type = out[n].type /\ r.id = out[n].id
      /\ r.status = "completed"
  BY <1>2 DEF IsItem
<1>4. TypedItem(r)
  BY <1>2, <1>3 DEF TypedItem
<1>5. Complete(out) = [out EXCEPT ![n] = r]
  BY DEF Complete
<1> HIDE DEF r
<1>6. /\ TypedList([out EXCEPT ![n] = r]) /\ Len([out EXCEPT ![n] = r]) = Len(out)
      /\ \A j \in 1..Len(out) : [out EXCEPT ![n] = r][j] = IF j = n THEN r ELSE out[j]
  BY <1>1, <1>3, <1>4, SetTyped
<1> HIDE DEF n
<1>7. PICK new : new = Complete(out)
  OBVIOUS
<1>8. TypedList(new) /\ Len(new) = n /\ \A j \in 1..n : new[j] = IF j = n THEN r ELSE out[j]
  BY <1>5, <1>6, <1>7 DEF n
<1>9. \A i \in 1..n - 1 : new[i] = out[i]
  BY <1>1, <1>8
<1>10. new[n] = r
  BY <1>1, <1>8 DEF n
<1>11. \A i \in 1..n : new[i].text = out[i].text
  BY <1>3, <1>8
<1>12. WordsKept(new, out)
  BY <1>8, <1>11, PaddedKeeps DEF n, TypedList
<1> QED BY <1>1, <1>3, <1>7, <1>8, <1>9, <1>10, <1>12 DEF n

\* The list holds one word more, the next one.
WordJoins(new, out, w) ==
  \A words, from, to, ordered :
    /\ from \in Nat /\ to \in Nat /\ from <= to /\ words[to + 1] = w
    /\ DifferentWords(words, from, to + 1) /\ Hold(out, words, from, to, ordered)
    => Hold(new, words, from, to + 1, ordered)

\* A chunk of tags with or without the next word.
ChunkJoins(new, out, chunk, w) == IF w \in Range(chunk) THEN WordJoins(new, out, w) ELSE WordsKept(new, out)

\* A word joins after words were kept, ...
LEMMA JoinsAfter ==
  ASSUME NEW a, NEW b, NEW c, NEW w, WordsKept(b, a), WordJoins(c, b, w)
  PROVE  WordJoins(c, a, w)
<1> SUFFICES ASSUME NEW words, NEW from \in Nat, NEW to \in Nat, NEW ordered, from <= to, words[to + 1] = w,
                    DifferentWords(words, from, to + 1), Hold(a, words, from, to, ordered)
             PROVE  Hold(c, words, from, to + 1, ordered)
  BY DEF WordJoins
<1>1. \A n \in from+1..to : words[n] \notin Tag
  BY DEF DifferentWords
<1>2. Hold(b, words, from, to, ordered)
  BY <1>1 DEF WordsKept
<1> QED BY <1>2 DEF WordJoins

\* ... or before, ...
LEMMA JoinsBefore ==
  ASSUME NEW a, NEW b, NEW c, NEW w, WordJoins(b, a, w), WordsKept(c, b)
  PROVE  WordJoins(c, a, w)
<1> SUFFICES ASSUME NEW words, NEW from \in Nat, NEW to \in Nat, NEW ordered, from <= to, words[to + 1] = w,
                    DifferentWords(words, from, to + 1), Hold(a, words, from, to, ordered)
             PROVE  Hold(c, words, from, to + 1, ordered)
  BY DEF WordJoins
<1>1. Hold(b, words, from, to + 1, ordered)
  BY DEF WordJoins
<1>2. \A n \in from+1..to + 1 : words[n] \notin Tag
  BY DEF DifferentWords
<1> QED BY <1>1, <1>2 DEF WordsKept

\* ... and so does the word of a chunk, after ...
LEMMA ChunkJoinsAfter ==
  ASSUME NEW a, NEW b, NEW c, NEW chunk, NEW w, WordsKept(b, a), ChunkJoins(c, b, chunk, w)
  PROVE  ChunkJoins(c, a, chunk, w)
BY JoinsAfter, WordsKeptFurther DEF ChunkJoins

\* ... or before.
LEMMA ChunkJoinsBefore ==
  ASSUME NEW a, NEW b, NEW c, NEW chunk, NEW w, ChunkJoins(b, a, chunk, w), WordsKept(c, b)
  PROVE  ChunkJoins(c, a, chunk, w)
BY JoinsBefore, WordsKeptFurther DEF ChunkJoins

\* A delta: tags and at most one word.
IsChunk(chunk, w) == chunk \in Seq(Tag \cup {w}) /\ AtMostOne(chunk, {w})

\* Growing the last text.
LEMMA GrownJoins ==
  ASSUME NEW out, ItemList(out), NEW new, NEW w, NEW chunk, IsChunk(chunk, w), Len(out) \in 1..Len(out),
         GrownAt(new, out, Len(out), w),
         NEW t, t = out[Len(out)].text, NEW u, u = new[Len(out)].text,
         Len(u) = Len(t) + Len(chunk), \A k \in 1..Len(chunk) : u[Len(t) + k] = chunk[k]
  PROVE  ChunkJoins(new, out, chunk, w)
<1>1. Len(t) \in Nat /\ Len(chunk) \in Nat /\ DOMAIN chunk = 1..Len(chunk)
  BY LenProperties DEF GrownAt, Grown, IsChunk
<1>2. w \in Range(chunk) <=> \E k \in Len(t)+1..Len(u) : u[k] = w
  <2>1. ASSUME NEW k \in 1..Len(chunk), chunk[k] = w PROVE \E l \in Len(t)+1..Len(u) : u[l] = w
    <3>1. Len(t) + k \in Len(t)+1..Len(u)
      BY <1>1
    <3> QED BY <2>1, <3>1
  <2>2. ASSUME NEW l \in Len(t)+1..Len(u), u[l] = w PROVE \E k \in 1..Len(chunk) : chunk[k] = w
    <3>1. l - Len(t) \in 1..Len(chunk) /\ Len(t) + (l - Len(t)) = l
      BY <1>1
    <3> QED BY <2>2, <3>1
  <2> QED BY <1>1, <2>1, <2>2 DEF Range
<1>3. ASSUME w \notin Range(chunk) PROVE WordsKept(new, out)
  BY <1>2, <1>3, TagsAdded
<1>4. ASSUME w \in Range(chunk) PROVE WordJoins(new, out, w)
  <2> SUFFICES ASSUME NEW words, NEW from \in Nat, NEW to \in Nat, NEW ordered, from <= to, words[to + 1] = w,
                      DifferentWords(words, from, to + 1), Hold(out, words, from, to, ordered)
               PROVE  Hold(new, words, from, to + 1, ordered)
    BY DEF WordJoins
  <2>1. \E k \in Len(t)+1..Len(u) : u[k] = w
    BY <1>2, <1>4
  <2> QED BY <2>1, WordAdded
<1> QED BY <1>3, <1>4 DEF ChunkJoins

\* The last item of a list.
LEMMA LastTyped ==
  ASSUME NEW out, TypedList(out), out # <<>>
  PROVE  /\ Len(out) \in 1..Len(out) /\ Last(out) = out[Len(out)] /\ Last(out).text \in Seq(Token)
         /\ TypedItem(Last(out)) /\ IsItem(Last(out))
BY LastIs DEF TypedList, TypedItem, ItemList

\* The tokens of a text and a chunk.
LEMMA TextWithChunk ==
  ASSUME NEW t \in Seq(Token), NEW w \in Token, NEW chunk, IsChunk(chunk, w)
  PROVE  /\ t \o chunk \in Seq(Token) /\ Len(t) \in Nat /\ Len(chunk) \in Nat
         /\ Len(t \o chunk) = Len(t) + Len(chunk)
         /\ \A k \in 1..Len(t) : (t \o chunk)[k] = t[k]
         /\ \A k \in 1..Len(chunk) : (t \o chunk)[Len(t) + k] = chunk[k]
         /\ Grown(t \o chunk, t, w)
<1>1. chunk \in Seq(Token)
  <2>1. Len(chunk) \in Nat /\ chunk \in [1..Len(chunk) -> Tag \cup {w}]
    BY LenProperties DEF IsChunk
  <2>2. Tag \cup {w} \subseteq Token
    BY DEF Token
  <2>3. chunk \in [1..Len(chunk) -> Token]
    BY <2>1, <2>2
  <2> QED BY <2>1, <2>3, SeqDef
<1>2. PICK u : u = t \o chunk
  OBVIOUS
<1>3. /\ u \in Seq(Token) /\ Len(u) = Len(t) + Len(chunk)
      /\ \A k \in 1..Len(t) + Len(chunk) : u[k] = IF k <= Len(t) THEN t[k] ELSE chunk[k - Len(t)]
  BY <1>1, <1>2, ConcatProperties
<1>4. Len(t) \in Nat /\ Len(chunk) \in Nat /\ DOMAIN chunk = 1..Len(chunk)
  BY <1>1, LenProperties
<1>5. \A k \in 1..Len(t) : u[k] = t[k]
  BY <1>3, <1>4
<1>6. ASSUME NEW k \in 1..Len(chunk) PROVE u[Len(t) + k] = chunk[k]
  <2>1. Len(t) + k \in 1..Len(t) + Len(chunk) /\ ~(Len(t) + k <= Len(t)) /\ Len(t) + k - Len(t) = k
    BY <1>4
  <2> QED BY <1>3, <2>1
<1>7. \A k \in Len(t)+1..Len(u) : k - Len(t) \in 1..Len(chunk) /\ u[k] = chunk[k - Len(t)]
  <2> SUFFICES ASSUME NEW k \in Len(t)+1..Len(u)
               PROVE  k - Len(t) \in 1..Len(chunk) /\ u[k] = chunk[k - Len(t)]
    OBVIOUS
  <2>1. k - Len(t) \in 1..Len(chunk) /\ k \in 1..Len(t) + Len(chunk) /\ ~(k <= Len(t))
    BY <1>3, <1>4
  <2> QED BY <1>3, <2>1
<1>8. \A k \in Len(t)+1..Len(u) : u[k] \in Tag \cup {w}
  <2>1. \A k \in 1..Len(chunk) : chunk[k] \in Tag \cup {w}
    BY LenProperties DEF IsChunk
  <2> QED BY <1>7, <2>1
<1>9. \A k, l \in Len(t)+1..Len(u) : u[k] = w /\ u[l] = w => k = l
  <2> SUFFICES ASSUME NEW k \in Len(t)+1..Len(u), NEW l \in Len(t)+1..Len(u), u[k] = w, u[l] = w PROVE k = l
    OBVIOUS
  <2>1. /\ k - Len(t) \in DOMAIN chunk /\ chunk[k - Len(t)] = w
        /\ l - Len(t) \in DOMAIN chunk /\ chunk[l - Len(t)] = w
    BY <1>4, <1>7
  <2>2. k - Len(t) = l - Len(t)
    BY <2>1 DEF IsChunk, AtMostOne
  <2>3. k \in Int /\ l \in Int
    BY <1>3, <1>4
  <2> QED BY <1>4, <2>2, <2>3
<1>10. Len(t) <= Len(u) /\ Len(u) \in Nat
  BY <1>3, <1>4
<1>11. Grown(u, t, w)
  BY <1>5, <1>8, <1>9, <1>10 DEF Grown
<1> QED BY <1>2, <1>3, <1>4, <1>5, <1>6, <1>11

\* A delta at the end of the last text.
LEMMA AddToLastJoins ==
  ASSUME NEW out, TypedList(out), out # <<>>, NEW w \in Token, NEW chunk, IsChunk(chunk, w)
  PROVE  TypedList(AddToLast(out, chunk)) /\ ChunkJoins(AddToLast(out, chunk), out, chunk, w)
<1>1. Len(out) \in 1..Len(out) /\ Last(out) = out[Len(out)] /\ Last(out).text \in Seq(Token)
  BY LastTyped
<1>2. PICK t, u : t = Last(out).text /\ u = t \o chunk
  OBVIOUS
<1>3. /\ u \in Seq(Token) /\ Len(u) = Len(t) + Len(chunk)
      /\ \A k \in 1..Len(chunk) : u[Len(t) + k] = chunk[k]
      /\ Grown(u, t, w)
  BY <1>1, <1>2, TextWithChunk
<1>4. PICK new : new = AddToLast(out, chunk)
  OBVIOUS
<1>5. new = SetText(out, u)
  BY <1>2, <1>4 DEF AddToLast
<1>6. /\ TypedList(new) /\ Len(new) = Len(out) /\ new[Len(out)].text = u
      /\ \A i \in 1..Len(out) - 1 : new[i] = out[i]
  BY <1>3, <1>5, SetTextTyped
<1>7. GrownAt(new, out, Len(out), w)
  <2>1. \A i \in 1..Len(out) : i # Len(out) => i \in 1..Len(out) - 1
    BY FrontTyped
  <2> QED BY <1>1, <1>2, <1>3, <1>6, <2>1 DEF GrownAt
<1>8. ItemList(out)
  BY DEF TypedList
<1>9. ChunkJoins(new, out, chunk, w)
  BY <1>1, <1>2, <1>3, <1>6, <1>7, <1>8, GrownJoins
<1> QED BY <1>4, <1>6, <1>9

\* A new item with the chunk as its text.
LEMMA AppendJoins ==
  ASSUME NEW out, TypedList(out), NEW w \in Token, NEW chunk, IsChunk(chunk, w), NEW r, IsItem(r), TypedItem(r),
         r.text = chunk
  PROVE  TypedList(Append(out, r)) /\ ChunkJoins(Append(out, r), out, chunk, w)
<1>0. <<>> \in Seq(Token) /\ Len(<<>>) = 0
  BY EmptySeq
<1> DEFINE blank == MessageItem(<<>>)
           mid == Append(out, blank)
           new == Append(out, r)
           n == Len(out) + 1
<1>1. IsItem(blank) /\ TypedItem(blank) /\ blank.text = <<>>
  BY <1>0, NewItems, TypedNew
<1> HIDE DEF blank
<1>2. /\ TypedList(mid) /\ Len(mid) = n /\ \A i \in 1..Len(out) : mid[i] = out[i]
      /\ mid[n] = blank /\ WordsKept(mid, out)
  BY <1>1, AppendTyped
<1>3. /\ TypedList(new) /\ Len(new) = n /\ \A i \in 1..Len(out) : new[i] = out[i]
      /\ new[n] = r
  BY AppendTyped
<1> HIDE DEF mid, new
<1>4. Len(out) \in Nat
  BY ListIs DEF TypedList
<1>5. n \in 1..n /\ \A i \in 1..n : i # n => i \in 1..Len(out)
  BY <1>4
<1>6. chunk \in Seq(Token) /\ Len(chunk) \in Nat
  BY LenProperties DEF TypedItem
<1>7. Grown(chunk, <<>>, w)
  <2>1. \A k \in 1..Len(chunk) : chunk[k] \in Tag \cup {w} /\ k \in DOMAIN chunk
    BY LenProperties DEF IsChunk
  <2>2. \A k \in 0+1..Len(chunk) : k \in 1..Len(chunk)
    OBVIOUS
  <2>3. \A k, l \in 1..Len(chunk) : chunk[k] = w /\ chunk[l] = w => k = l
    BY <2>1 DEF IsChunk, AtMostOne
  <2>4. 1..0 = {} /\ 0 <= Len(chunk) /\ 0 \in Nat
    BY <1>6
  <2> QED BY <1>0, <1>6, <2>1, <2>2, <2>3, <2>4 DEF Grown
<1>8. GrownAt(new, mid, n, w)
  BY <1>1, <1>2, <1>3, <1>5, <1>7 DEF GrownAt
<1>9. ItemList(mid) /\ Len(chunk) = 0 + Len(chunk) /\ \A k \in 1..Len(chunk) : 0 + k = k
  BY <1>2, <1>6 DEF TypedList
<1>10. ChunkJoins(new, mid, chunk, w)
  <2>1. mid[n].text = <<>> /\ new[n].text = chunk
    BY <1>1, <1>2, <1>3
  <2> QED BY <1>0, <1>2, <1>5, <1>8, <1>9, <2>1, GrownJoins
<1> QED BY <1>2, <1>3, <1>10, ChunkJoinsAfter DEF new

\* Ending native reasoning loses no word.
LEMMA CloseNativeTyped ==
  ASSUME NEW out, TypedList(out)
  PROVE  TypedList(CloseNative(out)) /\ WordsKept(CloseNative(out), out)
<1>1. CASE LastType(out) = "reasoning" /\ Last(out).native
  <2>1. out # <<>>
    BY <1>1 DEF LastType
  <2>2. TypedList(Complete(out)) /\ WordsKept(Complete(out), out)
    BY <2>1, CompleteTyped
  <2>3. IsItem(MessageItem(<<>>)) /\ TypedItem(MessageItem(<<>>)) /\ MessageItem(<<>>).text = <<>>
    BY NewItems, TypedNew, EmptySeq
  <2>4. PICK done, new : done = Complete(out) /\ new = Append(done, MessageItem(<<>>))
    OBVIOUS
  <2>5. TypedList(new) /\ WordsKept(new, done)
    BY <2>2, <2>3, <2>4, AppendTyped
  <2>6. WordsKept(new, out)
    BY <2>2, <2>4, <2>5, WordsKeptFurther
  <2> QED BY <1>1, <2>4, <2>5, <2>6 DEF CloseNative
<1>2. CASE ~(LastType(out) = "reasoning" /\ Last(out).native)
  BY <1>2, WordsKeptItself DEF CloseNative
<1> QED BY <1>1, <1>2

\* The text of a delta is added.
LEMMA AddValueJoins ==
  ASSUME NEW out, TypedList(out), NEW w \in Token, NEW chunk, IsChunk(chunk, w)
  PROVE  TypedList(AddValue(out, chunk)) /\ ChunkJoins(AddValue(out, chunk), out, chunk, w)
<1>1. PICK now : now = CloseNative(out)
  OBVIOUS
<1>2. TypedList(now) /\ WordsKept(now, out)
  BY <1>1, CloseNativeTyped
<1>3. CASE InsideTagBlock(now) \/ LastType(now) = "message"
  <2>1. now # <<>>
    BY <1>3 DEF InsideTagBlock, LastType
  <2>2. TypedList(AddToLast(now, chunk)) /\ ChunkJoins(AddToLast(now, chunk), now, chunk, w)
    BY <1>2, <2>1, AddToLastJoins
  <2>3. ChunkJoins(AddToLast(now, chunk), out, chunk, w)
    BY <1>2, <2>2, ChunkJoinsAfter
  <2> QED BY <1>1, <1>3, <2>2, <2>3 DEF AddValue
<1>4. CASE ~(InsideTagBlock(now) \/ LastType(now) = "message")
  <2>1. chunk \in Seq(Token)
    BY DEF IsChunk, Token
  <2>2. IsItem(MessageItem(chunk)) /\ TypedItem(MessageItem(chunk)) /\ MessageItem(chunk).text = chunk
    BY <2>1, NewItems, TypedNew
  <2>3. PICK new : new = Append(now, MessageItem(chunk))
    OBVIOUS
  <2>4. TypedList(new) /\ ChunkJoins(new, now, chunk, w)
    BY <1>2, <2>2, <2>3, AppendJoins
  <2>5. ChunkJoins(new, out, chunk, w)
    BY <1>2, <2>4, ChunkJoinsAfter
  <2> QED BY <1>1, <1>4, <2>3, <2>4, <2>5 DEF AddValue
<1> QED BY <1>3, <1>4

\* A word of native reasoning is added.
LEMMA AddReasoningJoins ==
  ASSUME NEW out, TypedList(out), NEW w \in Token, w \notin Tag
  PROVE  TypedList(AddReasoning(out, w)) /\ WordJoins(AddReasoning(out, w), out, w)
<1>1. PICK chunk : chunk = <<w>>
  OBVIOUS
<1>2. IsChunk(chunk, w) /\ w \in Range(chunk) /\ chunk \in Seq(Token)
  <2>1. chunk \in Seq({w}) /\ Len(chunk) = 1 /\ chunk[1] = w /\ DOMAIN chunk = {1}
    BY <1>1
  <2>2. chunk \in Seq(Tag \cup {w}) /\ chunk \in Seq(Token)
    BY <1>1
  <2>3. AtMostOne(chunk, {w})
    BY <2>1 DEF AtMostOne
  <2>4. w \in Range(chunk)
    BY <2>1 DEF Range
  <2> QED BY <2>2, <2>3, <2>4 DEF IsChunk
<1>3. CASE LastType(out) = "reasoning"
  <2>1. out # <<>>
    BY <1>3 DEF LastType
  <2>2. TypedList(AddToLast(out, chunk)) /\ ChunkJoins(AddToLast(out, chunk), out, chunk, w)
    BY <1>2, <2>1, AddToLastJoins
  <2> QED BY <1>1, <1>2, <1>3, <2>2 DEF AddReasoning, ChunkJoins
<1>4. CASE LastType(out) # "reasoning"
  <2>1. IsItem(Native(chunk)) /\ TypedItem(Native(chunk)) /\ Native(chunk).text = chunk
    BY <1>2, NewItems, TypedNew
  <2>2. PICK new : new = Append(out, Native(chunk))
    OBVIOUS
  <2>3. TypedList(new) /\ ChunkJoins(new, out, chunk, w)
    BY <1>2, <2>1, <2>2, AppendJoins
  <2> QED BY <1>1, <1>2, <1>4, <2>2, <2>3 DEF AddReasoning, ChunkJoins
<1> QED BY <1>3, <1>4

\* The tags of a kind.
LEMMA KindTags ==
  /\ \A kind : StartTag(kind) \in Tag /\ EndTag(kind) \in Tag /\ StartTag(kind) # EndTag(kind)
  /\ \A kind, other : StartTag(kind) # EndTag(other)
  /\ StartTag("reasoning") = "<think>" /\ EndTag("reasoning") = "</think>"
  /\ StartTag("code") = "<code>" /\ EndTag("code") = "</code>"
  /\ Tag = {"<code>", "</code>", "<think>", "</think>"}
BY DEF StartTag, EndTag, Tag

\* The text of a block without its start tags.
BlockText(kind, out) == Omit(Last(out).text, StartTag(kind))

\* Where a block ends.
LEMMA BlockEnds ==
  ASSUME NEW out, TypedList(out), out # <<>>, NEW kind, EndTag(kind) \in Range(Last(out).text)
  PROVE  LET text == BlockText(kind, out)
             end == FirstIn(text, EndTag(kind))
         IN  /\ text \in Seq(Token) /\ Len(text) \in Nat
             /\ end \in 1..Len(text) /\ text[end] = EndTag(kind)
             /\ \A k \in 1..Len(text) : text[k] = EndTag(kind) => end <= k
<1>1. Last(out).text \in Seq(Token)
  BY LastTyped
<1>2. PICK t : t = Last(out).text
  OBVIOUS
<1>3. t \in Seq(Token) /\ DOMAIN t = 1..Len(t) /\ \E k \in 1..Len(t) : t[k] = EndTag(kind)
  <2>1. DOMAIN t = 1..Len(t)
    BY <1>1, <1>2, LenProperties
  <2> QED BY <1>1, <1>2, <2>1 DEF Range
<1>4. PICK text : text = Omit(t, StartTag(kind))
  OBVIOUS
<1>5. /\ text \in Seq(Token)
      /\ \A k \in 1..Len(t) : t[k] # StartTag(kind) => \E l \in 1..Len(text) : text[l] = t[k]
  BY <1>3, <1>4, OmitIs
<1>6. \E l \in 1..Len(text) : text[l] = EndTag(kind)
  BY <1>3, <1>5, KindTags
<1>7. Len(text) \in Nat
  BY <1>5, LenProperties
<1>8. /\ FirstIn(text, EndTag(kind)) \in 1..Len(text) /\ text[FirstIn(text, EndTag(kind))] = EndTag(kind)
      /\ \A k \in 1..Len(text) : text[k] = EndTag(kind) => FirstIn(text, EndTag(kind)) <= k
  BY <1>6, <1>7, FirstInIs
<1>9. text = BlockText(kind, out)
  BY <1>2, <1>4 DEF BlockText
<1> QED BY <1>5, <1>7, <1>8, <1>9

\* A block that is blank goes, and an item that has the text after its tag
\* takes its place ...
Behead(new, out, text, r) ==
  /\ 1 \in 1..Len(text) /\ text[1] \in Tag /\ r.text = SubSeq(text, 2, Len(text))
  /\ new = Append(Front(out), r)

\* What Behead promises: the blank block is replaced, and no word is lost.
IsBeheaded(new, out, text, r) ==
  /\ TypedList(new) /\ WordsKept(new, SetText(out, text)) /\ Len(new) = Len(out) /\ Last(new) = r
  /\ \A i \in 1..Len(out) - 1 : new[i] = out[i]

\* It keeps its promise.
LEMMA BeheadBlock ==
  ASSUME NEW out, TypedList(out), out # <<>>, NEW text \in Seq(Token), NEW r, IsItem(r), TypedItem(r),
         NEW new, Behead(new, out, text, r)
  PROVE  IsBeheaded(new, out, text, r)
<1>1. 1 \in 1..Len(text) /\ text[1] \in Tag /\ r.text = SubSeq(text, 2, Len(text))
  BY DEF Behead
<1>2. PICK front : front = Front(out)
  OBVIOUS
<1>3. new = Append(front, r)
  BY <1>2 DEF Behead
<1>4. TypedList(front) /\ Len(front) = Len(out) - 1 /\ Len(out) \in Nat \ {0}
      /\ \A i \in 1..Len(out) - 1 : front[i] = out[i]
  BY <1>2, FrontTyped
<1>5. /\ TypedList(new) /\ Len(new) = Len(front) + 1 /\ \A i \in 1..Len(front) : new[i] = front[i]
      /\ new[Len(front) + 1] = r
  BY <1>3, <1>4, AppendTyped
<1>6. PICK mid : mid = SetText(out, text)
  OBVIOUS
<1>7. /\ TypedList(mid) /\ Len(mid) = Len(out) /\ mid[Len(out)].text = text
      /\ \A i \in 1..Len(out) - 1 : mid[i] = out[i]
  BY <1>6, SetTextTyped
<1>8. /\ Len(new) = Len(mid) /\ new[Len(mid)].text = SubSeq(text, 2, Len(text)) /\ Len(mid) > 0
      /\ new[Len(out)] = r /\ \A i \in 1..Len(out) - 1 : new[i] = out[i]
  <2>1. Len(front) + 1 = Len(out) /\ Len(out) > 0
    BY <1>4
  <2> QED BY <1>1, <1>4, <1>5, <1>7, <2>1
<1>9. SameTexts(new, mid, Len(mid) - 1)
  BY <1>7, <1>8 DEF SameTexts
<1>10. ItemList(new) /\ ItemList(mid)
  BY <1>5, <1>7 DEF TypedList
<1>11. WordsKept(new, mid)
  BY <1>1, <1>7, <1>8, <1>9, <1>10, BeheadKeeps
<1>12. Last(new) = r
  <2>1. new # <<>>
    BY <1>7, <1>8, EmptySeq
  <2> QED BY <1>7, <1>8, <1>10, <2>1, LastIs
<1> QED BY <1>5, <1>6, <1>7, <1>8, <1>11, <1>12 DEF IsBeheaded

\* ... another one is cut off at its end tag, with a message after it.
Cut(new, out, base, text, e, r) ==
  /\ e \in 1..Len(text) /\ text[e] \in Tag
  /\ Len(base) = Len(out) /\ \A i \in 1..Len(out) - 1 : base[i] = out[i]
  /\ r.text = SubSeq(text, e + 1, Len(text))
  /\ new = Append(SetText(base, SubSeq(text, 1, e - 1)), r)

\* What Cut promises: the text is in the block and in an item after it.
IsCut(new, out, base, text, e, r) ==
  /\ TypedList(new) /\ WordsKept(new, SetText(out, text))
  /\ Len(new) = Len(out) + 1 /\ Last(new) = r
  /\ new[Len(out)].type = base[Len(out)].type
  /\ \A i \in 1..Len(out) - 1 : new[i] = out[i]
  /\ new[Len(out)].text = SubSeq(text, 1, e - 1)

\* It keeps its promise.
LEMMA CutBlock ==
  ASSUME NEW out, TypedList(out), out # <<>>, NEW text \in Seq(Token), NEW e,
         NEW base, TypedList(base), NEW r, IsItem(r), TypedItem(r), NEW new, Cut(new, out, base, text, e, r)
  PROVE  IsCut(new, out, base, text, e, r)
<1>0. /\ e \in 1..Len(text) /\ text[e] \in Tag
      /\ Len(base) = Len(out) /\ \A i \in 1..Len(out) - 1 : base[i] = out[i]
      /\ r.text = SubSeq(text, e + 1, Len(text))
  BY DEF Cut
<1>1. PICK block : block = SubSeq(text, 1, e - 1)
  OBVIOUS
<1>2. PICK closed : closed = SetText(base, block)
  OBVIOUS
<1>3. new = Append(closed, r)
  BY <1>1, <1>2 DEF Cut
<1>4. Len(text) \in Nat /\ e \in Nat /\ e - 1 \in Nat /\ 1 \in Nat \ {0} /\ 1 <= e - 1 + 1 /\ e - 1 <= Len(text)
  <2>1. Len(text) \in Nat
    BY LenProperties
  <2> QED BY <1>0, <2>1
<1>5. block \in Seq(Token)
  BY <1>1, <1>4, PieceIs
<1>6. base # <<>> /\ Len(out) \in Nat \ {0}
  <2>1. Len(out) \in Nat \ {0}
    BY FrontTyped
  <2>2. Len(base) # 0
    BY <1>0, <2>1
  <2> QED BY <2>1, <2>2, EmptySeq
<1>7. /\ TypedList(closed) /\ Len(closed) = Len(base) /\ closed[Len(base)].text = block
      /\ closed[Len(base)].type = base[Len(base)].type
      /\ \A i \in 1..Len(base) - 1 : closed[i] = base[i]
  BY <1>2, <1>5, <1>6, SetTextTyped
<1>8. /\ TypedList(new) /\ Len(new) = Len(closed) + 1 /\ \A i \in 1..Len(closed) : new[i] = closed[i]
      /\ new[Len(closed) + 1] = r
  BY <1>3, <1>7, AppendTyped
<1>9. PICK mid : mid = SetText(out, text)
  OBVIOUS
<1>10. /\ TypedList(mid) /\ Len(mid) = Len(out) /\ mid[Len(out)].text = text
       /\ \A i \in 1..Len(out) - 1 : mid[i] = out[i]
  BY <1>9, SetTextTyped
<1>11. /\ \A i \in 1..Len(out) - 1 : new[i] = out[i]
       /\ new[Len(out)].text = block /\ new[Len(out)].type = base[Len(out)].type
  <2>1. ASSUME NEW i \in 1..Len(out) - 1 PROVE new[i] = out[i]
    <3>1. i \in 1..Len(closed) /\ i \in 1..Len(base) - 1
      BY <1>0, <1>6, <1>7
    <3> QED BY <1>0, <1>7, <1>8, <3>1
  <2>2. Len(out) \in 1..Len(closed)
    BY <1>0, <1>6, <1>7
  <2> QED BY <1>0, <1>7, <1>8, <2>1, <2>2
<1>12. /\ Len(new) = Len(mid) + 1 /\ new[Len(mid) + 1].text = SubSeq(text, e + 1, Len(text)) /\ Len(mid) > 0
       /\ new[Len(mid)].text = SubSeq(text, 1, e - 1) /\ new[Len(new)] = r
  BY <1>0, <1>1, <1>6, <1>7, <1>8, <1>10, <1>11
<1>13. SameTexts(new, mid, Len(mid) - 1)
  BY <1>10, <1>11 DEF SameTexts
<1>14. ItemList(new) /\ ItemList(mid)
  BY <1>8, <1>10 DEF TypedList
<1>15. WordsKept(new, mid)
  BY <1>0, <1>10, <1>12, <1>13, <1>14, SplitKeeps
<1>16. Last(new) = r
  <2>1. new # <<>>
    BY <1>6, <1>10, <1>12, EmptySeq
  <2> QED BY <1>12, <1>14, <2>1, LastIs
<1> QED BY <1>1, <1>2, <1>3, <1>8, <1>9, <1>10, <1>11, <1>12, <1>15, <1>16 DEF IsCut

\* The last item of a list without start tags of a kind.
LEMMA OmitFromLast ==
  ASSUME NEW out, TypedList(out), out # <<>>, NEW kind
  PROVE  WordsKept(SetText(out, BlockText(kind, out)), out) /\ BlockText(kind, out) \in Seq(Token)
<1>1. Last(out) = out[Len(out)] /\ Last(out).text \in Seq(Token)
  BY LastTyped
<1>2. PICK t, text : t = Last(out).text /\ text = Omit(t, StartTag(kind))
  OBVIOUS
<1>3. text \in Seq(Token)
  BY <1>1, <1>2, OmitIs
<1>4. PICK mid : mid = SetText(out, text)
  OBVIOUS
<1>5. /\ TypedList(mid) /\ Len(mid) = Len(out) /\ SameTexts(mid, out, Len(out) - 1) /\ Len(out) > 0
      /\ mid[Len(out)].text = text
  BY <1>3, <1>4, SetTextTyped
<1>6. ItemList(out) /\ ItemList(mid)
  BY <1>5 DEF TypedList
<1>7. t \in Seq(Token) /\ t = out[Len(out)].text /\ mid[Len(out)].text = Omit(t, StartTag(kind))
  BY <1>1, <1>2, <1>5
<1>8. WordsKept(mid, out)
  BY <1>5, <1>6, <1>7, KindTags, OmitKeeps
<1> QED BY <1>2, <1>3, <1>4, <1>8 DEF BlockText

\* A block ends at its first end tag, which loses no word.
LEMMA EndBlockIs ==
  ASSUME NEW out, TypedList(out), out # <<>>, NEW kind, EndTag(kind) \in Range(Last(out).text)
  PROVE  LET text == BlockText(kind, out)
             end == FirstIn(text, EndTag(kind))
             new == EndBlock(kind, out).out
         IN  /\ EndBlock(kind, out).end = TRUE
             /\ TypedList(new) /\ WordsKept(new, out)
             /\ Last(new) = MessageItem(SubSeq(text, end + 1, Len(text)))
             /\ \A i \in 1..Len(out) - 1 : new[i] = out[i]
             /\ end = 1 => Len(new) = Len(out)
             /\ end # 1 => /\ Len(new) = Len(out) + 1 /\ new[Len(out)].type = out[Len(out)].type
                           /\ new[Len(out)].text = SubSeq(text, 1, end - 1)
<1>1. PICK text : text = BlockText(kind, out)
  OBVIOUS
<1>2. PICK end : end = FirstIn(text, EndTag(kind))
  OBVIOUS
<1>3. text \in Seq(Token) /\ Len(text) \in Nat /\ end \in 1..Len(text) /\ text[end] = EndTag(kind)
  BY <1>1, <1>2, BlockEnds
<1>4. text[end] \in Tag
  BY <1>3, KindTags
<1>5. PICK block, after : block = SubSeq(text, 1, end - 1) /\ after = SubSeq(text, end + 1, Len(text))
  OBVIOUS
<1>6. after \in Seq(Token) /\ block \in Seq(Token) /\ (block = <<>> <=> end = 1)
  <2>1. end + 1 \in Nat \ {0} /\ end + 1 <= Len(text) + 1 /\ end - 1 \in Nat /\ end - 1 <= Len(text) /\ 1 <= end - 1 + 1
        /\ 1 \in Nat \ {0}
    BY <1>3
  <2>2. block \in Seq(Token) /\ Len(block) = end - 1 - 1 + 1
    BY <1>3, <1>5, <2>1, PieceIs
  <2>3. after \in Seq(Token)
    BY <1>3, <1>5, <2>1, PieceIs
  <2>4. block = <<>> <=> Len(block) = 0
    BY <2>2, EmptySeq
  <2> QED BY <1>3, <2>2, <2>3, <2>4
<1>7. IsItem(MessageItem(after)) /\ TypedItem(MessageItem(after)) /\ MessageItem(after).text = after
  BY <1>6, NewItems, TypedNew
<1>8. PICK base : base = (IF kind = "reasoning" THEN Complete(out) ELSE out)
  OBVIOUS
<1>9. /\ TypedList(base) /\ Len(base) = Len(out) /\ \A i \in 1..Len(out) - 1 : base[i] = out[i]
      /\ base[Len(out)].type = out[Len(out)].type
  <2>1. CASE kind = "reasoning"
    BY <1>8, <2>1, CompleteTyped
  <2>2. CASE kind # "reasoning"
    BY <1>8, <2>2
  <2> QED BY <2>1, <2>2
<1>10. PICK new : new = EndBlock(kind, out).out
  OBVIOUS
<1>11. /\ EndBlock(kind, out).end = TRUE
       /\ new = Append(IF block = <<>> THEN Front(out) ELSE SetText(base, block), MessageItem(after))
  BY <1>1, <1>2, <1>5, <1>8, <1>10 DEF EndBlock, BlockText
<1>12. WordsKept(SetText(out, text), out)
  BY <1>1, OmitFromLast
<1>13. CASE end = 1
  <2>1. new = Append(Front(out), MessageItem(after)) /\ after = SubSeq(text, 2, Len(text))
    BY <1>5, <1>6, <1>11, <1>13
  <2>2. /\ TypedList(new) /\ WordsKept(new, SetText(out, text)) /\ Len(new) = Len(out) /\ Last(new) = MessageItem(after)
        /\ \A i \in 1..Len(out) - 1 : new[i] = out[i]
    <3>1. PICK r : r = MessageItem(after)
      OBVIOUS
    <3>2. Behead(new, out, text, r)
      BY <1>3, <1>4, <1>7, <1>13, <2>1, <3>1 DEF Behead
    <3>3. IsBeheaded(new, out, text, r)
      BY <1>3, <1>7, <3>1, <3>2, BeheadBlock
    <3> QED BY <3>1, <3>3 DEF IsBeheaded
  <2>3. WordsKept(new, out)
    BY <1>12, <2>2, WordsKeptFurther
  <2> QED BY <1>1, <1>2, <1>5, <1>10, <1>11, <1>13, <2>2, <2>3
<1>14. CASE end # 1
  <2>1. new = Append(SetText(base, SubSeq(text, 1, end - 1)), MessageItem(after))
    BY <1>5, <1>6, <1>11, <1>14
  <2>2. /\ TypedList(new) /\ WordsKept(new, SetText(out, text)) /\ Len(new) = Len(out) + 1
        /\ Last(new) = MessageItem(after) /\ new[Len(out)].type = base[Len(out)].type
        /\ \A i \in 1..Len(out) - 1 : new[i] = out[i]
        /\ new[Len(out)].text = SubSeq(text, 1, end - 1)
    <3>1. PICK r : r = MessageItem(after)
      OBVIOUS
    <3>2. IsItem(r) /\ TypedItem(r) /\ r.text = SubSeq(text, end + 1, Len(text))
      BY <1>5, <1>7, <3>1
    <3>3. new = Append(SetText(base, SubSeq(text, 1, end - 1)), r)
      BY <2>1, <3>1
    <3>4. /\ TypedList(new) /\ WordsKept(new, SetText(out, text))
          /\ Len(new) = Len(out) + 1 /\ Last(new) = r
          /\ new[Len(out)].type = base[Len(out)].type
          /\ \A i \in 1..Len(out) - 1 : new[i] = out[i]
          /\ new[Len(out)].text = SubSeq(text, 1, end - 1)
      <4>1. Cut(new, out, base, text, end, r)
        BY <1>3, <1>4, <1>9, <3>2, <3>3 DEF Cut
      <4>2. TypedList(base) /\ IsItem(r) /\ TypedItem(r) /\ text \in Seq(Token)
        BY <1>3, <1>9, <3>2
      <4>3. IsCut(new, out, base, text, end, r)
        BY <4>1, <4>2, CutBlock
      <4> QED BY <4>3 DEF IsCut
    <3> QED BY <3>1, <3>4
  <2>3. WordsKept(new, out)
    BY <1>12, <2>2, WordsKeptFurther
  <2> QED BY <1>1, <1>2, <1>5, <1>9, <1>10, <1>11, <1>14, <2>2, <2>3
<1> QED BY <1>13, <1>14

\* Without its end tag a block stays open.
LEMMA EndBlockNot ==
  ASSUME NEW out, NEW kind, EndTag(kind) \notin Range(Last(out).text)
  PROVE  EndBlock(kind, out).out = out /\ EndBlock(kind, out).end = FALSE
BY DEF EndBlock

\* EndBlock loses no word.
LEMMA EndBlockTyped ==
  ASSUME NEW out, TypedList(out), out # <<>>, NEW kind
  PROVE  TypedList(EndBlock(kind, out).out) /\ WordsKept(EndBlock(kind, out).out, out)
<1>1. CASE EndTag(kind) \in Range(Last(out).text)
  BY <1>1, EndBlockIs
<1>2. CASE EndTag(kind) \notin Range(Last(out).text)
  BY <1>2, EndBlockNot, WordsKeptItself
<1> QED BY <1>1, <1>2

\* The list after a start tag has opened a block.
Opened(kind, out) ==
  LET text  == Last(out).text
      start == FirstIn(text, StartTag(kind))
      after == SubSeq(text, start + 1, Len(text))
      kept  == IF start = 1 THEN Front(out) ELSE SetText(out, SubSeq(text, 1, start - 1))
  IN  Append(kept, Item(kind, after))

\* StartBlock opens a block, and ends it if there is text in it.
LEMMA StartBlockIs ==
  \A kind, out :
    LET text == Last(out).text
        after == SubSeq(text, FirstIn(text, StartTag(kind)) + 1, Len(text))
    IN  StartBlock(kind, out) = IF after = <<>> THEN [out |-> Opened(kind, out), end |-> FALSE]
                                ELSE EndBlock(kind, Opened(kind, out))
BY DEF StartBlock, Opened

\* A text as it is.
LEMMA SameTextKeeps ==
  ASSUME NEW out, TypedList(out), out # <<>>
  PROVE  WordsKept(SetText(out, Last(out).text), out)
<1>1. Len(out) \in 1..Len(out) /\ Last(out) = out[Len(out)] /\ Last(out).text \in Seq(Token)
  BY LastTyped
<1>2. PICK text : text = Last(out).text
  OBVIOUS
<1>3. PICK new : new = SetText(out, text)
  OBVIOUS
<1>4. /\ TypedList(new) /\ Len(new) = Len(out) /\ new[Len(out)].text = text
      /\ Len(out) \in Nat \ {0} /\ \A i \in 1..Len(out) - 1 : new[i] = out[i]
  BY <1>1, <1>2, <1>3, SetTextTyped
<1>5. ItemList(new) /\ ItemList(out)
  BY <1>4 DEF TypedList
<1>6. ASSUME NEW i \in 1..Len(new) PROVE i \in 1..Len(out) /\ new[i].text = out[i].text
  <2>1. i \in 1..Len(out) /\ (i = Len(out) \/ i \in 1..Len(out) - 1)
    BY <1>4
  <2> QED BY <1>1, <1>2, <1>4, <2>1
<1>7. WordsKept(new, out)
  BY <1>4, <1>5, <1>6, PaddedKeeps
<1> QED BY <1>2, <1>3, <1>7

\* Opening a block loses no word.
LEMMA OpenedIs ==
  ASSUME NEW out, TypedList(out), out # <<>>, NEW kind \in {"reasoning", "code"},
         StartTag(kind) \in Range(Last(out).text)
  PROVE  LET text  == Last(out).text
             start == FirstIn(text, StartTag(kind))
             new   == Opened(kind, out)
         IN  /\ TypedList(new) /\ WordsKept(new, out)
             /\ start \in 1..Len(text) /\ text[start] = StartTag(kind)
             /\ \A k \in 1..Len(text) : text[k] = StartTag(kind) => start <= k
             /\ Last(new) = Item(kind, SubSeq(text, start + 1, Len(text)))
             /\ \A i \in 1..Len(out) - 1 : new[i] = out[i]
             /\ start = 1 => Len(new) = Len(out)
             /\ start # 1 => /\ Len(new) = Len(out) + 1 /\ new[Len(out)].type = out[Len(out)].type
                             /\ new[Len(out)].text = SubSeq(text, 1, start - 1)
<1>1. PICK text : text = Last(out).text
  OBVIOUS
<1>2. text \in Seq(Token) /\ Len(text) \in Nat /\ DOMAIN text = 1..Len(text)
  BY <1>1, LastTyped, LenProperties
<1>3. PICK start : start = FirstIn(text, StartTag(kind))
  OBVIOUS
<1>4. /\ start \in 1..Len(text) /\ text[start] = StartTag(kind) /\ text[start] \in Tag
      /\ \A k \in 1..Len(text) : text[k] = StartTag(kind) => start <= k
  <2>1. \E k \in 1..Len(text) : text[k] = StartTag(kind)
    BY <1>1, <1>2 DEF Range
  <2>2. /\ start \in 1..Len(text) /\ text[start] = StartTag(kind)
        /\ \A k \in 1..Len(text) : text[k] = StartTag(kind) => start <= k
    BY <1>2, <1>3, <2>1, FirstInIs
  <2> QED BY <2>2, KindTags
<1>5. PICK after : after = SubSeq(text, start + 1, Len(text))
  OBVIOUS
<1>6. after \in Seq(Token)
  <2>1. start + 1 \in Nat \ {0} /\ start + 1 <= Len(text) + 1
    BY <1>2, <1>4
  <2> QED BY <1>2, <1>5, <2>1, PieceIs
<1>7. PICK r : r = Item(kind, after)
  OBVIOUS
<1>8. IsItem(r) /\ TypedItem(r) /\ r.text = after
  BY <1>6, <1>7, NewItems, TypedNew
<1>9. PICK new : new = Opened(kind, out)
  OBVIOUS
<1>10. new = Append(IF start = 1 THEN Front(out) ELSE SetText(out, SubSeq(text, 1, start - 1)), r)
  BY <1>1, <1>3, <1>5, <1>7, <1>9 DEF Opened
<1>11. WordsKept(SetText(out, text), out)
  BY <1>1, SameTextKeeps
<1>12. CASE start = 1
  <2>1. Behead(new, out, text, r)
    BY <1>4, <1>5, <1>8, <1>10, <1>12 DEF Behead
  <2>2. IsBeheaded(new, out, text, r)
    BY <1>2, <1>8, <2>1, BeheadBlock
  <2>3. /\ TypedList(new) /\ WordsKept(new, SetText(out, text)) /\ Len(new) = Len(out) /\ Last(new) = r
        /\ \A i \in 1..Len(out) - 1 : new[i] = out[i]
    BY <2>2 DEF IsBeheaded
  <2>4. WordsKept(new, out)
    BY <1>11, <2>3, WordsKeptFurther
  <2> QED BY <1>1, <1>3, <1>4, <1>5, <1>7, <1>9, <1>12, <2>3, <2>4
<1>13. CASE start # 1
  <2>1. Cut(new, out, out, text, start, r)
    BY <1>4, <1>5, <1>8, <1>10, <1>13 DEF Cut
  <2>2. IsCut(new, out, out, text, start, r)
    BY <1>2, <1>8, <2>1, CutBlock
  <2>3. /\ TypedList(new) /\ WordsKept(new, SetText(out, text))
        /\ Len(new) = Len(out) + 1 /\ Last(new) = r
        /\ new[Len(out)].type = out[Len(out)].type
        /\ \A i \in 1..Len(out) - 1 : new[i] = out[i]
        /\ new[Len(out)].text = SubSeq(text, 1, start - 1)
    BY <2>2 DEF IsCut
  <2>4. WordsKept(new, out)
    BY <1>11, <2>3, WordsKeptFurther
  <2> QED BY <1>1, <1>3, <1>4, <1>5, <1>7, <1>9, <1>13, <2>3, <2>4
<1> QED BY <1>12, <1>13

\* StartBlock loses no word.
LEMMA StartBlockTyped ==
  ASSUME NEW out, TypedList(out), out # <<>>, NEW kind \in {"reasoning", "code"},
         StartTag(kind) \in Range(Last(out).text)
  PROVE  TypedList(StartBlock(kind, out).out) /\ WordsKept(StartBlock(kind, out).out, out)
<1>1. PICK open : open = Opened(kind, out)
  OBVIOUS
<1>2. TypedList(open) /\ WordsKept(open, out)
  BY <1>1, OpenedIs
<1>3. open # <<>>
  <2>1. Len(open) = Len(out) \/ Len(open) = Len(out) + 1
    BY <1>1, OpenedIs
  <2>2. Len(out) \in Nat \ {0}
    BY FrontTyped
  <2>3. Len(open) # 0
    BY <2>1, <2>2
  <2> QED BY <2>3, EmptySeq
<1>4. TypedList(EndBlock(kind, open).out) /\ WordsKept(EndBlock(kind, open).out, open)
  BY <1>2, <1>3, EndBlockTyped
<1>5. StartBlock(kind, out).out \in {open, EndBlock(kind, open).out}
  BY <1>1, StartBlockIs
<1>6. WordsKept(EndBlock(kind, open).out, out)
  BY <1>2, <1>4, WordsKeptFurther
<1>7. CASE StartBlock(kind, out).out = open
  BY <1>2, <1>7
<1>8. CASE StartBlock(kind, out).out = EndBlock(kind, open).out
  BY <1>4, <1>6, <1>8
<1> QED BY <1>5, <1>7, <1>8

\* TagOutput loses no word.
LEMMA TagOutputTyped ==
  ASSUME NEW out, TypedList(out), NEW kind \in {"reasoning", "code"}
  PROVE  TypedList(TagOutput(kind, out).out) /\ WordsKept(TagOutput(kind, out).out, out)
<1>1. CASE LastType(out) = "message" /\ StartTag(kind) \in Range(Last(out).text)
  <2>1. out # <<>>
    BY <1>1 DEF LastType
  <2>2. TagOutput(kind, out) = StartBlock(kind, out)
    BY <1>1 DEF TagOutput
  <2> QED BY <1>1, <2>1, <2>2, StartBlockTyped
<1>2. CASE ~(LastType(out) = "message" /\ StartTag(kind) \in Range(Last(out).text)) /\ LastType(out) = kind
  <2>1. out # <<>>
    BY <1>2 DEF LastType
  <2>2. TagOutput(kind, out) = EndBlock(kind, out)
    BY <1>2 DEF TagOutput
  <2> QED BY <2>1, <2>2, EndBlockTyped
<1>3. CASE ~(LastType(out) = "message" /\ StartTag(kind) \in Range(Last(out).text)) /\ LastType(out) # kind
  <2>1. TagOutput(kind, out).out = out
    BY <1>3 DEF TagOutput
  <2> QED BY <2>1, WordsKeptItself
<1> QED BY <1>1, <1>2, <1>3

\* A text delta adds its word, and loses none.
LEMMA ValueJoins ==
  ASSUME NEW out, TypedList(out), NEW w \in Token, NEW chunk, IsChunk(chunk, w)
  PROVE  TypedList(Value(out, chunk).out) /\ ChunkJoins(Value(out, chunk).out, out, chunk, w)
<1>1. PICK first : first = AddValue(out, chunk)
  OBVIOUS
<1>2. TypedList(first) /\ ChunkJoins(first, out, chunk, w)
  BY <1>1, AddValueJoins
<1>3. PICK second : second = TagOutput("reasoning", first).out
  OBVIOUS
<1>4. TypedList(second) /\ WordsKept(second, first)
  BY <1>2, <1>3, TagOutputTyped
<1>5. PICK third : third = TagOutput("code", second).out
  OBVIOUS
<1>6. TypedList(third) /\ WordsKept(third, second)
  BY <1>4, <1>5, TagOutputTyped
<1>7. ChunkJoins(second, out, chunk, w)
  BY <1>2, <1>4, ChunkJoinsBefore
<1>8. ChunkJoins(third, out, chunk, w)
  BY <1>6, <1>7, ChunkJoinsBefore
<1> QED BY <1>1, <1>3, <1>5, <1>6, <1>8 DEF Value

-----------------------------------------------------------------------------
(* What has been read                                                      *)

\* What has been received: words that differ, in the provider's order but for
\* what a continued message starts with, so that the next word is a new one.
ReadInv ==
  /\ received \in Seq(Range(Vocabulary) \cup {Earlier})
  /\ sent \in Nat /\ sent <= MaxSent /\ Len(received) <= sent + 1
  /\ DifferentWords(received, 0, Len(received))
  /\ pc = "payload" \/ caller # "none" =>
       \A m \in 1..Len(received) : received[m] \in {Vocabulary[m], Earlier}
  /\ pc = "payload" => caller = "none" /\ tokens = <<>> /\ received \in {<<>>, <<Earlier>>}
  /\ caller = "none" => pc \in {"payload", "shown", "background", "over"}

\* The words of the provider.
LEMMA VocabularyIs ==
  /\ Len(Vocabulary) \in Nat /\ DOMAIN Vocabulary = 1..Len(Vocabulary) /\ MaxSent \in Nat
  /\ MaxSent + 1 <= Len(Vocabulary) /\ Earlier \notin Tag
  /\ \A n \in 1..Len(Vocabulary) :
       Vocabulary[n] \in Range(Vocabulary) /\ Vocabulary[n] \notin Tag /\ Vocabulary[n] # Earlier
  /\ \A m, n \in 1..Len(Vocabulary) : Vocabulary[m] = Vocabulary[n] => m = n
<1>1. Len(Vocabulary) \in Nat /\ DOMAIN Vocabulary = 1..Len(Vocabulary)
  BY GenerationAssumption, LenProperties
<1>2. MaxSent \in Nat /\ MaxSent < Len(Vocabulary)
  BY GenerationAssumption
<1>3. \A n \in 1..Len(Vocabulary) : Vocabulary[n] \in Range(Vocabulary)
  BY <1>1 DEF Range
<1>4. Range(Vocabulary) \cap Tag = {} /\ Earlier \notin Range(Vocabulary) \cup Tag
  BY GenerationAssumption
<1>5. \A m, n \in 1..Len(Vocabulary) : Vocabulary[m] = Vocabulary[n] => m = n
  BY <1>1, GenerationAssumption DEF IsInjective
<1> QED BY <1>1, <1>2, <1>3, <1>4, <1>5

\* The next word is one of the vocabulary that has not been received.
LEMMA NextWordIs ==
  ASSUME ReadInv, sent < MaxSent, pc = "payload" \/ caller # "none"
  PROVE  /\ NextWord \in Range(Vocabulary) /\ NextWord \in Token /\ NextWord \notin Tag
         /\ Len(received) + 1 \in 1..Len(Vocabulary)
         /\ \A m \in 1..Len(received) : received[m] # NextWord
<1>1. Len(received) \in Nat /\ Len(received) <= sent + 1 /\ sent \in Nat
  BY LenProperties DEF ReadInv
<1>2. Len(received) + 1 \in 1..Len(Vocabulary)
  BY <1>1, VocabularyIs
<1>3. /\ NextWord \in Range(Vocabulary) /\ NextWord \notin Tag /\ NextWord # Earlier
      /\ NextWord = Vocabulary[Len(received) + 1]
  BY <1>2, VocabularyIs DEF NextWord
<1>4. ASSUME NEW m \in 1..Len(received) PROVE received[m] # NextWord
  <2>1. m \in 1..Len(Vocabulary) /\ m # Len(received) + 1
    BY <1>1, <1>2
  <2>2. Vocabulary[m] # NextWord
    BY <1>2, <1>3, <2>1, VocabularyIs
  <2> QED BY <1>3, <2>2 DEF ReadInv
<1> QED BY <1>2, <1>3, <1>4 DEF Token

\* A word is received.
LEMMA WordReceived ==
  ASSUME ReadInv, sent < MaxSent, pc = "payload" \/ caller # "none", NEW new, new = Append(received, NextWord)
  PROVE  /\ new \in Seq(Range(Vocabulary) \cup {Earlier}) /\ Len(new) = Len(received) + 1 /\ Len(received) \in Nat
         /\ new[Len(received) + 1] = NextWord /\ \A m \in 1..Len(received) : new[m] = received[m]
         /\ DifferentWords(new, 0, Len(new))
         /\ \A m \in 1..Len(new) : new[m] \in {Vocabulary[m], Earlier}
<1>1. /\ received \in Seq(Range(Vocabulary) \cup {Earlier}) /\ NextWord \in Range(Vocabulary) \cup {Earlier}
      /\ NextWord \notin Tag /\ \A m \in 1..Len(received) : received[m] # NextWord
  BY NextWordIs DEF ReadInv
<1>2. /\ new \in Seq(Range(Vocabulary) \cup {Earlier}) /\ Len(new) = Len(received) + 1 /\ Len(received) \in Nat
      /\ new[Len(received) + 1] = NextWord /\ \A m \in 1..Len(received) : new[m] = received[m]
  BY <1>1, AppendProperties, LenProperties
<1>3. \A m \in 1..Len(new) : m \in 1..Len(received) \/ m = Len(received) + 1
  BY <1>2
<1>4. DifferentWords(new, 0, Len(new))
  <2>1. /\ \A n \in 1..Len(received) : received[n] \notin Tag
        /\ \A m, n \in 1..Len(received) : received[m] = received[n] => m = n
    BY DEF ReadInv, DifferentWords
  <2>2. \A n \in 1..Len(new) : new[n] \notin Tag
    BY <1>1, <1>2, <1>3, <2>1
  <2>3. \A m, n \in 1..Len(new) : new[m] = new[n] => m = n
    BY <1>1, <1>2, <1>3, <2>1
  <2>4. Len(new) \in Nat /\ 0 <= Len(new) /\ 0 + 1 = 1
    BY <1>2
  <2> QED BY <2>2, <2>3, <2>4 DEF DifferentWords
<1>5. \A m \in 1..Len(new) : new[m] \in {Vocabulary[m], Earlier}
  BY <1>2, <1>3 DEF ReadInv, NextWord
<1> QED BY <1>2, <1>4, <1>5

\* Nothing has been read at the start.
LEMMA ReadInit == GenerationInit => ReadInv
<1> SUFFICES ASSUME GenerationInit PROVE ReadInv
  OBVIOUS
<1>1. received = <<>> \/ received = <<Earlier>>
  BY DEF GenerationInit
<1>2. received \in Seq(Range(Vocabulary) \cup {Earlier}) /\ Len(received) \in {0, 1}
  <2>1. <<>> \in Seq(Range(Vocabulary) \cup {Earlier}) /\ Len(<<>>) = 0
    BY EmptySeq
  <2>2. <<Earlier>> \in Seq({Earlier}) /\ Len(<<Earlier>>) = 1
    OBVIOUS
  <2>3. Seq({Earlier}) \subseteq Seq(Range(Vocabulary) \cup {Earlier})
    OBVIOUS
  <2> QED BY <1>1, <2>1, <2>2, <2>3
<1>3. \A m \in 1..Len(received) : m = 1 /\ received[m] = Earlier
  BY <1>1, <1>2
<1>4. sent = 0 /\ pc = "payload" /\ caller = "none" /\ tokens = <<>>
  BY DEF GenerationInit
<1>5. DifferentWords(received, 0, Len(received))
  BY <1>2, <1>3, VocabularyIs DEF DifferentWords
<1>6. sent \in Nat /\ sent <= MaxSent /\ Len(received) <= sent + 1
  <2>1. MaxSent \in Nat
    BY VocabularyIs
  <2>2. 0 <= MaxSent
    BY <2>1
  <2>3. Len(received) = 0 \/ Len(received) = 1
    BY <1>2
  <2>4. \A n : n = 0 \/ n = 1 => n <= 0 + 1
    OBVIOUS
  <2> QED BY <1>4, <2>2, <2>3, <2>4
<1> QED BY <1>1, <1>2, <1>3, <1>4, <1>5, <1>6 DEF ReadInv

\* A chunk holds tags and at most the next word.
LEMMA ChunkIs ==
  ASSUME NEW chunk \in Chunk
  PROVE  /\ IsChunk(chunk, NextWord) /\ Len(chunk) \in Nat \ {0} /\ DOMAIN chunk = 1..Len(chunk)
         /\ chunk \in Seq(Tag \cup {NextWord})
<1>1. MaxChunk \in Nat
  BY GenerationAssumption
<1>2. PICK n \in 1..MaxChunk : chunk \in [1..n -> {NextWord} \cup Tag]
  BY DEF Chunk
<1>3. n \in Nat \ {0} /\ {NextWord} \cup Tag = Tag \cup {NextWord}
  BY <1>1
<1>4. chunk \in Seq(Tag \cup {NextWord})
  BY <1>2, <1>3, SeqDef
<1>5. AtMostOne(chunk, {NextWord})
  BY DEF Chunk
<1>6. Len(chunk) = n /\ DOMAIN chunk = 1..n
  BY <1>2, <1>3, <1>4, LenProperties
<1> QED BY <1>3, <1>4, <1>5, <1>6 DEF IsChunk

\* A word is sent and received in one step.
LEMMA ReadWord ==
  ASSUME ReadInv, pc \notin {"payload", "shown", "background", "over"}, UNCHANGED <<pc, caller>>,
         received' = Append(received, NextWord), sent < MaxSent,
         sent' \in Nat, sent + 1 <= sent', sent' <= MaxSent
  PROVE  ReadInv'
<1>1. caller # "none"
  BY DEF ReadInv
<1>2. /\ received' \in Seq(Range(Vocabulary) \cup {Earlier}) /\ Len(received') = Len(received) + 1
      /\ Len(received) \in Nat /\ DifferentWords(received', 0, Len(received'))
      /\ \A m \in 1..Len(received') : received'[m] \in {Vocabulary[m], Earlier}
  BY <1>1, WordReceived
<1>3. Len(received) <= sent + 1 /\ sent \in Nat
  BY DEF ReadInv
<1>4. Len(received') <= sent' + 1
  BY <1>2, <1>3
<1> QED BY <1>1, <1>2, <1>4 DEF ReadInv

\* Every step keeps ReadInv.
LEMMA ReadStep == AnswerInv /\ ReadInv /\ [GenerationNext]_generationVars => ReadInv'
<1> SUFFICES ASSUME AnswerInv, ReadInv, [GenerationNext]_generationVars PROVE ReadInv'
  OBVIOUS
<1>1. caller = "none" => pc \in {"payload", "shown", "background", "over"}
  BY DEF ReadInv
<1>2. sent \in Nat /\ sent <= MaxSent /\ MaxSent \in Nat /\ Len(received) <= sent + 1
  BY VocabularyIs DEF ReadInv
<1>3. ASSUME UNCHANGED <<received, sent>>, pc' # "payload", caller' = "none" => caller = "none" /\ pc' \in {"shown", "background", "over"},
             caller = "none" /\ caller' # "none" => pc = "payload"
      PROVE  ReadInv'
  BY <1>3 DEF ReadInv
<1>4. ASSUME UNCHANGED received, pc \notin {"payload", "shown", "background", "over"}, UNCHANGED caller,
             pc' # "payload", sent' = sent + 1, sent < MaxSent
      PROVE  ReadInv'
  <2>1. sent' \in Nat /\ sent' <= MaxSent /\ Len(received) <= sent' + 1
    <3>1. Len(received) \in Nat
      BY LenProperties DEF ReadInv
    <3> QED BY <1>2, <1>4, <3>1
  <2> QED BY <1>1, <1>4, <2>1 DEF ReadInv
<1>5. CASE ResponseStreams
  BY <1>3, <1>5 DEF ResponseStreams, reading
<1>6. CASE ResponseWhole
  <2>1. /\ pc = "payload" /\ sent < MaxSent /\ pc' = "shown" /\ received' = <<NextWord>> /\ sent' = sent + 1
        /\ UNCHANGED caller
    BY <1>6 DEF ResponseWhole
  <2>2. NextWord \in Range(Vocabulary) /\ NextWord \notin Tag
    BY <2>1, NextWordIs
  <2>3. PICK w : w = NextWord
    OBVIOUS
  <2>4. received' = <<w>> /\ w \in Range(Vocabulary) /\ w \notin Tag
    BY <2>1, <2>2, <2>3
  <2>5. <<w>> \in Seq({w}) /\ Len(<<w>>) = 1 /\ <<w>>[1] = w
    OBVIOUS
  <2>6. Seq({w}) \subseteq Seq(Range(Vocabulary) \cup {Earlier})
    BY <2>4
  <2>7. DifferentWords(<<w>>, 0, 1)
    BY <2>4, <2>5 DEF DifferentWords
  <2>8. sent' \in Nat /\ sent' <= MaxSent /\ 1 <= sent' + 1
    BY <1>2, <2>1
  <2>9. caller' = "none" /\ pc' = "shown"
    BY <2>1 DEF ReadInv
  <2> QED BY <2>4, <2>5, <2>6, <2>7, <2>8, <2>9 DEF ReadInv
<1>7. ASSUME NEW chunk \in Chunk, TextDelta(chunk) PROVE ReadInv'
  <2>1. /\ pc = "stream" /\ pc' \in {"stream", "ended"} /\ UNCHANGED caller
        /\ sent + Len(chunk) <= MaxSent /\ sent' = sent + Len(chunk)
        /\ received' = IF NextWord \in Range(chunk) THEN Append(received, NextWord) ELSE received
    BY <1>7 DEF TextDelta, Goto
  <2>2. Len(chunk) \in Nat /\ Len(chunk) >= 1
    BY ChunkIs
  <2>3. sent' \in Nat /\ sent + 1 <= sent' /\ sent' <= MaxSent /\ sent < MaxSent
    BY <1>2, <2>1, <2>2
  <2>4. caller # "none"
    BY <1>1, <2>1
  <2>5. CASE NextWord \in Range(chunk)
    <3>1. received' = Append(received, NextWord)
      BY <2>1, <2>5
    <3>2. /\ received' \in Seq(Range(Vocabulary) \cup {Earlier}) /\ Len(received') = Len(received) + 1
          /\ Len(received) \in Nat /\ DifferentWords(received', 0, Len(received'))
          /\ \A m \in 1..Len(received') : received'[m] \in {Vocabulary[m], Earlier}
      BY <2>3, <2>4, <3>1, WordReceived
    <3>3. Len(received') <= sent' + 1
      BY <1>2, <2>3, <3>2
    <3> QED BY <2>1, <2>3, <2>4, <3>2, <3>3 DEF ReadInv
  <2>6. CASE NextWord \notin Range(chunk)
    <3>1. received' = received
      BY <2>1, <2>6
    <3>2. Len(received) \in Nat
      BY LenProperties DEF ReadInv
    <3>3. Len(received) <= sent' + 1
      BY <1>2, <2>3, <3>2
    <3> QED BY <2>1, <2>3, <2>4, <3>1, <3>3 DEF ReadInv
  <2> QED BY <2>5, <2>6
<1>8. ASSUME NEW i, ReasoningDelta \/ EventDelta(i) PROVE ReadInv'
  <2>1. /\ pc = "stream" /\ UNCHANGED <<pc, caller>> /\ sent < MaxSent /\ sent' = sent + 1
        /\ received' = Append(received, NextWord)
    BY <1>8 DEF ReasoningDelta, EventDelta, control
  <2>2. sent' \in Nat /\ sent + 1 <= sent' /\ sent' <= MaxSent
    BY <1>2, <2>1
  <2> QED BY <2>1, <2>2, ReadWord
<1>9. CASE CallDelta \/ \E type \in {"message", "reasoning", "call"} : EventAdded(type)
  <2>1. /\ pc = "stream" /\ UNCHANGED <<pc, caller, received>> /\ sent < MaxSent /\ sent' = sent + 1
    BY <1>9 DEF CallDelta, EventAdded, control
  <2> QED BY <1>4, <2>1
<1>10. CASE ToolRequest \/ CodeRequest
  BY <1>1, <1>3, <1>10 DEF ToolRequest, CodeRequest
<1>11. ASSUME NEW i, EventDone(i) \/ RunTool PROVE ReadInv'
  BY <1>11 DEF EventDone, RunTool, control, reading, ReadInv
<1>12. CASE PayloadFails \/ SaveWhole \/ BackgroundEnds \/ BackgroundFails \/ CancelGeneration
  BY <1>1, <1>3, <1>12 DEF PayloadFails, SaveWhole, BackgroundEnds, BackgroundFails, CancelGeneration, Goto, reading
<1>13. CASE \/ EventCompleted \/ StreamEnds \/ StreamFails \/ ToolRound \/ ToolsOver
            \/ ResultFails \/ ToolResults \/ ToolRequestFails
            \/ CodeRound \/ CodeResult \/ CodeRequestFails \/ Save \/ CancelSave
  <2>1. /\ pc \notin {"payload", "shown", "background", "over"} /\ UNCHANGED <<caller, received, sent>>
    BY <1>13 DEF EventCompleted, StreamEnds, StreamFails, ToolRound, ToolsOver,
       ResultFails, ToolResults, ToolRequestFails, CodeRound, CodeResult, CodeRequestFails, Save, CancelSave,
       Goto, reading
  <2>2. pc' # "payload"
    <3>1. CASE StreamFails
      <4>1. caller \in {"first", "tools", "code"}
        BY <3>1 DEF AnswerInv, StreamInv, StreamFails
      <4> QED BY <3>1, <4>1 DEF StreamFails, Goto
    <3>2. CASE ~StreamFails
      BY <1>13, <3>2 DEF EventCompleted, StreamEnds, ToolRound, ToolsOver,
         ResultFails, ToolResults, ToolRequestFails, CodeRound, CodeResult, CodeRequestFails, Save, CancelSave, Goto
    <3> QED BY <3>1, <3>2
  <2> QED BY <1>1, <1>3, <2>1, <2>2
<1>14. CASE UNCHANGED generationVars
  BY <1>14 DEF generationVars, control, reading, ReadInv
<1> QED BY <1>5, <1>6, <1>7, <1>8, <1>9, <1>10, <1>11, <1>12, <1>13, <1>14
        DEF GenerationNext, Progress, Deltas, Events

\* The ids of a list are at most n.
NumberedTo(out, n) == \A i \in 1..Len(out) : out[i].id <= n

\* Only tool calls and results have an id.
LEMMA KeptNumbers ==
  ASSUME NEW out, TypedList(out), NEW new, TypedList(new), Keeps(new, out), NEW n \in Nat, NumberedTo(out, n)
  PROVE  NumberedTo(new, n)
<1>1. DOMAIN out = 1..Len(out) /\ DOMAIN new = 1..Len(new)
  BY ListIs DEF TypedList
<1>2. ASSUME NEW i \in 1..Len(new) PROVE new[i].id <= n
  <2>1. CASE new[i].type \in ToolItem
    BY <1>1, <2>1 DEF Keeps, NumberedTo
  <2>2. CASE new[i].type \notin ToolItem
    <3>1. new[i].id = 0
      BY <2>2 DEF TypedList, TypedItem
    <3> QED BY <3>1
  <2> QED BY <2>1, <2>2
<1> QED BY <1>2 DEF NumberedTo

-----------------------------------------------------------------------------
(* The lists of items                                                      *)

\* The empty list.
LEMMA EmptyTyped == TypedList(<<>>) /\ \A n : NumberedTo(<<>>, n)
<1>1. Len(<<>>) = 0 /\ <<>> \in Seq(Range(<<>>)) /\ 1..0 = {}
  BY EmptySeq
<1> QED BY <1>1 DEF TypedList, ItemList, NumberedTo

\* A list of one item.
LEMMA OneTyped ==
  ASSUME NEW r, IsItem(r), TypedItem(r)
  PROVE  TypedList(<<r>>) /\ Len(<<r>>) = 1 /\ <<r>>[1] = r
<1>1. PICK out : out = <<r>>
  OBVIOUS
<1>2. Len(out) = 1 /\ out[1] = r /\ out \in [1..1 -> {r}]
  BY <1>1
<1>3. ItemList(out)
  BY <1>2, MakeList
<1> QED BY <1>1, <1>2, <1>3 DEF TypedList

\* Two lists after one another; blank items keep the words.
LEMMA ConcatTyped ==
  ASSUME NEW a, TypedList(a), NEW b, TypedList(b)
  PROVE  /\ TypedList(a \o b)
         /\ \A n : NumberedTo(a, n) /\ NumberedTo(b, n) => NumberedTo(a \o b, n)
         /\ (\A i \in 1..Len(b) : b[i].text = <<>>) => WordsKept(a \o b, a)
<1>1. ItemList(a) /\ ItemList(b)
  BY DEF TypedList
<1>2. PICK c : c = a \o b
  OBVIOUS
<1>3. Joined(c, a, b)
  BY <1>1, <1>2, ConcatJoins
<1>4. /\ ItemList(c) /\ Len(c) = Len(a) + Len(b) /\ Len(a) \in Nat /\ Len(b) \in Nat
      /\ \A i \in 1..Len(a) : c[i] = a[i]
      /\ \A i \in 1..Len(b) : c[Len(a) + i] = b[i]
  BY <1>1, <1>3, ListIs DEF Joined
<1>5. ASSUME NEW i \in 1..Len(c)
      PROVE  \/ i \in 1..Len(a) /\ c[i] = a[i]
             \/ i \notin 1..Len(a) /\ \E j \in 1..Len(b) : c[i] = b[j]
  <2>1. CASE i \in 1..Len(a)
    BY <1>4, <2>1
  <2>2. CASE i \notin 1..Len(a)
    <3>1. i - Len(a) \in 1..Len(b) /\ Len(a) + (i - Len(a)) = i
      BY <1>4, <2>2
    <3> QED BY <1>4, <2>2, <3>1
  <2> QED BY <2>1, <2>2
<1>6. TypedList(c)
  BY <1>4, <1>5 DEF TypedList
<1>7. \A n : NumberedTo(a, n) /\ NumberedTo(b, n) => NumberedTo(c, n)
  BY <1>5 DEF NumberedTo
<1>8. ASSUME \A i \in 1..Len(b) : b[i].text = <<>> PROVE WordsKept(c, a)
  <2>1. \A i \in 1..Len(c) : i \in 1..Len(a) => c[i].text = a[i].text
    BY <1>4
  <2>2. \A i \in 1..Len(c) : i \notin 1..Len(a) => c[i].text = <<>>
    BY <1>5, <1>8
  <2>3. \A i \in 1..Len(a) : i \in 1..Len(c)
    BY <1>4
  <2> QED BY <1>1, <1>4, <2>1, <2>2, <2>3, PaddedKeeps
<1> QED BY <1>2, <1>6, <1>7, <1>8

\* The same items, some of them completed.
LEMMA StatusTyped ==
  ASSUME NEW out, TypedList(out), NEW f, DOMAIN f = DOMAIN out,
         \A i \in DOMAIN out : f[i] \in {out[i], [out[i] EXCEPT !.status = "completed"]}, f = [i \in DOMAIN f |-> f[i]]
  PROVE  /\ TypedList(f) /\ Len(f) = Len(out) /\ WordsKept(f, out) /\ \A n : NumberedTo(out, n) => NumberedTo(f, n)
<1>1. DOMAIN out = 1..Len(out) /\ Len(out) \in Nat /\ \A i \in 1..Len(out) : IsItem(out[i]) /\ TypedItem(out[i])
  BY ListIs DEF TypedList, ItemList
<1>2. ASSUME NEW i \in 1..Len(out)
      PROVE  IsItem(f[i]) /\ TypedItem(f[i]) /\ f[i].text = out[i].text /\ f[i].id = out[i].id
  <2>1. IsItem(out[i]) /\ TypedItem(out[i])
    BY <1>1
  <2>2. CASE f[i] = out[i]
    BY <2>1, <2>2
  <2>3. CASE f[i] = [out[i] EXCEPT !.status = "completed"]
    <3>1. PICK r : r = out[i]
      OBVIOUS
    <3>2. f[i] = [r EXCEPT !.status = "completed"] /\ IsItem(r) /\ TypedItem(r)
      BY <2>1, <2>3, <3>1
    <3>3. /\ {"type", "status", "native", "text", "id"} \subseteq DOMAIN f[i] /\ f[i].status = "completed"
          /\ f[i].text = r.text /\ f[i].id = r.id /\ f[i].type = r.type
      BY <3>2 DEF IsItem
    <3>4. IsItem(f[i]) /\ TypedItem(f[i])
      BY <3>2, <3>3 DEF IsItem, TypedItem
    <3> QED BY <3>1, <3>3, <3>4
  <2> QED BY <1>1, <2>2, <2>3
<1>3. f \in [1..Len(out) -> Range(f)]
  BY <1>1 DEF Range
<1>4. ItemList(f) /\ Len(f) = Len(out)
  BY <1>1, <1>2, <1>3, MakeList
<1>5. TypedList(f)
  BY <1>2, <1>4 DEF TypedList
<1>6. ItemList(out)
  BY DEF TypedList
<1>7. WordsKept(f, out)
  BY <1>2, <1>4, <1>6, PaddedKeeps
<1>8. \A n : NumberedTo(out, n) => NumberedTo(f, n)
  BY <1>2, <1>4 DEF NumberedTo
<1> QED BY <1>4, <1>5, <1>7, <1>8

\* Trimmed loses no word.
LEMMA TrimmedTyped ==
  ASSUME NEW out, TypedList(out)
  PROVE  TypedList(Trimmed(out)) /\ WordsKept(Trimmed(out), out)
<1>1. CASE LastType(out) = "message" /\ Last(out).text = <<>>
  <2>1. out # <<>>
    BY <1>1 DEF LastType
  <2> QED BY <1>1, <2>1, FrontTyped DEF Trimmed
<1>2. CASE ~(LastType(out) = "message" /\ Last(out).text = <<>>)
  BY <1>2, WordsKeptItself DEF Trimmed
<1> QED BY <1>1, <1>2

\* CleanUp loses no word.
LEMMA CleanUpTyped ==
  ASSUME NEW out, TypedList(out)
  PROVE  TypedList(CleanUp(out)) /\ WordsKept(CleanUp(out), out)
<1>1. PICK kept : kept = (IF LastType(out) = "message" /\ Last(out).text = <<>> /\ Len(out) > 1
                          THEN Front(out) ELSE out)
  OBVIOUS
<1>2. TypedList(kept) /\ WordsKept(kept, out)
  <2>1. CASE LastType(out) = "message" /\ Last(out).text = <<>> /\ Len(out) > 1
    <3>1. out # <<>> /\ kept = Front(out)
      BY <1>1, <2>1 DEF LastType
    <3> QED BY <2>1, <3>1, FrontTyped
  <2>2. CASE ~(LastType(out) = "message" /\ Last(out).text = <<>> /\ Len(out) > 1)
    BY <1>1, <2>2, WordsKeptItself
  <2> QED BY <2>1, <2>2
<1>3. CleanUp(out) = IF LastType(kept) = "reasoning" THEN Complete(kept) ELSE kept
  BY <1>1 DEF CleanUp
<1>4. CASE LastType(kept) = "reasoning"
  <2>1. kept # <<>>
    BY <1>4 DEF LastType
  <2>2. TypedList(Complete(kept)) /\ WordsKept(Complete(kept), kept)
    BY <1>2, <2>1, CompleteTyped
  <2>3. WordsKept(Complete(kept), out)
    BY <1>2, <2>2, WordsKeptFurther
  <2> QED BY <1>3, <1>4, <2>2, <2>3
<1>5. CASE LastType(kept) # "reasoning"
  BY <1>2, <1>3, <1>5
<1> QED BY <1>4, <1>5

\* One item gets another text, or is completed.
TextAt(new, out, i, text) == new = [out EXCEPT ![i].text = text]

\* Item i is completed.
CompletedAt(new, out, i) == new = [out EXCEPT ![i].status = "completed"]

\* An item with another text.
LEMMA TextAtTyped ==
  ASSUME NEW out, TypedList(out), NEW i \in 1..Len(out), NEW text \in Seq(Token),
         NEW new, TextAt(new, out, i, text)
  PROVE  /\ TypedList(new) /\ Len(new) = Len(out) /\ new[i].text = text
         /\ new[i].type = out[i].type /\ \A n : NumberedTo(out, n) => NumberedTo(new, n)
         /\ \A j \in 1..Len(out) : j # i => new[j] = out[j]
<1>1. IsItem(out[i]) /\ TypedItem(out[i])
  BY DEF TypedList, ItemList
<1>2. PICK r : r = [out[i] EXCEPT !.text = text]
  OBVIOUS
<1>3. /\ {"type", "status", "native", "text", "id"} \subseteq DOMAIN r /\ r.text = text
      /\ r.id = out[i].id /\ r.type = out[i].type /\ r.status = out[i].status
  BY <1>1, <1>2 DEF IsItem
<1>4. IsItem(r) /\ TypedItem(r)
  BY <1>1, <1>3 DEF IsItem, TypedItem
<1>5. new = [out EXCEPT ![i] = r]
  BY <1>2 DEF TextAt
<1>6. /\ TypedList([out EXCEPT ![i] = r]) /\ Len([out EXCEPT ![i] = r]) = Len(out)
      /\ \A j \in 1..Len(out) : [out EXCEPT ![i] = r][j] = IF j = i THEN r ELSE out[j]
  BY <1>4, SetTyped
<1>7. TypedList(new) /\ Len(new) = Len(out) /\ \A j \in 1..Len(out) : new[j] = IF j = i THEN r ELSE out[j]
  BY <1>5, <1>6
<1>8. \A n : NumberedTo(out, n) => NumberedTo(new, n)
  BY <1>3, <1>7 DEF NumberedTo
<1> QED BY <1>3, <1>7, <1>8

\* An item with another status.
LEMMA StatusAtTyped ==
  ASSUME NEW out, TypedList(out), NEW i \in 1..Len(out), NEW new, CompletedAt(new, out, i)
  PROVE  /\ TypedList(new) /\ Len(new) = Len(out) /\ \A n : NumberedTo(out, n) => NumberedTo(new, n)
         /\ \A j \in 1..Len(out) : new[j].text = out[j].text /\ new[j].type = out[j].type
<1>1. IsItem(out[i]) /\ TypedItem(out[i])
  BY DEF TypedList, ItemList
<1>2. PICK r : r = [out[i] EXCEPT !.status = "completed"]
  OBVIOUS
<1>3. /\ {"type", "status", "native", "text", "id"} \subseteq DOMAIN r /\ r.text = out[i].text
      /\ r.id = out[i].id /\ r.type = out[i].type /\ r.status = "completed"
  BY <1>1, <1>2 DEF IsItem
<1>4. IsItem(r) /\ TypedItem(r)
  BY <1>1, <1>3 DEF IsItem, TypedItem
<1>5. new = [out EXCEPT ![i] = r]
  BY <1>2 DEF CompletedAt
<1>6. /\ TypedList([out EXCEPT ![i] = r]) /\ Len([out EXCEPT ![i] = r]) = Len(out)
      /\ \A j \in 1..Len(out) : [out EXCEPT ![i] = r][j] = IF j = i THEN r ELSE out[j]
  BY <1>4, SetTyped
<1>7. TypedList(new) /\ Len(new) = Len(out) /\ \A j \in 1..Len(out) : new[j] = IF j = i THEN r ELSE out[j]
  BY <1>5, <1>6
<1>8. \A n : NumberedTo(out, n) => NumberedTo(new, n)
  BY <1>3, <1>7 DEF NumberedTo
<1> QED BY <1>3, <1>7, <1>8

\* A word is added to a text.
LEMMA WordAtEnd ==
  ASSUME NEW t \in Seq(Token), NEW w \in Token, w \notin Tag
  PROVE  /\ Append(t, w) \in Seq(Token) /\ Grown(Append(t, w), t, w)
         /\ \E k \in Len(t)+1..Len(Append(t, w)) : Append(t, w)[k] = w
<1>1. PICK u : u = Append(t, w)
  OBVIOUS
<1>2. /\ u \in Seq(Token) /\ Len(u) = Len(t) + 1 /\ Len(t) \in Nat /\ u[Len(t) + 1] = w
      /\ \A k \in 1..Len(t) : u[k] = t[k]
  BY <1>1, AppendProperties, LenProperties
<1>3. \A k \in Len(t)+1..Len(u) : k = Len(t) + 1
  BY <1>2
<1>4. /\ \A k \in Len(t)+1..Len(u) : u[k] \in Tag \cup {w}
      /\ \A k, l \in Len(t)+1..Len(u) : u[k] = w /\ u[l] = w => k = l
  BY <1>2, <1>3
<1>5. Len(u) \in Nat /\ Len(t) <= Len(u) /\ Len(t) + 1 \in Len(t)+1..Len(u)
  BY <1>2
<1>6. Grown(u, t, w)
  BY <1>2, <1>4, <1>5 DEF Grown
<1> QED BY <1>1, <1>2, <1>5, <1>6

\* A text event adds its word to the item it is for, if it is there.
LEMMA ItemDeltaTyped ==
  ASSUME NEW out, TypedList(out), NEW i, NEW w \in Token, w \notin Tag
  PROVE  /\ TypedList(ItemDelta(out, i, w)) /\ \A n : NumberedTo(out, n) => NumberedTo(ItemDelta(out, i, w), n)
         /\ i \in 1..Len(out) /\ out[i].type \in {"message", "reasoning"} =>
              /\ GrownAt(ItemDelta(out, i, w), out, i, w)
              /\ \E k \in Len(out[i].text)+1..Len(ItemDelta(out, i, w)[i].text) : ItemDelta(out, i, w)[i].text[k] = w
<1>1. CASE i \in 1..Len(out) /\ out[i].type \in {"message", "reasoning"}
  <2>1. out[i].text \in Seq(Token) /\ i \in DOMAIN out
    BY <1>1, ListIs DEF TypedList, TypedItem
  <2>2. PICK text : text = Append(out[i].text, w)
    OBVIOUS
  <2>3. /\ text \in Seq(Token) /\ Grown(text, out[i].text, w)
        /\ \E k \in Len(out[i].text)+1..Len(text) : text[k] = w
    BY <2>1, <2>2, WordAtEnd
  <2>4. PICK new : new = ItemDelta(out, i, w)
    OBVIOUS
  <2>5. TextAt(new, out, i, text)
    BY <1>1, <2>1, <2>2, <2>4 DEF ItemDelta, TextAt
  <2>6. /\ TypedList(new) /\ Len(new) = Len(out) /\ new[i].text = text
        /\ \A n : NumberedTo(out, n) => NumberedTo(new, n)
        /\ \A j \in 1..Len(out) : j # i => new[j] = out[j]
    BY <1>1, <2>3, <2>5, TextAtTyped
  <2>7. GrownAt(new, out, i, w)
    BY <1>1, <2>3, <2>6 DEF GrownAt
  <2> QED BY <2>3, <2>4, <2>6, <2>7
<1>2. CASE ~(i \in 1..Len(out) /\ out[i].type \in {"message", "reasoning"})
  BY <1>2 DEF ItemDelta
<1> QED BY <1>1, <1>2

\* The same texts hold the same words.
LEMMA SameTextsKeep ==
  ASSUME NEW out, TypedList(out), NEW new, TypedList(new), Len(new) = Len(out),
         \A i \in 1..Len(out) : new[i].text = out[i].text
  PROVE  WordsKept(new, out)
<1>1. ItemList(out) /\ ItemList(new)
  BY DEF TypedList
<1> QED BY <1>1, PaddedKeeps

\* The end of a field of an item.
LEMMA FieldDoneTyped ==
  ASSUME NEW out, TypedList(out), NEW i, NEW item, item.text \in Seq(Token)
  PROVE  /\ TypedList(FieldDone(out, i, item)) /\ \A n : NumberedTo(out, n) => NumberedTo(FieldDone(out, i, item), n)
         /\ i \in 1..Len(out) /\ item.text = out[i].text => WordsKept(FieldDone(out, i, item), out)
<1>1. PICK new, text : new = FieldDone(out, i, item) /\ text = item.text
  OBVIOUS
<1>2. CASE i \in 1..Len(out) /\ out[i].type = "message"
  <2>1. TextAt(new, out, i, text) /\ text \in Seq(Token)
    BY <1>1, <1>2 DEF FieldDone, TextAt
  <2>2. /\ TypedList(new) /\ Len(new) = Len(out) /\ new[i].text = text
        /\ \A n : NumberedTo(out, n) => NumberedTo(new, n)
        /\ \A j \in 1..Len(out) : j # i => new[j] = out[j]
    BY <1>2, <2>1, TextAtTyped
  <2>3. text = out[i].text => \A j \in 1..Len(out) : new[j].text = out[j].text
    BY <2>2
  <2>4. text = out[i].text => WordsKept(new, out)
    BY <2>2, <2>3, SameTextsKeep
  <2> QED BY <1>1, <2>2, <2>4
<1>3. CASE i \in 1..Len(out) /\ out[i].type = "reasoning"
  <2>1. CompletedAt(new, out, i)
    BY <1>1, <1>3 DEF FieldDone, CompletedAt
  <2>2. /\ TypedList(new) /\ Len(new) = Len(out) /\ \A n : NumberedTo(out, n) => NumberedTo(new, n)
        /\ \A j \in 1..Len(out) : new[j].text = out[j].text
    BY <1>3, <2>1, StatusAtTyped
  <2>3. WordsKept(new, out)
    BY <2>2, SameTextsKeep
  <2> QED BY <1>1, <2>2, <2>3
<1>4. CASE i \notin 1..Len(out) \/ out[i].type \notin {"message", "reasoning"}
  <2>1. new = out
    BY <1>1, <1>4 DEF FieldDone
  <2> QED BY <1>1, <2>1, WordsKeptItself
<1> QED BY <1>2, <1>3, <1>4

\* The final output of the provider.
LEMMA CompletedTyped ==
  ASSUME NEW final, TypedList(final)
  PROVE  /\ TypedList(Completed(final)) /\ WordsKept(Completed(final), final)
         /\ \A n : NumberedTo(final, n) => NumberedTo(Completed(final), n)
<1>1. DOMAIN final = 1..Len(final)
  BY ListIs DEF TypedList
<1>2. PICK f : f = Completed(final)
  OBVIOUS
<1>3. /\ DOMAIN f = DOMAIN final /\ f = [i \in DOMAIN f |-> f[i]]
      /\ \A i \in DOMAIN final : f[i] \in {final[i], [final[i] EXCEPT !.status = "completed"]}
  BY <1>1, <1>2 DEF Completed
<1>4. TypedList(f) /\ WordsKept(f, final) /\ \A n : NumberedTo(final, n) => NumberedTo(f, n)
  BY <1>3, StatusTyped
<1> QED BY <1>2, <1>4

\* A list of typed items with ids of calls that have been sent.
Listed(out, n) == TypedList(out) /\ NumberedTo(out, n)

\* The stored message is a record with its three fields.
DbIs == {"done", "error", "output"} \subseteq DOMAIN db /\ db.done \in BOOLEAN /\ db.error \in BOOLEAN

\* The lists are typed, and every call id has been issued for something sent.
ListsInv ==
  /\ Listed(output, issued) /\ Listed(prior, issued) /\ Listed(response, issued) /\ Listed(db.output, issued)
  /\ DbIs
  /\ \A k \in DOMAIN batch : batch[k] \in 1..issued
  /\ \A c \in DOMAIN calls : \A k \in DOMAIN calls[c] : calls[c][k] \in 1..issued
  /\ issued \in Nat /\ issued <= sent

\* More ids may be issued.
LEMMA NumbersGrow ==
  ASSUME NEW out, NEW n \in Nat, Listed(out, n), NEW m \in Nat, n <= m
  PROVE  Listed(out, m)
<1>1. ASSUME NEW i \in 1..Len(out) PROVE out[i].id <= m
  <2>1. out[i].id \in Nat /\ out[i].id <= n
    BY DEF Listed, TypedList, ItemList, IsItem, NumberedTo
  <2> QED BY <2>1
<1> QED BY <1>1 DEF Listed, NumberedTo

\* Lists without calls, and two lists after one another.
LEMMA ListedBasics ==
  /\ \A n : Listed(<<>>, n)
  /\ \A n \in Nat : \A text \in Seq(Token) : Listed(<<MessageItem(text)>>, n)
  /\ \A n, a, b : Listed(a, n) /\ Listed(b, n) => Listed(a \o b, n)
<1>1. \A n : Listed(<<>>, n)
  BY EmptyTyped DEF Listed
<1>2. ASSUME NEW n \in Nat, NEW text \in Seq(Token) PROVE Listed(<<MessageItem(text)>>, n)
  <2>1. PICK r : r = MessageItem(text)
    OBVIOUS
  <2>2. IsItem(r) /\ TypedItem(r) /\ r.type = "message"
    BY <2>1, NewItems, TypedNew
  <2>3. r.id = 0
    BY <2>2 DEF TypedItem, ToolItem
  <2>4. TypedList(<<r>>) /\ Len(<<r>>) = 1 /\ <<r>>[1] = r
    BY <2>2, OneTyped
  <2>5. PICK out : out = <<r>>
    OBVIOUS
  <2>6. TypedList(out) /\ \A i \in 1..Len(out) : out[i].id <= n
    <3>1. TypedList(out) /\ Len(out) = 1 /\ out[1].id = 0
      BY <2>3, <2>4, <2>5
    <3>2. \A i \in 1..Len(out) : i = 1
      BY <3>1
    <3>3. 0 <= n
      OBVIOUS
    <3> QED BY <3>1, <3>2, <3>3
  <2>7. Listed(out, n)
    BY <2>6 DEF Listed, NumberedTo
  <2> QED BY <2>1, <2>5, <2>7
<1>3. ASSUME NEW n, NEW a, NEW b, Listed(a, n), Listed(b, n) PROVE Listed(a \o b, n)
  <2>1. TypedList(a) /\ TypedList(b) /\ NumberedTo(a, n) /\ NumberedTo(b, n)
    BY <1>3 DEF Listed
  <2>2. TypedList(a \o b) /\ NumberedTo(a \o b, n)
    BY <2>1, ConcatTyped
  <2> QED BY <2>2 DEF Listed
<1> QED BY <1>1, <1>2, <1>3

\* An item is appended.
LEMMA ListedAppend ==
  ASSUME NEW n \in Nat, NEW out, Listed(out, n), NEW r, IsItem(r), TypedItem(r), r.id <= n
  PROVE  Listed(Append(out, r), n)
<1>1. PICK new : new = Append(out, r)
  OBVIOUS
<1>2. /\ TypedList(new) /\ Len(new) = Len(out) + 1 /\ \A i \in 1..Len(out) : new[i] = out[i]
      /\ new[Len(out) + 1] = r
  BY <1>1, AppendTyped DEF Listed
<1>3. Len(out) \in Nat
  BY ListIs DEF Listed, TypedList
<1>4. \A i \in 1..Len(new) : i \in 1..Len(out) \/ i = Len(out) + 1
  BY <1>2, <1>3
<1>5. NumberedTo(new, n)
  BY <1>2, <1>4 DEF Listed, NumberedTo
<1> QED BY <1>1, <1>2, <1>5 DEF Listed

\* What keeps the calls and results keeps their ids.
LEMMA ListedKept ==
  ASSUME NEW n \in Nat, NEW out, Listed(out, n), NEW new, TypedList(new), Keeps(new, out)
  PROVE  Listed(new, n)
BY KeptNumbers DEF Listed

\* A whole message or an empty list at the start.
LEMMA ListsInit == GenerationInit => ListsInv
<1> SUFFICES ASSUME GenerationInit PROVE ListsInv
  OBVIOUS
<1>1. /\ received \in {<<>>, <<Earlier>>} /\ output \in {<<>>, <<MessageItem(received)>>}
      /\ prior = <<>> /\ response = <<>> /\ calls = <<>> /\ batch = <<>> /\ issued = 0 /\ sent = 0
      /\ db = [done |-> FALSE, error |-> FALSE, output |-> output]
  BY DEF GenerationInit
<1>2. received \in Seq(Token)
  <2>1. <<Earlier>> \in Seq(Token)
    BY DEF Token
  <2> QED BY <1>1, <2>1, EmptySeq
<1>3. Listed(output, 0) /\ Listed(<<>>, 0)
  BY <1>1, <1>2, ListedBasics
<1>4. db.output = output /\ DbIs
  BY <1>1 DEF DbIs
<1>5. DOMAIN batch = {} /\ DOMAIN calls = {}
  BY <1>1
<1> QED BY <1>1, <1>3, <1>4, <1>5 DEF ListsInv

\* The stored message.
LEMMA DbSaves ==
  ASSUME DbIs
  PROVE  /\ \A out : SaveDone(out) =>
              DbIs' /\ db'.done = TRUE /\ db'.error = db.error /\ db'.output = IF realtime THEN db.output ELSE out
         /\ \A out : db' = [db EXCEPT !.done = TRUE, !.output = out] =>
              DbIs' /\ db'.done = TRUE /\ db'.error = db.error /\ db'.output = out
         /\ SaveError => DbIs' /\ db'.done = db.done /\ db'.error = TRUE /\ db'.output = db.output
         /\ \A out : SaveRealtime(out) =>
              /\ DbIs' /\ db'.done = db.done /\ db'.error = db.error
              /\ db'.output = IF realtime THEN prior \o out ELSE db.output
<1>1. ASSUME NEW out, SaveDone(out)
      PROVE  DbIs' /\ db'.done = TRUE /\ db'.error = db.error /\ db'.output = IF realtime THEN db.output ELSE out
  BY <1>1 DEF SaveDone, DbIs
<1>2. ASSUME NEW out, db' = [db EXCEPT !.done = TRUE, !.output = out]
      PROVE  DbIs' /\ db'.done = TRUE /\ db'.error = db.error /\ db'.output = out
  BY <1>2 DEF DbIs
<1>3. ASSUME SaveError
      PROVE  DbIs' /\ db'.done = db.done /\ db'.error = TRUE /\ db'.output = db.output
  BY <1>3 DEF SaveError, DbIs
<1>4. ASSUME NEW out, SaveRealtime(out)
      PROVE  /\ DbIs' /\ db'.done = db.done /\ db'.error = db.error
             /\ db'.output = IF realtime THEN prior \o out ELSE db.output
  <2>1. CASE realtime
    <3>1. PICK full : full = prior \o out
      OBVIOUS
    <3>2. db' = [db EXCEPT !.output = full]
      BY <1>4, <2>1, <3>1 DEF SaveRealtime
    <3>3. DbIs' /\ db'.done = db.done /\ db'.error = db.error /\ db'.output = full
      BY <3>2 DEF DbIs
    <3> QED BY <2>1, <3>1, <3>3
  <2>2. CASE ~realtime
    BY <1>4, <2>2 DEF SaveRealtime, DbIs
  <2> QED BY <2>1, <2>2
<1> QED BY <1>1, <1>2, <1>3, <1>4

\* Items of tool calls and results.
LEMMA ToolItemsListed ==
  ASSUME NEW n \in Nat, NEW m \in Nat, NEW f, f = [i \in DOMAIN f |-> f[i]], DOMAIN f = 1..m,
         \A i \in 1..m : \E id \in 1..n : f[i] = Call(id) \/ f[i] = Result(id)
  PROVE  Listed(f, n) /\ Len(f) = m /\ \A i \in 1..Len(f) : f[i].text = <<>>
<1>1. ASSUME NEW i \in 1..m PROVE IsItem(f[i]) /\ TypedItem(f[i]) /\ f[i].text = <<>> /\ f[i].id <= n
  <2>1. PICK id \in 1..n : f[i] = Call(id) \/ f[i] = Result(id)
    OBVIOUS
  <2>2. id \in Nat /\ id \in Nat \ {0} /\ id <= n
    OBVIOUS
  <2>3. /\ IsItem(Call(id)) /\ TypedItem(Call(id)) /\ Call(id).text = <<>> /\ Call(id).id = id
        /\ IsItem(Result(id)) /\ TypedItem(Result(id)) /\ Result(id).text = <<>> /\ Result(id).id = id
    BY <2>2, NewItems, TypedNew
  <2> QED BY <2>1, <2>2, <2>3
<1>2. f \in [1..m -> Range(f)]
  BY DEF Range
<1>3. ItemList(f) /\ Len(f) = m
  BY <1>1, <1>2, MakeList
<1> QED BY <1>1, <1>3 DEF Listed, TypedList, NumberedTo

\* The function_call items of a round.
LEMMA NewCallsListed ==
  ASSUME NEW n \in Nat, NEW b \in Seq(Nat), \A k \in DOMAIN b : b[k] \in 1..n, NEW P \in SUBSET (1..Len(b)),
         NEW f, f = [i \in DOMAIN InOrder(P) |-> Call(b[InOrder(P)[i]])]
  PROVE  Listed(f, n) /\ \A i \in 1..Len(f) : f[i].text = <<>>
<1>1. PICK at : at = InOrder(P)
  OBVIOUS
<1>2. Len(b) \in Nat /\ DOMAIN b = 1..Len(b)
  BY LenProperties
<1>3. IsFiniteSet(P) /\ P \in SUBSET Nat
  <2>1. IsFiniteSet(1..Len(b)) /\ \A k \in 1..Len(b) : k \in Nat
    BY <1>2, FS_Interval
  <2> QED BY <2>1, FS_Subset
<1>4. PICK m : m = Cardinality(P)
  OBVIOUS
<1>5. m \in Nat /\ at \in [1..m -> P]
  BY <1>1, <1>3, <1>4, InOrderIs
<1>6. DOMAIN f = 1..m /\ \A i \in 1..m : f[i] = Call(b[at[i]]) /\ at[i] \in DOMAIN b
  BY <1>1, <1>2, <1>5
<1>7. \A i \in 1..m : b[at[i]] \in 1..n
  BY <1>6
<1>8. \A i \in 1..m : \E id \in 1..n : f[i] = Call(id) \/ f[i] = Result(id)
  BY <1>6, <1>7
<1>9. f = [i \in DOMAIN f |-> f[i]]
  OBVIOUS
<1> QED BY <1>5, <1>6, <1>8, <1>9, ToolItemsListed

\* The results of a round.
LEMMA NewResultsListed ==
  ASSUME NEW n \in Nat, NEW b \in Seq(Nat), \A k \in DOMAIN b : b[k] \in 1..n,
         NEW f, f = [i \in DOMAIN b |-> Result(b[i])]
  PROVE  Listed(f, n) /\ \A i \in 1..Len(f) : f[i].text = <<>>
<1>1. Len(b) \in Nat /\ DOMAIN b = 1..Len(b)
  BY LenProperties
<1>2. DOMAIN f = 1..Len(b) /\ \A i \in 1..Len(b) : f[i] = Result(b[i]) /\ b[i] \in 1..n
  BY <1>1
<1>3. \A i \in 1..Len(b) : \E id \in 1..n : f[i] = Call(id) \/ f[i] = Result(id)
  BY <1>2
<1>4. f = [i \in DOMAIN f |-> f[i]]
  OBVIOUS
<1> QED BY <1>1, <1>2, <1>3, <1>4, ToolItemsListed

\* The blank message that follows results.
LEMMA BlankListed ==
  \A n \in Nat : Listed(<<MessageItem(<<>>)>>, n) /\ Len(<<MessageItem(<<>>)>>) = 1
                 /\ \A i \in 1..Len(<<MessageItem(<<>>)>>) : <<MessageItem(<<>>)>>[i].text = <<>>
<1>1. <<>> \in Seq(Token)
  BY EmptySeq
<1>2. MessageItem(<<>>).text = <<>>
  BY <1>1, TypedNew
<1>3. PICK r : r = MessageItem(<<>>)
  OBVIOUS
<1>4. Len(<<r>>) = 1 /\ <<r>>[1] = r
  OBVIOUS
<1>5. \A i \in 1..Len(<<r>>) : <<r>>[i].text = <<>>
  <2>1. \A i \in 1..Len(<<r>>) : i = 1
    BY <1>4
  <2> QED BY <1>2, <1>3, <1>4, <2>1
<1>6. \A n \in Nat : Listed(<<r>>, n)
  BY <1>1, <1>3, ListedBasics
<1> QED BY <1>3, <1>4, <1>5, <1>6

\* A list with items after it that have no text.
LEMMA ListedConcat ==
  ASSUME NEW n, NEW a, Listed(a, n), NEW b, Listed(b, n), \A i \in 1..Len(b) : b[i].text = <<>>
  PROVE  Listed(a \o b, n) /\ WordsKept(a \o b, a)
<1>1. TypedList(a) /\ TypedList(b) /\ NumberedTo(a, n) /\ NumberedTo(b, n)
  BY DEF Listed
<1>2. TypedList(a \o b) /\ NumberedTo(a \o b, n) /\ WordsKept(a \o b, a)
  BY <1>1, ConcatTyped
<1> QED BY <1>2 DEF Listed

\* The ids of the calls that wait have been issued.
CallIdsIssued == \A c \in DOMAIN calls : \A k \in DOMAIN calls[c] : calls[c][k] \in 1..issued

\* The steps of the tool loop: the function_call items of a round ...
LEMMA ToolRoundLists ==
  ASSUME AnswerInv, ListsInv, ToolRound
  PROVE  /\ Listed(output', issued) /\ WordsKept(output', output) /\ CallIdsIssued'
         /\ \A k \in DOMAIN batch' : batch'[k] \in 1..issued
<1>1. /\ calls # <<>> /\ batch' = Head(calls) /\ calls' = Tail(calls) /\ issued' = issued
      /\ pc = "tools"
  BY DEF ToolRound, MoreTools
<1>2. PICK fresh : /\ fresh = LET P == {i \in 1..Len(batch') : batch'[i] \notin Ids(output, "call")}
                              IN  [i \in DOMAIN InOrder(P) |-> Call(batch'[InOrder(P)[i]])]
                   /\ output' = output \o fresh
  BY DEF ToolRound
<1>3. calls \in Seq(Seq(Nat)) /\ Len(calls) = 1 /\ issued \in Nat
  BY <1>1 DEF AnswerInv, IdInv, RoundInv
<1>4. /\ Head(calls) = calls[1] /\ 1 \in DOMAIN calls /\ calls[1] \in Seq(Nat) /\ Tail(calls) = <<>>
  <2>1. /\ Head(calls) \in Seq(Nat) /\ Tail(calls) \in Seq(Seq(Nat)) /\ Head(calls) = calls[1]
        /\ Len(Tail(calls)) = Len(calls) - 1
    BY <1>1, <1>3, HeadTailProperties
  <2>2. Len(Tail(calls)) = 0
    BY <1>3, <2>1
  <2>3. Tail(calls) = <<>>
    BY <2>1, <2>2, EmptySeq
  <2>4. 1 \in DOMAIN calls
    BY <1>3, LenProperties
  <2> QED BY <2>1, <2>3, <2>4
<1>5. PICK b \in Seq(Nat) : b = calls[1] /\ batch' = b
  BY <1>1, <1>4
<1>6. \A k \in DOMAIN b : b[k] \in 1..issued
  BY <1>4, <1>5 DEF ListsInv
<1>7. PICK P : P = {i \in 1..Len(b) : b[i] \notin Ids(output, "call")}
  OBVIOUS
<1>8. P \in SUBSET (1..Len(b)) /\ fresh = [i \in DOMAIN InOrder(P) |-> Call(b[InOrder(P)[i]])]
  BY <1>2, <1>5, <1>7
<1>9. Listed(fresh, issued) /\ \A i \in 1..Len(fresh) : fresh[i].text = <<>>
  BY <1>3, <1>6, <1>8, NewCallsListed
<1>10. Listed(output, issued)
  BY DEF ListsInv
<1>11. Listed(output', issued) /\ WordsKept(output', output)
  BY <1>2, <1>9, <1>10, ListedConcat
<1>12. CallIdsIssued'
  BY <1>1, <1>4 DEF CallIdsIssued
<1> QED BY <1>5, <1>6, <1>11, <1>12

\* ... and its results.
LEMMA ToolResultsLists ==
  ASSUME AnswerInv, ListsInv, ToolResults
  PROVE  Listed(output', issued) /\ WordsKept(output', output)
<1>1. batch \in Seq(Nat) /\ issued \in Nat /\ Listed(output, issued) /\ \A k \in DOMAIN batch : batch[k] \in 1..issued
  BY DEF AnswerInv, IdInv, ListsInv
<1>2. PICK done, results, blank :
        /\ done = [i \in DOMAIN output |->
                     IF output[i].type = "call" /\ output[i].id \in Range(batch)
                     THEN [output[i] EXCEPT !.status = "completed"] ELSE output[i]]
        /\ results = [i \in DOMAIN batch |-> Result(batch[i])]
        /\ blank = <<MessageItem(<<>>)>>
        /\ output' = done \o results \o blank
  BY DEF ToolResults
<1>3. Listed(done, issued) /\ WordsKept(done, output)
  <2>1. /\ DOMAIN done = DOMAIN output /\ done = [i \in DOMAIN done |-> done[i]]
        /\ \A i \in DOMAIN output : done[i] \in {output[i], [output[i] EXCEPT !.status = "completed"]}
    BY <1>2
  <2>2. TypedList(output) /\ NumberedTo(output, issued)
    BY <1>1 DEF Listed
  <2>3. TypedList(done) /\ WordsKept(done, output) /\ NumberedTo(done, issued)
    BY <2>1, <2>2, StatusTyped
  <2> QED BY <2>3 DEF Listed
<1>4. Listed(results, issued) /\ \A i \in 1..Len(results) : results[i].text = <<>>
  BY <1>1, <1>2, NewResultsListed
<1>5. Listed(blank, issued) /\ \A i \in 1..Len(blank) : blank[i].text = <<>>
  BY <1>1, <1>2, BlankListed
<1>6. PICK both : both = done \o results
  OBVIOUS
<1>7. Listed(both, issued) /\ WordsKept(both, done)
  BY <1>3, <1>4, <1>6, ListedConcat
<1>8. output' = both \o blank
  BY <1>2, <1>6
<1>9. Listed(output', issued) /\ WordsKept(output', both)
  BY <1>5, <1>7, <1>8, ListedConcat
<1>10. WordsKept(both, output)
  BY <1>3, <1>7, WordsKeptFurther
<1>11. WordsKept(output', output)
  BY <1>9, <1>10, WordsKeptFurther
<1> QED BY <1>9, <1>11

\* A code block gets its result.
LEMMA CodeResultLists ==
  ASSUME AnswerInv, ListsInv, CodeResult
  PROVE  Listed(output', issued) /\ WordsKept(output', output)
<1>1. output # <<>> /\ issued \in Nat /\ Listed(output, issued) /\ TypedList(output)
  BY DEF AnswerInv, IdInv, RoundInv, ListsInv, CodeResult, Listed
<1>2. PICK done, r : done = Complete(output) /\ r = MessageItem(<<>>) /\ output' = Append(done, r)
  BY DEF CodeResult
<1>3. TypedList(done) /\ WordsKept(done, output)
  BY <1>1, <1>2, CompleteTyped
<1>4. Keeps(done, output)
  <2>1. Retouched(done, output)
    BY <1>1, <1>2, SetTextRetouches DEF TypedList
  <2> QED BY <1>1, <2>1, RetouchedKeeps DEF TypedList
<1>5. Listed(done, issued)
  BY <1>1, <1>3, <1>4, ListedKept
<1>6. IsItem(r) /\ TypedItem(r) /\ r.text = <<>> /\ r.type = "message"
  BY <1>2, NewItems, TypedNew, EmptySeq
<1>7. r.id <= issued
  <2>1. r.id = 0
    BY <1>6 DEF TypedItem, ToolItem
  <2> QED BY <1>1, <2>1
<1>8. Listed(output', issued)
  BY <1>1, <1>2, <1>5, <1>6, <1>7, ListedAppend
<1>9. WordsKept(output', done)
  BY <1>2, <1>3, <1>6, AppendTyped
<1>10. WordsKept(output', output)
  BY <1>3, <1>9, WordsKeptFurther
<1> QED BY <1>8, <1>10

\* Every item is completed.
LEMMA SaveLists ==
  ASSUME AnswerInv, ListsInv, Save
  PROVE  Listed(output', issued) /\ WordsKept(output', output)
<1>1. issued \in Nat /\ TypedList(output) /\ NumberedTo(output, issued)
  BY DEF AnswerInv, IdInv, ListsInv, Listed
<1>2. PICK new : new = output'
  OBVIOUS
<1>3. new = [i \in DOMAIN output |-> [output[i] EXCEPT !.status = "completed"]]
  BY <1>2 DEF Save
<1>4. /\ DOMAIN new = DOMAIN output /\ new = [i \in DOMAIN new |-> new[i]]
      /\ \A i \in DOMAIN output : new[i] \in {output[i], [output[i] EXCEPT !.status = "completed"]}
  BY <1>3
<1>5. TypedList(new) /\ WordsKept(new, output) /\ NumberedTo(new, issued)
  BY <1>1, <1>4, StatusTyped
<1> QED BY <1>2, <1>5 DEF Listed

\* The end of a stream.
LEMMA StreamEndsLists ==
  ASSUME AnswerInv, ListsInv, StreamEnds
  PROVE  /\ Listed(CleanUp(output), issued) /\ WordsKept(CleanUp(output), output)
         /\ output' = IF caller = "tools" THEN prior \o CleanUp(output) ELSE CleanUp(output)
         /\ prior' = IF caller = "tools" THEN <<>> ELSE prior
         /\ Listed(output', issued) /\ CallIdsIssued'
<1>1. PICK tidy, found :
        /\ tidy = CleanUp(output)
        /\ found = IF acc # <<>> THEN split_tool_calls ELSE Unhandled(tidy)
        /\ output' = IF caller = "tools" THEN prior \o tidy ELSE tidy
        /\ prior' = IF caller = "tools" THEN <<>> ELSE prior
        /\ calls' = IF found = <<>> THEN calls ELSE Append(calls, found)
        /\ UNCHANGED issued
  BY DEF StreamEnds
<1>2. /\ issued \in Nat /\ Listed(output, issued) /\ TypedList(output) /\ Listed(prior, issued) /\ ItemList(prior)
      /\ acc \in Seq(Nat) /\ calls \in Seq(Seq(Nat)) /\ Len(acc) <= issued
  BY DEF AnswerInv, IdInv, ListsInv, Listed
<1>3. TypedList(tidy) /\ WordsKept(tidy, output)
  BY <1>1, <1>2, CleanUpTyped
<1>4. Listed(tidy, issued)
  <2>1. Keeps(tidy, output)
    BY <1>1, <1>2, CleanUpKeeps DEF TypedList
  <2> QED BY <1>2, <1>3, <2>1, ListedKept
<1>5. Listed(output', issued)
  BY <1>1, <1>2, <1>4, ListedBasics
<1>6. found \in Seq(Nat) /\ \A k \in DOMAIN found : found[k] \in 1..issued
  <2>1. CASE acc # <<>>
    <3>1. Len(acc) \in Nat
      BY <1>2, LenProperties
    <3>2. found = [i \in 1..Len(acc) |-> issued - Len(acc) + i]
      BY <1>1, <2>1 DEF split_tool_calls
    <3>3. \A i \in 1..Len(acc) : issued - Len(acc) + i \in 1..issued /\ issued - Len(acc) + i \in Nat
      BY <1>2, <3>1
    <3>4. found \in [1..Len(acc) -> Nat] /\ \A i \in 1..Len(acc) : found[i] \in 1..issued
      BY <3>2, <3>3
    <3>5. DOMAIN found = 1..Len(acc)
      BY <3>2
    <3>6. found \in Seq(Nat)
      BY <3>1, <3>4, SeqDef
    <3> QED BY <3>4, <3>5, <3>6
  <2>2. CASE acc = <<>>
    <3>1. found = Unhandled(tidy) /\ ItemList(tidy)
      BY <1>1, <1>3, <2>2 DEF TypedList
    <3>2. /\ found \in Seq(Nat)
          /\ \A k \in DOMAIN found : \E i \in DOMAIN tidy : tidy[i].type = "call" /\ tidy[i].id = found[k]
      BY <1>2, <3>1, UnhandledIs
    <3>3. ASSUME NEW k \in DOMAIN found PROVE found[k] \in 1..issued
      <4>1. PICK i \in DOMAIN tidy : tidy[i].type = "call" /\ tidy[i].id = found[k]
        BY <3>2
      <4>2. i \in 1..Len(tidy)
        BY <3>1, <4>1, ListIs
      <4>3. tidy[i].id # 0 /\ tidy[i].id \in Nat /\ tidy[i].id <= issued
        BY <1>4, <4>1, <4>2 DEF Listed, NumberedTo, TypedList, TypedItem, ToolItem, ItemList, IsItem
      <4> QED BY <1>2, <4>1, <4>3
    <3> QED BY <3>2, <3>3
  <2> QED BY <2>1, <2>2
<1>7. CallIdsIssued
  BY DEF CallIdsIssued, ListsInv
<1>8. CallIdsIssued'
  <2>1. CASE found = <<>>
    BY <1>1, <1>7, <2>1 DEF CallIdsIssued
  <2>2. CASE found # <<>>
    <3>1. calls' = Append(calls, found)
      BY <1>1, <2>2
    <3>2. /\ Append(calls, found) \in Seq(Seq(Nat)) /\ Len(Append(calls, found)) = Len(calls) + 1
          /\ \A c \in 1..Len(calls) : Append(calls, found)[c] = calls[c]
          /\ Append(calls, found)[Len(calls) + 1] = found
      BY <1>2, <1>6, AppendProperties
    <3>3. DOMAIN calls = 1..Len(calls) /\ DOMAIN calls' = 1..Len(calls) + 1 /\ Len(calls) \in Nat
      BY <1>2, <3>1, <3>2, LenProperties
    <3>4. \A c \in DOMAIN calls' : (c \in 1..Len(calls) /\ calls'[c] = calls[c]) \/ calls'[c] = found
      BY <3>1, <3>2, <3>3
    <3>5. \A c \in DOMAIN calls' : \A k \in DOMAIN calls'[c] : calls'[c][k] \in 1..issued
      BY <1>6, <1>7, <3>3, <3>4 DEF CallIdsIssued
    <3> QED BY <1>1, <3>5 DEF CallIdsIssued
  <2> QED BY <2>1, <2>2
<1> QED BY <1>1, <1>3, <1>4, <1>5, <1>8

\* A delta of text ...
LEMMA TextDeltaLists ==
  ASSUME ReadInv, ListsInv, NEW chunk \in Chunk, TextDelta(chunk)
  PROVE  /\ Listed(output', issued) /\ ChunkJoins(output', output, chunk, NextWord)
         /\ NextWord \in Token /\ NextWord \notin Tag /\ sent < MaxSent /\ caller # "none" /\ sent < sent' /\ sent' \in Nat
<1>1. /\ output' = Value(output, chunk).out /\ pc = "stream" /\ sent + Len(chunk) <= MaxSent
      /\ sent' = sent + Len(chunk)
  BY DEF TextDelta
<1>2. IsChunk(chunk, NextWord) /\ Len(chunk) \in Nat \ {0}
  BY ChunkIs
<1>3. caller # "none" /\ sent < MaxSent /\ sent < sent' /\ sent' \in Nat
  BY <1>1, <1>2, VocabularyIs DEF ReadInv
<1>4. NextWord \in Token /\ NextWord \notin Tag
  BY <1>3, NextWordIs
<1>5. TypedList(output) /\ ItemList(output) /\ Listed(output, issued) /\ issued \in Nat
  BY DEF ListsInv, Listed, TypedList
<1>6. TypedList(output') /\ ChunkJoins(output', output, chunk, NextWord)
  BY <1>1, <1>2, <1>4, <1>5, ValueJoins
<1>7. Keeps(output', output)
  BY <1>1, <1>5, ValueKeeps
<1>8. Listed(output', issued)
  BY <1>5, <1>6, <1>7, ListedKept
<1> QED BY <1>3, <1>4, <1>6, <1>8

\* ... and one of reasoning.
LEMMA ReasoningDeltaLists ==
  ASSUME ReadInv, ListsInv, ReasoningDelta
  PROVE  /\ Listed(output', issued) /\ WordJoins(output', output, NextWord)
         /\ NextWord \in Token /\ NextWord \notin Tag /\ sent < MaxSent /\ caller # "none"
<1>1. output' = AddReasoning(output, NextWord) /\ pc = "stream" /\ sent < MaxSent
  BY DEF ReasoningDelta
<1>2. caller # "none"
  BY <1>1 DEF ReadInv
<1>3. NextWord \in Token /\ NextWord \notin Tag
  BY <1>1, <1>2, NextWordIs
<1>4. TypedList(output) /\ ItemList(output) /\ Listed(output, issued) /\ issued \in Nat
  BY DEF ListsInv, Listed, TypedList
<1>5. TypedList(output') /\ WordJoins(output', output, NextWord)
  BY <1>1, <1>3, <1>4, AddReasoningJoins
<1>6. Keeps(output', output)
  BY <1>1, <1>4, AddReasoningKeeps
<1>7. Listed(output', issued)
  BY <1>4, <1>5, <1>6, ListedKept
<1> QED BY <1>1, <1>2, <1>3, <1>5, <1>7

\* An answer that is not streamed.
LEMMA ResponseWholeLists ==
  ASSUME ReadInv, ListsInv, ResponseWhole
  PROVE  /\ output' = <<MessageItem(received')>> /\ received' = <<NextWord>> /\ received' \in Seq(Token)
         /\ Listed(output', issued)
<1>1. output' = <<MessageItem(<<NextWord>>)>> /\ pc = "payload" /\ sent < MaxSent /\ received' = <<NextWord>>
  BY DEF ResponseWhole
<1>2. NextWord \in Token
  BY <1>1, NextWordIs
<1>3. PICK text : text = <<NextWord>>
  OBVIOUS
<1>4. text \in Seq(Token)
  BY <1>2, <1>3
<1>5. issued \in Nat
  BY DEF ListsInv
<1>6. Listed(<<MessageItem(text)>>, issued)
  BY <1>4, <1>5, ListedBasics
<1> QED BY <1>1, <1>3, <1>4, <1>6

\* The events of the Responses API.
LEMMA EventAddedLists ==
  ASSUME ReadInv, ListsInv, NEW type \in {"message", "reasoning", "call"}, EventAdded(type)
  PROVE  /\ Listed(output', issued') /\ Listed(response', issued') /\ WordsKept(output', output)
         /\ issued' \in Nat /\ issued <= issued' /\ issued' <= sent'
<1>1. PICK item : /\ item = IF type = "call" THEN Call(issued') ELSE Item(type, <<>>)
                  /\ response' = Append(response, item) /\ output' = Append(output, item)
                  /\ issued' = (IF type = "call" THEN issued + 1 ELSE issued) /\ sent' = sent + 1
  BY DEF EventAdded, ItemAdded
<1>2. /\ issued \in Nat /\ issued <= sent /\ sent \in Nat /\ Listed(output, issued) /\ Listed(response, issued)
  BY DEF ListsInv, ReadInv
<1>3. issued' \in Nat /\ issued <= issued' /\ issued' <= sent' /\ (type = "call" => issued' \in Nat \ {0})
  BY <1>1, <1>2
<1>4. IsItem(item) /\ TypedItem(item) /\ item.text = <<>> /\ item.id <= issued'
  <2>1. CASE type = "call"
    BY <1>1, <1>3, <2>1, NewItems, TypedNew
  <2>2. CASE type # "call"
    <3>1. item = Item(type, <<>>) /\ type \in {"message", "reasoning", "code"} /\ <<>> \in Seq(Token)
      BY <1>1, <2>2, EmptySeq
    <3>2. IsItem(item) /\ TypedItem(item) /\ item.text = <<>> /\ item.type = type
      <4>1. PICK text : text = <<>>
        OBVIOUS
      <4>2. IsItem(Item(type, text)) /\ Item(type, text).type = type
        BY NewItems
      <4>3. TypedItem(Item(type, text)) /\ Item(type, text).text = text
        BY <3>1, <4>1, TypedNew
      <4> QED BY <3>1, <4>1, <4>2, <4>3
    <3>3. item.id = 0
      BY <2>2, <3>1, <3>2 DEF TypedItem, ToolItem
    <3> QED BY <1>3, <3>2, <3>3
  <2> QED BY <2>1, <2>2
<1>5. Listed(output, issued') /\ Listed(response, issued')
  BY <1>2, <1>3, NumbersGrow
<1>6. Listed(output', issued') /\ Listed(response', issued')
  BY <1>1, <1>3, <1>4, <1>5, ListedAppend
<1>7. WordsKept(output', output)
  BY <1>1, <1>4, <1>5, AppendTyped DEF Listed
<1> QED BY <1>3, <1>6, <1>7

\* A delta of the Responses API adds a word to an item.
LEMMA EventDeltaLists ==
  ASSUME ReadInv, ListsInv, NEW i \in DOMAIN response, EventDelta(i)
  PROVE  /\ Listed(output', issued) /\ Listed(response', issued)
         /\ NextWord \in Token /\ NextWord \notin Tag /\ sent < MaxSent /\ caller # "none"
         /\ i \in 1..Len(output) /\ output[i].type \in {"message", "reasoning"} =>
              /\ GrownAt(output', output, i, NextWord)
              /\ \E k \in Len(output[i].text)+1..Len(output'[i].text) : output'[i].text[k] = NextWord
<1>1. /\ output' = ItemDelta(output, i, NextWord) /\ pc = "stream" /\ sent < MaxSent
      /\ response' = [response EXCEPT ![i].text = Append(@, NextWord)]
      /\ response[i].type \in {"message", "reasoning"}
  BY DEF EventDelta
<1>2. caller # "none"
  BY <1>1 DEF ReadInv
<1>3. NextWord \in Token /\ NextWord \notin Tag
  BY <1>1, <1>2, NextWordIs
<1>4. TypedList(output) /\ NumberedTo(output, issued) /\ TypedList(response) /\ NumberedTo(response, issued)
  BY DEF ListsInv, Listed
<1>5. i \in 1..Len(response)
  BY <1>4, ListIs DEF TypedList
<1>6. /\ TypedList(output') /\ NumberedTo(output', issued)
      /\ i \in 1..Len(output) /\ output[i].type \in {"message", "reasoning"} =>
           /\ GrownAt(output', output, i, NextWord)
           /\ \E k \in Len(output[i].text)+1..Len(output'[i].text) : output'[i].text[k] = NextWord
  BY <1>1, <1>3, <1>4, ItemDeltaTyped
<1>7. response' = ItemDelta(response, i, NextWord)
  BY <1>1, <1>5 DEF ItemDelta
<1>8. TypedList(response') /\ NumberedTo(response', issued)
  BY <1>3, <1>4, <1>7, ItemDeltaTyped
<1> QED BY <1>1, <1>2, <1>3, <1>6, <1>8 DEF Listed

\* A done event of the Responses API: the text it gives is the one that was
\* streamed.
LEMMA EventDoneLists ==
  ASSUME ListsInv, NEW i \in DOMAIN response, EventDone(i)
  PROVE  /\ Listed(output', issued) /\ Listed(response', issued)
         /\ i \in 1..Len(output) /\ response[i].text = output[i].text => WordsKept(output', output)
<1>1. /\ output' = FieldDone(output, i, response[i])
      /\ response' = [response EXCEPT ![i].status = "completed"]
  BY DEF EventDone
<1>2. TypedList(output) /\ NumberedTo(output, issued) /\ TypedList(response) /\ NumberedTo(response, issued)
  BY DEF ListsInv, Listed
<1>3. i \in 1..Len(response)
  BY <1>2, ListIs DEF TypedList
<1>4. PICK item : item = response[i]
  OBVIOUS
<1>5. item.text \in Seq(Token)
  BY <1>2, <1>3, <1>4 DEF TypedList, TypedItem
<1>6. /\ TypedList(output') /\ NumberedTo(output', issued)
      /\ i \in 1..Len(output) /\ item.text = output[i].text => WordsKept(output', output)
  BY <1>1, <1>2, <1>4, <1>5, FieldDoneTyped
<1>7. PICK new : new = response'
  OBVIOUS
<1>8. CompletedAt(new, response, i)
  BY <1>1, <1>7 DEF CompletedAt
<1>9. TypedList(new) /\ NumberedTo(new, issued)
  BY <1>2, <1>3, <1>8, StatusAtTyped
<1> QED BY <1>4, <1>6, <1>7, <1>9 DEF Listed

\* The request that follows results: what there is becomes prior_output.
LEMMA ToolRequestLists ==
  ASSUME ListsInv, ToolRequest
  PROVE  /\ Listed(prior', issued) /\ WordsKept(prior', output) /\ output' = <<>> /\ response' = <<>>
<1>1. prior' = Trimmed(output) /\ output' = <<>> /\ response' = <<>>
  BY DEF ToolRequest
<1>2. TypedList(output) /\ ItemList(output) /\ Listed(output, issued) /\ issued \in Nat
  BY DEF ListsInv, Listed, TypedList
<1>3. TypedList(prior') /\ WordsKept(prior', output)
  BY <1>1, <1>2, TrimmedTyped
<1>4. Keeps(prior', output)
  BY <1>1, <1>2, CleanUpKeeps
<1>5. Listed(prior', issued)
  BY <1>2, <1>3, <1>4, ListedKept
<1> QED BY <1>1, <1>3, <1>5

\* Nothing is sent or called.
LEMMA ListsSteps ==
  ASSUME ListsInv, UNCHANGED <<calls, batch, issued>>, sent \in Nat, sent' \in Nat, sent <= sent',
         Listed(output', issued), Listed(prior', issued), Listed(response', issued), Listed(db'.output, issued), DbIs'
  PROVE  ListsInv'
<1>1. issued' \in Nat /\ issued' <= sent'
  <2>1. issued \in Nat /\ issued <= sent /\ issued' = issued
    BY DEF ListsInv
  <2>2. \A a, b, c \in Nat : a <= b /\ b <= c => a <= c
    OBVIOUS
  <2> QED BY <2>1, <2>2
<1> QED BY <1>1 DEF ListsInv

\* Every step keeps ListsInv.
LEMMA ListsStep == AnswerInv /\ ReadInv /\ ListsInv /\ [GenerationNext]_generationVars => ListsInv'
<1> SUFFICES ASSUME AnswerInv, ReadInv, ListsInv, [GenerationNext]_generationVars PROVE ListsInv'
  OBVIOUS
<1>1. /\ Listed(output, issued) /\ Listed(prior, issued) /\ Listed(response, issued) /\ Listed(db.output, issued)
      /\ DbIs /\ issued \in Nat /\ issued <= sent /\ sent \in Nat
  BY DEF ListsInv, ReadInv
<1>2. Listed(<<>>, issued)
  BY ListedBasics
<1>3. ASSUME UNCHANGED <<output, prior, calls, batch, issued, sent>>, response' \in {response, <<>>},
             UNCHANGED db \/ SaveError
      PROVE  ListsInv'
  <2>1. DbIs' /\ db'.output = db.output
    BY <1>1, <1>3, DbSaves DEF DbIs
  <2> QED BY <1>1, <1>2, <1>3, <2>1, ListsSteps
<1>4. CASE \/ ResponseStreams \/ PayloadFails \/ StreamFails \/ ToolsOver \/ RunTool \/ ResultFails
           \/ ToolRequestFails \/ CodeRound \/ CodeRequest \/ CodeRequestFails
           \/ BackgroundEnds \/ BackgroundFails \/ CancelGeneration \/ UNCHANGED generationVars
  <2>1. UNCHANGED <<output, prior, calls, batch, issued, sent>> /\ response' \in {response, <<>>}
    BY <1>4 DEF ResponseStreams, PayloadFails, StreamFails, ToolsOver, RunTool, ResultFails, ToolRequestFails,
       CodeRound, CodeRequest, CodeRequestFails, BackgroundEnds, BackgroundFails, CancelGeneration, generationVars,
       items, tools, reading
  <2>2. UNCHANGED db \/ SaveError
    BY <1>4 DEF ResponseStreams, PayloadFails, StreamFails, ToolsOver, RunTool, ResultFails, ToolRequestFails,
       CodeRound, CodeRequest, CodeRequestFails, BackgroundEnds, BackgroundFails, CancelGeneration, generationVars
  <2> QED BY <1>3, <2>1, <2>2
<1>5. CASE ResponseWhole
  <2>1. Listed(output', issued)
    BY <1>5, ResponseWholeLists
  <2>2. UNCHANGED <<prior, calls, batch, issued, response, db>> /\ sent' = sent + 1
    BY <1>5 DEF ResponseWhole, tools
  <2>3. sent' \in Nat /\ sent <= sent' /\ DbIs' /\ db'.output = db.output
    BY <1>1, <2>2 DEF DbIs
  <2> QED BY <1>1, <2>1, <2>2, <2>3, ListsSteps
<1>6. CASE SaveWhole \/ CancelSave
  <2>1. UNCHANGED <<output, prior, calls, batch, issued, response, sent>>
    BY <1>6 DEF SaveWhole, CancelSave, items, tools, reading
  <2>2. db' = [db EXCEPT !.done = TRUE, !.output = output] \/ SaveDone(output)
    BY <1>6 DEF SaveWhole, CancelSave
  <2>3. DbIs' /\ db'.output \in {db.output, output}
    <3>1. CASE db' = [db EXCEPT !.done = TRUE, !.output = output]
      BY <1>1, <3>1, DbSaves
    <3>2. CASE SaveDone(output)
      BY <1>1, <3>2, DbSaves
    <3> QED BY <2>2, <3>1, <3>2
  <2> QED BY <1>1, <2>1, <2>3, ListsSteps
<1>7. ASSUME NEW chunk \in Chunk, TextDelta(chunk) PROVE ListsInv'
  <2>1. Listed(output', issued) /\ sent < sent' /\ sent' \in Nat
    BY <1>7, TextDeltaLists
  <2>2. UNCHANGED <<prior, calls, batch, issued, response>> /\ (db' = db \/ SaveRealtime(output'))
    BY <1>7 DEF TextDelta, tools
  <2>3. Listed(prior \o output', issued)
    BY <1>1, <2>1, ListedBasics
  <2>4. DbIs' /\ db'.output \in {db.output, prior \o output'}
    <3>1. CASE db' = db
      BY <1>1, <3>1 DEF DbIs
    <3>2. CASE SaveRealtime(output')
      BY <1>1, <3>2, DbSaves
    <3> QED BY <2>2, <3>1, <3>2
  <2>5. Listed(db'.output, issued)
    BY <1>1, <2>3, <2>4
  <2>6. sent <= sent'
    BY <1>1, <2>1
  <2> QED BY <1>1, <2>1, <2>2, <2>4, <2>5, <2>6, ListsSteps
<1>8. CASE ReasoningDelta
  <2>1. Listed(output', issued)
    BY <1>8, ReasoningDeltaLists
  <2>2. UNCHANGED <<prior, calls, batch, issued, response, db>> /\ sent' = sent + 1
    BY <1>8 DEF ReasoningDelta, tools
  <2>3. sent' \in Nat /\ sent <= sent' /\ DbIs' /\ db'.output = db.output
    BY <1>1, <2>2 DEF DbIs
  <2> QED BY <1>1, <2>1, <2>2, <2>3, ListsSteps
<1>9. CASE CallDelta
  <2>1. /\ UNCHANGED <<output, prior, response, db, calls, batch>>
        /\ issued' = issued + 1 /\ sent' = sent + 1
    BY <1>9 DEF CallDelta, items
  <2>2. issued' \in Nat /\ issued <= issued' /\ issued' <= sent' /\ DbIs' /\ db'.output = db.output
    BY <1>1, <2>1 DEF DbIs
  <2>3. /\ Listed(output, issued') /\ Listed(prior, issued') /\ Listed(response, issued')
        /\ Listed(db.output, issued')
    BY <1>1, <2>2, NumbersGrow
  <2>4. \A id \in 1..issued : id \in 1..issued'
    BY <1>1, <2>2
  <2>5. /\ \A k \in DOMAIN batch' : batch'[k] \in 1..issued'
        /\ \A c \in DOMAIN calls' : \A k \in DOMAIN calls'[c] : calls'[c][k] \in 1..issued'
    BY <2>1, <2>4 DEF ListsInv
  <2> QED BY <2>1, <2>2, <2>3, <2>5 DEF ListsInv
<1>10. ASSUME NEW type \in {"message", "reasoning", "call"}, EventAdded(type) PROVE ListsInv'
  <2>1. /\ Listed(output', issued') /\ Listed(response', issued')
        /\ issued' \in Nat /\ issued <= issued' /\ issued' <= sent'
    BY <1>10, EventAddedLists
  <2>2. UNCHANGED <<prior, db, calls, batch>>
    BY <1>10 DEF EventAdded
  <2>3. DbIs' /\ db'.output = db.output
    BY <1>1, <2>2 DEF DbIs
  <2>4. Listed(prior, issued') /\ Listed(db.output, issued')
    BY <1>1, <2>1, NumbersGrow
  <2>5. \A id \in 1..issued : id \in 1..issued'
    BY <1>1, <2>1
  <2>6. /\ \A k \in DOMAIN batch' : batch'[k] \in 1..issued'
        /\ \A c \in DOMAIN calls' : \A k \in DOMAIN calls'[c] : calls'[c][k] \in 1..issued'
    BY <2>2, <2>5 DEF ListsInv
  <2> QED BY <2>1, <2>2, <2>3, <2>4, <2>6 DEF ListsInv
<1>11. ASSUME NEW i \in DOMAIN response, EventDelta(i) \/ EventDone(i) PROVE ListsInv'
  <2>1. Listed(output', issued) /\ Listed(response', issued)
    BY <1>11, EventDeltaLists, EventDoneLists
  <2>2. UNCHANGED <<prior, calls, batch, issued, db>> /\ sent' \in {sent, sent + 1}
    BY <1>11 DEF EventDelta, EventDone, tools
  <2>3. sent' \in Nat /\ sent <= sent' /\ DbIs' /\ db'.output = db.output
    BY <1>1, <2>2 DEF DbIs
  <2> QED BY <1>1, <2>1, <2>2, <2>3, ListsSteps
<1>12. CASE EventCompleted
  <2>1. /\ output' = Completed(response) /\ UNCHANGED <<prior, calls, batch, issued, db, response, sent>>
    BY <1>12 DEF EventCompleted, tools, reading
  <2>2. Listed(output', issued)
    BY <1>1, <2>1, CompletedTyped DEF Listed
  <2>3. DbIs' /\ db'.output = db.output
    BY <1>1, <2>1 DEF DbIs
  <2> QED BY <1>1, <2>1, <2>2, <2>3, ListsSteps
<1>13. CASE StreamEnds
  <2>1. /\ Listed(output', issued) /\ CallIdsIssued' /\ prior' \in {<<>>, prior}
    BY <1>13, StreamEndsLists
  <2>2. UNCHANGED <<batch, issued, db, response, sent>>
    BY <1>13 DEF StreamEnds, reading
  <2>3. DbIs' /\ db'.output = db.output
    BY <1>1, <2>2 DEF DbIs
  <2>4. \A k \in DOMAIN batch' : batch'[k] \in 1..issued'
    BY <2>2 DEF ListsInv
  <2> QED BY <1>1, <1>2, <2>1, <2>2, <2>3, <2>4 DEF ListsInv, CallIdsIssued
<1>14. CASE ToolRound
  <2>1. /\ Listed(output', issued) /\ CallIdsIssued' /\ \A k \in DOMAIN batch' : batch'[k] \in 1..issued
    BY <1>14, ToolRoundLists
  <2>2. UNCHANGED <<prior, issued, db, response, sent>>
    BY <1>14 DEF ToolRound, reading
  <2>3. DbIs' /\ db'.output = db.output
    BY <1>1, <2>2 DEF DbIs
  <2> QED BY <1>1, <2>1, <2>2, <2>3 DEF ListsInv, CallIdsIssued
<1>15. CASE ToolResults \/ CodeResult
  <2>1. Listed(output', issued)
    BY <1>15, ToolResultsLists, CodeResultLists
  <2>2. UNCHANGED <<prior, calls, batch, issued, db, response, sent>>
    BY <1>15 DEF ToolResults, CodeResult, tools, reading
  <2>3. DbIs' /\ db'.output = db.output
    BY <1>1, <2>2 DEF DbIs
  <2> QED BY <1>1, <2>1, <2>2, <2>3, ListsSteps
<1>16. CASE ToolRequest
  <2>1. Listed(prior', issued) /\ output' = <<>> /\ response' = <<>>
    BY <1>16, ToolRequestLists
  <2>2. UNCHANGED <<calls, batch, issued, db, sent>>
    BY <1>16 DEF ToolRequest, tools
  <2>3. DbIs' /\ db'.output = db.output
    BY <1>1, <2>2 DEF DbIs
  <2> QED BY <1>1, <1>2, <2>1, <2>2, <2>3, ListsSteps
<1>17. CASE Save
  <2>1. Listed(output', issued)
    BY <1>17, SaveLists
  <2>2. UNCHANGED <<prior, calls, batch, issued, response, sent>> /\ SaveDone(output')
    BY <1>17 DEF Save, tools, reading
  <2>3. DbIs' /\ db'.output \in {db.output, output'}
    BY <1>1, <2>2, DbSaves
  <2> QED BY <1>1, <2>1, <2>2, <2>3, ListsSteps
<1> QED BY <1>4, <1>5, <1>6, <1>7, <1>8, <1>9, <1>10, <1>11, <1>12, <1>13, <1>14, <1>15, <1>16, <1>17
        DEF GenerationNext, Progress, Deltas, Events

-----------------------------------------------------------------------------
(* The types of all variables                                              *)

\* Where the task is, and the counters of its loops.
ControlInv ==
  /\ pc \in {"payload", "stream", "ended", "tools", "calling", "request", "code", "running",
             "ask", "save", "shown", "background", "cancelling", "over"}
  /\ caller \in {"none", "first", "tools", "code"} /\ realtime \in BOOLEAN
  /\ pc = "stream" => caller # "none"
  /\ cancels \in 0..MaxCancels
  /\ toolTries \in 0..CHAT_RESPONSE_MAX_TOOL_CALL_RETRIES /\ codeTries \in 0..MAX_RETRIES

\* A counter that is below its bound.
LEMMA OneMore ==
  /\ \A max \in Nat : 0 \in 0..max
  /\ \A max \in Nat : \A n \in 0..max : n < max => n + 1 \in 0..max
OBVIOUS

\* The control variables at the start.
LEMMA ControlInit == GenerationInit => ControlInv
<1> SUFFICES ASSUME GenerationInit PROVE ControlInv
  OBVIOUS
<1>1. MaxCancels \in Nat /\ CHAT_RESPONSE_MAX_TOOL_CALL_RETRIES \in Nat /\ MAX_RETRIES \in Nat
  BY GenerationAssumption
<1>2. cancels \in 0..MaxCancels /\ toolTries \in 0..CHAT_RESPONSE_MAX_TOOL_CALL_RETRIES /\ codeTries \in 0..MAX_RETRIES
  BY <1>1, OneMore DEF GenerationInit
<1> QED BY <1>2 DEF GenerationInit, ControlInv

\* Every step keeps ControlInv.
LEMMA ControlStep == ControlInv /\ [GenerationNext]_generationVars => ControlInv'
<1> SUFFICES ASSUME ControlInv, [GenerationNext]_generationVars PROVE ControlInv'
  OBVIOUS
<1> USE DEF ControlInv
<1>1. MaxCancels \in Nat /\ CHAT_RESPONSE_MAX_TOOL_CALL_RETRIES \in Nat /\ MAX_RETRIES \in Nat
  BY GenerationAssumption
<1>2. CASE UNCHANGED generationVars
  BY <1>2 DEF generationVars, control, config
<1>3. CASE ResponseStreams \/ PayloadFails \/ ResponseWhole \/ SaveWhole
  BY <1>3 DEF ResponseStreams, PayloadFails, ResponseWhole, SaveWhole, Goto, config
<1>4. CASE Deltas
  BY <1>4 DEF Deltas, TextDelta, ReasoningDelta, CallDelta, Goto, control, config
<1>5. CASE Events
  BY <1>5 DEF Events, EventAdded, EventDelta, EventDone, EventCompleted, Goto, control, config
<1>6. CASE StreamEnds \/ StreamFails
  BY <1>6 DEF StreamEnds, StreamFails, Goto, config
<1>7. CASE ToolRound
  <2>1. toolTries' = toolTries + 1 /\ toolTries < CHAT_RESPONSE_MAX_TOOL_CALL_RETRIES
    BY <1>7 DEF ToolRound, MoreTools
  <2>2. toolTries' \in 0..CHAT_RESPONSE_MAX_TOOL_CALL_RETRIES
    BY <1>1, <2>1, OneMore
  <2> QED BY <1>7, <2>2 DEF ToolRound, config
<1>8. CASE ToolsOver \/ RunTool \/ ResultFails \/ ToolResults \/ ToolRequest \/ ToolRequestFails
  BY <1>8 DEF ToolsOver, RunTool, ResultFails, ToolResults, ToolRequest, ToolRequestFails, Goto, control, config
<1>9. CASE CodeRound
  <2>1. codeTries' = codeTries + 1 /\ codeTries < MAX_RETRIES
    BY <1>9 DEF CodeRound, CodePending
  <2>2. codeTries' \in 0..MAX_RETRIES
    BY <1>1, <2>1, OneMore
  <2> QED BY <1>9, <2>2 DEF CodeRound, config
<1>10. CASE CodeResult \/ CodeRequest \/ CodeRequestFails
  BY <1>10 DEF CodeResult, CodeRequest, CodeRequestFails, Goto, config
<1>11. CASE Save \/ BackgroundEnds \/ BackgroundFails \/ CancelSave
  BY <1>11 DEF Save, BackgroundEnds, BackgroundFails, CancelSave, Goto, config
<1>12. CASE CancelGeneration
  <2>1. cancels' = cancels + 1 /\ cancels < MaxCancels
    BY <1>12 DEF CancelGeneration
  <2>2. cancels' \in 0..MaxCancels
    BY <1>1, <2>1, OneMore
  <2> QED BY <1>12, <2>2 DEF CancelGeneration, config
<1> QED BY <1>2, <1>3, <1>4, <1>5, <1>6, <1>7, <1>8, <1>9, <1>10, <1>11, <1>12 DEF GenerationNext, Progress

\* The items of a list are items of an answer.
LEMMA ItemsOfListed ==
  ASSUME NEW n \in Nat, NEW out, Listed(out, n), NEW item \in Range(out)
  PROVE  /\ item.type \in {"message", "reasoning", "code", "call", "result"}
         /\ item.status \in {"in_progress", "completed"}
         /\ Range(item.text) \subseteq Range(Vocabulary) \cup Tag \cup {Earlier}
         /\ item.id \in 0..n /\ (item.id # 0 <=> item.type \in {"call", "result"})
<1>1. DOMAIN out = 1..Len(out)
  BY ListIs DEF Listed, TypedList
<1>2. PICK i \in 1..Len(out) : item = out[i]
  BY <1>1 DEF Range
<1>3. TypedItem(item) /\ IsItem(item) /\ item.id <= n
  BY <1>2 DEF Listed, TypedList, ItemList, NumberedTo
<1>4. item.id \in 0..n
  BY <1>3 DEF IsItem
<1>5. Range(item.text) \subseteq Token
  <2>1. item.text \in [1..Len(item.text) -> Token]
    BY <1>3, LenProperties DEF TypedItem
  <2> QED BY <2>1 DEF Range
<1> QED BY <1>3, <1>4, <1>5 DEF TypedItem, ToolItem, Token

\* The types of all variables, with what the types of some depend on.
TypeInv == AnswerInv /\ ReadInv /\ ListsInv /\ ControlInv

\* TypeInv holds at the start ...
LEMMA TypeInit == GenerationInit => TypeInv
BY AnswerInit, ReadInit, ListsInit, ControlInit DEF TypeInv

\* ... and every step keeps it.
LEMMA TypeStep == TypeInv /\ [GenerationNext]_generationVars => TypeInv'
<1>1. TypeInv /\ [GenerationNext]_generationVars => AnswerInv' /\ ReadInv' /\ ListsInv' /\ ControlInv'
  BY AnswerStep, ReadStep, ListsStep, ControlStep DEF TypeInv
<1> QED BY <1>1 DEF TypeInv

\* GenerationTypeOK: the domains of the variables, the items of an answer and
\* its bounds among them.
THEOREM GenerationTypes == GenerationSpec => []GenerationTypeOK
<1>1. TypeInv => GenerationTypeOK
  <2> SUFFICES ASSUME TypeInv PROVE GenerationTypeOK
    OBVIOUS
  <2>1. /\ Listed(output, issued) /\ Listed(prior, issued) /\ Listed(response, issued) /\ Listed(db.output, issued)
        /\ issued \in Nat /\ issued <= sent /\ sent \in Nat /\ sent <= MaxSent /\ DbIs
    BY DEF TypeInv, ListsInv, ReadInv
  <2>2. Listed(output \o prior \o response \o db.output, issued)
    BY <2>1, ListedBasics
  <2>3. \A item \in Range(output \o prior \o response \o db.output) :
          /\ item.type \in {"message", "reasoning", "code", "call", "result"}
          /\ item.status \in {"in_progress", "completed"}
          /\ Range(item.text) \subseteq Range(Vocabulary) \cup Tag \cup {Earlier}
          /\ item.id \in 0..issued /\ (item.id # 0 <=> item.type \in {"call", "result"})
    BY <2>1, <2>2, ItemsOfListed
  <2>4. issued \in 0..MaxSent
    BY <2>1, VocabularyIs
  <2> QED BY <2>1, <2>3, <2>4 DEF TypeInv, ControlInv, DbIs, GenerationTypeOK, AnswerInv, IdInv, StyleInv
<1> QED BY TypeInit, TypeStep, <1>1, PTL DEF GenerationSpec

=============================================================================
