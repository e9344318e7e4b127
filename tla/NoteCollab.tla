----------------------------- MODULE NoteCollab -----------------------------
(***************************************************************************)
(* Collaborative editing of one note: the ydoc:document:* handlers of      *)
(* socket/main.py over the YdocManager of socket/utils.py.                 *)
(*                                                                         *)
(* Yjs merges updates in any order and any number of times, so a document  *)
(* is the set of updates it has received, and a squashed snapshot is the   *)
(* union of what it replaces.                                              *)
(*                                                                         *)
(* Each event of a client runs in a handler of its own.  With Redis every  *)
(* access to the manager's state is an await, and handlers (of one process *)
(* or of several) interleave at each step.  Without Redis the manager's    *)
(* coroutines do not suspend: `loop' names the handler that keeps the      *)
(* event loop until it emits a message or awaits the tasks it stopped.     *)
(***************************************************************************)
EXTENDS Naturals, Sequences, FiniteSets

CONSTANTS
  Session,    \* Socket.IO session ids
  Update,     \* Yjs updates
  Handler,    \* bound on the number of handlers running at a time
  MaxJoins,   \* bound on the number of times a session opens the note
  Threshold,  \* COMPACTION_THRESHOLD
  None

ASSUME NoneAssumption == None \notin Session \cup Update \cup Handler
ASSUME MaxJoinsAssumption == MaxJoins \in Nat
ASSUME ThresholdAssumption == Threshold \in Nat \ {0}

VARIABLES
  redis,     \* whether the manager keeps its state in Redis: never changes
  client,    \* [Session -> whether its editor shows the note]
  joins,     \* [Session -> number of times it has opened the note]
  doc,       \* [Session -> updates its editor has applied]
  sent,      \* [Session -> updates it has ever emitted]
  outbox,    \* [Session -> updates it has emitted and no handler has taken]
  mail,      \* [Session -> updates emitted to it and not yet received]
  given,     \* [Session -> what a document state emitted to it contains]
  room,      \* members of the Socket.IO room doc_<id>
  users,     \* _users[document_id], or the Redis set
  log,       \* _updates[document_id], or the Redis list; << >> if absent
  handler,   \* [Handler -> the state of a running event handler]
  loop,      \* handler that holds the event loop, or None
  accepted,  \* history: updates appended to the log
  revived    \* history: updates a compaction has put back after a clear

vars == <<redis, client, joins, doc, sent, outbox, mail, given, room, users, log,
          handler, loop, accepted, revived>>

HandlerState ==
  [ pc     : {"idle", "enter", "read", "state", "append", "length", "load", "swap", "emit",
              "remove", "leave", "exists", "count", "clear", "forget", "exit"},
    sid    : Session \cup {None},
    update : Update \cup {None},
    state  : SUBSET Update,         \* what a join has read
    batch  : Seq(SUBSET Update),    \* what a compaction has read
    last   : BOOLEAN ]              \* the session is going away for good

Idle == [pc |-> "idle", sid |-> None, update |-> None, state |-> {}, batch |-> << >>, last |-> FALSE]

\* The domains of the variables, in both modes.
TypeOK ==
  /\ redis \in BOOLEAN
  /\ client \in [Session -> {"away", "here", "gone"}]
  /\ joins \in [Session -> 0..MaxJoins]
  /\ doc \in [Session -> SUBSET Update]
  /\ sent \in [Session -> SUBSET Update]
  /\ outbox \in [Session -> SUBSET Update]
  /\ mail \in [Session -> SUBSET Update]
  /\ given \in [Session -> SUBSET Update]
  /\ room \in SUBSET Session
  /\ users \in SUBSET Session
  /\ log \in Seq(SUBSET Update)
  /\ handler \in [Handler -> HandlerState]
  /\ loop \in Handler \cup {None}
  /\ accepted \in SUBSET Update
  /\ revived \in SUBSET Update

Init ==
  /\ redis \in BOOLEAN
  /\ client = [s \in Session |-> "away"]
  /\ joins = [s \in Session |-> 0]
  /\ doc = [s \in Session |-> {}]
  /\ sent = [s \in Session |-> {}]
  /\ outbox = [s \in Session |-> {}]
  /\ mail = [s \in Session |-> {}]
  /\ given = [s \in Session |-> {}]
  /\ room = {} /\ users = {}
  /\ log = << >>
  /\ handler = [h \in Handler |-> Idle]
  /\ loop = None
  /\ accepted = {}
  /\ revived = {}

\* The updates a list of stored updates amounts to.
Content(updates) == UNION {updates[k] : k \in 1..Len(updates)}

editors == <<client, joins, doc, sent, outbox, mail, given>>
server  == <<room, users, log, accepted, revived>>

-----------------------------------------------------------------------------
(* Control                                                                 *)

At(h, pc) == handler[h].pc = pc /\ loop \in {None, h}

GoTo(h, pc) == handler' = [handler EXCEPT ![h] = [handler[h] EXCEPT !.pc = pc]]

End(h) == handler' = [handler EXCEPT ![h] = Idle] /\ loop' = None

\* After an await on the manager: a Redis round trip, or no suspension at all.
Managed(h) == loop' = IF redis THEN None ELSE h

\* After an await that suspends the handler.
Suspended == loop' = None

-----------------------------------------------------------------------------
(* ydoc:document:join                                                      *)

\* An editor opens the note: add_user.  What was in flight to an earlier editor
\* of the session does not reach this one.
Join(h, s) ==
  /\ At(h, "idle")
  /\ client[s] = "away" /\ joins[s] < MaxJoins
  /\ joins' = [joins EXCEPT ![s] = @ + 1]
  /\ client' = [client EXCEPT ![s] = "here"]
  /\ doc' = [doc EXCEPT ![s] = {}]
  /\ mail' = [mail EXCEPT ![s] = {}]
  /\ given' = [given EXCEPT ![s] = {}]
  /\ users' = users \cup {s}
  /\ handler' = [handler EXCEPT ![h] = [Idle EXCEPT !.pc = "enter", !.sid = s]]
  /\ Managed(h)
  /\ UNCHANGED <<redis, sent, outbox, room, log, accepted, revived>>

\* enter_room, without effect when the session is gone.
JoinEnter(h) ==
  /\ At(h, "enter")
  /\ room' = IF client[handler[h].sid] = "gone" THEN room ELSE room \cup {handler[h].sid}
  /\ GoTo(h, "read")
  /\ Managed(h)
  /\ UNCHANGED <<redis, editors, users, log, accepted, revived>>

\* get_updates: all of them, merged.
JoinRead(h) ==
  /\ At(h, "read")
  /\ handler' = [handler EXCEPT ![h] = [handler[h] EXCEPT !.pc = "state", !.state = Content(log)]]
  /\ Managed(h)
  /\ UNCHANGED <<redis, editors, server>>

\* The whole document is emitted to the session that joined.
JoinState(h) ==
  /\ At(h, "state")
  /\ given' = IF client[handler[h].sid] = "here"
                THEN [given EXCEPT ![handler[h].sid] = @ \cup handler[h].state] ELSE given
  /\ End(h)
  /\ UNCHANGED <<redis, client, joins, doc, sent, outbox, mail, server>>

-----------------------------------------------------------------------------
(* ydoc:document:update                                                    *)

\* The user changes the note.
Edit(s, u) ==
  /\ client[s] = "here"
  /\ \A t \in Session : u \notin sent[t]
  /\ doc' = [doc EXCEPT ![s] = @ \cup {u}]
  /\ sent' = [sent EXCEPT ![s] = @ \cup {u}]
  /\ outbox' = [outbox EXCEPT ![s] = @ \cup {u}]
  /\ UNCHANGED <<redis, client, joins, mail, given, server, handler, loop>>

\* A handler takes the update.  It turns away a session that is not in the room,
\* or stops the pending save of the note, which may suspend it.
Accept(h, s, u) ==
  /\ At(h, "idle")
  /\ u \in outbox[s]
  /\ outbox' = [outbox EXCEPT ![s] = @ \ {u}]
  /\ IF s \in room
       THEN /\ handler' = [handler EXCEPT ![h] =
                             [Idle EXCEPT !.pc = "append", !.sid = s, !.update = u]]
            /\ loop' \in {None, h}
       ELSE UNCHANGED <<handler, loop>>
  /\ UNCHANGED <<redis, client, joins, doc, sent, mail, given, server>>

\* Rolling compaction: the oldest half becomes one snapshot.
Squashed(updates) ==
  LET mid == Len(updates) \div 2 IN
  IF Len(updates) <= 1 THEN updates
  ELSE <<Content(SubSeq(updates, 1, mid))>> \o SubSeq(updates, mid + 1, Len(updates))

\* Mutant of UpdateAppend: the session id is stored in place of the update.
UpdateAppendSid(h) ==
  /\ At(h, "append")
  /\ accepted' = accepted \cup {handler[h].update}
  /\ log' = Append(log, {handler[h].sid})
  /\ GoTo(h, IF redis THEN "length" ELSE "emit")
  /\ Managed(h)
  /\ UNCHANGED <<redis, editors, room, users, revived>>

\* Mutant of UpdateAppend: in memory, the list compacted is the one before.
UpdateAppendUnstored(h) ==
  LET stored == Append(log, {handler[h].update}) IN
  /\ At(h, "append")
  /\ accepted' = accepted \cup {handler[h].update}
  /\ log' = IF ~redis /\ Len(stored) >= Threshold THEN Squashed(log) ELSE stored
  /\ GoTo(h, IF redis THEN "length" ELSE "emit")
  /\ Managed(h)
  /\ UNCHANGED <<redis, editors, room, users, revived>>

\* append_to_updates.  In memory the compaction belongs to the same step.
UpdateAppend(h) ==
  LET stored == Append(log, {handler[h].update}) IN
  /\ At(h, "append")
  /\ accepted' = accepted \cup {handler[h].update}
  /\ log' = IF ~redis /\ Len(stored) >= Threshold THEN Squashed(stored) ELSE stored
  /\ GoTo(h, IF redis THEN "length" ELSE "emit")
  /\ Managed(h)
  /\ UNCHANGED <<redis, editors, room, users, revived>>

\* With Redis: LLEN decides whether to compact.
UpdateLength(h) ==
  /\ At(h, "length")
  /\ GoTo(h, IF Len(log) >= Threshold THEN "load" ELSE "emit")
  /\ Managed(h)
  /\ UNCHANGED <<redis, editors, server>>

\* _compact_updates_redis reads the list ...
CompactLoad(h) ==
  /\ At(h, "load")
  /\ handler' = [handler EXCEPT ![h] =
                   [handler[h] EXCEPT !.pc = IF Len(log) <= 1 THEN "emit" ELSE "swap",
                                      !.batch = log]]
  /\ Managed(h)
  /\ UNCHANGED <<redis, editors, server>>

\* Mutant of CompactSwap: the list becomes the snapshot of its oldest half.
CompactSwapBatch(h) ==
  /\ At(h, "swap")
  /\ log' = <<Squashed(handler[h].batch)[1]>>
  /\ revived' = revived \cup (Content(handler[h].batch) \ Content(log))
  /\ handler' = [handler EXCEPT ![h] = [handler[h] EXCEPT !.pc = "emit", !.batch = << >>]]
  /\ Managed(h)
  /\ UNCHANGED <<redis, editors, room, users, accepted>>

\* ... and later replaces the list by what it has read, squashed.
CompactSwap(h) ==
  /\ At(h, "swap")
  /\ log' = Squashed(handler[h].batch)
  /\ revived' = revived \cup (Content(handler[h].batch) \ Content(log))
  /\ handler' = [handler EXCEPT ![h] = [handler[h] EXCEPT !.pc = "emit", !.batch = << >>]]
  /\ Managed(h)
  /\ UNCHANGED <<redis, editors, room, users, accepted>>

\* Mutant of UpdateEmit: the session is looked up before the update is emitted.
UpdateEmitChecked(h) ==
  /\ At(h, "emit")
  /\ mail' = [s \in Session |->
                IF s \in room \ {handler[h].sid} /\ client[handler[h].sid] # "gone"
                  THEN mail[s] \cup {handler[h].update} ELSE mail[s]]
  /\ End(h)
  /\ UNCHANGED <<redis, client, joins, doc, sent, outbox, given, server>>

\* The update is emitted to the others in the room.
UpdateEmit(h) ==
  /\ At(h, "emit")
  /\ mail' = [s \in Session |-> IF s \in room \ {handler[h].sid}
                                  THEN mail[s] \cup {handler[h].update} ELSE mail[s]]
  /\ End(h)
  /\ UNCHANGED <<redis, client, joins, doc, sent, outbox, given, server>>

\* A client applies an update it was emitted.  If the update is news, applying it
\* is a change of the document, which the client emits in its turn.
Receive(s, u) ==
  /\ u \in mail[s]
  /\ mail' = [mail EXCEPT ![s] = @ \ {u}]
  /\ doc' = [doc EXCEPT ![s] = @ \cup {u}]
  /\ IF u \in doc[s] \/ client[s] # "here"
       THEN UNCHANGED <<sent, outbox>>
       ELSE /\ sent' = [sent EXCEPT ![s] = @ \cup {u}]
            /\ outbox' = [outbox EXCEPT ![s] = @ \cup {u}]
  /\ UNCHANGED <<redis, client, joins, given, server, handler, loop>>

\* It applies a document state; changes of that origin are not emitted.
ReceiveState(s) ==
  /\ given[s] # {}
  /\ given' = [given EXCEPT ![s] = {}]
  /\ doc' = [doc EXCEPT ![s] = @ \cup given[s]]
  /\ UNCHANGED <<redis, client, joins, sent, outbox, mail, server, handler, loop>>

-----------------------------------------------------------------------------
(* ydoc:document:leave and disconnect                                      *)

\* An editor closes the note: remove_user.
Leave(h, s) ==
  /\ At(h, "idle")
  /\ client[s] = "here"
  /\ client' = [client EXCEPT ![s] = "away"]
  /\ users' = users \ {s}
  /\ handler' = [handler EXCEPT ![h] = [Idle EXCEPT !.pc = "leave", !.sid = s]]
  /\ Managed(h)
  /\ UNCHANGED <<redis, joins, doc, sent, outbox, mail, given, room, log, accepted, revived>>

\* leave_room, then ydoc:user:left is emitted.
LeaveRoom(h) ==
  /\ At(h, "leave")
  /\ room' = room \ {handler[h].sid}
  /\ GoTo(h, "exists")
  /\ Suspended
  /\ UNCHANGED <<redis, editors, users, log, accepted, revived>>

LeaveExists(h) ==
  /\ At(h, "exists")
  /\ IF log = << >> THEN End(h) ELSE GoTo(h, "count") /\ Managed(h)
  /\ UNCHANGED <<redis, editors, server>>

\* The socket closes.  remove_user_from_all_documents visits the note if it has
\* users at all (with Redis) or this session among them (without).
Disconnect(h, s) ==
  /\ At(h, "idle")
  /\ client[s] # "gone"
  /\ client' = [client EXCEPT ![s] = "gone"]
  /\ handler' = [handler EXCEPT ![h] =
                   [Idle EXCEPT !.sid = s, !.last = TRUE,
                      !.pc = IF IF redis THEN users # {} ELSE s \in users THEN "remove" ELSE "exit"]]
  /\ Managed(h)
  /\ UNCHANGED <<redis, joins, doc, sent, outbox, mail, given, server>>

DisconnectRemove(h) ==
  /\ At(h, "remove")
  /\ users' = users \ {handler[h].sid}
  /\ GoTo(h, "count")
  /\ Managed(h)
  /\ UNCHANGED <<redis, editors, room, log, accepted, revived>>

\* What follows the attempt to clear the document.
Rest(h) == IF handler[h].last THEN GoTo(h, "exit") /\ Managed(h) ELSE End(h)

\* Mutant of Count: the check for remaining users is dropped.
CountAlways(h) ==
  /\ At(h, "count")
  /\ GoTo(h, "clear") /\ Managed(h)
  /\ UNCHANGED <<redis, editors, server>>

\* The document is cleared when it has no users left.
Count(h) ==
  /\ At(h, "count")
  /\ IF users = {} THEN GoTo(h, "clear") /\ Managed(h) ELSE Rest(h)
  /\ UNCHANGED <<redis, editors, server>>

\* clear_document deletes the updates, then the users.
Clear(h) ==
  /\ At(h, "clear")
  /\ log' = << >>
  /\ GoTo(h, "forget")
  /\ Managed(h)
  /\ UNCHANGED <<redis, editors, room, users, accepted, revived>>

Forget(h) ==
  /\ At(h, "forget")
  /\ users' = {}
  /\ Rest(h)
  /\ UNCHANGED <<redis, editors, room, log, accepted, revived>>

\* After the disconnect handler Socket.IO takes the session out of its rooms.
Exit(h) ==
  /\ At(h, "exit")
  /\ room' = room \ {handler[h].sid}
  /\ End(h)
  /\ UNCHANGED <<redis, editors, users, log, accepted, revived>>

-----------------------------------------------------------------------------

Continue(h) ==
  \/ JoinEnter(h) \/ JoinRead(h) \/ JoinState(h)
  \/ UpdateAppend(h) \/ UpdateLength(h) \/ CompactLoad(h) \/ CompactSwap(h) \/ UpdateEmit(h)
  \/ LeaveRoom(h) \/ LeaveExists(h) \/ DisconnectRemove(h)
  \/ Count(h) \/ Clear(h) \/ Forget(h) \/ Exit(h)

Next ==
  \/ \E h \in Handler : Continue(h)
  \/ \E h \in Handler, s \in Session : Join(h, s) \/ Leave(h, s) \/ Disconnect(h, s)
  \/ \E h \in Handler, s \in Session, u \in Update : Accept(h, s, u)
  \/ \E s \in Session, u \in Update : Edit(s, u) \/ Receive(s, u)
  \/ \E s \in Session : ReceiveState(s)

Spec == Init /\ [][Next]_vars

-----------------------------------------------------------------------------
(* Properties                                                              *)

\* A session that shows the note and whose joins and leaves are all handled.
Settled(s) ==
  /\ client[s] = "here" /\ s \in room
  /\ \A h \in Handler : handler[h].sid = s
       => handler[h].pc \in {"idle", "append", "length", "load", "swap", "emit"}

\* Updates appended by handlers that have not emitted them yet.
Unsent == {handler[h].update : h \in {g \in Handler : handler[g].pc \in {"length", "load", "swap", "emit"}}}

\* What an editor shows, or will once it has received what was emitted to it.
Known(s) == doc[s] \cup mail[s] \cup given[s]

\* Whatever a newcomer would be given, every settled session knows or will be
\* sent: joining enters the room before it reads the log, and updating appends
\* before it emits.  (What a session has emitted itself is not sent back to it;
\* what a compaction put back after the note was cleared is sent to nobody.)
Convergence ==
  \A s \in Session : Settled(s) =>
    Content(log) \subseteq Known(s) \cup sent[s] \cup Unsent \cup revived

\* As long as somebody shows the note, the updates the server has accepted and
\* he knows are in the log, so newcomers get them too.  (Handlers that keep the
\* event loop; with Redis a compaction or a clearing may overtake an update.)
NothingForgotten ==
  ~redis => \A s \in Session : Settled(s) => Known(s) \cap accepted \subseteq Content(log)

\* utils.py:153, "squash oldest half into one snapshot": apart from clearing, an
\* update leaves the log only when a compaction replaces the log by what it
\* read before the update was appended.  However compactions overlap, what all
\* of them have read survives them.
LostOnlyByStaleCompaction ==
  [][\A u \in Content(log) \ Content(log') :
       \/ \E h \in Handler : handler[h].pc = "clear" /\ handler'[h].pc = "forget"
       \/ \E h \in Handler : /\ handler[h].pc = "swap" /\ handler'[h].pc = "emit"
                             /\ u \notin Content(handler[h].batch)]_vars

\* main.py:734, "as no users are left": without Redis a document is cleared only
\* while nobody uses it.
ClearedWhenUnused == [][\A h \in Handler : ~redis /\ Clear(h) => users = {}]_vars

=============================================================================
