-------------------------- MODULE NoteCollabProofs --------------------------
(***************************************************************************)
(* Proofs about NoteCollab, for any number of sessions, updates, handlers  *)
(* and joins and any compaction threshold: editors converge, a compaction  *)
(* loses nothing it has read, and without Redis nothing is forgotten.      *)
(***************************************************************************)
EXTENDS NoteCollab, SequenceTheorems, TLAPS

-----------------------------------------------------------------------------
(* The inductive invariant                                                 *)

\* A handler works for a session; the update it carries was emitted by that
\* session, and a session it takes out of the users is gone.
HandlerInv ==
  \A h \in Handler :
    /\ handler[h].pc # "idle" => handler[h].sid \in Session
    /\ handler[h].pc \in {"append", "length", "load", "swap", "emit"} =>
         handler[h].update \in sent[handler[h].sid]
    /\ handler[h].pc = "remove" => client[handler[h].sid] = "gone"

\* Whatever waits or is stored was emitted by somebody.
SentInv ==
  /\ \A s \in Session : outbox[s] \subseteq sent[s]
  /\ \A u \in accepted : \E s \in Session : u \in sent[s]

\* What the session s knows, or will be told, or need not be told.
Reached(s) == Known(s) \cup sent[s] \cup Unsent \cup revived

\* The handler will give the session s what it lacks of the log: it has yet to
\* read the log, or has read enough of it.
WillGive(h, s) ==
  /\ handler[h].sid = s
  /\ \/ handler[h].pc \in {"enter", "read"}
     \/ handler[h].pc = "state" /\ Content(log) \subseteq Reached(s) \cup handler[h].state

\* A session in the room has been reached by all of the log, or a join will see
\* to it: it enters the room before it reads the log.
ReachedInv ==
  \A s \in Session : client[s] = "here" /\ s \in room =>
    Content(log) \subseteq Reached(s) \/ \E h \in Handler : WillGive(h, s)

\* Without Redis a handler keeps the event loop but at two points, so that what
\* it has found stays true until it has used it.
KeepsLoop(h) ==
  /\ handler[h].pc \notin {"idle", "append", "exists"} => loop = h
  /\ handler[h].pc \notin {"length", "load", "swap"}
  /\ handler[h].pc \in {"clear", "forget"} => users = {}
  /\ handler[h].pc = "state" => handler[h].state \subseteq Content(log)
  /\ handler[h].pc = "emit" => handler[h].update \in Content(log)

LoopInv == ~redis => \A h \in Handler : KeepsLoop(h)

\* Without Redis who shows the note is one of its users, and the log has what
\* he knows.
MemoryInv ==
  ~redis =>
    \A s \in Session : client[s] = "here" =>
      s \in users /\ Known(s) \cap accepted \subseteq Content(log)

IInv == TypeOK /\ HandlerInv /\ SentInv /\ ReachedInv /\ LoopInv /\ MemoryInv

-----------------------------------------------------------------------------
(* The contents of a list of updates                                       *)

LEMMA ContentElements ==
  ASSUME NEW s \in Seq(SUBSET Update)
  PROVE  /\ Content(s) \subseteq Update
         /\ \A u : u \in Content(s) <=> \E k \in 1..Len(s) : u \in s[k]
<1>1. \A k \in 1..Len(s) : s[k] \in SUBSET Update
  BY ElementOfSeq
<1>2. \A u : u \in Content(s) <=> \E k \in 1..Len(s) : u \in s[k]
  BY DEF Content
<1> QED BY <1>1, <1>2

LEMMA ContentOfEmpty == Content(<< >>) = {}
<1>1. 1..Len(<< >>) = {}
  BY EmptySeq
<1> QED BY <1>1 DEF Content

LEMMA ContentAppend ==
  ASSUME NEW s \in Seq(SUBSET Update), NEW e \in SUBSET Update
  PROVE  Append(s, e) \in Seq(SUBSET Update) /\ Content(Append(s, e)) = Content(s) \cup e
<1> DEFINE r == Append(s, e)
<1>1. /\ r \in Seq(SUBSET Update) /\ Len(s) \in Nat /\ Len(r) = Len(s) + 1
      /\ \A k \in 1..Len(s) : r[k] = s[k]
      /\ r[Len(s) + 1] = e
  BY AppendProperties, LenProperties
<1> HIDE DEF r
<1>2. ASSUME NEW u \in Content(r) PROVE u \in Content(s) \cup e
  <2>1. PICK k \in 1..Len(r) : u \in r[k]
    BY <1>1, ContentElements
  <2>2. k \in 1..Len(s) \/ k = Len(s) + 1
    BY <1>1
  <2> QED BY <1>1, <2>1, <2>2, ContentElements
<1>3. ASSUME NEW u \in Content(s) PROVE u \in Content(r)
  <2>1. PICK k \in 1..Len(s) : u \in s[k]
    BY ContentElements
  <2>2. k \in 1..Len(r) /\ r[k] = s[k]
    BY <1>1
  <2> QED BY <1>1, <2>1, <2>2, ContentElements
<1>4. ASSUME NEW u \in e PROVE u \in Content(r)
  <2>1. Len(s) + 1 \in 1..Len(r)
    BY <1>1
  <2> QED BY <1>1, <1>4, <2>1, ContentElements
<1> QED BY <1>1, <1>2, <1>3, <1>4 DEF r

\* Squashing a list keeps what it contains.
LEMMA SquashedContent ==
  ASSUME NEW s \in Seq(SUBSET Update)
  PROVE  Squashed(s) \in Seq(SUBSET Update) /\ Content(Squashed(s)) = Content(s)
<1> DEFINE mid == Len(s) \div 2
           old == SubSeq(s, 1, mid)
           new == SubSeq(s, mid + 1, Len(s))
           one == <<Content(old)>>
<1>1. Len(s) \in Nat
  BY LenProperties
<1>2. CASE Len(s) <= 1
  BY <1>2 DEF Squashed
<1>3. CASE ~ (Len(s) <= 1)
  <2>1. mid \in Nat /\ 1 <= mid /\ mid <= Len(s)
    BY <1>1, <1>3
  <2> HIDE DEF mid
  <2>2. /\ old \in Seq(SUBSET Update) /\ Len(old) = mid
        /\ \A k \in 1..mid : old[k] = s[k]
    <3>1. \A k \in 1..mid : s[k] \in SUBSET Update
      BY <1>1, <2>1, ElementOfSeq
    <3>2. /\ old \in Seq(SUBSET Update)
          /\ Len(old) = IF 1 <= mid THEN mid - 1 + 1 ELSE 0
          /\ \A k \in 1..mid - 1 + 1 : old[k] = s[1 + k - 1]
      BY <2>1, <3>1, SubSeqProperties
    <3> QED BY <2>1, <3>2
  <2>3. /\ new \in Seq(SUBSET Update) /\ Len(new) = Len(s) - mid
        /\ \A k \in 1..Len(s) - mid : new[k] = s[mid + k]
    <3>1. \A k \in mid + 1..Len(s) : s[k] \in SUBSET Update
      BY <1>1, <2>1, ElementOfSeq
    <3>2. /\ new \in Seq(SUBSET Update)
          /\ Len(new) = IF mid + 1 <= Len(s) THEN Len(s) - (mid + 1) + 1 ELSE 0
          /\ \A k \in 1..Len(s) - (mid + 1) + 1 : new[k] = s[(mid + 1) + k - 1]
      BY <1>1, <2>1, <3>1, SubSeqProperties
    <3> QED BY <1>1, <2>1, <3>2
  <2> HIDE DEF old, new
  <2>4. Content(old) \in SUBSET Update
    BY <2>2, ContentElements
  <2>5. one \in Seq(SUBSET Update) /\ Len(one) = 1 /\ one[1] = Content(old)
    BY <2>4
  <2> HIDE DEF one
  <2> DEFINE r == one \o new
  <2>6. /\ r \in Seq(SUBSET Update)
        /\ Len(r) = 1 + (Len(s) - mid)
        /\ \A k \in 1..1 + (Len(s) - mid) : r[k] = IF k <= 1 THEN one[k] ELSE new[k - 1]
    <3>1. /\ r \in Seq(SUBSET Update)
          /\ Len(r) = Len(one) + Len(new)
          /\ \A k \in 1..Len(one) + Len(new) :
               r[k] = IF k <= Len(one) THEN one[k] ELSE new[k - Len(one)]
      BY <2>3, <2>5, ConcatProperties
    <3> HIDE DEF r
    <3> QED BY <2>3, <2>5, <3>1
  <2>7. Squashed(s) = r
    BY <1>3 DEF Squashed, one, old, new, mid
  <2> HIDE DEF r
  <2>8. ASSUME NEW u \in Content(s) PROVE u \in Content(r)
    <3>1. PICK k \in 1..Len(s) : u \in s[k]
      BY ContentElements
    <3>2. CASE k <= mid
      <4>1. u \in Content(old)
        BY <2>1, <2>2, <3>1, <3>2, ContentElements
      <4>2. 1 \in 1..Len(r) /\ r[1] = Content(old)
        BY <1>1, <2>1, <2>5, <2>6
      <4> QED BY <2>6, <4>1, <4>2, ContentElements
    <3>3. CASE ~ (k <= mid)
      <4>1. k - mid \in 1..Len(s) - mid /\ new[k - mid] = s[k]
        BY <1>1, <2>1, <2>3, <3>3
      <4>2. k - mid + 1 \in 1..Len(r) /\ r[k - mid + 1] = new[k - mid]
        BY <1>1, <2>1, <2>6, <3>3
      <4> QED BY <2>6, <3>1, <4>1, <4>2, ContentElements
    <3> QED BY <3>2, <3>3
  <2>9. ASSUME NEW u \in Content(r) PROVE u \in Content(s)
    <3>1. PICK k \in 1..Len(r) : u \in r[k]
      BY <2>6, ContentElements
    <3>2. CASE k = 1
      <4>1. u \in Content(old)
        BY <2>5, <2>6, <3>1, <3>2
      <4>2. PICK j \in 1..mid : u \in s[j]
        BY <2>1, <2>2, <4>1, ContentElements
      <4>3. j \in 1..Len(s)
        BY <1>1, <2>1
      <4> QED BY <4>2, <4>3, ContentElements
    <3>3. CASE k # 1
      <4>1. k - 1 \in 1..Len(s) - mid /\ r[k] = new[k - 1]
        BY <1>1, <2>1, <2>6, <3>3
      <4>2. mid + (k - 1) \in 1..Len(s) /\ u \in s[mid + (k - 1)]
        <5> DEFINE j == k - 1
        <5>1. j \in 1..Len(s) - mid /\ u \in new[j]
          BY <3>1, <4>1
        <5> HIDE DEF j
        <5>2. mid + j \in 1..Len(s) /\ u \in s[mid + j]
          BY <1>1, <2>1, <2>3, <5>1
        <5> QED BY <5>2 DEF j
      <4> QED BY <4>2, ContentElements
    <3> QED BY <3>2, <3>3
  <2> QED BY <2>6, <2>7, <2>8, <2>9
<1> QED BY <1>2, <1>3

-----------------------------------------------------------------------------
(* Types                                                                   *)

\* A handler at rest, and one that begins.
LEMMA IdleType == Idle \in HandlerState
<1>1. << >> \in Seq(SUBSET Update)
  BY EmptySeq
<1> QED BY <1>1 DEF Idle, HandlerState

LEMMA BeginType ==
  ASSUME NEW s \in Session
  PROVE  /\ [Idle EXCEPT !.pc = "enter", !.sid = s] \in HandlerState
         /\ [Idle EXCEPT !.pc = "leave", !.sid = s] \in HandlerState
         /\ \A u \in Update : [Idle EXCEPT !.pc = "append", !.sid = s, !.update = u] \in HandlerState
         /\ \A pc \in {"remove", "exit"} :
              [Idle EXCEPT !.sid = s, !.last = TRUE, !.pc = pc] \in HandlerState
BY IdleType DEF HandlerState

LEMMA TypeInit == Init => TypeOK
<1>1. << >> \in Seq(SUBSET Update)
  BY EmptySeq
<1> QED BY <1>1, IdleType, MaxJoinsAssumption DEF Init, TypeOK

\* The steps of a handler change its state and who keeps the loop.
LEMMA GoToType ==
  ASSUME TypeOK, NEW h \in Handler, NEW r \in HandlerState,
         handler' = [handler EXCEPT ![h] = r], loop' \in {None, h} \/ loop' = loop
  PROVE  handler' \in [Handler -> HandlerState] /\ loop' \in Handler \cup {None}
BY DEF TypeOK

LEMMA JoinType ==
  ASSUME TypeOK, HandlerInv, NEW h \in Handler,
         JoinEnter(h) \/ JoinRead(h) \/ JoinState(h) \/ \E s \in Session : Join(h, s)
  PROVE  TypeOK'
<1> USE DEF TypeOK, At, Managed
<1>1. CASE \E s \in Session : Join(h, s)
  <2>1. PICK s \in Session : Join(h, s)
    BY <1>1
  <2>2. [Idle EXCEPT !.pc = "enter", !.sid = s] \in HandlerState
    BY BeginType
  <2>3. handler' \in [Handler -> HandlerState] /\ loop' \in Handler \cup {None}
    BY <2>1, <2>2, GoToType DEF Join
  <2>4. joins' \in [Session -> 0..MaxJoins]
    <3>1. joins[s] \in 0..MaxJoins /\ joins[s] < MaxJoins
      BY <2>1 DEF Join
    <3>2. joins[s] + 1 \in 0..MaxJoins
      BY <3>1, MaxJoinsAssumption
    <3> QED BY <2>1, <3>2 DEF Join
  <2>5. /\ doc' \in [Session -> SUBSET Update] /\ mail' \in [Session -> SUBSET Update]
        /\ given' \in [Session -> SUBSET Update]
    BY <2>1 DEF Join
  <2>6. client' \in [Session -> {"away", "here", "gone"}]
    BY <2>1 DEF Join
  <2>7. users' \in SUBSET Session
    BY <2>1 DEF Join
  <2> QED BY <2>1, <2>3, <2>4, <2>5, <2>6, <2>7 DEF Join
<1>2. CASE JoinEnter(h)
  <2>1. [handler[h] EXCEPT !.pc = "read"] \in HandlerState
    BY DEF HandlerState
  <2>2. handler' \in [Handler -> HandlerState] /\ loop' \in Handler \cup {None}
    BY <1>2, <2>1, GoToType DEF JoinEnter, GoTo
  <2> QED BY <1>2, <2>2 DEF JoinEnter, HandlerInv, editors
<1>3. CASE JoinRead(h)
  <2>1. [handler[h] EXCEPT !.pc = "state", !.state = Content(log)] \in HandlerState
    BY ContentElements DEF HandlerState
  <2>2. handler' \in [Handler -> HandlerState] /\ loop' \in Handler \cup {None}
    BY <1>3, <2>1, GoToType DEF JoinRead
  <2> QED BY <1>3, <2>2 DEF JoinRead, editors, server
<1>4. CASE JoinState(h)
  <2>1. Idle \in HandlerState
    BY IdleType
  <2>2. handler' \in [Handler -> HandlerState] /\ loop' \in Handler \cup {None}
    BY <1>4, <2>1, GoToType DEF JoinState, End
  <2> QED BY <1>4, <2>2 DEF JoinState, HandlerState, server
<1> QED BY <1>1, <1>2, <1>3, <1>4

LEMMA UpdateType ==
  ASSUME TypeOK, HandlerInv, NEW h \in Handler,
         \/ UpdateAppend(h) \/ UpdateLength(h) \/ CompactLoad(h) \/ CompactSwap(h) \/ UpdateEmit(h)
         \/ \E s \in Session, u \in Update : Accept(h, s, u)
  PROVE  TypeOK'
<1> USE DEF TypeOK, At, Managed
<1>1. CASE \E s \in Session, u \in Update : Accept(h, s, u)
  <2>1. PICK s \in Session, u \in Update : Accept(h, s, u)
    BY <1>1
  <2>2. [Idle EXCEPT !.pc = "append", !.sid = s, !.update = u] \in HandlerState
    BY BeginType
  <2>3. handler' \in [Handler -> HandlerState] /\ loop' \in Handler \cup {None}
    BY <2>1, <2>2, GoToType DEF Accept
  <2> QED BY <2>1, <2>3 DEF Accept, server
<1>2. CASE UpdateAppend(h)
  <2>1. \A pc \in {"length", "emit"} : [handler[h] EXCEPT !.pc = pc] \in HandlerState
    BY DEF HandlerState
  <2>2. handler' \in [Handler -> HandlerState] /\ loop' \in Handler \cup {None}
    BY <1>2, <2>1, GoToType DEF UpdateAppend, GoTo
  <2>3. handler[h].update \in Update
    BY <1>2 DEF UpdateAppend, HandlerInv, HandlerState
  <2>4. log' \in Seq(SUBSET Update)
    BY <1>2, <2>3, ContentAppend, SquashedContent DEF UpdateAppend
  <2> QED BY <1>2, <2>2, <2>3, <2>4 DEF UpdateAppend, editors
<1>3. CASE UpdateLength(h)
  <2>1. \A pc \in {"load", "emit"} : [handler[h] EXCEPT !.pc = pc] \in HandlerState
    BY DEF HandlerState
  <2>2. handler' \in [Handler -> HandlerState] /\ loop' \in Handler \cup {None}
    BY <1>3, <2>1, GoToType DEF UpdateLength, GoTo
  <2> QED BY <1>3, <2>2 DEF UpdateLength, editors, server
<1>4. CASE CompactLoad(h)
  <2>1. \A pc \in {"swap", "emit"} : [handler[h] EXCEPT !.pc = pc, !.batch = log] \in HandlerState
    BY DEF HandlerState
  <2>2. handler' \in [Handler -> HandlerState] /\ loop' \in Handler \cup {None}
    BY <1>4, <2>1, GoToType DEF CompactLoad
  <2> QED BY <1>4, <2>2 DEF CompactLoad, editors, server
<1>5. CASE CompactSwap(h)
  <2>1. [handler[h] EXCEPT !.pc = "emit", !.batch = << >>] \in HandlerState
    BY EmptySeq DEF HandlerState
  <2>2. handler' \in [Handler -> HandlerState] /\ loop' \in Handler \cup {None}
    BY <1>5, <2>1, GoToType DEF CompactSwap
  <2>3. handler[h].batch \in Seq(SUBSET Update)
    BY DEF HandlerState
  <2>4. log' \in Seq(SUBSET Update) /\ revived' \in SUBSET Update
    BY <1>5, <2>3, SquashedContent, ContentElements DEF CompactSwap
  <2> QED BY <1>5, <2>2, <2>4 DEF CompactSwap, editors
<1>6. CASE UpdateEmit(h)
  <2>1. Idle \in HandlerState
    BY IdleType
  <2>2. handler' \in [Handler -> HandlerState] /\ loop' \in Handler \cup {None}
    BY <1>6, <2>1, GoToType DEF UpdateEmit, End
  <2>3. handler[h].update \in Update
    BY <1>6 DEF UpdateEmit, HandlerInv, HandlerState
  <2> QED BY <1>6, <2>2, <2>3 DEF UpdateEmit, server
<1> QED BY <1>1, <1>2, <1>3, <1>4, <1>5, <1>6

LEMMA LeaveType ==
  ASSUME TypeOK, HandlerInv, NEW h \in Handler,
         \/ LeaveRoom(h) \/ LeaveExists(h) \/ DisconnectRemove(h)
         \/ Count(h) \/ Clear(h) \/ Forget(h) \/ Exit(h)
         \/ \E s \in Session : Leave(h, s) \/ Disconnect(h, s)
  PROVE  TypeOK'
<1> USE DEF TypeOK, At, Managed, Suspended
<1>1. /\ Idle \in HandlerState
      /\ \A pc \in {"exists", "count", "clear", "forget", "exit"} :
           [handler[h] EXCEPT !.pc = pc] \in HandlerState
  <2>1. \A pc \in {"exists", "count", "clear", "forget", "exit"} :
           [handler[h] EXCEPT !.pc = pc] \in HandlerState
    BY DEF HandlerState
  <2> QED BY <2>1, IdleType
<1>2. CASE \E s \in Session : Leave(h, s) \/ Disconnect(h, s)
  <2>1. PICK s \in Session : Leave(h, s) \/ Disconnect(h, s)
    BY <1>2
  <2>2. /\ [Idle EXCEPT !.pc = "leave", !.sid = s] \in HandlerState
        /\ \A pc \in {"remove", "exit"} :
             [Idle EXCEPT !.sid = s, !.last = TRUE, !.pc = pc] \in HandlerState
    BY BeginType
  <2>3. CASE Leave(h, s)
    <3>1. handler' \in [Handler -> HandlerState] /\ loop' \in Handler \cup {None}
      BY <2>2, <2>3, GoToType DEF Leave
    <3> QED BY <2>3, <3>1 DEF Leave
  <2>4. CASE Disconnect(h, s)
    <3>1. handler' \in [Handler -> HandlerState] /\ loop' \in Handler \cup {None}
      BY <2>2, <2>4, GoToType DEF Disconnect
    <3> QED BY <2>4, <3>1 DEF Disconnect, server
  <2> QED BY <2>1, <2>3, <2>4
<1>3. CASE \/ LeaveRoom(h) \/ LeaveExists(h) \/ DisconnectRemove(h)
           \/ Count(h) \/ Clear(h) \/ Forget(h) \/ Exit(h)
  <2>1. handler' \in [Handler -> HandlerState] /\ loop' \in Handler \cup {None}
    BY <1>1, <1>3, GoToType DEF LeaveRoom, LeaveExists, DisconnectRemove, Count, Clear, Forget,
       Exit, GoTo, End, Rest
  <2>2. UNCHANGED <<redis, editors, accepted, revived>>
    BY <1>3 DEF LeaveRoom, LeaveExists, DisconnectRemove, Count, Clear, Forget, Exit, server
  <2>3. room' \in SUBSET Session /\ users' \in SUBSET Session /\ log' \in Seq(SUBSET Update)
    BY <1>3, EmptySeq DEF LeaveRoom, LeaveExists, DisconnectRemove, Count, Clear, Forget, Exit, server
  <2> QED BY <2>1, <2>2, <2>3 DEF editors
<1> QED BY <1>2, <1>3

LEMMA ClientType ==
  ASSUME TypeOK,
         \/ \E s \in Session, u \in Update : Edit(s, u) \/ Receive(s, u)
         \/ \E s \in Session : ReceiveState(s)
  PROVE  TypeOK'
<1>1. CASE \E s \in Session, u \in Update : Edit(s, u)
  BY <1>1 DEF TypeOK, Edit, server
<1>2. CASE \E s \in Session, u \in Update : Receive(s, u)
  <2>1. PICK s \in Session, u \in Update : Receive(s, u)
    BY <1>2
  <2>2. /\ mail' \in [Session -> SUBSET Update] /\ doc' \in [Session -> SUBSET Update]
        /\ sent' \in [Session -> SUBSET Update] /\ outbox' \in [Session -> SUBSET Update]
    <3>1. /\ mail' \in [Session -> SUBSET Update] /\ doc' \in [Session -> SUBSET Update]
      BY <2>1 DEF TypeOK, Receive
    <3>2. CASE u \in doc[s] \/ client[s] # "here"
      BY <2>1, <3>1, <3>2 DEF TypeOK, Receive
    <3>3. CASE ~ (u \in doc[s] \/ client[s] # "here")
      <4>1. /\ sent' = [sent EXCEPT ![s] = @ \cup {u}]
            /\ outbox' = [outbox EXCEPT ![s] = @ \cup {u}]
        BY <2>1, <3>3 DEF Receive
      <4> QED BY <3>1, <4>1 DEF TypeOK
    <3> QED BY <3>2, <3>3
  <2> QED BY <2>1, <2>2 DEF TypeOK, Receive, server
<1>3. CASE \E s \in Session : ReceiveState(s)
  BY <1>3 DEF TypeOK, ReceiveState, server
<1> QED BY <1>1, <1>2, <1>3

-----------------------------------------------------------------------------
(* Handlers and what was sent                                              *)

\* A step of a handler, or of a client: the other handlers stay as they are.
LEMMA HandlerFrame ==
  ASSUME TypeOK, HandlerInv, NEW h \in Handler, NEW r \in HandlerState,
         handler' = [handler EXCEPT ![h] = r],
         \A s \in Session : sent[s] \subseteq sent'[s],
         \A s \in Session : client[s] = "gone" => client'[s] = "gone",
         r.pc # "idle" => r.sid \in Session,
         r.pc \in {"append", "length", "load", "swap", "emit"} => r.update \in sent'[r.sid],
         r.pc = "remove" => client'[r.sid] = "gone"
  PROVE  HandlerInv'
<1> SUFFICES ASSUME NEW g \in Handler
             PROVE  /\ handler'[g].pc # "idle" => handler'[g].sid \in Session
                    /\ handler'[g].pc \in {"append", "length", "load", "swap", "emit"} =>
                         handler'[g].update \in sent'[handler'[g].sid]
                    /\ handler'[g].pc = "remove" => client'[handler'[g].sid] = "gone"
  BY DEF HandlerInv
<1>1. CASE g = h
  BY <1>1 DEF TypeOK
<1>2. CASE g # h
  <2>1. handler'[g] = handler[g]
    BY <1>2 DEF TypeOK
  <2> QED BY <2>1 DEF HandlerInv
<1> QED BY <1>1, <1>2

LEMMA HandlerStep ==
  ASSUME IInv, NEW h \in Handler,
         \/ Continue(h)
         \/ \E s \in Session : Join(h, s) \/ Leave(h, s) \/ Disconnect(h, s)
         \/ \E s \in Session, u \in Update : Accept(h, s, u)
  PROVE  HandlerInv'
<1> USE DEF IInv, At
<1>1. ASSUME NEW s \in Session, Join(h, s) PROVE HandlerInv'
  <2> DEFINE r == [Idle EXCEPT !.pc = "enter", !.sid = s]
  <2>1. r \in HandlerState /\ r.pc = "enter" /\ r.sid = s
    BY BeginType DEF Idle
  <2>2. /\ handler' = [handler EXCEPT ![h] = r] /\ sent' = sent
        /\ \A t \in Session : client[t] = "gone" => client'[t] = "gone"
    BY <1>1 DEF Join, TypeOK
  <2> HIDE DEF r
  <2> QED BY <2>1, <2>2, HandlerFrame
<1>2. ASSUME NEW s \in Session, Leave(h, s) PROVE HandlerInv'
  <2> DEFINE r == [Idle EXCEPT !.pc = "leave", !.sid = s]
  <2>1. r \in HandlerState /\ r.pc = "leave" /\ r.sid = s
    BY BeginType DEF Idle
  <2>2. /\ handler' = [handler EXCEPT ![h] = r] /\ sent' = sent
        /\ \A t \in Session : client[t] = "gone" => client'[t] = "gone"
    BY <1>2 DEF Leave, TypeOK
  <2> HIDE DEF r
  <2> QED BY <2>1, <2>2, HandlerFrame
<1>3. ASSUME NEW s \in Session, Disconnect(h, s) PROVE HandlerInv'
  <2>1. PICK pc \in {"remove", "exit"} :
          handler' = [handler EXCEPT ![h] = [Idle EXCEPT !.sid = s, !.last = TRUE, !.pc = pc]]
    BY <1>3 DEF Disconnect
  <2> DEFINE r == [Idle EXCEPT !.sid = s, !.last = TRUE, !.pc = pc]
  <2>2. r \in HandlerState /\ r.pc \in {"remove", "exit"} /\ r.sid = s
    BY BeginType DEF Idle
  <2>3. /\ handler' = [handler EXCEPT ![h] = r] /\ sent' = sent /\ client'[s] = "gone"
        /\ \A t \in Session : client[t] = "gone" => client'[t] = "gone"
    BY <1>3, <2>1 DEF Disconnect, TypeOK
  <2> HIDE DEF r
  <2> QED BY <2>2, <2>3, HandlerFrame
<1>4. ASSUME NEW s \in Session, NEW u \in Update, Accept(h, s, u) PROVE HandlerInv'
  <2>1. sent' = sent /\ client' = client
    BY <1>4 DEF Accept
  <2>2. CASE s \in room
    <3> DEFINE r == [Idle EXCEPT !.pc = "append", !.sid = s, !.update = u]
    <3>1. r \in HandlerState /\ r.pc = "append" /\ r.sid = s /\ r.update = u
      BY BeginType DEF Idle
    <3>2. handler' = [handler EXCEPT ![h] = r] /\ u \in sent[s]
      BY <1>4, <2>2 DEF Accept, SentInv
    <3> HIDE DEF r
    <3> QED BY <2>1, <3>1, <3>2, HandlerFrame
  <2>3. CASE s \notin room
    <3>1. handler' = handler
      BY <1>4, <2>3 DEF Accept
    <3> QED BY <2>1, <3>1 DEF HandlerInv
  <2> QED BY <2>2, <2>3
<1>5. ASSUME Continue(h) PROVE HandlerInv'
  <2>1. sent' = sent /\ client' = client
    BY <1>5 DEF Continue, JoinEnter, JoinRead, JoinState, UpdateAppend, UpdateLength, CompactLoad,
       CompactSwap, UpdateEmit, LeaveRoom, LeaveExists, DisconnectRemove, Count, Clear, Forget, Exit,
       editors
  <2>2. handler[h].pc # "idle"
    BY <1>5 DEF Continue, JoinEnter, JoinRead, JoinState, UpdateAppend, UpdateLength, CompactLoad,
       CompactSwap, UpdateEmit, LeaveRoom, LeaveExists, DisconnectRemove, Count, Clear, Forget, Exit
  <2> DEFINE r == handler'[h]
  <2>3. /\ handler' = [handler EXCEPT ![h] = r]
        /\ r.pc = "idle" \/ r.sid = handler[h].sid
        /\ r.pc \in {"length", "load", "swap", "emit"} =>
             /\ handler[h].pc \in {"append", "length", "load", "swap", "emit"}
             /\ r.update = handler[h].update
        /\ r.pc \notin {"append", "remove"}
    <3>1. CASE JoinEnter(h) \/ JoinRead(h) \/ JoinState(h)
      <4>1. CASE JoinEnter(h)
        BY <4>1 DEF JoinEnter, GoTo, TypeOK, HandlerState
      <4>2. CASE JoinRead(h)
        BY <4>2 DEF JoinRead, TypeOK, HandlerState
      <4>3. CASE JoinState(h)
        BY <4>3 DEF JoinState, End, Idle, TypeOK
      <4> QED BY <3>1, <4>1, <4>2, <4>3
    <3>2. CASE UpdateAppend(h) \/ UpdateLength(h) \/ CompactLoad(h) \/ CompactSwap(h)
      <4>1. CASE UpdateAppend(h) \/ UpdateLength(h)
        BY <4>1 DEF UpdateAppend, UpdateLength, GoTo, TypeOK, HandlerState
      <4>2. CASE CompactLoad(h)
        BY <4>2 DEF CompactLoad, TypeOK, HandlerState
      <4>3. CASE CompactSwap(h)
        BY <4>3 DEF CompactSwap, TypeOK, HandlerState
      <4> QED BY <3>2, <4>1, <4>2, <4>3
    <3>3. CASE UpdateEmit(h)
      BY <3>3 DEF UpdateEmit, End, Idle, TypeOK
    <3>4. CASE LeaveRoom(h) \/ LeaveExists(h) \/ DisconnectRemove(h)
      BY <3>4 DEF LeaveRoom, LeaveExists, DisconnectRemove, GoTo, End, Idle, TypeOK, HandlerState
    <3>5. CASE Count(h) \/ Clear(h) \/ Forget(h) \/ Exit(h)
      BY <3>5 DEF Count, Clear, Forget, Exit, Rest, GoTo, End, Idle, TypeOK, HandlerState
    <3> QED BY <1>5, <3>1, <3>2, <3>3, <3>4, <3>5 DEF Continue
  <2>4. handler' \in [Handler -> HandlerState]
    BY <1>5, JoinType, UpdateType, LeaveType DEF Continue, TypeOK
  <2>5. r \in HandlerState
    BY <2>3, <2>4 DEF TypeOK
  <2> HIDE DEF r
  <2> QED BY <2>1, <2>2, <2>3, <2>5, HandlerFrame DEF HandlerInv
<1> QED BY <1>1, <1>2, <1>3, <1>4, <1>5

\* What a client does by itself.
ClientStep ==
  \/ \E s \in Session, u \in Update : Edit(s, u) \/ Receive(s, u)
  \/ \E s \in Session : ReceiveState(s)

LEMMA ClientFrame ==
  ASSUME TypeOK, ClientStep
  PROVE  /\ UNCHANGED <<redis, client, server, handler, loop>>
         /\ \A s \in Session : sent[s] \subseteq sent'[s]
<1>1. ASSUME NEW s \in Session, NEW u \in Update, Edit(s, u)
      PROVE  \A t \in Session : sent[t] \subseteq sent'[t]
  BY <1>1 DEF Edit, TypeOK
<1>2. ASSUME NEW s \in Session, NEW u \in Update, Receive(s, u)
      PROVE  \A t \in Session : sent[t] \subseteq sent'[t]
  <2>1. sent' = sent \/ sent' = [sent EXCEPT ![s] = @ \cup {u}]
    BY <1>2 DEF Receive
  <2> QED BY <2>1 DEF TypeOK
<1>3. ASSUME NEW s \in Session, ReceiveState(s) PROVE sent' = sent
  BY <1>3 DEF ReceiveState
<1>4. UNCHANGED <<redis, client, server, handler, loop>>
  BY DEF ClientStep, Edit, Receive, ReceiveState
<1> QED BY <1>1, <1>2, <1>3, <1>4 DEF ClientStep

LEMMA ClientHandlers ==
  ASSUME IInv, ClientStep
  PROVE  HandlerInv'
BY ClientFrame DEF IInv, HandlerInv

LEMMA SentStep ==
  ASSUME IInv, Next
  PROVE  SentInv'
<1> USE DEF IInv
<1>1. ASSUME NEW s \in Session, NEW u \in Update, Edit(s, u) PROVE SentInv'
  <2>1. /\ sent' = [sent EXCEPT ![s] = @ \cup {u}] /\ outbox' = [outbox EXCEPT ![s] = @ \cup {u}]
        /\ accepted' = accepted
    BY <1>1 DEF Edit, server
  <2> QED BY <2>1 DEF SentInv, TypeOK
<1>2. ASSUME NEW s \in Session, NEW u \in Update, Receive(s, u) PROVE SentInv'
  <2>1. /\ \/ sent' = sent /\ outbox' = outbox
           \/ sent' = [sent EXCEPT ![s] = @ \cup {u}] /\ outbox' = [outbox EXCEPT ![s] = @ \cup {u}]
        /\ accepted' = accepted
    BY <1>2 DEF Receive, server
  <2> QED BY <2>1 DEF SentInv, TypeOK
<1>3. ASSUME NEW h \in Handler, NEW s \in Session, NEW u \in Update, Accept(h, s, u) PROVE SentInv'
  <2>1. sent' = sent /\ outbox' = [outbox EXCEPT ![s] = @ \ {u}] /\ accepted' = accepted
    BY <1>3 DEF Accept, server
  <2> QED BY <2>1 DEF SentInv, TypeOK
<1>4. ASSUME NEW h \in Handler, UpdateAppend(h) PROVE SentInv'
  <2>1. /\ sent' = sent /\ outbox' = outbox /\ accepted' = accepted \cup {handler[h].update}
        /\ handler[h].pc = "append"
    BY <1>4 DEF UpdateAppend, editors, At
  <2>2. handler[h].sid \in Session /\ handler[h].update \in sent[handler[h].sid]
    BY <2>1 DEF HandlerInv
  <2> QED BY <2>1, <2>2 DEF SentInv
<1>5. ASSUME UNCHANGED <<sent, outbox, accepted>> PROVE SentInv'
  BY <1>5 DEF SentInv
<1>6. ASSUME NEW h \in Handler,
             \/ Continue(h) /\ ~UpdateAppend(h)
             \/ \E s \in Session : Join(h, s) \/ Leave(h, s) \/ Disconnect(h, s)
      PROVE  UNCHANGED <<sent, outbox, accepted>>
  <2>1. CASE Continue(h) /\ ~UpdateAppend(h)
    BY <2>1 DEF Continue, JoinEnter, JoinRead, JoinState, UpdateLength, CompactLoad, CompactSwap,
       UpdateEmit, LeaveRoom, LeaveExists, DisconnectRemove, Count, Clear, Forget, Exit, editors, server
  <2>2. CASE \E s \in Session : Join(h, s) \/ Leave(h, s) \/ Disconnect(h, s)
    BY <2>2 DEF Join, Leave, Disconnect, server
  <2> QED BY <1>6, <2>1, <2>2
<1>7. ASSUME NEW s \in Session, ReceiveState(s) PROVE UNCHANGED <<sent, outbox, accepted>>
  BY <1>7 DEF ReceiveState, server
<1> QED BY <1>1, <1>2, <1>3, <1>4, <1>5, <1>6, <1>7 DEF Next

-----------------------------------------------------------------------------
(* What has reached whom                                                   *)

\* The updates not yet emitted are those of handlers between append and emit.
Carries(h) == handler[h].pc \in {"length", "load", "swap", "emit"}

LEMMA UnsentElements ==
  \A u : u \in Unsent <=> \E h \in Handler : Carries(h) /\ handler[h].update = u
BY DEF Unsent, Carries

\* A step of a handler that does not emit what it carries.
LEMMA UnsentFrame ==
  ASSUME TypeOK, NEW h \in Handler, \A g \in Handler \ {h} : handler'[g] = handler[g],
         Carries(h) => Carries(h)' /\ handler'[h].update = handler[h].update
  PROVE  Unsent \subseteq Unsent'
<1> SUFFICES ASSUME NEW u \in Unsent PROVE u \in Unsent'
  OBVIOUS
<1>1. PICK g \in Handler : Carries(g) /\ handler[g].update = u
  BY UnsentElements
<1>2. Carries(g)' /\ handler'[g].update = u
  BY <1>1 DEF Carries
<1> QED BY <1>2 DEF Unsent, Carries

\* A session stays reached if a join sees to it, or if no step takes from it
\* what it has been reached by.
LEMMA ReachedFrame ==
  ASSUME ReachedInv,
         Content(log') \subseteq Content(log) \cup Unsent' \cup revived',
         \A s \in Session : client'[s] = "here" /\ s \in room' =>
           \/ \E h \in Handler : WillGive(h, s)'
           \/ Content(log') \subseteq Reached(s)'
           \/ /\ client[s] = "here" /\ s \in room /\ Reached(s) \subseteq Reached(s)'
              /\ \A g \in Handler : WillGive(g, s) => handler'[g] = handler[g]
  PROVE  ReachedInv'
<1> SUFFICES ASSUME NEW s \in Session, client'[s] = "here", s \in room'
             PROVE  Content(log') \subseteq Reached(s)' \/ \E h \in Handler : WillGive(h, s)'
  BY DEF ReachedInv
<1>1. Content(log') \subseteq Content(log) \cup Reached(s)'
  BY DEF Reached
<1>2. CASE /\ client[s] = "here" /\ s \in room /\ Reached(s) \subseteq Reached(s)'
           /\ \A g \in Handler : WillGive(g, s) => handler'[g] = handler[g]
  <2>1. CASE Content(log) \subseteq Reached(s)
    BY <1>1, <1>2, <2>1
  <2>2. ASSUME NEW h \in Handler, WillGive(h, s) PROVE WillGive(h, s)'
    <3>1. handler'[h] = handler[h]
      BY <1>2, <2>2
    <3> QED BY <1>1, <1>2, <2>2, <3>1 DEF WillGive
  <2> QED BY <1>2, <2>1, <2>2 DEF ReachedInv
<1> QED BY <1>2

\* The log, the room and what the sessions know stay, and no join moves.
LEMMA ReachedQuiet ==
  ASSUME TypeOK, ReachedInv, NEW h \in Handler,
         \A g \in Handler \ {h} : handler'[g] = handler[g],
         handler[h].pc \notin {"enter", "read", "state"},
         Carries(h) => Carries(h)' /\ handler'[h].update = handler[h].update,
         UNCHANGED <<doc, mail, given, sent>>, revived \subseteq revived',
         Content(log') \subseteq Content(log) \cup Unsent' \cup revived',
         room' \subseteq room, \A s \in Session : client'[s] = "here" => client[s] = "here"
  PROVE  ReachedInv'
<1>1. Unsent \subseteq Unsent'
  BY UnsentFrame
<1>2. \A s \in Session : Reached(s) \subseteq Reached(s)'
  BY <1>1 DEF Reached, Known
<1>3. \A s \in Session, g \in Handler : WillGive(g, s) => handler'[g] = handler[g]
  BY DEF WillGive
<1> QED BY <1>2, <1>3, ReachedFrame

LEMMA ReachedJoins ==
  ASSUME IInv, NEW h \in Handler,
         JoinEnter(h) \/ JoinRead(h) \/ JoinState(h) \/ \E s \in Session : Join(h, s)
  PROVE  ReachedInv'
<1> USE DEF IInv, At
<1>1. ASSUME NEW s \in Session, Join(h, s) PROVE ReachedInv'
  <2>1. /\ handler[h].pc = "idle" /\ UNCHANGED <<sent, room, log, revived>>
        /\ handler' = [handler EXCEPT ![h] = [Idle EXCEPT !.pc = "enter", !.sid = s]]
    BY <1>1 DEF Join
  <2>2. handler'[h].pc = "enter" /\ handler'[h].sid = s
    BY <2>1 DEF Idle, TypeOK
  <2>3. \A g \in Handler \ {h} : handler'[g] = handler[g]
    BY <2>1 DEF TypeOK
  <2>4. Unsent \subseteq Unsent'
    BY <2>1, <2>3, UnsentFrame DEF Carries
  <2>5. ASSUME NEW t \in Session \ {s}
        PROVE  client'[t] = client[t] /\ doc'[t] = doc[t] /\ mail'[t] = mail[t] /\ given'[t] = given[t]
    BY <1>1 DEF Join, TypeOK
  <2>6. \A t \in Session \ {s} : Reached(t) \subseteq Reached(t)'
    BY <2>1, <2>4, <2>5 DEF Reached, Known
  <2>7. WillGive(h, s)'
    BY <2>2 DEF WillGive
  <2>8. \A t \in Session \ {s}, g \in Handler : WillGive(g, t) => handler'[g] = handler[g]
    BY <2>1, <2>3 DEF WillGive
  <2> QED BY <2>1, <2>5, <2>6, <2>7, <2>8, ReachedFrame
<1>2. CASE JoinEnter(h) \/ JoinRead(h) \/ JoinState(h)
  <2>0. PICK s \in Session : handler[h].sid = s
    BY <1>2 DEF JoinEnter, JoinRead, JoinState, HandlerInv
  <2>1. /\ handler[h].pc \in {"enter", "read", "state"}
        /\ UNCHANGED <<client, doc, mail, sent, log, revived>>
    BY <1>2 DEF JoinEnter, JoinRead, JoinState, editors, server
  <2>2. \A g \in Handler \ {h} : handler'[g] = handler[g]
    BY <1>2 DEF JoinEnter, JoinRead, JoinState, GoTo, End, TypeOK
  <2>3. \A t \in Session \ {s} : given'[t] = given[t] /\ (t \in room' => t \in room)
    BY <1>2, <2>0 DEF JoinEnter, JoinRead, JoinState, editors, server, TypeOK
  <2>4. given[s] \subseteq given'[s]
    BY <1>2, <2>0 DEF JoinEnter, JoinRead, JoinState, editors, TypeOK
  <2>5. Unsent \subseteq Unsent'
    BY <2>1, <2>2, UnsentFrame DEF Carries
  <2>6. \A t \in Session : Reached(t) \subseteq Reached(t)'
    BY <2>1, <2>3, <2>4, <2>5 DEF Reached, Known
  <2>7. \A t \in Session \ {s}, g \in Handler : WillGive(g, t) => handler'[g] = handler[g]
    BY <2>0, <2>2 DEF WillGive
  <2>8. CASE JoinEnter(h)
    <3>1. handler'[h].pc = "read" /\ handler'[h].sid = s
      BY <2>0, <2>8 DEF JoinEnter, GoTo, TypeOK, HandlerState
    <3>2. WillGive(h, s)'
      BY <3>1 DEF WillGive
    <3> QED BY <2>1, <2>3, <2>6, <2>7, <3>2, ReachedFrame
  <2>9. CASE JoinRead(h)
    <3>1. handler'[h].pc = "state" /\ handler'[h].sid = s /\ handler'[h].state = Content(log)
      BY <2>0, <2>9 DEF JoinRead, TypeOK, HandlerState
    <3>2. WillGive(h, s)'
      BY <2>1, <3>1 DEF WillGive
    <3> QED BY <2>1, <2>3, <2>6, <2>7, <3>2, ReachedFrame
  <2>10. CASE JoinState(h)
    <3>1. room' = room
      BY <2>10 DEF JoinState, server
    <3>2. ASSUME client[s] = "here", WillGive(h, s) PROVE Content(log') \subseteq Reached(s)'
      <4>1. given'[s] = given[s] \cup handler[h].state
        BY <2>0, <2>10, <3>2 DEF JoinState, TypeOK
      <4>2. Content(log) \subseteq Reached(s) \cup handler[h].state
        BY <2>10, <3>2 DEF WillGive, JoinState
      <4>3. Reached(s) \cup handler[h].state \subseteq Reached(s)'
        <5>1. Reached(s) \subseteq Reached(s)'
          BY <2>1, <2>6
        <5>2. handler[h].state \subseteq Reached(s)'
          BY <4>1 DEF Reached, Known
        <5> QED BY <5>1, <5>2
      <4> QED BY <2>1, <4>2, <4>3
    <3>3. \A g \in Handler : WillGive(g, s) /\ g # h => handler'[g] = handler[g]
      BY <2>2
    <3>4. \A t \in Session : client'[t] = "here" /\ t \in room' =>
           \/ Content(log') \subseteq Reached(t)'
           \/ /\ client[t] = "here" /\ t \in room /\ Reached(t) \subseteq Reached(t)'
              /\ \A g \in Handler : WillGive(g, t) => handler'[g] = handler[g]
      BY <2>1, <2>6, <2>7, <3>1, <3>2, <3>3
    <3> QED BY <2>1, <3>4, ReachedFrame
  <2> QED BY <1>2, <2>8, <2>9, <2>10
<1> QED BY <1>1, <1>2

LEMMA ReachedUpdates ==
  ASSUME IInv, NEW h \in Handler,
         UpdateAppend(h) \/ UpdateLength(h) \/ CompactLoad(h) \/ CompactSwap(h) \/ UpdateEmit(h)
  PROVE  ReachedInv'
<1> USE DEF IInv, At
<1>1. \A g \in Handler \ {h} : handler'[g] = handler[g]
  BY DEF UpdateAppend, UpdateLength, CompactLoad, CompactSwap, UpdateEmit, GoTo, End, TypeOK
<1>2. CASE UpdateAppend(h)
  <2>1. /\ handler[h].pc = "append"
        /\ UNCHANGED <<client, doc, mail, given, sent, room, revived>>
    BY <1>2 DEF UpdateAppend, editors
  <2>2. Carries(h)' /\ handler'[h].update = handler[h].update
    BY <1>2 DEF UpdateAppend, GoTo, TypeOK, HandlerState, Carries
  <2>3. handler[h].update \in Update
    BY <2>1 DEF HandlerInv, TypeOK, HandlerState
  <2>4. Content(log') = Content(log) \cup {handler[h].update}
    BY <1>2, <2>3, ContentAppend, SquashedContent DEF UpdateAppend, TypeOK
  <2>5. handler[h].update \in Unsent'
    BY <2>2 DEF Unsent, Carries
  <2> QED BY <1>1, <2>1, <2>2, <2>4, <2>5, ReachedQuiet
<1>3. CASE UpdateLength(h) \/ CompactLoad(h)
  <2>1. UNCHANGED <<client, doc, mail, given, sent, room, log, revived>>
    BY <1>3 DEF UpdateLength, CompactLoad, editors, server
  <2>2. handler[h].pc \in {"length", "load"} /\ Carries(h)' /\ handler'[h].update = handler[h].update
    <3>1. CASE UpdateLength(h)
      BY <3>1 DEF UpdateLength, GoTo, TypeOK, HandlerState, Carries
    <3>2. CASE CompactLoad(h)
      BY <3>2 DEF CompactLoad, TypeOK, HandlerState, Carries
    <3> QED BY <1>3, <3>1, <3>2
  <2> QED BY <1>1, <2>1, <2>2, ReachedQuiet
<1>4. CASE CompactSwap(h)
  <2>1. UNCHANGED <<client, doc, mail, given, sent, room>>
    BY <1>4 DEF CompactSwap, editors
  <2>2. handler[h].pc = "swap" /\ Carries(h)' /\ handler'[h].update = handler[h].update
    BY <1>4 DEF CompactSwap, TypeOK, HandlerState, Carries
  <2>3. handler[h].batch \in Seq(SUBSET Update)
    BY DEF TypeOK, HandlerState
  <2>4. Content(log') = Content(handler[h].batch)
    BY <1>4, <2>3, SquashedContent DEF CompactSwap
  <2>5. revived' = revived \cup (Content(handler[h].batch) \ Content(log))
    BY <1>4 DEF CompactSwap
  <2> QED BY <1>1, <2>1, <2>2, <2>4, <2>5, ReachedQuiet
<1>5. CASE UpdateEmit(h)
  <2> DEFINE u == handler[h].update
  <2>1. /\ handler[h].pc = "emit" /\ UNCHANGED <<client, doc, given, sent, room, log, revived>>
    BY <1>5 DEF UpdateEmit, server
  <2>2. u \in sent[handler[h].sid]
    BY <2>1 DEF HandlerInv
  <2>3. Unsent \subseteq Unsent' \cup {u}
    <3> SUFFICES ASSUME NEW v \in Unsent, v # u PROVE v \in Unsent'
      OBVIOUS
    <3>1. PICK g \in Handler : Carries(g) /\ handler[g].update = v
      BY UnsentElements
    <3>2. Carries(g)' /\ handler'[g].update = v
      BY <1>1, <3>1 DEF Carries
    <3> QED BY <3>2 DEF Unsent, Carries
  <2>4. ASSUME NEW s \in Session, s \in room PROVE Reached(s) \subseteq Reached(s)'
    <3>1. u \in mail'[s] \cup sent[s] /\ mail[s] \subseteq mail'[s]
      BY <1>5, <2>2, <2>4 DEF UpdateEmit
    <3> HIDE DEF u
    <3> QED BY <2>1, <2>3, <3>1 DEF Reached, Known
  <2>5. \A s \in Session, g \in Handler : WillGive(g, s) => handler'[g] = handler[g]
    BY <1>1, <2>1 DEF WillGive
  <2> QED BY <2>1, <2>4, <2>5, ReachedFrame
<1> QED BY <1>2, <1>3, <1>4, <1>5

LEMMA ReachedLeaves ==
  ASSUME IInv, NEW h \in Handler,
         \/ LeaveRoom(h) \/ LeaveExists(h) \/ DisconnectRemove(h)
         \/ Count(h) \/ Clear(h) \/ Forget(h) \/ Exit(h)
         \/ \E s \in Session : Leave(h, s) \/ Disconnect(h, s)
         \/ \E s \in Session, u \in Update : Accept(h, s, u)
  PROVE  ReachedInv'
<1> USE DEF IInv, At
<1>1. ~ Carries(h) /\ handler[h].pc \notin {"enter", "read", "state"}
  BY DEF Carries, LeaveRoom, LeaveExists, DisconnectRemove, Count, Clear, Forget, Exit, Leave,
     Disconnect, Accept
<1>2. \A g \in Handler \ {h} : handler'[g] = handler[g]
  <2>1. CASE \/ LeaveRoom(h) \/ LeaveExists(h) \/ DisconnectRemove(h)
             \/ Count(h) \/ Clear(h) \/ Forget(h) \/ Exit(h)
    BY <2>1 DEF TypeOK, GoTo, End, Rest, LeaveRoom, LeaveExists, DisconnectRemove, Count, Clear,
       Forget, Exit
  <2>2. CASE \E s \in Session : Leave(h, s) \/ Disconnect(h, s)
    BY <2>2 DEF TypeOK, Leave, Disconnect
  <2>3. CASE \E s \in Session, u \in Update : Accept(h, s, u)
    BY <2>3 DEF TypeOK, Accept
  <2> QED BY <2>1, <2>2, <2>3
<1>3. UNCHANGED <<doc, mail, given, sent, revived>> /\ room' \subseteq room
  BY DEF LeaveRoom, LeaveExists, DisconnectRemove, Count, Clear, Forget, Exit, Leave,
     Disconnect, Accept, editors, server
<1>4. Content(log') \subseteq Content(log)
  BY ContentOfEmpty DEF LeaveRoom, LeaveExists, DisconnectRemove, Count, Clear, Forget, Exit, Leave,
     Disconnect, Accept, editors, server
<1>5. \A s \in Session : client'[s] = "here" => client[s] = "here"
  BY DEF LeaveRoom, LeaveExists, DisconnectRemove, Count, Clear, Forget, Exit, Leave,
     Disconnect, Accept, editors, server, TypeOK
<1> QED BY <1>1, <1>2, <1>3, <1>4, <1>5, ReachedQuiet

LEMMA ReachedClients ==
  ASSUME IInv, ClientStep
  PROVE  ReachedInv'
<1> USE DEF IInv
<1>1. UNCHANGED <<client, room, log, handler, revived>>
  BY ClientFrame DEF server
<1>2. \A s \in Session : Known(s) \cup sent[s] \subseteq Known(s)' \cup sent'[s]
  <2>1. ASSUME NEW s \in Session, NEW u \in Update, Edit(s, u) \/ Receive(s, u), NEW t \in Session
        PROVE  doc[t] \cup mail[t] \subseteq doc'[t] \cup mail'[t] /\ given'[t] = given[t]
    <3>1. CASE Edit(s, u)
      BY <3>1 DEF Edit, TypeOK
    <3>2. CASE Receive(s, u)
      BY <3>2 DEF Receive, TypeOK
    <3> QED BY <2>1, <3>1, <3>2
  <2>2. ASSUME NEW s \in Session, ReceiveState(s), NEW t \in Session
        PROVE  doc[t] \cup given[t] \subseteq doc'[t] \cup given'[t] /\ mail'[t] = mail[t]
    BY <2>2 DEF ReceiveState, TypeOK
  <2> QED BY <2>1, <2>2, ClientFrame DEF ClientStep, Known
<1>3. \A s \in Session : Reached(s) \subseteq Reached(s)'
  BY <1>1, <1>2 DEF Reached, Unsent
<1> QED BY <1>1, <1>3, ReachedFrame

-----------------------------------------------------------------------------
(* Without Redis                                                           *)

\* While a handler moves, the others are where they may be overtaken.
LEMMA LoopFrame ==
  ASSUME IInv, NEW h \in Handler, loop \in {None, h}, redis' = redis,
         \A g \in Handler \ {h} : handler'[g] = handler[g],
         ~redis => KeepsLoop(h)'
  PROVE  LoopInv'
<1> SUFFICES ASSUME ~redis, NEW g \in Handler PROVE KeepsLoop(g)'
  BY DEF LoopInv
<1>1. CASE g = h
  BY <1>1
<1>2. CASE g # h
  <2>1. loop # g /\ handler'[g] = handler[g]
    BY <1>2, NoneAssumption
  <2>2. handler[g].pc \in {"idle", "append", "exists"}
    BY <2>1 DEF IInv, LoopInv, KeepsLoop
  <2> QED BY <2>1, <2>2 DEF KeepsLoop
<1> QED BY <1>1, <1>2

LEMMA LoopJoins ==
  ASSUME IInv, NEW h \in Handler,
         JoinEnter(h) \/ JoinRead(h) \/ JoinState(h) \/ \E s \in Session : Join(h, s)
  PROVE  LoopInv'
<1> USE DEF IInv, At, Managed
<1>1. loop \in {None, h} /\ redis' = redis
  BY DEF JoinEnter, JoinRead, JoinState, Join
<1>2. \A g \in Handler \ {h} : handler'[g] = handler[g]
  BY DEF JoinEnter, JoinRead, JoinState, Join, GoTo, End, TypeOK
<1>3. ASSUME ~redis PROVE KeepsLoop(h)'
  <2>1. CASE \E s \in Session : Join(h, s)
    <3>1. PICK s \in Session : Join(h, s)
      BY <2>1
    <3>2. /\ handler' = [handler EXCEPT ![h] = [Idle EXCEPT !.pc = "enter", !.sid = s]]
          /\ loop' = h
      BY <1>3, <3>1 DEF Join
    <3>3. handler'[h].pc = "enter"
      BY <3>2 DEF Idle, TypeOK
    <3> QED BY <3>2, <3>3 DEF KeepsLoop
  <2>2. CASE JoinEnter(h)
    BY <1>3, <2>2 DEF JoinEnter, GoTo, TypeOK, HandlerState, KeepsLoop
  <2>3. CASE JoinRead(h)
    <3>1. handler'[h].pc = "state" /\ handler'[h].state = Content(log) /\ loop' = h /\ log' = log
      BY <1>3, <2>3 DEF JoinRead, TypeOK, HandlerState, server
    <3> QED BY <3>1 DEF KeepsLoop
  <2>4. CASE JoinState(h)
    BY <2>4 DEF JoinState, End, Idle, TypeOK, KeepsLoop
  <2> QED BY <2>1, <2>2, <2>3, <2>4
<1> QED BY <1>1, <1>2, <1>3, LoopFrame

LEMMA LoopUpdates ==
  ASSUME IInv, NEW h \in Handler,
         \/ UpdateAppend(h) \/ UpdateLength(h) \/ CompactLoad(h) \/ CompactSwap(h) \/ UpdateEmit(h)
         \/ \E s \in Session, u \in Update : Accept(h, s, u)
  PROVE  LoopInv'
<1> USE DEF IInv, At, Managed
<1>1. loop \in {None, h} /\ redis' = redis
  BY DEF UpdateAppend, UpdateLength, CompactLoad, CompactSwap, UpdateEmit, Accept
<1>2. \A g \in Handler \ {h} : handler'[g] = handler[g]
  <2>1. CASE \E s \in Session, u \in Update : Accept(h, s, u)
    BY <2>1 DEF Accept, TypeOK
  <2>2. CASE UpdateAppend(h) \/ UpdateLength(h) \/ CompactLoad(h) \/ CompactSwap(h) \/ UpdateEmit(h)
    BY <2>2 DEF UpdateAppend, UpdateLength, CompactLoad, CompactSwap, UpdateEmit, GoTo, End, TypeOK
  <2> QED BY <2>1, <2>2
<1>3. ASSUME ~redis PROVE KeepsLoop(h)'
  <2>1. handler[h].pc \notin {"length", "load", "swap"}
    BY <1>3 DEF LoopInv, KeepsLoop
  <2>2. CASE UpdateAppend(h)
    <3>1. /\ handler'[h].pc = "emit" /\ handler'[h].update = handler[h].update /\ loop' = h
          /\ handler[h].pc = "append"
      BY <1>3, <2>2 DEF UpdateAppend, GoTo, TypeOK, HandlerState
    <3>2. handler[h].update \in Update
      BY <3>1 DEF HandlerInv, TypeOK, HandlerState
    <3>3. Content(log') = Content(log) \cup {handler[h].update}
      BY <2>2, <3>2, ContentAppend, SquashedContent DEF UpdateAppend, TypeOK
    <3> QED BY <3>1, <3>3 DEF KeepsLoop
  <2>3. CASE UpdateEmit(h)
    BY <2>3 DEF UpdateEmit, End, Idle, TypeOK, KeepsLoop
  <2>4. ASSUME NEW s \in Session, NEW u \in Update, Accept(h, s, u) PROVE KeepsLoop(h)'
    <3>1. CASE s \in room
      <4>1. handler' = [handler EXCEPT ![h] =
                          [Idle EXCEPT !.pc = "append", !.sid = s, !.update = u]]
        BY <2>4, <3>1 DEF Accept
      <4>2. handler'[h].pc = "append"
        BY <4>1 DEF Idle, TypeOK
      <4> QED BY <4>2 DEF KeepsLoop
    <3>2. CASE s \notin room
      <4>1. handler[h].pc = "idle" /\ handler' = handler
        BY <2>4, <3>2 DEF Accept
      <4> QED BY <4>1 DEF KeepsLoop
    <3> QED BY <3>1, <3>2
  <2> QED BY <2>1, <2>2, <2>3, <2>4 DEF UpdateLength, CompactLoad, CompactSwap
<1> QED BY <1>1, <1>2, <1>3, LoopFrame

LEMMA LoopLeaves ==
  ASSUME IInv, NEW h \in Handler,
         \/ LeaveRoom(h) \/ LeaveExists(h) \/ DisconnectRemove(h)
         \/ Count(h) \/ Clear(h) \/ Forget(h) \/ Exit(h)
         \/ \E s \in Session : Leave(h, s) \/ Disconnect(h, s)
  PROVE  LoopInv'
<1> USE DEF IInv, At, Managed
<1>1. loop \in {None, h} /\ redis' = redis
  BY DEF LeaveRoom, LeaveExists, DisconnectRemove, Count, Clear, Forget, Exit, Leave, Disconnect
<1>2. \A g \in Handler \ {h} : handler'[g] = handler[g]
  <2>1. CASE \E s \in Session : Leave(h, s) \/ Disconnect(h, s)
    BY <2>1 DEF Leave, Disconnect, TypeOK
  <2>2. CASE \/ LeaveRoom(h) \/ LeaveExists(h) \/ DisconnectRemove(h)
             \/ Count(h) \/ Clear(h) \/ Forget(h) \/ Exit(h)
    BY <2>2 DEF LeaveRoom, LeaveExists, DisconnectRemove, Count, Clear, Forget, Exit, GoTo, End,
       Rest, TypeOK
  <2> QED BY <2>1, <2>2
<1>3. ASSUME ~redis PROVE KeepsLoop(h)'
  <2>1. CASE \E s \in Session : Leave(h, s) \/ Disconnect(h, s)
    <3>1. CASE \E s \in Session : Leave(h, s)
      <4>1. PICK s \in Session : Leave(h, s)
        BY <3>1
      <4>2. /\ handler' = [handler EXCEPT ![h] = [Idle EXCEPT !.pc = "leave", !.sid = s]]
            /\ loop' = h
        BY <1>3, <4>1 DEF Leave
      <4>3. handler'[h].pc = "leave"
        BY <4>2 DEF Idle, TypeOK
      <4> QED BY <4>2, <4>3 DEF KeepsLoop
    <3>2. CASE \E s \in Session : Disconnect(h, s)
      <4>1. PICK s \in Session : Disconnect(h, s)
        BY <3>2
      <4>2. PICK pc \in {"remove", "exit"} :
              handler' = [handler EXCEPT ![h] = [Idle EXCEPT !.sid = s, !.last = TRUE, !.pc = pc]]
        BY <4>1 DEF Disconnect
      <4>3. handler'[h].pc = pc
        BY <4>2 DEF Idle, TypeOK
      <4>4. loop' = h
        BY <1>3, <4>1 DEF Disconnect
      <4> QED BY <4>3, <4>4 DEF KeepsLoop
    <3> QED BY <2>1, <3>1, <3>2
  <2>2. CASE LeaveRoom(h) \/ LeaveExists(h) \/ DisconnectRemove(h) \/ Exit(h)
    BY <1>3, <2>2 DEF LeaveRoom, LeaveExists, DisconnectRemove, Exit, GoTo, End, Idle, TypeOK,
       HandlerState, KeepsLoop
  <2>3. CASE Count(h)
    BY <1>3, <2>3 DEF Count, Rest, GoTo, End, Idle, TypeOK, HandlerState, KeepsLoop, server
  <2>4. CASE Clear(h)
    <3>1. users = {} /\ users' = users
      BY <1>3, <2>4 DEF Clear, LoopInv, KeepsLoop
    <3> QED BY <1>3, <2>4, <3>1 DEF Clear, GoTo, TypeOK, HandlerState, KeepsLoop
  <2>5. CASE Forget(h)
    BY <1>3, <2>5 DEF Forget, Rest, GoTo, End, Idle, TypeOK, HandlerState, KeepsLoop
  <2> QED BY <2>1, <2>2, <2>3, <2>4, <2>5
<1> QED BY <1>1, <1>2, <1>3, LoopFrame

LEMMA LoopClients ==
  ASSUME IInv, ClientStep
  PROVE  LoopInv'
BY ClientFrame DEF IInv, LoopInv, KeepsLoop, server

\* Who shows the note stays, and the log keeps what he knows.
LEMMA MemoryFrame ==
  ASSUME IInv, redis' = redis, UNCHANGED accepted, Content(log) \subseteq Content(log'),
         ~redis => \A s \in Session : client'[s] = "here" =>
           s \in users' /\ Known(s)' \cap accepted \subseteq Known(s) \cup Content(log),
         ~redis => \A s \in Session : client'[s] = "here" =>
           client[s] = "here" \/ Known(s)' = {}
  PROVE  MemoryInv'
<1> SUFFICES ASSUME ~redis, NEW s \in Session, client'[s] = "here"
             PROVE  s \in users' /\ Known(s)' \cap accepted' \subseteq Content(log')
  BY DEF MemoryInv
<1>1. CASE client[s] = "here"
  BY <1>1 DEF IInv, MemoryInv
<1>2. CASE Known(s)' = {}
  BY <1>2
<1> QED BY <1>1, <1>2

LEMMA MemoryJoins ==
  ASSUME IInv, NEW h \in Handler,
         JoinEnter(h) \/ JoinRead(h) \/ JoinState(h) \/ \E s \in Session : Join(h, s)
  PROVE  MemoryInv'
<1> USE DEF IInv, At
<1>1. CASE \E s \in Session : Join(h, s)
  <2>1. PICK s \in Session : Join(h, s)
    BY <1>1
  <2>2. redis' = redis /\ UNCHANGED <<log, accepted>> /\ users' = users \cup {s}
    BY <2>1 DEF Join
  <2>3. doc'[s] = {} /\ mail'[s] = {} /\ given'[s] = {}
    BY <2>1 DEF Join, TypeOK
  <2>4. ASSUME NEW t \in Session \ {s}
        PROVE  client'[t] = client[t] /\ doc'[t] = doc[t] /\ mail'[t] = mail[t] /\ given'[t] = given[t]
    BY <2>1 DEF Join, TypeOK
  <2>5. Known(s)' = {} /\ \A t \in Session \ {s} : Known(t)' = Known(t)
    BY <2>3, <2>4 DEF Known
  <2>6. ~redis => \A t \in Session \ {s} : client'[t] = "here" => t \in users
    BY <2>4 DEF MemoryInv
  <2> QED BY <2>2, <2>4, <2>5, <2>6, MemoryFrame
<1>2. CASE JoinEnter(h) \/ JoinRead(h)
  BY <1>2 DEF JoinEnter, JoinRead, editors, server, MemoryInv, Known
<1>3. CASE JoinState(h)
  <2>1. redis' = redis /\ UNCHANGED <<client, doc, mail, users, log, accepted>>
    BY <1>3 DEF JoinState, server
  <2>2. ~redis => handler[h].state \subseteq Content(log)
    BY <1>3 DEF JoinState, LoopInv, KeepsLoop
  <2>3. \A s \in Session : given'[s] \subseteq given[s] \cup handler[h].state
    BY <1>3 DEF JoinState, TypeOK
  <2>4. ~redis => \A s \in Session : Known(s)' \subseteq Known(s) \cup Content(log)
    BY <2>1, <2>2, <2>3 DEF Known
  <2> QED BY <2>1, <2>4, MemoryFrame DEF MemoryInv
<1> QED BY <1>1, <1>2, <1>3

LEMMA MemoryUpdates ==
  ASSUME IInv, NEW h \in Handler,
         \/ UpdateAppend(h) \/ UpdateLength(h) \/ CompactLoad(h) \/ CompactSwap(h) \/ UpdateEmit(h)
         \/ \E s \in Session, u \in Update : Accept(h, s, u)
  PROVE  MemoryInv'
<1> USE DEF IInv, At
<1>1. CASE UpdateAppend(h)
  <2>1. /\ handler[h].pc = "append" /\ UNCHANGED <<redis, client, doc, mail, given, users>>
        /\ accepted' = accepted \cup {handler[h].update}
    BY <1>1 DEF UpdateAppend, editors
  <2>2. handler[h].update \in Update
    BY <2>1 DEF HandlerInv, TypeOK, HandlerState
  <2>3. Content(log') = Content(log) \cup {handler[h].update}
    BY <1>1, <2>2, ContentAppend, SquashedContent DEF UpdateAppend, TypeOK
  <2> QED BY <2>1, <2>3 DEF MemoryInv, Known
<1>2. CASE UpdateLength(h) \/ CompactLoad(h) \/ CompactSwap(h)
  <2>1. redis' = redis /\ handler[h].pc \in {"length", "load", "swap"}
    BY <1>2 DEF UpdateLength, CompactLoad, CompactSwap
  <2>2. redis
    BY <2>1 DEF LoopInv, KeepsLoop
  <2> QED BY <2>1, <2>2 DEF MemoryInv
<1>3. CASE UpdateEmit(h)
  <2>1. redis' = redis /\ UNCHANGED <<client, doc, given, users, log, accepted>>
    BY <1>3 DEF UpdateEmit, server
  <2>2. ~redis => handler[h].update \in Content(log)
    BY <1>3 DEF UpdateEmit, LoopInv, KeepsLoop
  <2>3. \A s \in Session : mail'[s] \subseteq mail[s] \cup {handler[h].update}
    BY <1>3 DEF UpdateEmit
  <2>4. ~redis => \A s \in Session : Known(s)' \subseteq Known(s) \cup Content(log)
    BY <2>1, <2>2, <2>3 DEF Known
  <2> QED BY <2>1, <2>4, MemoryFrame DEF MemoryInv
<1>4. CASE \E s \in Session, u \in Update : Accept(h, s, u)
  <2>1. UNCHANGED <<redis, client, doc, mail, given, users, log, accepted>>
    BY <1>4 DEF Accept, server
  <2> QED BY <2>1 DEF MemoryInv, Known
<1> QED BY <1>1, <1>2, <1>3, <1>4

LEMMA MemoryLeaves ==
  ASSUME IInv, NEW h \in Handler,
         \/ LeaveRoom(h) \/ LeaveExists(h) \/ DisconnectRemove(h)
         \/ Count(h) \/ Clear(h) \/ Forget(h) \/ Exit(h)
         \/ \E s \in Session : Leave(h, s) \/ Disconnect(h, s)
  PROVE  MemoryInv'
<1> USE DEF IInv, At
<1>1. UNCHANGED <<redis, doc, mail, given, accepted>>
  BY DEF LeaveRoom, LeaveExists, DisconnectRemove, Count, Clear, Forget, Exit, Leave, Disconnect,
     editors, server
<1>2. \A s \in Session : Known(s)' = Known(s)
  BY <1>1 DEF Known
<1>3. CASE LeaveRoom(h) \/ LeaveExists(h) \/ Count(h) \/ Exit(h)
  <2>1. UNCHANGED <<client, users, log>>
    BY <1>3 DEF LeaveRoom, LeaveExists, Count, Exit, editors, server
  <2> QED BY <1>1, <1>2, <2>1 DEF MemoryInv
<1>4. CASE \E s \in Session : Leave(h, s)
  <2>1. PICK s \in Session : Leave(h, s)
    BY <1>4
  <2>2. /\ client'[s] = "away" /\ \A t \in Session \ {s} : client'[t] = client[t]
        /\ users' = users \ {s} /\ log' = log
    BY <2>1 DEF Leave, TypeOK
  <2> QED BY <1>1, <1>2, <2>2 DEF MemoryInv
<1>5. CASE \E s \in Session : Disconnect(h, s)
  <2>1. PICK s \in Session : Disconnect(h, s)
    BY <1>5
  <2>2. /\ client'[s] = "gone" /\ \A t \in Session \ {s} : client'[t] = client[t]
        /\ users' = users /\ log' = log
    BY <2>1 DEF Disconnect, server, TypeOK
  <2> QED BY <1>1, <1>2, <2>2 DEF MemoryInv
<1>6. CASE DisconnectRemove(h)
  <2>1. /\ client[handler[h].sid] = "gone" /\ client' = client /\ log' = log
        /\ users' = users \ {handler[h].sid}
    BY <1>6 DEF DisconnectRemove, HandlerInv, editors
  <2> QED BY <1>1, <1>2, <2>1 DEF MemoryInv
<1>7. CASE Clear(h) \/ Forget(h)
  <2>1. handler[h].pc \in {"clear", "forget"} /\ client' = client
    BY <1>7 DEF Clear, Forget, editors
  <2>2. ~redis => users = {}
    BY <2>1 DEF LoopInv, KeepsLoop
  <2> QED BY <1>1, <2>1, <2>2 DEF MemoryInv
<1> QED BY <1>3, <1>4, <1>5, <1>6, <1>7

\* An update an editor has just made is not accepted yet.
LEMMA MemoryClients ==
  ASSUME IInv, ClientStep
  PROVE  MemoryInv'
<1> USE DEF IInv
<1>1. UNCHANGED <<redis, client, users, log, accepted>>
  BY ClientFrame DEF server
<1>2. \A s \in Session : Known(s)' \cap accepted \subseteq Known(s)
  <2>1. ASSUME NEW s \in Session, NEW u \in Update, Edit(s, u), NEW t \in Session
        PROVE  Known(t)' \cap accepted \subseteq Known(t)
    <3>1. u \notin accepted
      BY <2>1 DEF Edit, SentInv
    <3>2. doc'[t] \subseteq doc[t] \cup {u} /\ mail'[t] = mail[t] /\ given'[t] = given[t]
      BY <2>1 DEF Edit, TypeOK
    <3> QED BY <3>1, <3>2 DEF Known
  <2>2. ASSUME NEW s \in Session, NEW u \in Update, Receive(s, u), NEW t \in Session
        PROVE  Known(t)' \subseteq Known(t)
    <3>1. /\ doc'[t] \subseteq doc[t] \cup mail[t] /\ mail'[t] \subseteq mail[t]
          /\ given'[t] = given[t]
      BY <2>2 DEF Receive, TypeOK
    <3> QED BY <3>1 DEF Known
  <2>3. ASSUME NEW s \in Session, ReceiveState(s), NEW t \in Session
        PROVE  Known(t)' \subseteq Known(t)
    <3>1. /\ doc'[t] \subseteq doc[t] \cup given[t] /\ given'[t] \subseteq given[t]
          /\ mail'[t] = mail[t]
      BY <2>3 DEF ReceiveState, TypeOK
    <3> QED BY <3>1 DEF Known
  <2> QED BY <2>1, <2>2, <2>3 DEF ClientStep
<1> QED BY <1>1, <1>2, MemoryFrame DEF MemoryInv

-----------------------------------------------------------------------------
(* Invariance                                                              *)

LEMMA InitIInv == Init => IInv
<1> SUFFICES ASSUME Init PROVE IInv
  OBVIOUS
<1>1. TypeOK
  BY TypeInit
<1>2. \A h \in Handler : handler[h].pc = "idle"
  BY DEF Init, Idle
<1>3. HandlerInv
  BY <1>2 DEF HandlerInv
<1>4. SentInv /\ ReachedInv
  BY DEF Init, SentInv, ReachedInv
<1>5. LoopInv
  BY <1>2 DEF LoopInv, KeepsLoop
<1>6. MemoryInv
  BY DEF Init, MemoryInv
<1> QED BY <1>1, <1>3, <1>4, <1>5, <1>6 DEF IInv

LEMMA NextIInv == IInv /\ [Next]_vars => IInv'
<1> SUFFICES ASSUME IInv, [Next]_vars PROVE IInv'
  OBVIOUS
<1>1. CASE UNCHANGED vars
  BY <1>1 DEF vars, IInv, TypeOK, HandlerInv, SentInv, ReachedInv, Reached, Known, Unsent, WillGive,
     LoopInv, KeepsLoop, MemoryInv
<1>2. ASSUME NEW h \in Handler,
             JoinEnter(h) \/ JoinRead(h) \/ JoinState(h) \/ \E s \in Session : Join(h, s)
      PROVE  TypeOK' /\ HandlerInv' /\ ReachedInv' /\ LoopInv' /\ MemoryInv'
  <2>1. TypeOK' /\ HandlerInv'
    BY <1>2, JoinType, HandlerStep DEF IInv, Continue
  <2> QED BY <1>2, <2>1, ReachedJoins, LoopJoins, MemoryJoins
<1>3. ASSUME NEW h \in Handler,
             \/ UpdateAppend(h) \/ UpdateLength(h) \/ CompactLoad(h) \/ CompactSwap(h)
             \/ UpdateEmit(h)
      PROVE  TypeOK' /\ HandlerInv' /\ ReachedInv' /\ LoopInv' /\ MemoryInv'
  <2>1. TypeOK' /\ HandlerInv'
    BY <1>3, UpdateType, HandlerStep DEF IInv, Continue
  <2> QED BY <1>3, <2>1, ReachedUpdates, LoopUpdates, MemoryUpdates
<1>4. ASSUME NEW h \in Handler, \E s \in Session, u \in Update : Accept(h, s, u)
      PROVE  TypeOK' /\ HandlerInv' /\ ReachedInv' /\ LoopInv' /\ MemoryInv'
  <2>1. TypeOK' /\ HandlerInv'
    BY <1>4, UpdateType, HandlerStep DEF IInv
  <2> QED BY <1>4, <2>1, ReachedLeaves, LoopUpdates, MemoryUpdates
<1>5. ASSUME NEW h \in Handler,
             \/ LeaveRoom(h) \/ LeaveExists(h) \/ DisconnectRemove(h)
             \/ Count(h) \/ Clear(h) \/ Forget(h) \/ Exit(h)
             \/ \E s \in Session : Leave(h, s) \/ Disconnect(h, s)
      PROVE  TypeOK' /\ HandlerInv' /\ ReachedInv' /\ LoopInv' /\ MemoryInv'
  <2>1. TypeOK' /\ HandlerInv'
    BY <1>5, LeaveType, HandlerStep DEF IInv, Continue
  <2> QED BY <1>5, <2>1, ReachedLeaves, LoopLeaves, MemoryLeaves
<1>6. ASSUME ClientStep
      PROVE  TypeOK' /\ HandlerInv' /\ ReachedInv' /\ LoopInv' /\ MemoryInv'
  <2>1. TypeOK'
    BY <1>6, ClientType DEF IInv, ClientStep
  <2> QED BY <1>6, <2>1, ClientHandlers, ReachedClients, LoopClients, MemoryClients
<1>7. ASSUME Next PROVE TypeOK' /\ HandlerInv' /\ ReachedInv' /\ LoopInv' /\ MemoryInv'
  BY <1>2, <1>3, <1>4, <1>5, <1>6, <1>7 DEF Next, Continue, ClientStep
<1> QED BY <1>1, <1>7, SentStep DEF IInv

LEMMA Invariance == Spec => []IInv
<1> QED BY InitIInv, NextIInv, PTL DEF Spec

\* The variables of the model keep their domains.
THEOREM TypeCorrect == Spec => []TypeOK
<1>1. IInv => TypeOK
  BY DEF IInv
<1> QED BY Invariance, <1>1, PTL

\* socket/main.py:549, ydoc_document_join, and :680, yjs_document_update: a
\* session that shows the note knows, or will be sent, whatever a newcomer would
\* be given, whatever the interleaving of joins, updates and compactions.
THEOREM Converges == Spec => []Convergence
<1>1. ASSUME IInv, NEW s \in Session, Settled(s) PROVE Content(log) \subseteq Reached(s)
  <2>1. \A h \in Handler : ~ WillGive(h, s)
    BY <1>1 DEF Settled, WillGive
  <2> QED BY <1>1, <2>1 DEF IInv, ReachedInv, Settled
<1>2. IInv => Convergence
  BY <1>1 DEF Convergence, Reached
<1> QED BY Invariance, <1>2, PTL

\* Without Redis, what the server has accepted and a session that shows the note
\* knows stays in the log, compactions and clearings included.
THEOREM NothingIsForgotten == Spec => []NothingForgotten
<1>1. IInv => NothingForgotten
  BY DEF IInv, MemoryInv, NothingForgotten, Settled
<1> QED BY Invariance, <1>1, PTL

\* socket/utils.py:150, append_to_updates and _compact_updates_redis: but for a
\* clearing, only a compaction that had read the log before takes an update away.
THEOREM CompactionsKeepWhatTheyRead == Spec => LostOnlyByStaleCompaction
<1> DEFINE Kept(u) ==
      \/ \E h \in Handler : handler[h].pc = "clear" /\ handler'[h].pc = "forget"
      \/ \E h \in Handler : /\ handler[h].pc = "swap" /\ handler'[h].pc = "emit"
                            /\ u \notin Content(handler[h].batch)
<1>1. ASSUME IInv, [Next]_vars, log' # log, NEW u \in Content(log) \ Content(log') PROVE Kept(u)
  <2> USE DEF IInv
  <2>1. PICK h \in Handler : UpdateAppend(h) \/ CompactSwap(h) \/ Clear(h)
    BY <1>1 DEF Next, Continue, vars, editors, server, JoinEnter, JoinRead, JoinState, UpdateLength,
       CompactLoad, UpdateEmit, LeaveRoom, LeaveExists, DisconnectRemove, Count, Forget, Exit, Join,
       Leave, Disconnect, Accept, Edit, Receive, ReceiveState
  <2>2. CASE UpdateAppend(h)
    <3>1. handler[h].pc = "append"
      BY <2>2 DEF UpdateAppend, At
    <3>2. handler[h].update \in Update
      BY <1>1, <3>1 DEF HandlerInv, TypeOK, HandlerState
    <3>3. Content(log') = Content(log) \cup {handler[h].update}
      BY <1>1, <2>2, <3>2, ContentAppend, SquashedContent DEF UpdateAppend, TypeOK
    <3> QED BY <1>1, <3>3
  <2>3. CASE CompactSwap(h)
    <3>1. handler[h].batch \in Seq(SUBSET Update)
      BY <1>1 DEF TypeOK, HandlerState
    <3>2. Content(log') = Content(handler[h].batch)
      BY <2>3, <3>1, SquashedContent DEF CompactSwap
    <3>3. handler[h].pc = "swap" /\ handler'[h].pc = "emit"
      BY <1>1, <2>3 DEF CompactSwap, At, TypeOK, HandlerState
    <3> QED BY <1>1, <3>2, <3>3
  <2>4. CASE Clear(h)
    <3>1. handler[h].pc = "clear" /\ handler'[h].pc = "forget"
      BY <1>1, <2>4 DEF Clear, At, GoTo, TypeOK, HandlerState
    <3> QED BY <3>1
  <2> QED BY <2>1, <2>2, <2>3, <2>4
<1>2. ASSUME IInv, [Next]_vars
      PROVE  [\A u \in Content(log) \ Content(log') :
                \/ \E h \in Handler : handler[h].pc = "clear" /\ handler'[h].pc = "forget"
                \/ \E h \in Handler : /\ handler[h].pc = "swap" /\ handler'[h].pc = "emit"
                                      /\ u \notin Content(handler[h].batch)]_vars
  BY <1>1, <1>2
<1> QED BY Invariance, <1>2, PTL DEF Spec, LostOnlyByStaleCompaction

\* socket/main.py:734, "as no users are left": without Redis nobody joins between
\* the look at the users and the clearing.
THEOREM OnlyUnusedIsCleared == Spec => ClearedWhenUnused
<1>1. ASSUME IInv PROVE \A h \in Handler : ~redis /\ Clear(h) => users = {}
  BY <1>1 DEF IInv, LoopInv, KeepsLoop, Clear, At
<1> QED BY Invariance, <1>1, PTL DEF Spec, ClearedWhenUnused

=============================================================================
