--------------------------- MODULE SessionProofs ----------------------------
(***************************************************************************)
(* Proofs about the two kinds of sessions a user has.                      *)
(*                                                                         *)
(* SessionPool, for every set of processes and sessions, all periods and   *)
(* timeouts (whether or not the lock outlives the sleep) and every number  *)
(* of crashes: clients that beat in time stay and are tidied up after.     *)
(*                                                                         *)
(* OAuthTokens, for any number of calls, sessions and refresh tokens: its  *)
(* stored refresh tokens stay usable, and a refresh that fails leaves the  *)
(* sessions of later sign-ins alone.                                       *)
(***************************************************************************)
EXTENDS SessionPool, OAuthTokens, FiniteSetTheorems, WellFoundedInduction, TLAPS


-----------------------------------------------------------------------------
(* The inductive invariant                                                 *)

\* No cleaner has found the session expired.
Spared(s) == \A n \in Node : cleaner[n].pc = "delete" => cleaner[n].sid # s

\* The entry is there and no cleaner will find, or has found, it expired.
Alive(s) == s \in pool /\ age[s] <= BeatPeriod /\ Spared(s)

\* The life of one prompt session.
PromptInv(s) ==
  /\ conn[s] = "new" => s \notin pool /\ Spared(s) /\ handler[s] = "idle"
  /\ conn[s] = "open" => Alive(s) /\ handler[s] \in {"idle", "beat"}
  /\ handler[s] = "beat" => conn[s] = "open"
  /\ handler[s] \in {"get", "delete"} => Alive(s) /\ conn[s] = "closed"
  /\ conn[s] = "closed" /\ handler[s] = "idle" => s \in tidied /\ s \notin pool

IInv == TypeOK /\ \A s \in Prompt : PromptInv(s)

-----------------------------------------------------------------------------
(* Types                                                                   *)

LEMMA OffType ==
  ASSUME NEW pc \in {"off", "acquire", "renew", "keys", "scan", "delete", "sleep",
                     "release", "unlock"}
  PROVE  [Off EXCEPT !.pc = pc] \in CleanerState /\ Off \in CleanerState
BY PoolAssumption DEF Off, CleanerState

LEMMA AcquireType ==
  ASSUME TypeOK, NEW n \in Node, CleanerAcquire(n)
  PROVE  TypeOK'
<1>1. holder' \in Node \cup {None, Gone} /\ ttl' \in 0..LockTimeout
  BY LockAssumption DEF TypeOK, LockTypeOK, CleanerAcquire, AcquireSucceeds, AcquireFails, Take, lockVars
<1>2. cleaner' \in [Node -> CleanerState]
  BY OffType DEF TypeOK, CleanerAcquire, Cleaner
<1> QED BY <1>1, <1>2 DEF TypeOK, LockTypeOK, CleanerAcquire, sessions, entries, nodes

LEMMA RenewType ==
  ASSUME TypeOK, NEW n \in Node, CleanerRenew(n)
  PROVE  TypeOK'
<1>1. holder' \in Node \cup {None, Gone} /\ ttl' \in 0..LockTimeout
  BY LockAssumption DEF TypeOK, LockTypeOK, CleanerRenew, RenewSucceeds, RenewFails, Take, lockVars
<1>2. cleaner' \in [Node -> CleanerState]
  BY OffType DEF TypeOK, CleanerRenew, Cleaner
<1> QED BY <1>1, <1>2 DEF TypeOK, LockTypeOK, CleanerRenew, sessions, entries, nodes

LEMMA TickType ==
  ASSUME TypeOK, Tick
  PROVE  TypeOK'
<1>1. holder' \in Node \cup {None, Gone} /\ ttl' \in 0..LockTimeout
  BY LockAssumption DEF TypeOK, LockTypeOK, Tick, LockTick
<1>2. age' \in [Session -> 0..PoolTimeout + 1]
  BY PoolAssumption DEF TypeOK, Tick
<1>3. ASSUME NEW n \in Node
      PROVE  cleaner'[n] \in CleanerState
  <2>1. CASE cleaner[n].pc = "sleep"
    <3>1. cleaner[n].sleep - 1 \in 0..PoolTimeout
      BY <2>1, PoolAssumption DEF TypeOK, Tick, CleanerState
    <3>2. cleaner'[n] = [cleaner[n] EXCEPT !.sleep = cleaner[n].sleep - 1]
      BY <2>1 DEF Tick
    <3> QED BY <3>1, <3>2 DEF TypeOK, CleanerState
  <2>2. CASE cleaner[n].pc # "sleep"
    BY <2>2 DEF TypeOK, Tick
  <2> QED BY <2>1, <2>2
<1>4. cleaner' \in [Node -> CleanerState]
  BY <1>3 DEF Tick
<1> QED BY <1>1, <1>2, <1>4 DEF TypeOK, LockTypeOK, Tick, sessions, nodes

LEMMA HandlerType ==
  ASSUME TypeOK, NEW s \in Session,
         \/ \E n \in Node : Connect(s, n)
         \/ UserJoin(s) \/ HeartbeatRead(s) \/ Disconnect(s) \/ Handle(s)
  PROVE  TypeOK'
<1> USE DEF TypeOK, LockTypeOK, lockVars, sessions, entries, nodes
<1>0. 0 \in 0..PoolTimeout + 1
  BY PoolAssumption
<1>1. ASSUME NEW n \in Node, Connect(s, n) PROVE TypeOK'
  BY <1>0, <1>1 DEF Connect, Write
<1>2. CASE UserJoin(s)
  BY <1>0, <1>2 DEF UserJoin, Write
<1>3. CASE HeartbeatRead(s)
  BY <1>3 DEF HeartbeatRead
<1>4. CASE Disconnect(s)
  BY <1>4 DEF Disconnect
<1>5. CASE HeartbeatWrite(s)
  BY <1>0, <1>5 DEF HeartbeatWrite, Write
<1>6. CASE DisconnectGet(s)
  BY <1>6 DEF DisconnectGet
<1>7. CASE DisconnectDelete(s)
  BY <1>7 DEF DisconnectDelete
<1> QED BY <1>1, <1>2, <1>3, <1>4, <1>5, <1>6, <1>7 DEF Handle

LEMMA CleanType ==
  ASSUME TypeOK, NEW n \in Node, Clean(n)
  PROVE  TypeOK'
<1>1. CASE CleanerKeys(n)
  <2>0. 0 \in 0..PoolTimeout
    BY PoolAssumption
  <2>1. [Off EXCEPT !.pc = "scan", !.todo = pool] \in CleanerState
    BY <2>0 DEF TypeOK, Off, CleanerState
  <2> QED BY <1>1, <2>1 DEF CleanerKeys, TypeOK, LockTypeOK, lockVars, sessions, entries, nodes
<1>2. CASE CleanerScan(n)
  <2>1. ASSUME NEW s \in cleaner[n].todo, NEW pc \in {"delete", "scan"}, NEW x \in {s, None}
        PROVE  [cleaner[n] EXCEPT !.todo = cleaner[n].todo \ {s}, !.pc = pc, !.sid = x] \in CleanerState
    BY DEF TypeOK, CleanerState
  <2>2. cleaner' \in [Node -> CleanerState]
    BY <1>2, <2>1 DEF CleanerScan, TypeOK
  <2> QED BY <1>2, <2>2 DEF CleanerScan, TypeOK, LockTypeOK, lockVars, sessions, entries, nodes
<1>3. CASE CleanerDelete(n)
  <2>1. [cleaner[n] EXCEPT !.pc = "scan", !.sid = None] \in CleanerState
    BY DEF TypeOK, CleanerState
  <2>2. cleaner' \in [Node -> CleanerState]
    BY <1>3, <2>1, OffType DEF CleanerDelete, Cleaner, TypeOK
  <2> QED BY <1>3, <2>2 DEF CleanerDelete, TypeOK, LockTypeOK, lockVars, sessions, nodes
<1>4. CASE CleanerSleep(n)
  <2>0. PoolTimeout \in 0..PoolTimeout
    BY PoolAssumption
  <2>1. [Off EXCEPT !.pc = "sleep", !.sleep = PoolTimeout] \in CleanerState
    BY <2>0 DEF Off, CleanerState
  <2> QED BY <1>4, <2>1 DEF CleanerSleep, TypeOK, LockTypeOK, lockVars, sessions, entries, nodes
<1>5. CASE CleanerWake(n)
  BY <1>5, OffType DEF CleanerWake, Cleaner, TypeOK, LockTypeOK, lockVars, sessions, entries, nodes
<1>6. CASE CleanerRelease(n)
  BY <1>6, OffType DEF CleanerRelease, Cleaner, TypeOK, LockTypeOK, lockVars, sessions, entries, nodes
<1>7. CASE CleanerUnlock(n)
  BY <1>7, OffType, LockAssumption
     DEF CleanerUnlock, DeleteLock, TypeOK, LockTypeOK, sessions, entries, nodes
<1> QED BY <1>1, <1>2, <1>3, <1>4, <1>5, <1>6, <1>7, AcquireType, RenewType DEF Clean

LEMMA TypeStep ==
  ASSUME TypeOK, [Next]_vars
  PROVE  TypeOK'
<1>1. ASSUME NEW n \in Node, Start(n) PROVE TypeOK'
  BY <1>1, OffType DEF Start, Cleaner, TypeOK, LockTypeOK, lockVars, sessions, entries
<1>2. ASSUME NEW n \in Node, Crash(n) PROVE TypeOK'
  <2>1. crashes' \in 0..MaxCrashes
    BY <1>2, PoolAssumption DEF Crash, TypeOK
  <2>2. holder' \in Node \cup {None, Gone} /\ ttl' \in 0..LockTimeout
    BY <1>2 DEF Crash, Abandon, TypeOK, LockTypeOK
  <2>3. cleaner' \in [Node -> CleanerState]
    BY <1>2, OffType DEF Crash, TypeOK
  <2> QED BY <1>2, <2>1, <2>2, <2>3 DEF Crash, TypeOK, LockTypeOK, entries
<1>3. CASE UNCHANGED vars
  BY <1>3 DEF vars, TypeOK, LockTypeOK
<1> QED BY <1>1, <1>2, <1>3, HandlerType, CleanType, TickType DEF Next

\* The pool, the lock, the handlers and the cleaners stay well formed.
THEOREM TypeCorrect == Spec => []TypeOK
<1>1. Init => TypeOK
  BY OffType, PoolAssumption, LockAssumption DEF Init, LockInit, TypeOK, LockTypeOK
<1>2. TypeOK /\ [Next]_vars => TypeOK'
  BY TypeStep
<1> QED BY <1>1, <1>2, PTL DEF Spec

-----------------------------------------------------------------------------
(* Prompt sessions                                                         *)

\* A step of a cleaner leaves every prompt session as it is.
LEMMA CleanPrompt ==
  ASSUME IInv, NEW n \in Node, Clean(n), NEW s \in Prompt
  PROVE  PromptInv(s)'
<1> USE DEF sessions
<1>0. s \in Session /\ BeatPeriod \in Nat /\ PoolTimeout \in Nat /\ BeatPeriod < PoolTimeout
  BY PoolAssumption
<1>1. ASSUME UNCHANGED sessions, UNCHANGED entries, cleaner'[n].pc # "delete",
             \A m \in Node \ {n} : cleaner'[m] = cleaner[m]
      PROVE  PromptInv(s)'
  BY <1>1 DEF IInv, TypeOK, PromptInv, Alive, Spared, entries
<1>2. CASE CleanerScan(n)
  <2>1. PICK x \in cleaner[n].todo :
          LET expired == x \in pool /\ age[x] > PoolTimeout IN
          cleaner' = [cleaner EXCEPT ![n] =
                        [cleaner[n] EXCEPT !.todo = cleaner[n].todo \ {x},
                                           !.pc = IF expired THEN "delete" ELSE "scan",
                                           !.sid = IF expired THEN x ELSE None]]
    BY <1>2 DEF CleanerScan
  <2>2. CASE x = s /\ x \in pool /\ age[x] > PoolTimeout
    <3>1. ~Alive(s) /\ s \in pool
      BY <1>0, <2>2 DEF IInv, TypeOK, Alive
    <3> QED BY <1>2, <3>1 DEF IInv, PromptInv, Alive, Spared, CleanerScan, entries
  <2>3. CASE x # s \/ ~(x \in pool /\ age[x] > PoolTimeout)
    <3>1. ASSUME Spared(s) PROVE Spared(s)'
      BY <2>1, <2>3, <3>1 DEF Spared, IInv, TypeOK, CleanerState
    <3> QED BY <1>2, <3>1 DEF IInv, PromptInv, Alive, CleanerScan, entries
  <2> QED BY <2>2, <2>3
<1>3. CASE CleanerDelete(n)
  <2>1. ASSUME Spared(s) PROVE Spared(s)' /\ (s \in pool => s \in pool')
    BY <1>3, <2>1 DEF CleanerDelete, Cleaner, Off, Spared, IInv, TypeOK, CleanerState
  <2> QED BY <1>3, <2>1 DEF CleanerDelete, IInv, PromptInv, Alive
<1>4. CASE CleanerAcquire(n)
  BY <1>1, <1>4 DEF CleanerAcquire, Cleaner, Off, IInv, TypeOK
<1>5. CASE CleanerRenew(n)
  BY <1>1, <1>5 DEF CleanerRenew, Cleaner, Off, IInv, TypeOK
<1>6. CASE CleanerKeys(n)
  BY <1>1, <1>6 DEF CleanerKeys, Off, IInv, TypeOK
<1>7. CASE CleanerSleep(n)
  BY <1>1, <1>7 DEF CleanerSleep, Off, IInv, TypeOK
<1>8. CASE CleanerWake(n)
  BY <1>1, <1>8 DEF CleanerWake, Cleaner, Off, IInv, TypeOK
<1>9. CASE CleanerRelease(n)
  BY <1>1, <1>9 DEF CleanerRelease, Cleaner, Off, IInv, TypeOK
<1>10. CASE CleanerUnlock(n)
  BY <1>1, <1>10 DEF CleanerUnlock, Cleaner, Off, IInv, TypeOK
<1> QED BY <1>2, <1>3, <1>4, <1>5, <1>6, <1>7, <1>8, <1>9, <1>10 DEF Clean

\* So does an event of another session, and its own events keep it alive.
LEMMA HandlerPrompt ==
  ASSUME IInv, NEW z \in Session, NEW s \in Prompt,
         \/ \E n \in Node : Connect(z, n)
         \/ UserJoin(z) \/ HeartbeatRead(z) \/ Disconnect(z) \/ Handle(z)
  PROVE  PromptInv(s)'
<1>0. s \in Session /\ BeatPeriod \in Nat /\ PoolTimeout \in Nat /\ 0 <= BeatPeriod
  BY PoolAssumption
<1> USE <1>0 DEF IInv, TypeOK, PromptInv, Alive, Spared, sessions, entries
<1>1. ASSUME NEW n \in Node, Connect(z, n) PROVE PromptInv(s)'
  BY <1>1 DEF Connect, Write
<1>2. CASE UserJoin(z)
  BY <1>2 DEF UserJoin, Write
<1>3. CASE HeartbeatRead(z)
  BY <1>3 DEF HeartbeatRead, Free
<1>4. CASE Disconnect(z)
  BY <1>4 DEF Disconnect, Free
<1>5. CASE HeartbeatWrite(z)
  BY <1>5 DEF HeartbeatWrite, Write
<1>6. CASE DisconnectGet(z)
  BY <1>6 DEF DisconnectGet
<1>7. CASE DisconnectDelete(z)
  BY <1>7 DEF DisconnectDelete
<1> QED BY <1>1, <1>2, <1>3, <1>4, <1>5, <1>6, <1>7 DEF Handle

LEMMA TickPrompt ==
  ASSUME IInv, Tick, NEW s \in Prompt
  PROVE  PromptInv(s)'
<1>0. s \in Session /\ BeatPeriod \in Nat /\ PoolTimeout \in Nat /\ BeatPeriod < PoolTimeout
  BY PoolAssumption
<1>1. Spared(s)'
  BY DEF Tick, Spared, IInv, TypeOK, CleanerState
<1>2. handler[s] = "idle"
  BY <1>0 DEF Tick
<1>3. ASSUME conn[s] = "open" PROVE age'[s] <= BeatPeriod
  <2>1. s \in pool /\ age[s] \in Nat /\ age[s] < BeatPeriod
    BY <1>0, <1>3 DEF IInv, TypeOK, PromptInv, Alive, Tick
  <2>2. age'[s] = age[s] + 1
    BY <1>0, <2>1 DEF Tick
  <2> QED BY <1>0, <2>1, <2>2
<1> QED BY <1>1, <1>2, <1>3 DEF Tick, IInv, PromptInv, Alive, sessions

LEMMA CrashPrompt ==
  ASSUME IInv, NEW n \in Node, Crash(n), NEW s \in Prompt
  PROVE  PromptInv(s)'
<1>0. s \in Session
  BY PoolAssumption
<1>1. ASSUME Spared(s) PROVE Spared(s)'
  BY <1>1 DEF Crash, Spared, Off, IInv, TypeOK
<1> QED BY <1>0, <1>1 DEF Crash, IInv, TypeOK, PromptInv, Alive, entries

LEMMA PromptStep ==
  ASSUME IInv, [Next]_vars, NEW s \in Prompt
  PROVE  PromptInv(s)'
<1>1. ASSUME NEW n \in Node, Start(n) PROVE PromptInv(s)'
  BY <1>1 DEF Start, Cleaner, Off, IInv, TypeOK, PromptInv, Alive, Spared, sessions, entries
<1>2. CASE UNCHANGED vars
  BY <1>2 DEF vars, IInv, PromptInv, Alive, Spared
<1> QED BY <1>1, <1>2, CleanPrompt, HandlerPrompt, TickPrompt, CrashPrompt DEF Next

LEMMA Inductive == Spec => []IInv
<1>1. Init => IInv
  <2>1. Init => TypeOK
    BY OffType, PoolAssumption, LockAssumption DEF Init, LockInit, TypeOK, LockTypeOK
  <2>2. ASSUME Init, NEW s \in Prompt PROVE PromptInv(s)
    BY <2>2, PoolAssumption DEF Init, Off, PromptInv, Alive, Spared
  <2> QED BY <2>1, <2>2 DEF IInv
<1>2. IInv /\ [Next]_vars => IInv'
  BY TypeStep, PromptStep DEF IInv
<1> QED BY <1>1, <1>2, PTL DEF Spec

\* A client that beats in time is never reaped, however many cleaners run at a
\* time and whoever holds the lock.
THEOREM PromptClientsStay == Spec => []PromptStays
<1>1. IInv => PromptStays
  BY DEF IInv, PromptInv, Alive, PromptStays
<1> QED BY <1>1, Inductive, PTL

\* The disconnect of a client that beat in time cleans up after it.
THEOREM PromptClientsTidied == Spec => []DisconnectTidies
<1>1. IInv => DisconnectTidies
  BY DEF IInv, PromptInv, DisconnectTidies
<1> QED BY <1>1, Inductive, PTL

-----------------------------------------------------------------------------
(* One cleaner at a time, if the lock outlives the sleep                   *)

\* Up to its end the cleaner holds the lock; when it goes to sleep, it has just
\* renewed it, and the lock lasts longer than the sleep.
HolderInv(n) ==
  /\ cleaner[n].pc \notin {"off", "acquire"} => holder = n
  /\ cleaner[n].pc \in {"keys", "scan", "delete"} => ttl = LockTimeout
  /\ cleaner[n].pc = "sleep" => ttl > cleaner[n].sleep

LockInv == TypeOK /\ \A n \in Node : HolderInv(n)

LEMMA HolderClean ==
  ASSUME LockInv, PoolTimeout < LockTimeout, NEW n \in Node, NEW m \in Node, Clean(n)
  PROVE  HolderInv(m)'
<1>0. /\ TypeOK /\ HolderInv(n) /\ HolderInv(m) /\ cleaner[n] \in CleanerState
      /\ None \notin Node /\ PoolTimeout \in Nat /\ LockTimeout \in Nat
  BY LockAssumption, PoolAssumption DEF LockInv, TypeOK
<1>. USE DEF lockVars
<1>1. CASE CleanerAcquire(n)
  <2>1. CASE AcquireFails
    BY <1>0, <1>1, <2>1 DEF CleanerAcquire, AcquireFails, AcquireSucceeds, HolderInv, TypeOK, Off, Cleaner
  <2>2. CASE ~AcquireFails
    <3>1. holder = None /\ holder' = n /\ cleaner' = [cleaner EXCEPT ![n] = Cleaner(n, "renew")]
      BY <1>1, <2>2 DEF CleanerAcquire, AcquireSucceeds, Take
    <3>2. CASE m = n
      <4>1. cleaner'[m].pc = "renew"
        BY <1>0, <3>1, <3>2 DEF TypeOK, Cleaner, Off
      <4>. QED BY <3>1, <3>2, <4>1 DEF HolderInv
    <3>3. CASE m # n
      <4>1. cleaner'[m] = cleaner[m] /\ cleaner[m].pc \in {"off", "acquire"}
        BY <1>0, <3>1, <3>3 DEF TypeOK, HolderInv
      <4>. QED BY <4>1 DEF HolderInv
    <3>. QED BY <3>2, <3>3
  <2>. QED BY <2>1, <2>2
<1>2. CASE CleanerRenew(n)
  <2>1. /\ holder = n /\ holder' = n /\ ttl' = LockTimeout
        /\ cleaner' = [cleaner EXCEPT ![n] = Cleaner(n, "keys")]
    BY <1>0, <1>2 DEF CleanerRenew, RenewSucceeds, RenewFails, Take, HolderInv
  <2>2. CASE m = n
    <3>1. cleaner'[m].pc = "keys"
      BY <1>0, <2>1, <2>2 DEF TypeOK, Cleaner, Off
    <3>. QED BY <2>1, <2>2, <3>1 DEF HolderInv
  <2>3. CASE m # n
    <3>1. cleaner'[m] = cleaner[m] /\ cleaner[m].pc \in {"off", "acquire"}
      BY <1>0, <2>1, <2>3 DEF TypeOK, HolderInv
    <3>. QED BY <3>1 DEF HolderInv
  <2>. QED BY <2>2, <2>3
<1>3. CASE CleanerUnlock(n)
  <2>1. holder = n /\ cleaner' = [cleaner EXCEPT ![n] = Off]
    BY <1>0, <1>3 DEF CleanerUnlock, HolderInv
  <2>2. cleaner'[m].pc \in {"off", "acquire"}
    <3>1. CASE m = n
      BY <1>0, <2>1, <3>1 DEF TypeOK, Off
    <3>2. CASE m # n
      BY <1>0, <2>1, <3>2 DEF TypeOK, HolderInv
    <3>. QED BY <3>1, <3>2
  <2>. QED BY <2>2 DEF HolderInv
<1>4. ASSUME UNCHANGED lockVars, NEW c, cleaner' = [cleaner EXCEPT ![n] = c],
             c.pc \notin {"off", "acquire"} => cleaner[n].pc \notin {"off", "acquire"},
             c.pc \in {"keys", "scan", "delete"} => cleaner[n].pc \in {"keys", "scan", "delete"},
             c.pc = "sleep" => cleaner[n].pc = "scan" /\ c.sleep = PoolTimeout
      PROVE  HolderInv(m)'
  <2>1. CASE m = n
    <3>1. cleaner'[m] = c
      BY <1>0, <1>4, <2>1 DEF TypeOK
    <3>. QED BY <1>0, <1>4, <2>1, <3>1 DEF HolderInv
  <2>2. CASE m # n
    <3>1. cleaner'[m] = cleaner[m]
      BY <1>0, <1>4, <2>2 DEF TypeOK
    <3>. QED BY <1>0, <1>4, <3>1 DEF HolderInv
  <2>. QED BY <2>1, <2>2
<1>5. CASE CleanerKeys(n)
  <2>. DEFINE c == [Off EXCEPT !.pc = "scan", !.todo = pool]
  <2>1. c.pc = "scan"
    BY DEF Off
  <2>2. UNCHANGED lockVars /\ cleaner' = [cleaner EXCEPT ![n] = c] /\ cleaner[n].pc = "keys"
    BY <1>5 DEF CleanerKeys
  <2>. HIDE DEF c
  <2>. QED BY <1>4, <2>1, <2>2
<1>6. CASE CleanerScan(n)
  <2>1. PICK pc \in {"scan", "delete"}, t \in {cleaner[n].todo \ {x} : x \in cleaner[n].todo},
             s \in cleaner[n].todo \cup {None} :
          cleaner' = [cleaner EXCEPT ![n] = [cleaner[n] EXCEPT !.todo = t, !.pc = pc, !.sid = s]]
    BY <1>6 DEF CleanerScan
  <2>. DEFINE c == [cleaner[n] EXCEPT !.todo = t, !.pc = pc, !.sid = s]
  <2>2. c.pc = pc
    BY <1>0 DEF CleanerState
  <2>3. UNCHANGED lockVars /\ cleaner' = [cleaner EXCEPT ![n] = c] /\ cleaner[n].pc = "scan"
    BY <1>6, <2>1 DEF CleanerScan
  <2>. HIDE DEF c
  <2>. QED BY <1>4, <2>2, <2>3
<1>7. CASE CleanerDelete(n)
  <2>. DEFINE c == IF cleaner[n].sid \in pool THEN [cleaner[n] EXCEPT !.pc = "scan", !.sid = None]
                                              ELSE Cleaner(n, "release")
  <2>1. c.pc \in {"scan", "release"}
    BY <1>0 DEF CleanerState, Cleaner, Off
  <2>2. UNCHANGED lockVars /\ cleaner' = [cleaner EXCEPT ![n] = c] /\ cleaner[n].pc = "delete"
    BY <1>7 DEF CleanerDelete
  <2>. HIDE DEF c
  <2>. QED BY <1>4, <2>1, <2>2
<1>8. CASE CleanerSleep(n)
  <2>. DEFINE c == [Off EXCEPT !.pc = "sleep", !.sleep = PoolTimeout]
  <2>1. c.pc = "sleep" /\ c.sleep = PoolTimeout
    BY DEF Off
  <2>2. UNCHANGED lockVars /\ cleaner' = [cleaner EXCEPT ![n] = c] /\ cleaner[n].pc = "scan"
    BY <1>8 DEF CleanerSleep
  <2>. HIDE DEF c
  <2>. QED BY <1>4, <2>1, <2>2
<1>9. CASE CleanerWake(n)
  <2>. DEFINE c == Cleaner(n, "renew")
  <2>1. c.pc = "renew"
    BY DEF Cleaner, Off
  <2>2. UNCHANGED lockVars /\ cleaner' = [cleaner EXCEPT ![n] = c] /\ cleaner[n].pc = "sleep"
    BY <1>9 DEF CleanerWake
  <2>. HIDE DEF c
  <2>. QED BY <1>4, <2>1, <2>2
<1>10. CASE CleanerRelease(n)
  <2>. DEFINE c == IF holder = n THEN Cleaner(n, "unlock") ELSE Off
  <2>1. c.pc \in {"unlock", "off"}
    BY DEF Cleaner, Off
  <2>2. UNCHANGED lockVars /\ cleaner' = [cleaner EXCEPT ![n] = c] /\ cleaner[n].pc = "release"
    BY <1>10 DEF CleanerRelease
  <2>. HIDE DEF c
  <2>. QED BY <1>4, <2>1, <2>2
<1>. QED BY <1>1, <1>2, <1>3, <1>5, <1>6, <1>7, <1>8, <1>9, <1>10 DEF Clean

LEMMA HolderTick ==
  ASSUME LockInv, Tick, NEW m \in Node
  PROVE  HolderInv(m)'
<1>1. /\ TypeOK /\ HolderInv(m) /\ cleaner[m] \in CleanerState
      /\ ttl \in Nat /\ cleaner[m].sleep \in Nat /\ PoolTimeout \in Nat /\ LockTimeout \in Nat
  BY LockAssumption, PoolAssumption DEF LockInv, TypeOK, LockTypeOK, CleanerState
<1>2. CASE cleaner[m].pc = "off"
  <2>1. cleaner'[m].pc = "off"
    BY <1>2 DEF Tick
  <2>. QED BY <2>1 DEF HolderInv
<1>3. CASE cleaner[m].pc = "sleep" /\ cleaner[m].sleep > 0
  <2>1. cleaner'[m].pc = "sleep" /\ cleaner'[m].sleep = cleaner[m].sleep - 1
    BY <1>1, <1>3 DEF Tick, CleanerState
  <2>2. holder = m /\ ttl > cleaner[m].sleep
    BY <1>1, <1>3 DEF HolderInv
  <2>3. holder' = holder /\ ttl' = ttl - 1
    BY <1>1, <1>3, <2>2 DEF Tick, LockTick
  <2>. QED BY <1>1, <1>3, <2>1, <2>2, <2>3 DEF HolderInv
<1>. QED BY <1>2, <1>3 DEF Tick

LEMMA HolderStep ==
  ASSUME LockInv, [Next]_vars, PoolTimeout < LockTimeout, NEW m \in Node
  PROVE  HolderInv(m)'
<1>0. TypeOK /\ HolderInv(m)
  BY DEF LockInv
<1>1. ASSUME UNCHANGED <<lockVars, cleaner>> PROVE HolderInv(m)'
  BY <1>0, <1>1 DEF HolderInv, lockVars
<1>2. ASSUME NEW n \in Node, Start(n) PROVE HolderInv(m)'
  <2>1. cleaner'[m] = cleaner[m] \/ cleaner'[m].pc = "acquire"
    BY <1>0, <1>2 DEF Start, Cleaner, Off, TypeOK
  <2>. QED BY <1>0, <1>2, <2>1 DEF Start, HolderInv, lockVars
<1>3. ASSUME NEW n \in Node, Crash(n) PROVE HolderInv(m)'
  <2>1. CASE m = n
    <3>1. cleaner'[m].pc = "off"
      BY <1>0, <1>3, <2>1 DEF Crash, Off, TypeOK
    <3>. QED BY <3>1 DEF HolderInv
  <2>2. CASE m # n
    <3>1. cleaner'[m] = cleaner[m] /\ (holder = m => holder' = m) /\ ttl' = ttl
      BY <1>0, <1>3, <2>2 DEF Crash, Abandon, TypeOK
    <3>. QED BY <1>0, <3>1 DEF HolderInv
  <2>. QED BY <2>1, <2>2
<1>4. ASSUME NEW s \in Session,
             \/ UserJoin(s) \/ HeartbeatRead(s) \/ Disconnect(s) \/ Handle(s)
             \/ \E n \in Node : Connect(s, n)
      PROVE  UNCHANGED <<lockVars, cleaner>>
  BY <1>4 DEF UserJoin, HeartbeatRead, Disconnect, Handle, HeartbeatWrite, DisconnectGet,
              DisconnectDelete, Connect
<1>5. CASE UNCHANGED vars
  BY <1>1, <1>5 DEF vars, lockVars
<1>. QED BY <1>1, <1>2, <1>3, <1>4, <1>5, HolderClean, HolderTick DEF Next

\* If the lock outlives the cleaner's sleep, two processes never clean at the
\* same time, for any number of processes and crashes.
THEOREM OneCleanerAtATime ==
  ASSUME PoolTimeout < LockTimeout
  PROVE  Spec => []OneCleaner
<1>1. Init => LockInv
  <2>1. Init => TypeOK
    BY OffType, PoolAssumption, LockAssumption DEF Init, LockInit, TypeOK, LockTypeOK
  <2>2. ASSUME Init, NEW n \in Node PROVE HolderInv(n)
    <3>1. cleaner[n].pc = "off"
      BY <2>2 DEF Init, Off
    <3>. QED BY <3>1 DEF HolderInv
  <2>. QED BY <2>1, <2>2 DEF LockInv
<1>2. LockInv /\ [Next]_vars => LockInv'
  BY TypeStep, HolderStep DEF LockInv
<1>3. LockInv => OneCleaner
  <2>. SUFFICES ASSUME LockInv PROVE Cardinality(Cleaning) <= 1
    BY DEF OneCleaner
  <2>1. \A n \in Cleaning : n = holder
    BY DEF LockInv, HolderInv, Cleaning
  <2>2. Cleaning = {} \/ Cleaning = {holder}
    BY <2>1
  <2>3. Cardinality(Cleaning) \in {0, 1}
    BY <2>2, FS_EmptySet, FS_Singleton
  <2>. QED BY <2>3
<1>. QED BY <1>1, <1>2, <1>3, PTL DEF Spec

-----------------------------------------------------------------------------
(* OAuthTokens: a rotated token is known to one call only, the one that is *)
(* answered.  Whoever else holds a token of that session holds an older    *)
(* one, which the provider refuses, so that the current token cannot       *)
(* change again before the answer is stored or lost.                       *)

\* Calls and rows are about sessions that exist.
Existing ==
  /\ \A r \in Request : call[r].pc # "idle" => call[r].session \in 1..created
  /\ \A s \in Sessions : s > created => row[s] = NoRow /\ current[s] = 1

\* No token is ahead of the provider's.
Behind ==
  /\ \A s \in Stored : row[s].refresh <= current[s]
  /\ \A r \in Request : call[r].pc # "idle" => call[r].token <= current[call[r].session]

\* An answered call holds the current token, and with rotation nobody else does.
AnswerIsCurrent ==
  \A r \in Request : call[r].pc = "answered" => call[r].got = current[call[r].session]

RowIsOld ==
  rotating =>
    \A r \in Request :
      call[r].pc = "answered" /\ row[call[r].session] # NoRow =>
        row[call[r].session].refresh < current[call[r].session]

OthersAreOld ==
  rotating =>
    \A r, q \in Request :
      /\ call[r].pc = "answered"
      /\ q # r /\ call[q].pc # "idle" /\ call[q].session = call[r].session
      => /\ call[q].pc # "answered"
         /\ call[q].token < current[call[r].session]

AnswerIsAlone == RowIsOld /\ OthersAreOld

OAuthInv == OAuthTypeOK /\ Existing /\ Behind /\ AnswerIsCurrent /\ AnswerIsAlone /\ TokenUsable

-----------------------------------------------------------------------------
LEMMA NoRowIsNoRow == NoRow \notin Row
<1>1. Row \subseteq [refresh : Nat, fresh : BOOLEAN]
  BY DEF Row
<1> QED BY <1>1, OAuthAssumption

LEMMA InitOAuthInv == OAuthInit => OAuthInv
<1> SUFFICES ASSUME OAuthInit PROVE OAuthInv
  OBVIOUS
<1> USE OAuthAssumption DEF OAuthInit, Sessions
<1>1. OAuthTypeOK
  BY DEF OAuthTypeOK, Idle, Call
<1>2. Existing /\ Behind /\ AnswerIsCurrent /\ AnswerIsAlone /\ TokenUsable
  BY DEF Existing, Behind, AnswerIsCurrent, AnswerIsAlone, RowIsOld, OthersAreOld,
         TokenUsable, Stored, Idle
<1> QED BY <1>1, <1>2 DEF OAuthInv

\* The sign-in of a user: the new session is one no call has read.
LEMMA CallbackKeeps ==
  ASSUME OAuthInv, NEW granted \in BOOLEAN, NEW expiry \in BOOLEAN, Callback(granted, expiry)
  PROVE  OAuthInv'
<1> USE OAuthAssumption DEF OAuthInv, OAuthTypeOK, Callback, NewRow, Sessions
<1>1. OAuthTypeOK'
  BY DEF Row
<1>2. Existing'
  BY DEF Existing, Call
<1>3. \A s \in Sessions : row'[s] # NoRow =>
        \/ row'[s] = row[s] /\ s \in Stored
        \/ row'[s].refresh \in {0, 1} /\ s = created + 1 /\ current[s] = 1
  BY DEF Existing, Stored
<1>4. Behind'
  BY <1>3 DEF Behind, Stored, Row, Call
<1>5. AnswerIsCurrent'
  BY DEF AnswerIsCurrent
<1>6. AnswerIsAlone'
  BY <1>3 DEF AnswerIsAlone, RowIsOld, OthersAreOld, Existing, Stored
<1>7. TokenUsable'
  BY <1>3 DEF TokenUsable, Stored
<1> QED BY <1>1, <1>2, <1>4, <1>5, <1>6, <1>7

LEMMA ExpireKeeps ==
  ASSUME OAuthInv, NEW s \in Sessions, Expire(s)
  PROVE  OAuthInv'
<1> USE OAuthAssumption DEF OAuthInv, OAuthTypeOK, Expire
<1>a. [refresh |-> row[s].refresh, fresh |-> FALSE] \in Row
  BY DEF Row
<1>b. row' = [row EXCEPT ![s] = [refresh |-> row[s].refresh, fresh |-> FALSE]]
  OBVIOUS
<1>0. /\ row' \in [Sessions -> Row \cup {NoRow}]
      /\ \A t \in Sessions : row'[t] # NoRow <=> row[t] # NoRow
      /\ \A t \in Sessions : row[t] # NoRow => row'[t].refresh = row[t].refresh
  <2>1. row'[s] = [refresh |-> row[s].refresh, fresh |-> FALSE] /\ row'[s] \in Row
    BY <1>a, <1>b
  <2>2. row'[s].refresh = row[s].refresh /\ row'[s] # NoRow /\ row[s] # NoRow
    BY <2>1, NoRowIsNoRow
  <2>3. \A t \in Sessions \ {s} : row'[t] = row[t]
    BY <1>b
  <2>4. row' \in [Sessions -> Row \cup {NoRow}]
    BY <1>a, <1>b
  <2> QED BY <2>2, <2>3, <2>4
<1>1. OAuthTypeOK'
  BY <1>0
<1>2. Existing'
  BY <1>0 DEF Existing
<1>3. Behind'
  BY <1>0 DEF Behind, Stored
<1>4. AnswerIsCurrent'
  BY DEF AnswerIsCurrent
<1>5. AnswerIsAlone'
  BY <1>0 DEF AnswerIsAlone, RowIsOld, OthersAreOld, Stored
<1>6. TokenUsable'
  BY <1>0 DEF TokenUsable, Stored
<1> QED BY <1>1, <1>2, <1>3, <1>4, <1>5, <1>6

\* What the ways in which a call deletes its session have in common.
LEMMA DiscardKeeps ==
  ASSUME OAuthInv, NEW r \in Request, NEW s \in Sessions, Discard(r, s),
         call[r].pc = "idle" \/ call[r].session = s
  PROVE  OAuthInv'
<1> USE OAuthAssumption DEF OAuthInv, OAuthTypeOK, Discard, End, Idle, Call
<1>1. OAuthTypeOK'
  BY DEF Sessions
<1>2. Existing'
  BY DEF Existing
<1>3. Behind'
  BY DEF Behind, Stored
<1>4. AnswerIsCurrent'
  BY DEF AnswerIsCurrent
<1>5. AnswerIsAlone'
  BY DEF AnswerIsAlone, RowIsOld, OthersAreOld, Stored
<1>6. TokenUsable'
  BY DEF TokenUsable, Stored
<1> QED BY <1>1, <1>2, <1>3, <1>4, <1>5, <1>6

\* A call that leaves without touching a row loses an answer, if it had one.
LEMMA LeaveKeeps ==
  ASSUME OAuthInv, NEW r \in Request, call[r].pc # "idle",
         StoreFails(r) \/ Cancel(r)
  PROVE  OAuthInv'
<1> USE OAuthAssumption DEF OAuthInv, OAuthTypeOK, StoreFails, Cancel, End, Idle, Call
<1>a. call[r].session \in Sessions
  BY DEF Existing, Sessions
<1>b. lost' \subseteq Sessions
  BY <1>a
<1>c. Idle \in Call
  OBVIOUS
<1>d. call' = [call EXCEPT ![r] = Idle]
  OBVIOUS
<1>1. OAuthTypeOK'
  BY <1>b, <1>c, <1>d
<1>2. Existing'
  BY DEF Existing
<1>3. Behind'
  BY DEF Behind, Stored
<1>4. AnswerIsCurrent'
  BY DEF AnswerIsCurrent
<1>5. AnswerIsAlone'
  BY DEF AnswerIsAlone, RowIsOld, OthersAreOld, Stored
<1>6. TokenUsable'
  BY DEF TokenUsable, Stored
<1> QED BY <1>1, <1>2, <1>3, <1>4, <1>5, <1>6

\* A call begins with the stored token, which is no longer the current one when
\* another call is answered.
LEMMA BeginKeeps ==
  ASSUME OAuthInv, NEW r \in Request, NEW s \in Sessions, Begin(r, s)
  PROVE  OAuthInv'
<1> USE OAuthAssumption DEF OAuthInv, OAuthTypeOK
<1>1. CASE row[s].refresh = 0
  BY <1>1, DiscardKeeps DEF Begin
<1>2. CASE row[s].refresh # 0
  <2> USE <1>2 DEF Begin, Call
  <2>1. row[s] \in Row /\ s \in Stored /\ s \in 1..created
    BY DEF Readable, Stored, Existing, Sessions
  <2>2. OAuthTypeOK'
    <3>1. call' = [call EXCEPT ![r] = [pc |-> "metadata", session |-> s,
                                       token |-> row[s].refresh, got |-> 0]]
      OBVIOUS
    <3>2. s \in 0..MaxSessions /\ row[s].refresh \in 0..MaxTokens
      BY <2>1 DEF Row, Sessions
    <3>3. call' \in [Request -> Call]
      BY <3>1, <3>2
    <3> QED BY <3>3
  <2>3. Existing'
    BY <2>1 DEF Existing
  <2>4. Behind'
    BY <2>1 DEF Behind, Stored
  <2>5. AnswerIsCurrent'
    BY DEF AnswerIsCurrent
  <2>6. AnswerIsAlone'
    BY <2>1 DEF AnswerIsAlone, RowIsOld, OthersAreOld, Stored
  <2>7. TokenUsable'
    BY DEF TokenUsable, Stored
  <2> QED BY <2>2, <2>3, <2>4, <2>5, <2>6, <2>7
<1> QED BY <1>1, <1>2

\* Steps that only change the place of a call.
LEMMA MoveKeeps ==
  ASSUME OAuthInv, NEW r \in Request, Metadata(r) \/ Refuse(r)
  PROVE  OAuthInv'
<1> USE OAuthAssumption DEF OAuthInv, OAuthTypeOK, Metadata, Refuse
<1>1. /\ call' \in [Request -> Call]
      /\ call[r].pc \in {"metadata", "post"} /\ call'[r].pc \in {"post", "refused"}
      /\ \A q \in Request : /\ call'[q].session = call[q].session
                            /\ call'[q].token = call[q].token
                            /\ call'[q].got = call[q].got
                            /\ q # r => call'[q] = call[q]
  BY DEF Call
<1>2. OAuthTypeOK'
  BY <1>1
<1>3. Existing'
  BY <1>1 DEF Existing
<1>4. Behind'
  BY <1>1 DEF Behind, Stored
<1>5. AnswerIsCurrent'
  BY <1>1 DEF AnswerIsCurrent
<1>6. AnswerIsAlone'
  BY <1>1 DEF AnswerIsAlone, RowIsOld, OthersAreOld, Stored
<1>7. TokenUsable'
  BY <1>1 DEF TokenUsable, Stored
<1> QED BY <1>2, <1>3, <1>4, <1>5, <1>6, <1>7

\* The provider accepts only the current token, so no other call of the session
\* is answered, and with rotation every token known until now becomes old.
LEMMA AcceptKeeps ==
  ASSUME OAuthInv, NEW r \in Request, Accept(r)
  PROVE  OAuthInv'
<1> USE OAuthAssumption DEF OAuthInv, OAuthTypeOK
<1> DEFINE s == call[r].session
           new == IF rotating THEN current[s] + 1 ELSE current[s]
<1>1. /\ s \in Sessions /\ s \in 1..created /\ call[r].pc = "post"
      /\ new \in 1..MaxTokens /\ current[s] <= new /\ call[r].token <= new
      /\ rotating => current[s] < new /\ call[r].token < new
      /\ ~rotating => new = current[s]
  BY DEF Accept, Existing, Sessions, Call
<1>2. /\ current' = [current EXCEPT ![s] = new]
      /\ call' = [call EXCEPT ![r] = [pc |-> "answered", session |-> s,
                                      token |-> @.token, got |-> new]]
      /\ row' = row /\ created' = created /\ rotating' = rotating /\ lost' = lost /\ manager' = manager
  BY DEF Accept
<1>3. /\ call' \in [Request -> Call]
      /\ call'[r].pc = "answered" /\ call'[r].session = s /\ call'[r].got = new
      /\ call'[r].token = call[r].token
      /\ \A q \in Request \ {r} : call'[q] = call[q]
  BY <1>1, <1>2 DEF Call
<1>4. rotating => \A q \in Request \ {r} : call[q].pc = "answered" => call[q].session # s
  BY <1>1 DEF AnswerIsAlone, OthersAreOld, Accept
<1> HIDE DEF s, new
<1>5. OAuthTypeOK'
  BY <1>1, <1>2, <1>3
<1>6. Existing'
  BY <1>1, <1>2, <1>3 DEF Existing
<1>7. Behind'
  <2>1. \A t \in Sessions : current'[t] \in Nat /\ current[t] \in Nat /\ current[t] <= current'[t]
    BY <1>1, <1>2
  <2>2. \A t \in Stored' : row'[t].refresh <= current'[t]
    BY <1>2, <2>1 DEF Behind, Stored, Row
  <2>3. \A q \in Request : call'[q].pc # "idle" => call'[q].token <= current'[call'[q].session]
    BY <1>1, <1>2, <1>3, <2>1 DEF Behind, Existing, Sessions, Call
  <2> QED BY <2>2, <2>3 DEF Behind
<1>8. AnswerIsCurrent'
  BY <1>1, <1>2, <1>3, <1>4 DEF AnswerIsCurrent, Existing, Sessions
<1>9. AnswerIsAlone'
  <2> SUFFICES ASSUME rotating PROVE RowIsOld' /\ OthersAreOld'
    BY <1>2 DEF AnswerIsAlone, RowIsOld, OthersAreOld
  <2>1. row[s] # NoRow => row[s].refresh < new
    BY <1>1 DEF Behind, Stored, Row
  <2>2. \A p \in Request : call[p].pc # "idle" /\ call[p].session = s => call[p].token < new
    BY <1>1 DEF Behind, Call
  <2>3. \A q \in Request \ {r} : call[q].pc = "answered" =>
          /\ call[q].session # s /\ call[q].session \in Sessions
          /\ current'[call[q].session] = current[call[q].session]
    BY <1>2, <1>4 DEF Existing, Sessions
  <2>4. RowIsOld'
    BY <1>1, <1>2, <1>3, <2>1, <2>3 DEF AnswerIsAlone, RowIsOld
  <2>5. OthersAreOld'
    BY <1>1, <1>2, <1>3, <1>4, <2>2, <2>3 DEF AnswerIsAlone, OthersAreOld
  <2> QED BY <2>4, <2>5
<1>10. TokenUsable'
  <2> SUFFICES ASSUME NEW t \in Stored' \ lost', row'[t].refresh \notin {0, current'[t]}
               PROVE  \E q \in Request : /\ call'[q].pc = "answered"
                                         /\ call'[q].session = t
                                         /\ call'[q].got = current'[t]
    BY DEF TokenUsable
  <2>1. CASE t = s
    BY <2>1, <1>1, <1>2, <1>3
  <2>2. CASE t # s
    BY <2>2, <1>1, <1>2, <1>3 DEF TokenUsable, Stored
  <2> QED BY <2>1, <2>2
<1> QED BY <1>5, <1>6, <1>7, <1>8, <1>9, <1>10

\* Storing the answer makes the stored token the current one.
LEMMA StoreKeeps ==
  ASSUME OAuthInv, NEW r \in Request, Store(r)
  PROVE  OAuthInv'
<1> USE OAuthAssumption DEF OAuthInv, OAuthTypeOK, Store, End, Idle, Call
<1> DEFINE s == call[r].session
<1>1. /\ s \in Sessions /\ call[r].got = current[s] /\ call[r].got \in 0..MaxTokens
      /\ row' \in [Sessions -> Row \cup {NoRow}]
      /\ \A t \in Sessions : row'[t] # NoRow => row[t] # NoRow
      /\ row'[s] # NoRow => row'[s].refresh = current[s]
      /\ \A t \in Sessions \ {s} : row'[t] = row[t]
  BY DEF Existing, Sessions, AnswerIsCurrent, Merge, Row
<1>2. OAuthTypeOK'
  BY <1>1
<1>3. Existing'
  BY <1>1 DEF Existing
<1>4. Behind'
  BY <1>1 DEF Behind, Stored
<1>5. AnswerIsCurrent'
  BY DEF AnswerIsCurrent
<1>6. AnswerIsAlone'
  BY <1>1 DEF AnswerIsAlone, RowIsOld, OthersAreOld, Stored
<1>7. TokenUsable'
  BY <1>1 DEF TokenUsable, Stored
<1> QED BY <1>2, <1>3, <1>4, <1>5, <1>6, <1>7

LEMMA NextOAuthInv == OAuthInv /\ [OAuthNext]_oauthVars => OAuthInv'
<1> SUFFICES ASSUME OAuthInv, [OAuthNext]_oauthVars PROVE OAuthInv'
  OBVIOUS
<1>1. ASSUME NEW r \in Request, Step(r) PROVE OAuthInv'
  <2>1. call[r].pc # "idle" => call[r].session \in Sessions
    BY OAuthAssumption DEF OAuthInv, OAuthTypeOK, Existing, Sessions, Call
  <2>2. ASSUME MetadataFails(r) PROVE OAuthInv'
    BY <2>1, <2>2, DiscardKeeps DEF MetadataFails
  <2>3. ASSUME RefreshFails(r) PROVE OAuthInv'
    BY <2>1, <2>3, DiscardKeeps DEF RefreshFails
  <2>4. ASSUME StoreFails(r) \/ Cancel(r) PROVE OAuthInv'
    BY <2>4, LeaveKeeps DEF StoreFails, Cancel
  <2> QED
    BY <1>1, <2>2, <2>3, <2>4, BeginKeeps, MoveKeeps, AcceptKeeps, StoreKeeps DEF Step
<1>2. CASE UNCHANGED oauthVars
  BY <1>2 DEF oauthVars, OAuthInv, OAuthTypeOK, Existing, Behind, AnswerIsCurrent, AnswerIsAlone,
              RowIsOld, OthersAreOld, TokenUsable, Stored
<1> QED BY <1>1, <1>2, CallbackKeeps, ExpireKeeps DEF OAuthNext

LEMMA OAuthInvariance == OAuthSpec => []OAuthInv
<1> QED BY InitOAuthInv, NextOAuthInv, PTL DEF OAuthSpec

-----------------------------------------------------------------------------
(* The number of sessions.                                                 *)

LEMMA OldestExists ==
  ASSUME NEW S \in SUBSET Nat, S # {}
  PROVE  \E m \in S : \A t \in S : m <= t
<1> DEFINE R == OpToRel(<, Nat)
<1>1. \A x, y \in Nat : x < y => <<x, y>> \in R
  BY DEF OpToRel
<1>2. IsWellFoundedOn(R, Nat)
  BY NatLessThanWellFounded, Zenon
<1> HIDE DEF R
<1>3. PICK m \in S : \A t \in S : <<t, m>> \notin R
  BY <1>2, WFMin
<1>4. \A t \in S : ~ (t < m)
  BY <1>1, <1>3
<1> QED BY <1>4

LEMMA StoredFinite ==
  ASSUME NEW S \in SUBSET Sessions
  PROVE  IsFiniteSet(S) /\ Cardinality(S) \in Nat
<1>1. IsFiniteSet(Sessions)
  BY FS_Interval, OAuthAssumption DEF Sessions
<1>2. IsFiniteSet(S)
  BY <1>1, FS_Subset
<1> QED BY <1>2, FS_CardinalityType

\* What a callback keeps: all but the oldest of those it keeps are newer than
\* that one, and it is kept because fewer than Keep are.
LEMMA KeptAreFew ==
  ASSUME OAuthTypeOK
  PROVE  Cardinality(Stored \ Pruned) <= Keep
<1> DEFINE K == Stored \ Pruned
<1>1. K \in SUBSET Sessions /\ Stored \in SUBSET Sessions /\ Keep \in Nat
  BY OAuthAssumption DEF Stored, Keep
<1>2. CASE K = {}
  BY <1>1, <1>2, FS_EmptySet
<1>3. CASE K # {}
  <2>1. PICK m \in K : \A t \in K : m <= t
    <3>1. K \in SUBSET Nat
      BY <1>1, OAuthAssumption DEF Sessions
    <3> QED BY <1>3, <3>1, OldestExists
  <2>2. K \ {m} \subseteq Newer(m, Stored)
    BY <1>1, <2>1 DEF Newer, Sessions
  <2>3. ~ (Cardinality(Newer(m, Stored)) >= Keep)
    BY <2>1 DEF Pruned
  <2>4. /\ IsFiniteSet(Newer(m, Stored)) /\ Cardinality(Newer(m, Stored)) \in Nat
        /\ IsFiniteSet(K) /\ Cardinality(K) \in Nat
    <3>1. Newer(m, Stored) \in SUBSET Sessions
      BY <1>1 DEF Newer
    <3> QED BY <1>1, <3>1, StoredFinite
  <2>5. Cardinality(K \ {m}) <= Cardinality(Newer(m, Stored))
    BY <2>2, <2>4, FS_Subset
  <2>6. Cardinality(K \ {m}) = Cardinality(K) - 1
    BY <2>4, FS_RemoveElement
  <2> DEFINE n == Cardinality(Newer(m, Stored))
             k == Cardinality(K)
  <2>7. n \in Nat /\ k \in Nat /\ ~ (n >= Keep) /\ k - 1 <= n
    BY <2>3, <2>4, <2>5, <2>6
  <2> HIDE DEF n, k
  <2>8. k <= Keep
    BY <1>1, <2>7
  <2> QED BY <2>8 DEF k
<1> QED BY <1>2, <1>3

LEMMA CallbackWithinLimit ==
  ASSUME OAuthTypeOK, NEW granted \in BOOLEAN, NEW expiry \in BOOLEAN, Callback(granted, expiry)
  PROVE  WithinLimit'
<1> DEFINE K == Stored \ Pruned
<1>1. Stored' \subseteq K \cup {created + 1}
  BY DEF Callback, Stored
<1>2. K \in SUBSET Sessions
  BY DEF Stored
<1>3. IsFiniteSet(K) /\ Cardinality(K) \in Nat /\ Cardinality(K) <= Keep
  BY <1>2, StoredFinite, KeptAreFew
<1>4. IsFiniteSet(K \cup {created + 1}) /\ Cardinality(K \cup {created + 1}) <= Cardinality(K) + 1
  BY <1>3, FS_AddElement
<1>5. Cardinality(Stored') <= Cardinality(K \cup {created + 1})
  BY <1>1, <1>4, FS_Subset
<1>6. Cardinality(Stored') \in Nat /\ Cardinality(K \cup {created + 1}) \in Nat
  BY <1>1, <1>4, FS_Subset, FS_CardinalityType
<1>7. manager' = manager /\ Keep + 1 = IF manager = "mcp" THEN 1 ELSE Limit
  BY OAuthAssumption DEF Callback, Keep, OAuthTypeOK
<1> DEFINE n == Cardinality(Stored')
           k == Cardinality(K \cup {created + 1})
           h == Cardinality(K)
<1>8. n \in Nat /\ k \in Nat /\ h \in Nat /\ n <= k /\ k <= h + 1 /\ h <= Keep
  BY <1>3, <1>4, <1>5, <1>6
<1> HIDE DEF n, k, h
<1>9. n <= Keep + 1
  BY <1>7, <1>8, OAuthAssumption DEF Keep
<1> QED BY <1>7, <1>9 DEF n, WithinLimit

\* Only callbacks store new sessions.
LEMMA OthersStoreNone ==
  ASSUME OAuthTypeOK, NEW r \in Request, Step(r)
  PROVE  Stored' \subseteq Stored /\ manager' = manager
<1>1. ASSUME NEW s, Discard(r, s) PROVE Stored' \subseteq Stored /\ manager' = manager
  BY <1>1 DEF Discard, Stored, OAuthTypeOK
<1>2. ASSUME NEW s \in Sessions, Begin(r, s) PROVE Stored' \subseteq Stored /\ manager' = manager
  BY <1>1, <1>2 DEF Begin, Stored
<1>3. CASE MetadataFails(r) \/ RefreshFails(r)
  BY <1>1, <1>3 DEF MetadataFails, RefreshFails, Stored
<1>4. CASE Store(r)
  BY <1>4 DEF Store, Stored, OAuthTypeOK
<1>5. CASE Metadata(r) \/ Accept(r) \/ Refuse(r) \/ StoreFails(r) \/ Cancel(r)
  BY <1>5 DEF Metadata, Accept, Refuse, StoreFails, Cancel, Stored
<1> QED BY <1>2, <1>3, <1>4, <1>5 DEF Step

-----------------------------------------------------------------------------
\* The state keeps its types.  (every handler)
THEOREM OAuthTypes == OAuthSpec => []OAuthTypeOK
<1>1. OAuthInv => OAuthTypeOK
  BY DEF OAuthInv
<1> QED BY <1>1, OAuthInvariance, PTL

\* However many calls refresh a session at once, the stored refresh token is
\* one the provider accepts, unless its successor is on its way or was lost.
\* (_refresh_token)
THEOREM TokensUsable == OAuthSpec => []TokenUsable
<1>1. OAuthInv => TokenUsable
  BY DEF OAuthInv
<1> QED BY <1>1, OAuthInvariance, PTL

\* A refresh that fails takes no session away but the one it has read.
\* (get_oauth_token)
THEOREM NewSessionsStay == OAuthSpec => ReauthorisedStays
<1>1. OAuthInv /\ [OAuthNext]_oauthVars =>
        [\A s \in Stored :
           row'[s] = NoRow =>
             \/ created' # created
             \/ row[s].refresh = 0
             \/ \E r \in Request : call[r].session = s /\ call'[r] = Idle]_oauthVars
  <2> SUFFICES ASSUME OAuthInv, OAuthNext, NEW s \in Stored, row'[s] = NoRow
               PROVE  \/ created' # created
                      \/ row[s].refresh = 0
                      \/ \E r \in Request : call[r].session = s /\ call'[r] = Idle
    OBVIOUS
  <2> USE DEF OAuthInv, OAuthTypeOK, Stored
  <2>1. CASE \E granted, expiry \in BOOLEAN : Callback(granted, expiry)
    BY <2>1 DEF Callback
  <2>2. CASE \E t \in Sessions : Expire(t)
    <3>1. PICK t \in Sessions : Expire(t)
      BY <2>2
    <3>2. [refresh |-> row[t].refresh, fresh |-> FALSE] \in Row
      BY <3>1 DEF Expire, Row
    <3> QED BY <3>1, <3>2, NoRowIsNoRow DEF Expire
  <2>3. ASSUME NEW r \in Request, Step(r)
        PROVE  row[s].refresh = 0 \/ (call[r].session = s /\ call'[r] = Idle)
    <3>1. ASSUME NEW t, Discard(r, t) PROVE t = s /\ call'[r] = Idle
      BY <3>1 DEF Discard, End
    <3>2. ASSUME NEW t \in Sessions, Begin(r, t) PROVE row[s].refresh = 0
      BY <3>1, <3>2 DEF Begin
    <3>3. ASSUME Store(r) PROVE FALSE
      <4>1. call[r].got \in 0..MaxTokens
        BY DEF Call
      <4>2. [refresh |-> Merge(call[r]), fresh |-> TRUE] \in Row
        BY <4>1 DEF Merge, Row
      <4> QED BY <3>3, <4>2, NoRowIsNoRow DEF Store
    <3>4. ASSUME MetadataFails(r) \/ RefreshFails(r)
          PROVE  call[r].session = s /\ call'[r] = Idle
      BY <3>1, <3>4 DEF MetadataFails, RefreshFails
    <3>6. ASSUME \E t \in Sessions : Begin(r, t) PROVE row[s].refresh = 0
      BY <3>2, <3>6
    <3>5. ASSUME Metadata(r) \/ Accept(r) \/ Refuse(r) \/ StoreFails(r) \/ Cancel(r)
          PROVE  FALSE
      BY <3>5 DEF Metadata, Accept, Refuse, StoreFails, Cancel
    <3> QED
      BY <2>3, <3>3, <3>4, <3>5, <3>6 DEF Step
  <2> QED BY <2>1, <2>2, <2>3 DEF OAuthNext
<1> QED BY <1>1, OAuthInvariance, PTL DEF OAuthSpec, ReauthorisedStays

\* Whatever sign-ins and refreshes follow each other, a user holds no more
\* sessions than the limit.  (handle_callback of both managers)
THEOREM LimitHolds == OAuthSpec => []WithinLimit
<1>1. OAuthInit => WithinLimit
  <2> SUFFICES ASSUME OAuthInit PROVE WithinLimit
    OBVIOUS
  <2>1. Stored = {}
    BY DEF OAuthInit, Stored
  <2> QED BY <2>1, FS_EmptySet, OAuthAssumption DEF WithinLimit
<1>2. OAuthInv /\ WithinLimit /\ [OAuthNext]_oauthVars => WithinLimit'
  <2> SUFFICES ASSUME OAuthInv, WithinLimit, [OAuthNext]_oauthVars PROVE WithinLimit'
    OBVIOUS
  <2>1. CASE \E granted, expiry \in BOOLEAN : Callback(granted, expiry)
    BY <2>1, CallbackWithinLimit DEF OAuthInv
  <2>2. ASSUME Stored' \subseteq Stored, manager' = manager PROVE WithinLimit'
    <3>1. Stored \in SUBSET Sessions
      BY DEF Stored
    <3>2. Cardinality(Stored') <= Cardinality(Stored)
      BY <2>2, <3>1, StoredFinite, FS_Subset
    <3>3. Cardinality(Stored) \in Nat /\ Cardinality(Stored') \in Nat
      BY <2>2, <3>1, StoredFinite
    <3> QED BY <2>2, <3>2, <3>3, OAuthAssumption DEF WithinLimit
  <2>3. CASE \E s \in Sessions : Expire(s)
    <3>1. Stored' \subseteq Stored /\ manager' = manager
      BY <2>3 DEF Expire, Stored, OAuthInv, OAuthTypeOK
    <3> QED BY <2>2, <3>1
  <2>4. CASE \E r \in Request : Step(r)
    BY <2>2, <2>4, OthersStoreNone DEF OAuthInv
  <2>5. CASE UNCHANGED oauthVars
    BY <2>2, <2>5 DEF oauthVars, Stored
  <2> QED BY <2>1, <2>3, <2>4, <2>5 DEF OAuthNext
<1> QED BY <1>1, <1>2, OAuthInvariance, PTL DEF OAuthSpec

=============================================================================
