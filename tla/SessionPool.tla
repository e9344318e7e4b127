---------------------------- MODULE SessionPool -----------------------------
(***************************************************************************)
(* SESSION_POOL of socket/main.py in Redis mode: connect, user-join,       *)
(* heartbeat and disconnect of the clients, and the periodic cleanup that  *)
(* one process at a time is meant to run under a RedisLock.                *)
(*                                                                         *)
(* A step is one Redis command.  The pool and the lock use the blocking    *)
(* client, so a handler of a process has no await between its commands and *)
(* excludes every other handler of that process, but not those of others.  *)
(* Time passes in ticks; a tick waits until all handlers are over, every   *)
(* sleep that is due has ended, and every prompt client has sent its       *)
(* heartbeat.                                                              *)
(***************************************************************************)
EXTENDS RedisLock, FiniteSets

CONSTANTS
  Session,      \* Socket.IO session ids
  Prompt,       \* sessions whose client never misses a heartbeat
  BeatPeriod,   \* the clients' heartbeat period, in ticks
  PoolTimeout,  \* SESSION_POOL_TIMEOUT, in ticks
  MaxCrashes    \* bound on the number of process crashes

ASSUME PoolAssumption ==
  /\ Prompt \subseteq Session
  /\ BeatPeriod \in Nat \ {0} /\ PoolTimeout \in Nat /\ BeatPeriod < PoolTimeout
  /\ MaxCrashes \in Nat
  /\ None \notin Session

VARIABLES
  conn,     \* [Session -> state of the connection]
  home,     \* [Session -> process it is connected to]
  handler,  \* [Session -> progress of its running event handler]
  tidied,   \* sessions whose usage and notes disconnect has cleaned up
  pool,     \* keys of SESSION_POOL
  age,      \* [Session -> ticks since last_seen_at, up to PoolTimeout + 1]
  up,       \* [Node -> the process is running]
  cleaner,  \* [Node -> progress of periodic_session_pool_cleanup]
  crashes   \* number of crashes so far

vars == <<holder, ttl, conn, home, handler, tidied, pool, age, up, cleaner, crashes>>

CleanerState ==
  [ pc    : {"off", "acquire", "renew", "keys", "scan", "delete", "sleep", "release", "unlock"},
    todo  : SUBSET Session,         \* keys still to look at
    sid   : Session \cup {None},    \* key found expired
    sleep : 0..PoolTimeout ]        \* ticks of sleep left

Off == [pc |-> "off", todo |-> {}, sid |-> None, sleep |-> 0]

\* The domains of the variables.
TypeOK ==
  /\ LockTypeOK
  /\ conn \in [Session -> {"new", "open", "closed", "orphaned"}]
  /\ home \in [Session -> Node \cup {None}]
  /\ handler \in [Session -> {"idle", "beat", "get", "delete"}]
  /\ tidied \in SUBSET Session
  /\ pool \in SUBSET Session
  /\ age \in [Session -> 0..PoolTimeout + 1]
  /\ up \in [Node -> BOOLEAN]
  /\ cleaner \in [Node -> CleanerState]
  /\ crashes \in 0..MaxCrashes

Init ==
  /\ LockInit
  /\ conn = [s \in Session |-> "new"]
  /\ home = [s \in Session |-> None]
  /\ handler = [s \in Session |-> "idle"]
  /\ tidied = {}
  /\ pool = {}
  /\ age = [s \in Session |-> 0]
  /\ up = [n \in Node |-> FALSE]
  /\ cleaner = [n \in Node |-> Off]
  /\ crashes = 0

sessions == <<conn, home, handler, tidied>>
entries  == <<pool, age>>
nodes    == <<up, crashes>>

\* No handler of the process is between two of its commands.
Free(n) ==
  /\ up[n]
  /\ cleaner[n].pc \in {"off", "acquire", "sleep"}
  /\ \A s \in Session : home[s] = n => handler[s] = "idle"

Write(s) == pool' = pool \cup {s} /\ age' = [age EXCEPT ![s] = 0]

-----------------------------------------------------------------------------
(* Event handlers                                                          *)

\* connect with a valid token.
Connect(s, n) ==
  /\ Free(n)
  /\ conn[s] = "new"
  /\ conn' = [conn EXCEPT ![s] = "open"]
  /\ home' = [home EXCEPT ![s] = n]
  /\ Write(s)
  /\ UNCHANGED <<lockVars, handler, tidied, cleaner, nodes>>

\* user-join writes the entry anew, whether or not it is there.
UserJoin(s) ==
  /\ conn[s] = "open" /\ Free(home[s])
  /\ Write(s)
  /\ UNCHANGED <<lockVars, sessions, cleaner, nodes>>

\* heartbeat: GET; a session that is not in the pool is ignored.
HeartbeatRead(s) ==
  /\ conn[s] = "open" /\ Free(home[s])
  /\ s \in pool
  /\ handler' = [handler EXCEPT ![s] = "beat"]
  /\ UNCHANGED <<lockVars, conn, home, tidied, entries, cleaner, nodes>>

\* heartbeat: the entry is written back with a new last_seen_at.
HeartbeatWrite(s) ==
  /\ handler[s] = "beat"
  /\ Write(s)
  /\ handler' = [handler EXCEPT ![s] = "idle"]
  /\ UNCHANGED <<lockVars, conn, home, tidied, cleaner, nodes>>

\* disconnect: `if sid in SESSION_POOL', else nothing is cleaned up.
Disconnect(s) ==
  /\ conn[s] = "open" /\ Free(home[s])
  /\ conn' = [conn EXCEPT ![s] = "closed"]
  /\ handler' = [handler EXCEPT ![s] = IF s \in pool THEN "get" ELSE "idle"]
  /\ UNCHANGED <<lockVars, home, tidied, entries, cleaner, nodes>>

\* disconnect: `user = SESSION_POOL[sid]', which raises if the entry is gone.
DisconnectGet(s) ==
  /\ handler[s] = "get"
  /\ handler' = [handler EXCEPT ![s] = IF s \in pool THEN "delete" ELSE "idle"]
  /\ UNCHANGED <<lockVars, conn, home, tidied, entries, cleaner, nodes>>

\* disconnect: `del SESSION_POOL[sid]' raises if the entry is gone; otherwise
\* the session's usage and its notes are cleaned up.
DisconnectDelete(s) ==
  /\ handler[s] = "delete"
  /\ handler' = [handler EXCEPT ![s] = "idle"]
  /\ pool' = pool \ {s}
  /\ tidied' = IF s \in pool THEN tidied \cup {s} ELSE tidied
  /\ UNCHANGED <<lockVars, conn, home, age, cleaner, nodes>>

-----------------------------------------------------------------------------
(* periodic_session_pool_cleanup                                           *)

Cleaner(n, pc) == [Off EXCEPT !.pc = pc]

\* Once, when the process starts.
CleanerAcquire(n) ==
  /\ cleaner[n].pc = "acquire"
  /\ \/ AcquireSucceeds(n) /\ cleaner' = [cleaner EXCEPT ![n] = Cleaner(n, "renew")]
     \/ AcquireFails /\ cleaner' = [cleaner EXCEPT ![n] = Off]
  /\ UNCHANGED <<sessions, entries, nodes>>

CleanerRenew(n) ==
  /\ cleaner[n].pc = "renew"
  /\ \/ RenewSucceeds(n) /\ cleaner' = [cleaner EXCEPT ![n] = Cleaner(n, "keys")]
     \/ RenewFails /\ cleaner' = [cleaner EXCEPT ![n] = Cleaner(n, "release")]
  /\ UNCHANGED <<sessions, entries, nodes>>

\* Mutant of CleanerKeys: only the sessions of the cleaner's own process.
CleanerKeysOwn(n) ==
  /\ cleaner[n].pc = "keys"
  /\ cleaner' = [cleaner EXCEPT ![n] =
                   [Off EXCEPT !.pc = "scan", !.todo = {s \in pool : home[s] = n}]]
  /\ UNCHANGED <<lockVars, sessions, entries, nodes>>

\* HKEYS.
CleanerKeys(n) ==
  /\ cleaner[n].pc = "keys"
  /\ cleaner' = [cleaner EXCEPT ![n] = [Off EXCEPT !.pc = "scan", !.todo = pool]]
  /\ UNCHANGED <<lockVars, sessions, entries, nodes>>

\* Mutant of CleanerScan: the age is compared with the heartbeat period.
CleanerScanEarly(n) ==
  /\ cleaner[n].pc = "scan"
  /\ \E s \in cleaner[n].todo :
       LET expired == s \in pool /\ age[s] >= BeatPeriod IN
       cleaner' = [cleaner EXCEPT ![n] =
                     [cleaner[n] EXCEPT !.todo = cleaner[n].todo \ {s},
                                        !.pc = IF expired THEN "delete" ELSE "scan",
                                        !.sid = IF expired THEN s ELSE None]]
  /\ UNCHANGED <<lockVars, sessions, entries, nodes>>

\* GET of one entry.
CleanerScan(n) ==
  /\ cleaner[n].pc = "scan"
  /\ \E s \in cleaner[n].todo :
       LET expired == s \in pool /\ age[s] > PoolTimeout IN
       cleaner' = [cleaner EXCEPT ![n] =
                     [cleaner[n] EXCEPT !.todo = cleaner[n].todo \ {s},
                                        !.pc = IF expired THEN "delete" ELSE "scan",
                                        !.sid = IF expired THEN s ELSE None]]
  /\ UNCHANGED <<lockVars, sessions, entries, nodes>>

\* `del SESSION_POOL[sid]': the cleaner ends if the entry has gone meanwhile.
CleanerDelete(n) ==
  LET s == cleaner[n].sid IN
  /\ cleaner[n].pc = "delete"
  /\ pool' = pool \ {s}
  /\ cleaner' = [cleaner EXCEPT ![n] =
                   IF s \in pool THEN [cleaner[n] EXCEPT !.pc = "scan", !.sid = None]
                                 ELSE Cleaner(n, "release")]
  /\ UNCHANGED <<lockVars, sessions, age, nodes>>

CleanerSleep(n) ==
  /\ cleaner[n].pc = "scan" /\ cleaner[n].todo = {}
  /\ cleaner' = [cleaner EXCEPT ![n] = [Off EXCEPT !.pc = "sleep", !.sleep = PoolTimeout]]
  /\ UNCHANGED <<lockVars, sessions, entries, nodes>>

CleanerWake(n) ==
  /\ cleaner[n].pc = "sleep" /\ cleaner[n].sleep = 0
  /\ \A s \in Session : home[s] = n => handler[s] = "idle"
  /\ cleaner' = [cleaner EXCEPT ![n] = Cleaner(n, "renew")]
  /\ UNCHANGED <<lockVars, sessions, entries, nodes>>

\* finally: release_lock deletes the key if it holds this process's id.
CleanerRelease(n) ==
  /\ cleaner[n].pc = "release"
  /\ cleaner' = [cleaner EXCEPT ![n] = IF holder = n THEN Cleaner(n, "unlock") ELSE Off]
  /\ UNCHANGED <<lockVars, sessions, entries, nodes>>

CleanerUnlock(n) ==
  /\ cleaner[n].pc = "unlock"
  /\ DeleteLock
  /\ cleaner' = [cleaner EXCEPT ![n] = Off]
  /\ UNCHANGED <<sessions, entries, nodes>>

-----------------------------------------------------------------------------
(* Processes and time                                                      *)

\* lifespan schedules the cleanup.
Start(n) ==
  /\ ~up[n]
  /\ up' = [up EXCEPT ![n] = TRUE]
  /\ cleaner' = [cleaner EXCEPT ![n] = Cleaner(n, "acquire")]
  /\ UNCHANGED <<lockVars, sessions, entries, crashes>>

\* The process is gone, its clients are cut off, its lock and its sessions stay.
Crash(n) ==
  LET lost == {s \in Session : home[s] = n /\ (conn[s] = "open" \/ handler[s] # "idle")} IN
  /\ up[n] /\ crashes < MaxCrashes
  /\ crashes' = crashes + 1
  /\ up' = [up EXCEPT ![n] = FALSE]
  /\ cleaner' = [cleaner EXCEPT ![n] = Off]
  /\ Abandon(n)
  /\ conn' = [s \in Session |-> IF s \in lost THEN "orphaned" ELSE conn[s]]
  /\ handler' = [s \in Session |-> IF s \in lost THEN "idle" ELSE handler[s]]
  /\ UNCHANGED <<home, tidied, entries>>

Tick ==
  /\ \A s \in Session : handler[s] = "idle"
  /\ \A n \in Node : \/ cleaner[n].pc = "off"
                     \/ cleaner[n].pc = "sleep" /\ cleaner[n].sleep > 0
  /\ \A s \in Prompt \cap pool : conn[s] = "open" => age[s] < BeatPeriod
  /\ LockTick
  /\ age' = [s \in Session |-> IF age[s] > PoolTimeout THEN age[s] ELSE age[s] + 1]
  /\ cleaner' = [n \in Node |-> IF cleaner[n].pc = "sleep"
                                  THEN [cleaner[n] EXCEPT !.sleep = @ - 1] ELSE cleaner[n]]
  /\ UNCHANGED <<sessions, pool, nodes>>

-----------------------------------------------------------------------------

Handle(s) == HeartbeatWrite(s) \/ DisconnectGet(s) \/ DisconnectDelete(s)

Clean(n) ==
  \/ CleanerAcquire(n) \/ CleanerRenew(n) \/ CleanerKeys(n) \/ CleanerScan(n)
  \/ CleanerDelete(n) \/ CleanerSleep(n) \/ CleanerWake(n) \/ CleanerRelease(n) \/ CleanerUnlock(n)

Next ==
  \/ \E s \in Session, n \in Node : Connect(s, n)
  \/ \E s \in Session : UserJoin(s) \/ HeartbeatRead(s) \/ Disconnect(s) \/ Handle(s)
  \/ \E n \in Node : Clean(n) \/ Start(n) \/ Crash(n)
  \/ Tick

Spec == Init /\ [][Next]_vars

\* Handlers that have begun go on, a cleaner gets its turn although handlers of
\* its process keep coming, prompt clients send their heartbeats, time passes.
Fairness ==
  /\ \A s \in Session : WF_vars(Handle(s))
  /\ \A s \in Prompt : SF_vars(HeartbeatRead(s))
  /\ \A n \in Node : SF_vars(Clean(n))
  /\ SF_vars(Tick)

FairSpec == Spec /\ Fairness

-----------------------------------------------------------------------------
(* Properties                                                              *)

\* The processes whose cleaner has the lock, as far as it knows.
Cleaning == {n \in Node : cleaner[n].pc \in {"renew", "keys", "scan", "delete", "sleep"}}

\* A client that beats in time is never reaped, whatever cleaners do.
PromptStays == \A s \in Prompt : conn[s] = "open" => s \in pool

\* main.py:176, "Session cleanup lock held by another node. Skipping.": two
\* processes never clean at the same time.
OneCleaner == Cardinality(Cleaning) <= 1

\* When a client that beat in time has disconnected, its usage and notes have
\* been cleaned up: neither KeyError of the handler can happen to it.
DisconnectTidies ==
  \A s \in Prompt : conn[s] = "closed" /\ handler[s] = "idle" => s \in tidied /\ s \notin pool

\* main.py:174, "Reap orphaned SESSION_POOL entries that missed heartbeats (e.g.
\* crashed instance)": an orphaned entry is reaped, unless no cleaner is left
\* because those that found the lock held have given up for good.
ReapedWhileCleaning ==
  \A s \in Session : conn[s] = "orphaned" /\ s \in pool ~> s \notin pool \/ Cleaning = {}

=============================================================================
