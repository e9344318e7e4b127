----------------------------- MODULE UsagePool ------------------------------
(***************************************************************************)
(* USAGE_POOL of socket/main.py in Redis mode: which sessions use which    *)
(* model.  Clients report their usage, disconnect removes it, and the      *)
(* periodic cleanup, which one process runs under a RedisLock, removes     *)
(* what has not been reported again.                                       *)
(*                                                                         *)
(* A step is one Redis command.  The client is a blocking one, so a        *)
(* process does one job at a time, and jobs of different processes         *)
(* interleave.  Every job reads the connections of a model and writes them *)
(* back as a whole.  Time passes in ticks of TIMEOUT_DURATION, when no job *)
(* is under way and no sleep is due to end.                                *)
(***************************************************************************)
EXTENDS RedisLock, FiniteSets

CONSTANTS
  Session, Model,
  MaxReports,  \* bound on usage events
  MaxCrashes   \* bound on crashes of processes

ASSUME UsageAssumption ==
  /\ None \notin Session \cup Model \cup 0..2
  /\ MaxReports \in Nat /\ MaxCrashes \in Nat
  /\ LockTimeout >= 2  \* the lock outlives the sleep of its holder

VARIABLES
  conn,     \* [Session -> state of the connection]
  home,     \* [Session -> process it is connected to]
  usage,    \* [Model -> connections: per session the ticks since its report]
  job,      \* [Node -> what the process is doing]
  cleaner,  \* [Node -> periodic_usage_pool_cleanup]
  up,       \* [Node -> the process is running]
  reports,  \* usage events so far
  crashes   \* crashes so far

vars == <<holder, ttl, conn, home, usage, job, cleaner, up, reports, crashes>>

MaxRetries == 2  \* max_retries

Nobody == [s \in Session |-> None]  \* no key
Connections == [Session -> 0..2 \cup {None}]

Idle == [pc |-> "idle", sid |-> None, model |-> None, todo |-> {},
         seen |-> [m \in Model |-> Nobody]]

Job ==
  [ pc    : {"idle", "get", "set", "look", "put", "renew", "all", "clean", "release", "unlock"},
    sid   : Session \cup {None},
    model : Model \cup {None},
    todo  : SUBSET Model,            \* models still to look at
    seen  : [Model -> Connections] ] \* connections read

Off == [pc |-> "off", attempt |-> 0, delay |-> 0, wait |-> 0]

CleanerState ==
  [ pc      : {"off", "acquire", "clean"},
    attempt : 0..MaxRetries,
    delay   : 0..LockTimeout,  \* retry_delay
    wait    : 0..LockTimeout ] \* ticks of sleep left

\* The domains of the variables.
TypeOK ==
  /\ LockTypeOK
  /\ conn \in [Session -> {"new", "open", "closed"}]
  /\ home \in [Session -> Node \cup {None}]
  /\ usage \in [Model -> Connections]
  /\ job \in [Node -> Job]
  /\ cleaner \in [Node -> CleanerState]
  /\ up \in [Node -> BOOLEAN]
  /\ reports \in 0..MaxReports
  /\ crashes \in 0..MaxCrashes

Init ==
  /\ LockInit
  /\ conn = [s \in Session |-> "new"]
  /\ home = [s \in Session |-> None]
  /\ usage = [m \in Model |-> Nobody]
  /\ job = [n \in Node |-> Idle]
  /\ cleaner = [n \in Node |-> Off]
  /\ up = [n \in Node |-> FALSE]
  /\ reports = 0 /\ crashes = 0

clients == <<conn, home, reports>>
nodes   == <<up, crashes>>

Free(n) == up[n] /\ job[n].pc = "idle"

InUse == {m \in Model : usage[m] # Nobody}

Step(n, j) == job' = [job EXCEPT ![n] = j]

\* The connections left in a model are written back, or the model is deleted,
\* which raises if another process has deleted it: the job then ends as given.
Put(n, m, left, done, failed) ==
  IF left = Nobody /\ m \notin InUse THEN UNCHANGED usage /\ Step(n, failed)
  ELSE usage' = [usage EXCEPT ![m] = left] /\ Step(n, done)

-----------------------------------------------------------------------------
(* usage                                                                   *)

\* The session connects to a process and enters SESSION_POOL.
Connect(s, n) ==
  /\ conn[s] = "new" /\ Free(n)
  /\ conn' = [conn EXCEPT ![s] = "open"]
  /\ home' = [home EXCEPT ![s] = n]
  /\ UNCHANGED <<lockVars, usage, job, cleaner, nodes, reports>>

\* Mutant of Report: a late event of a session that has disconnected counts.
ReportLate(s, m) ==
  /\ home[s] # None /\ Free(home[s])
  /\ reports < MaxReports /\ reports' = reports + 1
  /\ Step(home[s], [Idle EXCEPT !.pc = IF m \in InUse THEN "get" ELSE "set",
                                !.sid = s, !.model = m])
  /\ UNCHANGED <<lockVars, conn, home, usage, cleaner, nodes>>

\* `sid in SESSION_POOL', and `model_id in USAGE_POOL'.
Report(s, m) ==
  /\ conn[s] = "open" /\ Free(home[s])
  /\ reports < MaxReports /\ reports' = reports + 1
  /\ Step(home[s], [Idle EXCEPT !.pc = IF m \in InUse THEN "get" ELSE "set",
                                !.sid = s, !.model = m])
  /\ UNCHANGED <<lockVars, conn, home, usage, cleaner, nodes>>

\* `USAGE_POOL[model_id]' raises if the model has gone meanwhile.
ReportGet(n) ==
  LET m == job[n].model IN
  /\ job[n].pc = "get"
  /\ Step(n, IF m \in InUse THEN [job[n] EXCEPT !.pc = "set", !.seen[m] = usage[m]] ELSE Idle)
  /\ UNCHANGED <<lockVars, clients, usage, cleaner, nodes>>

ReportSet(n) ==
  LET m == job[n].model IN
  /\ job[n].pc = "set"
  /\ usage' = [usage EXCEPT ![m] = [job[n].seen[m] EXCEPT ![job[n].sid] = 0]]
  /\ Step(n, Idle)
  /\ UNCHANGED <<lockVars, clients, cleaner, nodes>>

-----------------------------------------------------------------------------
(* disconnect                                                              *)

Leaving(s, todo) ==
  IF todo = {} THEN Idle ELSE [Idle EXCEPT !.pc = "look", !.sid = s, !.todo = todo]

\* The session leaves SESSION_POOL and the models in use are listed.
Disconnect(s) ==
  /\ conn[s] = "open" /\ Free(home[s])
  /\ conn' = [conn EXCEPT ![s] = "closed"]
  /\ Step(home[s], Leaving(s, InUse))
  /\ UNCHANGED <<lockVars, home, reports, usage, cleaner, nodes>>

LeaveLook(n) ==
  LET s == job[n].sid IN
  /\ job[n].pc = "look"
  /\ \E m \in job[n].todo :
       Step(n, IF usage[m][s] = None THEN Leaving(s, job[n].todo \ {m})
               ELSE [job[n] EXCEPT !.pc = "put", !.model = m, !.todo = @ \ {m},
                                   !.seen[m] = [usage[m] EXCEPT ![s] = None]])
  /\ UNCHANGED <<lockVars, clients, usage, cleaner, nodes>>

\* A KeyError leaves the other models, and the notes, as they are.
LeavePut(n) ==
  LET m == job[n].model IN
  /\ job[n].pc = "put"
  /\ Put(n, m, job[n].seen[m], Leaving(job[n].sid, job[n].todo), Idle)
  /\ UNCHANGED <<lockVars, clients, cleaner, nodes>>

-----------------------------------------------------------------------------
(* periodic_usage_pool_cleanup                                             *)

\* Mutant of CleanerAcquire: one retry only.
CleanerAcquireOnce(n) ==
  /\ cleaner[n].pc = "acquire" /\ cleaner[n].wait = 0 /\ Free(n)
  /\ \/ /\ AcquireSucceeds(n)
        /\ cleaner' = [cleaner EXCEPT ![n] = [Off EXCEPT !.pc = "clean"]]
        /\ Step(n, [Idle EXCEPT !.pc = "renew"])
     \/ /\ AcquireFails
        /\ cleaner' = [cleaner EXCEPT ![n] =
                         IF cleaner[n].attempt < 1
                         THEN [cleaner[n] EXCEPT !.attempt = @ + 1, !.wait = cleaner[n].delay]
                         ELSE Off]
        /\ UNCHANGED job
  /\ UNCHANGED <<clients, usage, nodes>>

\* The lock is tried again after a delay, and then given up.
CleanerAcquire(n) ==
  /\ cleaner[n].pc = "acquire" /\ cleaner[n].wait = 0 /\ Free(n)
  /\ \/ /\ AcquireSucceeds(n)
        /\ cleaner' = [cleaner EXCEPT ![n] = [Off EXCEPT !.pc = "clean"]]
        /\ Step(n, [Idle EXCEPT !.pc = "renew"])
     \/ /\ AcquireFails
        /\ cleaner' = [cleaner EXCEPT ![n] =
                         IF cleaner[n].attempt < MaxRetries
                         THEN [cleaner[n] EXCEPT !.attempt = @ + 1, !.wait = cleaner[n].delay]
                         ELSE Off]
        /\ UNCHANGED job
  /\ UNCHANGED <<clients, usage, nodes>>

\* After acquiring the lock, and after every sleep.  Without the lock an
\* exception ends the cleanup.
CleanerRenew(n) ==
  /\ \/ job[n].pc = "renew"
     \/ Free(n) /\ cleaner[n].pc = "clean" /\ cleaner[n].wait = 0
  /\ \/ RenewSucceeds(n) /\ Step(n, [Idle EXCEPT !.pc = "all"])
     \/ RenewFails /\ Step(n, [Idle EXCEPT !.pc = "release"])
  /\ UNCHANGED <<clients, usage, cleaner, nodes>>

\* HGETALL.
CleanerAll(n) ==
  /\ job[n].pc = "all"
  /\ Step(n, [Idle EXCEPT !.pc = "clean", !.todo = InUse, !.seen = usage])
  /\ UNCHANGED <<lockVars, clients, usage, cleaner, nodes>>

Unexpired(c) == [s \in Session |-> IF c[s] \in {0, 1} THEN c[s] ELSE None]

\* Mutant of CleanerPut: only the sessions of the cleaner's own process.
CleanerPutOwn(n) ==
  /\ job[n].pc = "clean"
  /\ \E m \in job[n].todo :
       LET c == job[n].seen[m] IN
       Put(n, m, [s \in Session |-> IF home[s] = n THEN Unexpired(c)[s] ELSE c[s]],
           [job[n] EXCEPT !.todo = @ \ {m}], [Idle EXCEPT !.pc = "release"])
  /\ UNCHANGED <<lockVars, clients, cleaner, nodes>>

\* The sessions of a model that have not reported in time are removed.
CleanerPut(n) ==
  /\ job[n].pc = "clean"
  /\ \E m \in job[n].todo :
       Put(n, m, Unexpired(job[n].seen[m]),
           [job[n] EXCEPT !.todo = @ \ {m}], [Idle EXCEPT !.pc = "release"])
  /\ UNCHANGED <<lockVars, clients, cleaner, nodes>>

CleanerSleep(n) ==
  /\ job[n].pc = "clean" /\ job[n].todo = {}
  /\ Step(n, Idle)
  /\ cleaner' = [cleaner EXCEPT ![n].wait = 1]
  /\ UNCHANGED <<lockVars, clients, usage, nodes>>

\* finally: release_lock.
CleanerRelease(n) ==
  /\ job[n].pc = "release"
  /\ Step(n, IF holder = n THEN [Idle EXCEPT !.pc = "unlock"] ELSE Idle)
  /\ cleaner' = [cleaner EXCEPT ![n] = Off]
  /\ UNCHANGED <<lockVars, clients, usage, nodes>>

CleanerUnlock(n) ==
  /\ job[n].pc = "unlock"
  /\ DeleteLock
  /\ Step(n, Idle)
  /\ UNCHANGED <<clients, usage, cleaner, nodes>>

-----------------------------------------------------------------------------
(* Processes and time                                                      *)

\* lifespan schedules the cleanup, whose retry_delay is between a half and the
\* whole of the lock's timeout.
Start(n) ==
  /\ ~up[n]
  /\ up' = [up EXCEPT ![n] = TRUE]
  /\ \E d \in 1..LockTimeout :
       /\ 2 * d >= LockTimeout
       /\ cleaner' = [cleaner EXCEPT ![n] = [Off EXCEPT !.pc = "acquire", !.delay = d]]
  /\ UNCHANGED <<lockVars, clients, usage, job, crashes>>

\* Its lock and the usage of its sessions stay.
Crash(n) ==
  /\ up[n] /\ crashes < MaxCrashes
  /\ crashes' = crashes + 1
  /\ up' = [up EXCEPT ![n] = FALSE]
  /\ Step(n, Idle)
  /\ cleaner' = [cleaner EXCEPT ![n] = Off]
  /\ Abandon(n)
  /\ conn' = [s \in Session |-> IF home[s] = n THEN "closed" ELSE conn[s]]
  /\ home' = [s \in Session |-> IF home[s] = n THEN None ELSE home[s]]
  /\ UNCHANGED <<usage, reports>>

Older(c) == [s \in Session |-> IF c[s] \in {0, 1} THEN c[s] + 1 ELSE c[s]]

Tick ==
  /\ \A n \in Node : job[n].pc = "idle" /\ (cleaner[n].pc = "off" \/ cleaner[n].wait > 0)
  /\ LockTick
  /\ usage' = [m \in Model |-> Older(usage[m])]
  /\ cleaner' = [n \in Node |-> IF cleaner[n].pc = "off" THEN Off ELSE [cleaner[n] EXCEPT !.wait = @ - 1]]
  /\ UNCHANGED <<clients, job, nodes>>

-----------------------------------------------------------------------------
Continue(n) ==
  \/ ReportGet(n) \/ ReportSet(n) \/ LeaveLook(n) \/ LeavePut(n)
  \/ CleanerAll(n) \/ CleanerPut(n) \/ CleanerSleep(n) \/ CleanerRelease(n) \/ CleanerUnlock(n)

Next ==
  \/ \E s \in Session, n \in Node : Connect(s, n)
  \/ \E s \in Session, m \in Model : Report(s, m)
  \/ \E s \in Session : Disconnect(s)
  \/ \E n \in Node : CleanerAcquire(n) \/ CleanerRenew(n) \/ Continue(n) \/ Start(n) \/ Crash(n)
  \/ Tick

Spec == Init /\ [][Next]_vars

\* Jobs go on, sleeps end and time passes; processes and clients are free.
FairSpec ==
  /\ Spec
  /\ \A n \in Node : WF_vars(Continue(n)) /\ SF_vars(CleanerAcquire(n) \/ CleanerRenew(n))
  /\ WF_vars(Tick)

-----------------------------------------------------------------------------
(* Properties                                                              *)

\* The connections that the process n is about to write are not the latest.
StaleWrite(n, m) ==
  \/ job[n].pc = "set" /\ job[n].model = m /\ job[n].seen[m] # usage[m]
  \/ job[n].pc = "put" /\ job[n].model = m /\ \E t \in Session \ {job[n].sid} : job[n].seen[m][t] # usage[m][t]
  \/ job[n].pc = "clean" /\ m \in job[n].todo /\ job[n].seen[m] # usage[m]

\* A connected session that has just reported stays listed (main.py:323), and
\* what disconnect has removed (main.py:767) does not come back with a late
\* event, unless a process writes back connections it read before another wrote.
ChangedOnlyByStaleWrites ==
  [][\A s \in Session, m \in Model :
       LET lost == conn[s] = "open" /\ conn'[s] = "open" /\ usage[m][s] \in {0, 1} /\ usage'[m][s] = None
           back == conn[s] = "closed" /\ usage[m][s] = None /\ usage'[m][s] # None
       IN  lost \/ back => \E n \in Node : job'[n] # job[n] /\ StaleWrite(n, m)]_vars

Cleaning == {n \in Node : cleaner[n].pc = "clean"}

\* Usage that is not reported again is removed (main.py:221), whoever left it
\* there, unless no process cleans.
UsageExpires ==
  \A s \in Session, m \in Model :
    conn[s] = "closed" /\ usage[m][s] # None ~> usage[m][s] = None \/ Cleaning = {}

\* A process that starts after the last crash, while the lock of the process
\* that cleaned has not expired, waits for it long enough (main.py:198).
RestartCleans ==
  \A n \in Node :
    crashes = MaxCrashes /\ holder = Gone /\ cleaner[n].pc = "acquire" /\ cleaner[n].attempt = 0
      ~> Cleaning # {}

=============================================================================
