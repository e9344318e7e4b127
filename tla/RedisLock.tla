----------------------------- MODULE RedisLock ------------------------------
(***************************************************************************)
(* class RedisLock of socket/utils.py: a Redis key with an expiry time that *)
(* holds the lock_id of a process.  Every process has a fresh lock_id, so  *)
(* the id of a crashed process is nobody's any more.                       *)
(***************************************************************************)
EXTENDS Naturals

CONSTANTS
  Node,         \* server processes
  LockTimeout,  \* timeout_secs, in ticks
  None,         \* the key does not exist
  Gone          \* the key holds the id of a process that has crashed

ASSUME LockAssumption ==
  /\ LockTimeout \in Nat \ {0}
  /\ None \notin Node /\ Gone \notin Node /\ None # Gone

VARIABLES
  holder,  \* whose lock_id the key holds
  ttl      \* ticks until the key expires

lockVars == <<holder, ttl>>

LockTypeOK ==
  /\ holder \in Node \cup {None, Gone}
  /\ ttl \in 0..LockTimeout

LockInit == holder = None /\ ttl = 0

\* Mutant of Take: the expiry time is given in a smaller unit.
TakeMillis(n) == holder' = n /\ ttl' = 1000 * LockTimeout

\* SET of the key with the expiry time.
Take(n) == holder' = n /\ ttl' = LockTimeout

\* Mutant of AcquireSucceeds: SET without NX.
AcquireAlways(n) == Take(n)

\* SET ... NX: aquire_lock succeeds when the key does not exist.
AcquireSucceeds(n) == holder = None /\ Take(n)

AcquireFails == holder # None /\ UNCHANGED lockVars

\* SET ... XX: renew_lock succeeds when the key exists, whosever it is.
RenewSucceeds(n) == holder # None /\ Take(n)

RenewFails == holder = None /\ UNCHANGED lockVars

\* The second command of release_lock.
DeleteLock == holder' = None /\ ttl' = 0

\* The process n has crashed.
Abandon(n) == holder' = (IF holder = n THEN Gone ELSE holder) /\ UNCHANGED ttl

\* Time passes: the key expires when its time is up.
LockTick ==
  IF ttl <= 1 THEN holder' = None /\ ttl' = 0
  ELSE UNCHANGED holder /\ ttl' = ttl - 1

=============================================================================
