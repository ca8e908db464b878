------------------------------- MODULE Svcond -------------------------------
(***************************************************************************)
(* libmba's svcond: a condition variable in shared memory, built from      *)
(* three System V semaphores and two counters (src/svcond.c), and the      *)
(* clients that lock, wait, signal and broadcast.                          *)
(*                                                                         *)
(* Every step is one semaphore operation or one access to a shared         *)
(* counter.  A System V semop that sleeps may also fail with EINTR when    *)
(* the process handles a Unix signal; Intr is the set of call sites at     *)
(* which that can happen in a behaviour.                                   *)
(*                                                                         *)
(* A definition X_slip is a mistake that X could contain; no behaviour of  *)
(* the model uses it.  It serves to see that the properties would notice.  *)
(***************************************************************************)
EXTENDS Integers, FiniteSets

CONSTANTS Procs,          \* processes that share the condition variable
          None,           \* no process (used by the refinement mapping)
          Intr,           \* call sites at which a semop may return EINTR
          InitCounters,   \* what the two counters may hold after create
          SemMax,         \* SEMVMX: a post beyond it fails with ERANGE
          CountBound      \* model bound: no new call once a counter, after an
                          \* unsafe interrupt, has drifted further from 0

(* The semops of svcond.c that can block, by call site: blocked_lock,      *)
(* block_queue and unblock_lock in svcond_wait, unblock_lock and           *)
(* blocked_lock in _svcond_signal.                                         *)
IntrSites == {"w_gate", "w_queue", "w_unblock", "s_unblock", "s_gate"}

(* The sites at which svcond.c backs out without losing anything. *)
SafeSites == {"w_gate", "s_unblock"}

ASSUME SvcondAssumption == /\ IsFiniteSet(Procs)
                           /\ None \notin Procs
                           /\ Intr \subseteq IntrSites
                           /\ InitCounters \subseteq Int
                           /\ SemMax \in Nat
                           /\ CountBound \in Nat

VARIABLES
  lock,              \* value of the caller's lock, an svsem used as a mutex
  blockedLock,       \* value of cond->blocked_lock, the gate
  blockQueue,        \* value of cond->block_queue
  unblockLock,       \* value of cond->unblock_lock
  waitersBlocked,    \* cond->waiters_blocked
  waitersToUnblock,  \* cond->waiters_to_unblock
  pc,                \* next step of each process
  home,              \* state a signalling process returns to
  bcast,             \* the broadcast argument of _svcond_signal
  tmp,               \* waiters_blocked as loaded by ++ or --
  signalsLeft,       \* signals_left in svcond_wait
  signalsToIssue     \* signals_to_issue in _svcond_signal

sems     == <<lock, blockedLock, blockQueue, unblockLock>>
counters == <<waitersBlocked, waitersToUnblock>>
locals   == <<home, bcast, tmp, signalsLeft, signalsToIssue>>
vars     == <<lock, blockedLock, blockQueue, unblockLock, waitersBlocked,
              waitersToUnblock, pc, home, bcast, tmp, signalsLeft,
              signalsToIssue>>

WaitSteps   == {"w_gate", "w_load", "w_inc", "w_ungate", "w_unlock", "w_queue",
                "i_load", "i_dec", "w_unblock", "w_count", "w_release",
                "w_open", "w_relock"}
SignalSteps == {"s_unblock", "s_check", "s_add", "s_gate", "s_first",
                "s_unlock", "s_post"}
Steps       == {"idle", "held"} \cup WaitSteps \cup SignalSteps

-----------------------------------------------------------------------------
(* The condition variable just after svcond_create: three semaphores from  *)
(* a pool whose initial value is 1, and block_queue set to 0.              *)
Init == /\ lock = 1
        /\ blockedLock = 1
        /\ blockQueue = 0
        /\ unblockLock = 1
        /\ waitersBlocked \in InitCounters
        /\ waitersToUnblock \in InitCounters
        /\ pc = [p \in Procs |-> "idle"]
        /\ home = [p \in Procs |-> "idle"]
        /\ bcast = [p \in Procs |-> FALSE]
        /\ tmp = [p \in Procs |-> 0]
        /\ signalsLeft = [p \in Procs |-> 0]
        /\ signalsToIssue = [p \in Procs |-> 0]

Go(p, from, to) == /\ pc[p] = from
                   /\ pc' = [pc EXCEPT ![p] = to]

(* semop(-1): blocks while the value is 0; semop(+1) never blocks. *)
SemWait(s) == s > 0 /\ s' = s - 1
SemPost(s) == s' = s + 1

-----------------------------------------------------------------------------
(* The client's lock.  svsem_wait on it is retried on EINTR (or fails      *)
(* without effect), which changes nothing.                                 *)
Lock(p) == /\ Go(p, "idle", "held")
           /\ SemWait(lock)
           /\ UNCHANGED <<blockedLock, blockQueue, unblockLock, counters, locals>>

Unlock(p) == /\ Go(p, "held", "idle")
             /\ SemPost(lock)
             /\ UNCHANGED <<blockedLock, blockQueue, unblockLock, counters, locals>>

-----------------------------------------------------------------------------
(* Always so while the counters are right and CountBound >= |Procs|. *)
Bounded == /\ {waitersBlocked, waitersToUnblock} \subseteq -CountBound .. CountBound
           /\ blockedLock <= 1 + CountBound

(* svcond_wait(cond, sem), called with the lock held. *)
CallWait(p) == /\ Bounded
               /\ Go(p, "held", "w_gate")
               /\ UNCHANGED <<sems, counters, locals>>

WGate(p) == /\ Go(p, "w_gate", "w_load")
            /\ SemWait(blockedLock)
            /\ UNCHANGED <<lock, blockQueue, unblockLock, counters, locals>>

WGateIntr(p) == /\ "w_gate" \in Intr /\ blockedLock = 0
                /\ Go(p, "w_gate", "held")
                /\ UNCHANGED <<sems, counters, locals>>

(* cond->waiters_blocked++ is a load and a store. *)
WLoad(p) == /\ Go(p, "w_load", "w_inc")
            /\ tmp' = [tmp EXCEPT ![p] = waitersBlocked]
            /\ UNCHANGED <<sems, counters, home, bcast, signalsLeft, signalsToIssue>>

WInc(p) == /\ Go(p, "w_inc", "w_ungate")
           /\ waitersBlocked' = tmp[p] + 1
           /\ tmp' = [tmp EXCEPT ![p] = 0]
           /\ UNCHANGED <<sems, waitersToUnblock, home, bcast, signalsLeft, signalsToIssue>>

WUngate(p) == /\ Go(p, "w_ungate", "w_unlock")
              /\ SemPost(blockedLock)
              /\ UNCHANGED <<lock, blockQueue, unblockLock, counters, locals>>

WUnlock(p) == /\ Go(p, "w_unlock", "w_queue")
              /\ SemPost(lock)
              /\ UNCHANGED <<blockedLock, blockQueue, unblockLock, counters, locals>>

WQueue(p) == /\ Go(p, "w_queue", "w_unblock")
             /\ SemWait(blockQueue)
             /\ UNCHANGED <<lock, blockedLock, unblockLock, counters, locals>>

WQueueIntr_slip(p) == /\ "w_queue" \in Intr /\ blockQueue = 0  \* no relock
                      /\ Go(p, "w_queue", "held")
                      /\ UNCHANGED <<sems, counters, locals>>

(* EINTR while queued: waiters_blocked-- with no lock held, then relock. *)
WQueueIntr(p) == /\ "w_queue" \in Intr /\ blockQueue = 0
                 /\ Go(p, "w_queue", "i_load")
                 /\ UNCHANGED <<sems, counters, locals>>

ILoad(p) == /\ Go(p, "i_load", "i_dec")
            /\ tmp' = [tmp EXCEPT ![p] = waitersBlocked]
            /\ UNCHANGED <<sems, counters, home, bcast, signalsLeft, signalsToIssue>>

IDec(p) == /\ Go(p, "i_dec", "w_relock")
           /\ waitersBlocked' = tmp[p] - 1
           /\ tmp' = [tmp EXCEPT ![p] = 0]
           /\ UNCHANGED <<sems, waitersToUnblock, home, bcast, signalsLeft, signalsToIssue>>

WUnblock(p) == /\ Go(p, "w_unblock", "w_count")
               /\ SemWait(unblockLock)
               /\ UNCHANGED <<lock, blockedLock, blockQueue, counters, locals>>

WUnblockIntr(p) == /\ "w_unblock" \in Intr /\ unblockLock = 0
                   /\ Go(p, "w_unblock", "w_relock")
                   /\ UNCHANGED <<sems, counters, locals>>

(* if ((signals_left = waiters_to_unblock)) waiters_to_unblock--; *)
Uncount(n) == IF n # 0 THEN n - 1 ELSE n

WCount(p) == /\ Go(p, "w_count", "w_release")
             /\ signalsLeft' = [signalsLeft EXCEPT ![p] = waitersToUnblock]
             /\ waitersToUnblock' = Uncount(waitersToUnblock)
             /\ UNCHANGED <<sems, waitersBlocked, home, bcast, tmp, signalsToIssue>>

AfterRelease_slip(left) == IF left >= 1 THEN "w_open" ELSE "w_relock"

(* The waiter that took the last outstanding signal opens the gate. *)
AfterRelease(left) == IF left = 1 THEN "w_open" ELSE "w_relock"

WRelease(p) == /\ Go(p, "w_release", AfterRelease(signalsLeft[p]))
               /\ SemPost(unblockLock)
               /\ signalsLeft' = [signalsLeft EXCEPT ![p] = 0]
               /\ UNCHANGED <<lock, blockedLock, blockQueue, counters,
                              home, bcast, tmp, signalsToIssue>>

WOpen(p) == /\ Go(p, "w_open", "w_relock")
            /\ SemPost(blockedLock)
            /\ UNCHANGED <<lock, blockQueue, unblockLock, counters, locals>>

(* EINTR here is retried: while (svsem_wait(sem) == -1). *)
WRelock(p) == /\ Go(p, "w_relock", "held")
              /\ SemWait(lock)
              /\ UNCHANGED <<blockedLock, blockQueue, unblockLock, counters, locals>>

-----------------------------------------------------------------------------
(* svcond_signal and svcond_broadcast, with or without the lock. *)
CallSignal(p) == /\ Bounded
                 /\ \E h \in {"idle", "held"} :
                       /\ Go(p, h, "s_unblock")
                       /\ home' = [home EXCEPT ![p] = h]
                 /\ \E b \in BOOLEAN : bcast' = [bcast EXCEPT ![p] = b]
                 /\ UNCHANGED <<sems, counters, tmp, signalsLeft, signalsToIssue>>

SUnblock(p) == /\ Go(p, "s_unblock", "s_check")
               /\ SemWait(unblockLock)
               /\ UNCHANGED <<lock, blockedLock, blockQueue, counters, locals>>

SUnblockIntr(p) == /\ "s_unblock" \in Intr /\ unblockLock = 0
                   /\ Go(p, "s_unblock", home[p])
                   /\ UNCHANGED <<sems, counters, locals>>

(* Which branch of _svcond_signal is taken; waiters_blocked is read here   *)
(* without blocked_lock when the gate is open.                             *)
Branch(toUnblock, blocked) ==
  IF blocked = 0 THEN "s_unlock" ELSE IF toUnblock # 0 THEN "s_add" ELSE "s_gate"

SCheck_slip(p) ==      \* waits for the last group with unblock_lock held
  /\ Go(p, "s_check", IF waitersToUnblock # 0 THEN "s_check"
                     ELSE Branch(waitersToUnblock, waitersBlocked))
  /\ UNCHANGED <<sems, counters, locals>>

SCheck(p) == /\ Go(p, "s_check", Branch(waitersToUnblock, waitersBlocked))
             /\ UNCHANGED <<sems, counters, locals>>

ToWake_slip(p, blocked) == 1   \* a broadcast wakes one

(* How many of the blocked waiters this call wakes. *)
ToWake(p, blocked) == IF bcast[p] THEN blocked ELSE 1

SAdd_slip(p) == /\ Go(p, "s_add", "s_unlock")   \* = where += is meant
                /\ LET n == ToWake(p, waitersBlocked)
                   IN  /\ signalsToIssue' = [signalsToIssue EXCEPT ![p] = n]
                       /\ waitersToUnblock' = n
                       /\ waitersBlocked' = waitersBlocked - n
                /\ UNCHANGED <<sems, home, bcast, tmp, signalsLeft>>

(* The gate is already closed: wake more waiters of the same group. *)
SAdd(p) == /\ Go(p, "s_add", "s_unlock")
           /\ LET n == ToWake(p, waitersBlocked)
              IN  /\ signalsToIssue' = [signalsToIssue EXCEPT ![p] = n]
                  /\ waitersToUnblock' = waitersToUnblock + n
                  /\ waitersBlocked' = waitersBlocked - n
           /\ UNCHANGED <<sems, home, bcast, tmp, signalsLeft>>

SGate_slip(p) == /\ Go(p, "s_gate", "s_first")   \* does not take the gate
                 /\ UNCHANGED <<sems, counters, locals>>

(* Close the gate, so that nobody joins the group being woken. *)
SGate(p) == /\ Go(p, "s_gate", "s_first")
            /\ SemWait(blockedLock)
            /\ UNCHANGED <<lock, blockQueue, unblockLock, counters, locals>>

(* EINTR at the gate: return -1, unblock_lock stays taken. *)
SGateIntr(p) == /\ "s_gate" \in Intr /\ blockedLock = 0
                /\ Go(p, "s_gate", home[p])
                /\ UNCHANGED <<sems, counters, locals>>

SFirst_slip(p) == /\ Go(p, "s_first", "s_unlock")   \* = 0 in both branches
                  /\ LET n == ToWake(p, waitersBlocked)
                     IN  /\ signalsToIssue' = [signalsToIssue EXCEPT ![p] = n]
                         /\ waitersToUnblock' = n
                         /\ waitersBlocked' = 0
                  /\ UNCHANGED <<sems, home, bcast, tmp, signalsLeft>>

SFirst(p) == /\ Go(p, "s_first", "s_unlock")
             /\ LET n == ToWake(p, waitersBlocked)
                IN  /\ signalsToIssue' = [signalsToIssue EXCEPT ![p] = n]
                    /\ waitersToUnblock' = n
                    /\ waitersBlocked' = waitersBlocked - n
             /\ UNCHANGED <<sems, home, bcast, tmp, signalsLeft>>

SUnlock(p) == /\ Go(p, "s_unlock", IF signalsToIssue[p] = 0 THEN home[p] ELSE "s_post")
              /\ SemPost(unblockLock)
              /\ UNCHANGED <<lock, blockedLock, blockQueue, counters, locals>>

(* svsem_post_multiple: while (count--), one semop per signal.  A negative *)
(* count runs through the whole range of int; it is kept as it is, the     *)
(* loop posting until the value is SemMax and failing from then on.        *)
SPost(p) == /\ Go(p, "s_post", IF signalsToIssue[p] = 1 THEN home[p] ELSE "s_post")
            /\ blockQueue' = IF blockQueue < SemMax THEN blockQueue + 1 ELSE blockQueue
            /\ signalsToIssue' = [signalsToIssue EXCEPT ![p] = IF @ > 0 THEN @ - 1 ELSE @]
            /\ UNCHANGED <<lock, blockedLock, unblockLock, counters,
                           home, bcast, tmp, signalsLeft>>

-----------------------------------------------------------------------------
(* Not a deadlock: everybody waits, and nobody is left to signal. *)
AllWait == /\ \A p \in Procs : pc[p] = "w_queue"
           /\ blockQueue = 0
           /\ UNCHANGED vars

ClientStep(p) == Lock(p) \/ Unlock(p) \/ CallWait(p) \/ CallSignal(p)

WaitStep(p) == \/ WGate(p) \/ WLoad(p) \/ WInc(p) \/ WUngate(p) \/ WUnlock(p)
               \/ WQueue(p) \/ WUnblock(p) \/ WCount(p) \/ WRelease(p)
               \/ WOpen(p) \/ WRelock(p) \/ ILoad(p) \/ IDec(p)

SignalStep(p) == \/ SUnblock(p) \/ SCheck(p) \/ SAdd(p) \/ SGate(p)
                 \/ SFirst(p) \/ SUnlock(p) \/ SPost(p)

IntrStep(p) == \/ WGateIntr(p) \/ WQueueIntr(p) \/ WUnblockIntr(p)
               \/ SUnblockIntr(p) \/ SGateIntr(p)

Next == \/ \E p \in Procs : ClientStep(p) \/ WaitStep(p) \/ SignalStep(p) \/ IntrStep(p)
        \/ AllWait

Spec == Init /\ [][Next]_vars

(* Inside the library no process stops, and a System V semaphore serves    *)
(* its sleepers in order, so a semop that can proceed again and again does *)
(* proceed (a process has one next step, hence one SF for all its steps).  *)
(* A client that has the lock again and again lets it go again.            *)
Fairness == \A p \in Procs : /\ SF_vars(WaitStep(p) \/ SignalStep(p))
                             /\ SF_vars(Unlock(p) \/ CallWait(p))

FairSpec == Spec /\ Fairness

-----------------------------------------------------------------------------
(* The types.  The two mutexes never exceed one; a counter that an unsafe  *)
(* interrupt has spoilt may be negative.                                   *)
TypeOK == /\ lock \in {0, 1}
          /\ unblockLock \in {0, 1}
          /\ blockedLock \in Nat
          /\ blockQueue \in Nat
          /\ waitersBlocked \in Int
          /\ waitersToUnblock \in Int
          /\ pc \in [Procs -> Steps]
          /\ home \in [Procs -> {"idle", "held"}]
          /\ bcast \in [Procs -> BOOLEAN]
          /\ tmp \in [Procs -> Int]
          /\ signalsLeft \in [Procs -> Int]
          /\ signalsToIssue \in [Procs -> Int]

HasLock(p) == \/ pc[p] \in {"held", "w_gate", "w_load", "w_inc", "w_ungate", "w_unlock"}
              \/ pc[p] \in SignalSteps /\ home[p] = "held"

HasUnblock(p) == pc[p] \in {"w_count", "w_release", "s_check", "s_add", "s_gate",
                            "s_first", "s_unlock"}

(* A waiter that has to open the gate has it; so has one that is joining,  *)
(* and a signaller that has just closed it.                                *)
HasGate(p) == \/ pc[p] \in {"w_load", "w_inc", "w_ungate", "s_first", "w_open"}
              \/ pc[p] = "w_release" /\ signalsLeft[p] = 1

(* Blocked on the condition variable: svcond_wait has counted the process  *)
(* in and the process has not counted itself out.                          *)
Counted(p) == pc[p] \in {"w_ungate", "w_unlock", "w_queue", "w_unblock", "w_count"}

AtMostOne(P(_)) == \A p, q \in Procs : P(p) /\ P(q) => p = q

(* The caller's lock stays a mutex: a process that returns from            *)
(* svcond_wait, after a wake-up or after any EINTR, has taken it again     *)
(* (svcond.html: "but not before reaquiring lock").                        *)
LockMutex == AtMostOne(HasLock) /\ (lock = 1 => \A p \in Procs : ~HasLock(p))

(* waiters_to_unblock is read and written by one process at a time, even   *)
(* when a call is interrupted anywhere (unblock_lock, lines 127-139 and    *)
(* 159-198).                                                               *)
UnblockExclusive == /\ AtMostOne(HasUnblock)
                    /\ unblockLock = 1 => \A p \in Procs : ~HasUnblock(p)

(* The two locks hold whatever is interrupted.                             *)
MutexesHold == LockMutex /\ UnblockExclusive

WritesBlocked(p) == pc[p] \in {"w_load", "w_inc", "s_add", "s_first"}

(* waiters_blocked is written under two different locks, blocked_lock in   *)
(* svcond_wait and unblock_lock in _svcond_signal; still no ++ ever runs   *)
(* beside another ++ or beside a signaller's subtraction.                  *)
BlockedWritesExclusive == AtMostOne(WritesBlocked)

(* While a signalled group is being woken the gate is shut and nobody is   *)
(* on the way in: a late comer cannot take a wake-up meant for the group.  *)
GateClosed == waitersToUnblock > 0 => blockedLock = 0 /\ \A p \in Procs : ~HasGate(p)

CountedIn == {p \in Procs : Counted(p)}

(* The two counters together are the number of blocked processes: the      *)
(* books balance at every step, not only when nobody is inside a call.     *)
WaitersCounted ==
  waitersBlocked + waitersToUnblock = Cardinality(CountedIn)

ToIssue == UNION {{p} \X (1 .. signalsToIssue[p]) :
                    p \in {q \in Procs : pc[q] \in {"s_unlock", "s_post"}}}

Leaving == {p \in Procs : pc[p] \in {"w_unblock", "w_count"}}

(* Every wake-up that was granted and not yet used is somewhere: still to  *)
(* be posted by a signaller, in block_queue, or with a waiter that has     *)
(* passed block_queue and not yet counted itself out.                      *)
TokensConserved ==
  waitersToUnblock = blockQueue + Cardinality(ToIssue) + Cardinality(Leaving)

(* So no wake-up is lost or made up, and none goes to a process that is    *)
(* not counted.                                                            *)
BooksBalance == WaitersCounted /\ TokensConserved

-----------------------------------------------------------------------------
(* A broadcast (or enough signals) wakes everybody who was waiting:        *)
(* a process asleep when no waiter is left unsignalled returns with the    *)
(* lock.                                                                   *)
Wakes(p) == pc[p] = "w_queue" /\ waitersBlocked = 0 ~> pc[p] = "held"

(* Nobody hangs at the gate or at unblock_lock: svcond_wait gets to sleep, *)
(* giving up the lock it was called with, and svcond_signal and            *)
(* svcond_broadcast return.                                                *)
Proceeds(p) == pc[p] \in {"w_gate", "s_unblock"} ~> pc[p] \in {"w_queue", "idle", "held"}

-----------------------------------------------------------------------------
(* The refinement mapping.  A waiter is blocked from the store of          *)
(* waiters_blocked++ until it counts itself out of waiters_to_unblock; a   *)
(* signal takes effect where it moves the counters, or where it finds      *)
(* nobody to wake.                                                         *)
AbsState(p) ==
  CASE pc[p] \in {"idle", "held"}                   -> "run"
    [] pc[p] \in {"w_gate", "w_load", "w_inc"}      -> "wait"
    [] Counted(p) \/ pc[p] \in {"i_load", "i_dec"}  -> "blocked"
    [] pc[p] \in {"w_release", "w_open", "w_relock"} -> "woken"
    [] pc[p] \in {"s_unlock", "s_post"}             -> "done"
    [] OTHER -> IF bcast[p] THEN "broadcast" ELSE "signal"

AbsOwner == IF \E p \in Procs : HasLock(p) THEN CHOOSE p \in Procs : HasLock(p) ELSE None

CV == INSTANCE CondVar WITH owner   <- AbsOwner,
                            state   <- [p \in Procs |-> AbsState(p)],
                            permits <- waitersToUnblock

(* svcond implements the abstract condition variable.                      *)
CVSpec == CV!Spec
=============================================================================
