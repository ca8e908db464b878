---------------------------- MODULE Svcond_proofs ----------------------------
(***************************************************************************)
(* Proofs about Svcond, for any set of processes.                          *)
(***************************************************************************)
EXTENDS Svcond, FiniteSetTheorems, TLAPS

(* The mutual exclusion part is inductive by itself, wherever interrupts   *)
(* strike.                                                                 *)
MutexInv == TypeOK /\ LockMutex /\ UnblockExclusive

LEMMA MutexInit == Init => MutexInv
  BY SvcondAssumption
     DEF Init, MutexInv, TypeOK, LockMutex, UnblockExclusive, AtMostOne, HasLock,
         HasUnblock, Steps, WaitSteps, SignalSteps

LEMMA MutexClient ==
  ASSUME MutexInv, NEW p \in Procs, ClientStep(p)
  PROVE  MutexInv'
<1> USE DEF MutexInv, TypeOK, LockMutex, UnblockExclusive, AtMostOne, HasLock,
            HasUnblock, Steps, WaitSteps, SignalSteps, Go, SemWait, SemPost,
            sems, counters, locals
<1>1. CASE Lock(p)
  BY <1>1 DEF Lock
<1>2. CASE Unlock(p)
  BY <1>2 DEF Unlock
<1>3. CASE CallWait(p)
  BY <1>3 DEF CallWait
<1>4. CASE CallSignal(p)
  BY <1>4 DEF CallSignal
<1> QED BY <1>1, <1>2, <1>3, <1>4 DEF ClientStep

LEMMA MutexWait ==
  ASSUME MutexInv, NEW p \in Procs, WaitStep(p)
  PROVE  MutexInv'
<1> USE DEF MutexInv, TypeOK, LockMutex, UnblockExclusive, AtMostOne, HasLock,
            HasUnblock, Steps, WaitSteps, SignalSteps, Go, SemWait, SemPost,
            sems, counters, locals
<1>1. CASE WGate(p)
  BY <1>1 DEF WGate
<1>2. CASE WLoad(p)
  BY <1>2 DEF WLoad
<1>3. CASE WInc(p)
  BY <1>3 DEF WInc
<1>4. CASE WUngate(p)
  BY <1>4 DEF WUngate
<1>5. CASE WUnlock(p)
  BY <1>5 DEF WUnlock
<1>6. CASE WQueue(p)
  BY <1>6 DEF WQueue
<1>7. CASE WUnblock(p)
  BY <1>7 DEF WUnblock
<1>8. CASE WCount(p)
  BY <1>8 DEF WCount, Uncount
<1>9. CASE WRelease(p)
  BY <1>9 DEF WRelease, AfterRelease
<1>10. CASE WOpen(p)
  BY <1>10 DEF WOpen
<1>11. CASE WRelock(p)
  BY <1>11 DEF WRelock
<1>12. CASE ILoad(p)
  BY <1>12 DEF ILoad
<1>13. CASE IDec(p)
  BY <1>13 DEF IDec
<1> QED BY <1>1, <1>2, <1>3, <1>4, <1>5, <1>6, <1>7, <1>8, <1>9, <1>10, <1>11, <1>12, <1>13 DEF WaitStep

LEMMA MutexSignal ==
  ASSUME MutexInv, NEW p \in Procs, SignalStep(p)
  PROVE  MutexInv'
<1> USE DEF MutexInv, TypeOK, LockMutex, UnblockExclusive, AtMostOne, HasLock,
            HasUnblock, Steps, WaitSteps, SignalSteps, Go, SemWait, SemPost,
            sems, counters, locals
<1>1. CASE SUnblock(p)
  BY <1>1 DEF SUnblock
<1>2. CASE SCheck(p)
  BY <1>2 DEF SCheck, Branch
<1>3. CASE SAdd(p)
  BY <1>3 DEF SAdd, ToWake
<1>4. CASE SGate(p)
  BY <1>4 DEF SGate
<1>5. CASE SFirst(p)
  BY <1>5 DEF SFirst, ToWake
<1>6. CASE SUnlock(p)
  BY <1>6 DEF SUnlock
<1>7. CASE SPost(p)
  BY <1>7 DEF SPost
<1> QED BY <1>1, <1>2, <1>3, <1>4, <1>5, <1>6, <1>7 DEF SignalStep

LEMMA MutexIntr ==
  ASSUME MutexInv, NEW p \in Procs, IntrStep(p)
  PROVE  MutexInv'
<1> USE DEF MutexInv, TypeOK, LockMutex, UnblockExclusive, AtMostOne, HasLock,
            HasUnblock, Steps, WaitSteps, SignalSteps, Go, SemWait, SemPost,
            sems, counters, locals
<1>1. CASE WGateIntr(p)
  BY <1>1 DEF WGateIntr
<1>2. CASE WQueueIntr(p)
  BY <1>2 DEF WQueueIntr
<1>3. CASE WUnblockIntr(p)
  BY <1>3 DEF WUnblockIntr
<1>4. CASE SUnblockIntr(p)
  BY <1>4 DEF SUnblockIntr
<1>5. CASE SGateIntr(p)
  BY <1>5 DEF SGateIntr
<1> QED BY <1>1, <1>2, <1>3, <1>4, <1>5 DEF IntrStep

LEMMA MutexNext == MutexInv /\ [Next]_vars => MutexInv'
<1> SUFFICES ASSUME MutexInv, [Next]_vars PROVE MutexInv'
  OBVIOUS
<1>1. CASE UNCHANGED vars
  BY <1>1 DEF vars, MutexInv, TypeOK, LockMutex, UnblockExclusive, AtMostOne,
              HasLock, HasUnblock
<1>2. CASE Next
  BY <1>1, <1>2, MutexClient, MutexWait, MutexSignal, MutexIntr DEF Next, AllWait
<1> QED BY <1>1, <1>2

(* svcond_wait, interrupted or not, returns with the caller's lock, that   *)
(* lock stays a mutex, and waiters_to_unblock is never read or written by  *)
(* two processes at a time.                                                *)
THEOREM LocksAreMutexes == Spec => []MutexesHold
<1>1. MutexInv => MutexesHold
  BY DEF MutexInv, MutexesHold
<1> QED BY <1>1, MutexInit, MutexNext, PTL DEF Spec

(* Every variable keeps its type, interrupts anywhere.                     *)
THEOREM TypeCorrect == Spec => []TypeOK
<1>1. MutexInv => TypeOK
  BY DEF MutexInv
<1> QED BY <1>1, MutexInit, MutexNext, PTL DEF Spec

-----------------------------------------------------------------------------
(* Interrupts only where svcond.c backs out cleanly, counters zeroed. *)
Safe == /\ Intr \subseteq SafeSites
        /\ InitCounters = {0}
        /\ Cardinality(Procs) <= SemMax

(* The gate is passed from hand to hand: blocked_lock is 1 and free, or    *)
(* exactly one process has it, or a group is being woken and nobody has it *)
(* until the last waiter of the group does.                                *)
GateInv ==
  /\ MutexInv
  /\ waitersBlocked \in Nat
  /\ waitersToUnblock \in Nat
  /\ blockedLock \in {0, 1}
  /\ AtMostOne(HasGate)
  /\ blockedLock = 1 => \A p \in Procs : ~HasGate(p)
  /\ GateClosed
  /\ \A p \in Procs :
       /\ pc[p] \notin {"i_load", "i_dec"}
       /\ pc[p] = "w_inc" => tmp[p] = waitersBlocked
       /\ pc[p] \in {"s_add", "s_gate", "s_first"} => waitersBlocked > 0
       /\ pc[p] = "s_add" => waitersToUnblock > 0
       /\ pc[p] \in {"s_gate", "s_first"} => waitersToUnblock = 0

LEMMA GateInit == Safe /\ Init => GateInv
  BY MutexInit DEF Safe, Init, GateInv, AtMostOne, HasGate, GateClosed

LEMMA GateClient ==
  ASSUME Safe, GateInv, NEW p \in Procs, ClientStep(p)
  PROVE  GateInv'
<1>0. MutexInv'
  BY MutexClient DEF GateInv
<1> USE DEF GateInv, MutexInv, TypeOK, LockMutex, UnblockExclusive, AtMostOne,
            HasUnblock, HasGate, GateClosed, Go, SemWait, SemPost, sems, counters,
            locals
<1>1. CASE Lock(p)
  BY <1>0, <1>1 DEF Lock
<1>2. CASE Unlock(p)
  BY <1>0, <1>2 DEF Unlock
<1>3. CASE CallWait(p)
  BY <1>0, <1>3 DEF CallWait
<1>4. CASE CallSignal(p)
  BY <1>0, <1>4 DEF CallSignal
<1> QED BY <1>1, <1>2, <1>3, <1>4 DEF ClientStep

LEMMA GateWait ==
  ASSUME Safe, GateInv, NEW p \in Procs, WaitStep(p)
  PROVE  GateInv'
<1>0. MutexInv'
  BY MutexWait DEF GateInv
<1> USE DEF GateInv, MutexInv, TypeOK, LockMutex, UnblockExclusive, AtMostOne,
            HasUnblock, HasGate, GateClosed, Go, SemWait, SemPost, sems, counters,
            locals
<1>1. CASE WGate(p)
  BY <1>0, <1>1 DEF WGate
<1>2. CASE WLoad(p)
  BY <1>0, <1>2 DEF WLoad
<1>3. CASE WInc(p)
  BY <1>0, <1>3 DEF WInc
<1>4. CASE WUngate(p)
  BY <1>0, <1>4 DEF WUngate
<1>5. CASE WUnlock(p)
  BY <1>0, <1>5 DEF WUnlock
<1>6. CASE WQueue(p)
  BY <1>0, <1>6 DEF WQueue
<1>7. CASE WUnblock(p)
  BY <1>0, <1>7 DEF WUnblock
<1>8. CASE WCount(p)
  BY <1>0, <1>8 DEF WCount, Uncount
<1>9. CASE WRelease(p)
  BY <1>0, <1>9 DEF WRelease, AfterRelease
<1>10. CASE WOpen(p)
  BY <1>0, <1>10 DEF WOpen
<1>11. CASE WRelock(p)
  BY <1>0, <1>11 DEF WRelock
<1>12. CASE ILoad(p)
  BY <1>0, <1>12 DEF ILoad
<1>13. CASE IDec(p)
  BY <1>0, <1>13 DEF IDec
<1> QED BY <1>1, <1>2, <1>3, <1>4, <1>5, <1>6, <1>7, <1>8, <1>9, <1>10, <1>11, <1>12, <1>13 DEF WaitStep

LEMMA GateSignal ==
  ASSUME Safe, GateInv, NEW p \in Procs, SignalStep(p)
  PROVE  GateInv'
<1>0. MutexInv'
  BY MutexSignal DEF GateInv
<1> USE DEF GateInv, MutexInv, TypeOK, LockMutex, UnblockExclusive, AtMostOne,
            HasUnblock, HasGate, GateClosed, Go, SemWait, SemPost, sems, counters,
            locals
<1>1. CASE SUnblock(p)
  BY <1>0, <1>1 DEF SUnblock
<1>2. CASE SCheck(p)
  BY <1>0, <1>2 DEF SCheck, Branch
<1>3. CASE SAdd(p)
  BY <1>0, <1>3 DEF SAdd, ToWake
<1>4. CASE SGate(p)
  BY <1>0, <1>4 DEF SGate
<1>5. CASE SFirst(p)
  BY <1>0, <1>5 DEF SFirst, ToWake
<1>6. CASE SUnlock(p)
  BY <1>0, <1>6 DEF SUnlock
<1>7. CASE SPost(p)
  BY <1>0, <1>7 DEF SPost
<1> QED BY <1>1, <1>2, <1>3, <1>4, <1>5, <1>6, <1>7 DEF SignalStep

LEMMA GateIntr ==
  ASSUME Safe, GateInv, NEW p \in Procs, IntrStep(p)
  PROVE  GateInv'
<1>0. MutexInv'
  BY MutexIntr DEF GateInv
<1> USE DEF GateInv, MutexInv, TypeOK, LockMutex, UnblockExclusive, AtMostOne,
            HasUnblock, HasGate, GateClosed, Go, SemWait, SemPost, sems, counters,
            locals
<1>1. CASE WGateIntr(p)
  BY <1>0, <1>1 DEF Safe, SafeSites, WGateIntr
<1>2. CASE WQueueIntr(p)
  BY <1>0, <1>2 DEF Safe, SafeSites, WQueueIntr
<1>3. CASE WUnblockIntr(p)
  BY <1>0, <1>3 DEF Safe, SafeSites, WUnblockIntr
<1>4. CASE SUnblockIntr(p)
  BY <1>0, <1>4 DEF Safe, SafeSites, SUnblockIntr
<1>5. CASE SGateIntr(p)
  BY <1>0, <1>5 DEF Safe, SafeSites, SGateIntr
<1> QED BY <1>1, <1>2, <1>3, <1>4, <1>5 DEF IntrStep

LEMMA GateNext == Safe /\ GateInv /\ [Next]_vars => GateInv'
<1> SUFFICES ASSUME Safe, GateInv, [Next]_vars PROVE GateInv'
  OBVIOUS
<1>1. CASE UNCHANGED vars
  BY <1>1, MutexNext DEF vars, GateInv, AtMostOne, HasGate, GateClosed
<1>2. CASE Next
  BY <1>1, <1>2, GateClient, GateWait, GateSignal, GateIntr DEF Next, AllWait
<1> QED BY <1>1, <1>2

(* While a group is being woken nobody joins it: a late comer cannot take  *)
(* a wake-up meant for the group.                                          *)
THEOREM GateIsClosed == ASSUME Safe PROVE Spec => []GateClosed
<1>1. GateInv => GateClosed
  BY DEF GateInv
<1> QED BY <1>1, Safe, GateInit, GateNext, PTL DEF Spec

(* waiters_blocked, written under two locks, never has two writers.        *)
THEOREM BlockedWritesAreExclusive ==
  ASSUME Safe PROVE Spec => []BlockedWritesExclusive
<1>1. GateInv => BlockedWritesExclusive
  BY DEF GateInv, MutexInv, UnblockExclusive, GateClosed, BlockedWritesExclusive,
         WritesBlocked, AtMostOne, HasUnblock, HasGate
<1> QED BY <1>1, Safe, GateInit, GateNext, PTL DEF Spec

-----------------------------------------------------------------------------
(* The wake-ups still to be posted, element by element. *)
LEMMA ToIssueElements ==
  ASSUME NEW t
  PROVE  t \in ToIssue <=> \E p \in Procs : \E i \in 1 .. signalsToIssue[p] :
                              pc[p] \in {"s_unlock", "s_post"} /\ t = <<p, i>>
  BY DEF ToIssue

LEMMA SetsFinite ==
  ASSUME TypeOK
  PROVE  /\ IsFiniteSet(CountedIn) /\ IsFiniteSet(ToIssue) /\ IsFiniteSet(Leaving)
         /\ Cardinality(CountedIn) \in Nat /\ Cardinality(CountedIn) <= Cardinality(Procs)
         /\ Cardinality(ToIssue) \in Nat
         /\ Cardinality(Leaving) \in Nat
<1>1. /\ IsFiniteSet(CountedIn) /\ IsFiniteSet(Leaving)
      /\ Cardinality(CountedIn) <= Cardinality(Procs)
  BY FS_Subset, SvcondAssumption DEF CountedIn, Leaving
<1>2. IsFiniteSet(ToIssue)
  <2> DEFINE Issuing == {q \in Procs : pc[q] \in {"s_unlock", "s_post"}}
             Parts == {{p} \X (1 .. signalsToIssue[p]) : p \in Issuing}
  <2>1. IsFiniteSet(Issuing)
    BY FS_Subset, SvcondAssumption
  <2>2. IsFiniteSet(Parts)
    <3> DEFINE f == [p \in Issuing |-> {p} \X (1 .. signalsToIssue[p])]
    <3>1. f \in Surjection(Issuing, Parts)
      BY DEF Surjection
    <3> HIDE DEF f, Issuing, Parts
    <3> QED BY <2>1, <3>1, FS_Surjection
  <2>3. ASSUME NEW p \in Issuing
        PROVE  IsFiniteSet({p} \X (1 .. signalsToIssue[p]))
    <3>1. signalsToIssue[p] \in Int
      BY DEF TypeOK
    <3>2. IsFiniteSet(1 .. signalsToIssue[p])
      BY <3>1, FS_Interval
    <3>3. IsFiniteSet({p})
      BY FS_Singleton
    <3> QED BY <3>2, <3>3, FS_Product
  <2>4. \A T \in Parts : IsFiniteSet(T)
    BY <2>3
  <2>5. IsFiniteSet(UNION Parts)
    <3> HIDE DEF Parts
    <3> QED BY <2>2, <2>4, FS_UNION
  <2> QED BY <2>5 DEF ToIssue
<1> QED BY <1>1, <1>2, FS_CardinalityType

-----------------------------------------------------------------------------
(* The books: the counters agree with the sets of processes and tokens.    *)
CountInv ==
  /\ GateInv
  /\ WaitersCounted
  /\ TokensConserved
  /\ \A p \in Procs :
       /\ signalsToIssue[p] \in Nat
       /\ pc[p] \notin {"s_unlock", "s_post"} => signalsToIssue[p] = 0
       /\ pc[p] = "s_post" => signalsToIssue[p] > 0

(* A step that moves nobody into or out of the three sets. *)
SameSets == CountedIn' = CountedIn /\ ToIssue' = ToIssue /\ Leaving' = Leaving

LEMMA ToIssueSame ==
  ASSUME TypeOK, signalsToIssue' = signalsToIssue,
         \A q \in Procs : \/ signalsToIssue[q] = 0
                          \/ pc'[q] \in {"s_unlock", "s_post"} <=> pc[q] \in {"s_unlock", "s_post"}
  PROVE  ToIssue' = ToIssue
<1>1. ASSUME NEW t PROVE t \in ToIssue' <=> t \in ToIssue
  <2>1. t \in ToIssue' <=> \E p \in Procs : \E i \in 1 .. signalsToIssue[p] :
                              pc'[p] \in {"s_unlock", "s_post"} /\ t = <<p, i>>
    BY DEF ToIssue
  <2>2. t \in ToIssue <=> \E p \in Procs : \E i \in 1 .. signalsToIssue[p] :
                              pc[p] \in {"s_unlock", "s_post"} /\ t = <<p, i>>
    BY ToIssueElements
  <2> QED BY <2>1, <2>2
<1> QED BY <1>1

LEMMA CountInit == Safe /\ Init => CountInv
<1> SUFFICES ASSUME Safe, Init PROVE CountInv
  OBVIOUS
<1>1. GateInv
  BY GateInit
<1>2. CountedIn = {} /\ Leaving = {} /\ ToIssue = {}
  BY DEF Init, CountedIn, Counted, Leaving, ToIssue
<1> QED BY <1>1, <1>2, FS_EmptySet
        DEF Safe, Init, CountInv, WaitersCounted, TokensConserved

LEMMA CountSame ==
  ASSUME CountInv, GateInv', SameSets, UNCHANGED <<blockQueue, counters>>,
         \A p \in Procs :
           /\ signalsToIssue'[p] \in Nat
           /\ pc'[p] \notin {"s_unlock", "s_post"} => signalsToIssue'[p] = 0
           /\ pc'[p] = "s_post" => signalsToIssue'[p] > 0
  PROVE  CountInv'
  BY DEF CountInv, SameSets, counters, WaitersCounted, TokensConserved

LEMMA CountClient ==
  ASSUME Safe, CountInv, NEW p \in Procs, ClientStep(p)
  PROVE  CountInv'
<1>1. GateInv'
  BY GateClient DEF CountInv
<1> USE DEF CountInv, GateInv, MutexInv, TypeOK, SameSets, CountedIn, Counted, Leaving,
            Go, SemWait, SemPost, sems, counters, locals
<1>2. CASE Lock(p)
  BY <1>1, <1>2, CountSame, ToIssueSame DEF Lock
<1>3. CASE Unlock(p)
  BY <1>1, <1>3, CountSame, ToIssueSame DEF Unlock
<1>4. CASE CallWait(p)
  BY <1>1, <1>4, CountSame, ToIssueSame DEF CallWait
<1>5. CASE CallSignal(p)
  BY <1>1, <1>5, CountSame, ToIssueSame DEF CallSignal
<1> QED BY <1>2, <1>3, <1>4, <1>5 DEF ClientStep

LEMMA CountIntr ==
  ASSUME Safe, CountInv, NEW p \in Procs, IntrStep(p)
  PROVE  CountInv'
<1>1. GateInv'
  BY GateIntr DEF CountInv
<1> USE DEF CountInv, GateInv, MutexInv, TypeOK, SameSets, CountedIn, Counted, Leaving,
            Go, SemWait, SemPost, sems, counters, locals
<1>2. CASE WGateIntr(p)
  BY <1>1, <1>2, CountSame, ToIssueSame DEF WGateIntr, Safe, SafeSites
<1>3. CASE WQueueIntr(p)
  BY <1>1, <1>3, CountSame, ToIssueSame DEF WQueueIntr, Safe, SafeSites
<1>4. CASE WUnblockIntr(p)
  BY <1>1, <1>4, CountSame, ToIssueSame DEF WUnblockIntr, Safe, SafeSites
<1>5. CASE SUnblockIntr(p)
  BY <1>1, <1>5, CountSame, ToIssueSame DEF SUnblockIntr, Safe, SafeSites
<1>6. CASE SGateIntr(p)
  BY <1>1, <1>6, CountSame, ToIssueSame DEF SGateIntr, Safe, SafeSites
<1> QED BY <1>2, <1>3, <1>4, <1>5, <1>6 DEF IntrStep
LEMMA CountWait ==
  ASSUME Safe, CountInv, NEW p \in Procs, WaitStep(p)
  PROVE  CountInv'
<1>1. GateInv'
  BY GateWait DEF CountInv
<1>2. TypeOK /\ TypeOK'
  BY <1>1 DEF CountInv, GateInv, MutexInv
<1> USE DEF CountInv, GateInv, MutexInv, TypeOK, SameSets, CountedIn, Counted, Leaving,
            Go, SemWait, SemPost, sems, counters, locals
<1>3. CASE WGate(p)
  BY <1>1, <1>3, CountSame, ToIssueSame DEF WGate
<1>4. CASE WLoad(p)
  BY <1>1, <1>4, CountSame, ToIssueSame DEF WLoad
<1>5. CASE WInc(p)
  <2>1. CountedIn' = CountedIn \cup {p} /\ p \notin CountedIn
    BY <1>2, <1>5 DEF WInc
  <2>2. ToIssue' = ToIssue /\ Leaving' = Leaving
    BY <1>2, <1>5, ToIssueSame DEF WInc
  <2>3. waitersBlocked' = waitersBlocked + 1
    BY <1>5 DEF WInc
  <2>4. WaitersCounted'
    <3> HIDE DEF TypeOK, CountedIn
    <3>1. Cardinality(CountedIn') = Cardinality(CountedIn) + 1
      BY <1>2, <2>1, SetsFinite, FS_AddElement
    <3> QED BY <1>5, <2>3, <3>1, SetsFinite DEF WInc, WaitersCounted, TypeOK
  <2>5. TokensConserved'
    BY <1>5, <2>2 DEF WInc, TokensConserved
  <2> QED BY <1>1, <1>5, <2>4, <2>5 DEF WInc
<1>6. CASE WUngate(p)
  BY <1>1, <1>6, CountSame, ToIssueSame DEF WUngate
<1>7. CASE WUnlock(p)
  BY <1>1, <1>7, CountSame, ToIssueSame DEF WUnlock
<1>8. CASE WQueue(p)
  <2>1. Leaving' = Leaving \cup {p} /\ p \notin Leaving
    BY <1>2, <1>8 DEF WQueue
  <2>2. ToIssue' = ToIssue /\ CountedIn' = CountedIn
    BY <1>2, <1>8, ToIssueSame DEF WQueue
  <2>3. WaitersCounted'
    BY <1>8, <2>2 DEF WQueue, WaitersCounted
  <2>4. TokensConserved'
    <3> HIDE DEF TypeOK, Leaving
    <3>1. Cardinality(Leaving') = Cardinality(Leaving) + 1
      BY <1>2, <2>1, SetsFinite, FS_AddElement
    <3> QED BY <1>2, <1>8, <2>2, <3>1, SetsFinite DEF WQueue, TokensConserved, TypeOK
  <2> QED BY <1>1, <1>8, <2>3, <2>4 DEF WQueue
<1>9. CASE WUnblock(p)
  BY <1>1, <1>9, CountSame, ToIssueSame DEF WUnblock
<1>10. CASE WCount(p)
  <2>1. /\ Leaving' = Leaving \ {p} /\ p \in Leaving
        /\ CountedIn' = CountedIn \ {p} /\ p \in CountedIn
    BY <1>2, <1>10 DEF WCount
  <2>2. ToIssue' = ToIssue
    BY <1>2, <1>10, ToIssueSame DEF WCount
  <2>3. Cardinality(Leaving) > 0
    BY <1>2, <2>1, SetsFinite, FS_EmptySet
  <2>4. waitersToUnblock > 0
    BY <1>2, <2>3, SetsFinite DEF TokensConserved
  <2>5. waitersToUnblock' = waitersToUnblock - 1
    BY <1>10, <2>4 DEF WCount, Uncount
  <2>6. WaitersCounted'
    <3> HIDE DEF TypeOK, CountedIn
    <3>1. Cardinality(CountedIn') = Cardinality(CountedIn) - 1
      BY <1>2, <2>1, SetsFinite, FS_RemoveElement
    <3> QED BY <1>2, <1>10, <2>5, <3>1, SetsFinite DEF WCount, WaitersCounted, TypeOK
  <2>7. TokensConserved'
    <3> HIDE DEF TypeOK, Leaving
    <3>1. Cardinality(Leaving') = Cardinality(Leaving) - 1
      BY <1>2, <2>1, SetsFinite, FS_RemoveElement
    <3> QED BY <1>2, <1>10, <2>2, <2>5, <3>1, SetsFinite DEF WCount, TokensConserved, TypeOK
  <2> QED BY <1>1, <1>10, <2>6, <2>7 DEF WCount
<1>11. CASE WRelease(p)
  BY <1>1, <1>11, CountSame, ToIssueSame DEF WRelease, AfterRelease
<1>12. CASE WOpen(p)
  BY <1>1, <1>12, CountSame, ToIssueSame DEF WOpen
<1>13. CASE WRelock(p)
  BY <1>1, <1>13, CountSame, ToIssueSame DEF WRelock
<1>14. CASE ILoad(p)
  BY <1>1, <1>14, CountSame, ToIssueSame DEF ILoad
<1>15. CASE IDec(p)
  BY <1>1, <1>15, CountSame, ToIssueSame DEF IDec
<1> QED BY <1>3, <1>4, <1>5, <1>6, <1>7, <1>8, <1>9, <1>10, <1>11, <1>12, <1>13, <1>14, <1>15 DEF WaitStep

(* A signaller takes on n wake-ups to post. *)
LEMMA Issue ==
  ASSUME TypeOK, TypeOK', NEW p \in Procs, NEW n \in Nat,
         pc[p] \notin {"s_unlock", "s_post"}, pc'[p] \in {"s_unlock", "s_post"},
         signalsToIssue' = [signalsToIssue EXCEPT ![p] = n],
         \A q \in Procs : q # p => pc'[q] = pc[q]
  PROVE  Cardinality(ToIssue') = Cardinality(ToIssue) + n
<1> DEFINE New == {p} \X (1 .. n)
<1>1. ToIssue' = ToIssue \cup New
  <2>1. ASSUME NEW t PROVE t \in ToIssue' <=> t \in ToIssue \cup New
    <3>1. t \in ToIssue' <=> \E q \in Procs : \E i \in 1 .. signalsToIssue'[q] :
                                pc'[q] \in {"s_unlock", "s_post"} /\ t = <<q, i>>
      BY DEF ToIssue
    <3>2. t \in New <=> \E i \in 1 .. n : t = <<p, i>>
      OBVIOUS
    <3> QED BY <3>1, <3>2, ToIssueElements DEF TypeOK
  <2> QED BY <2>1
<1>2. ToIssue \cap New = {}
  <2> SUFFICES ASSUME NEW t \in ToIssue, t \in New PROVE FALSE
    OBVIOUS
  <2> QED BY ToIssueElements
<1>3. IsFiniteSet(New) /\ Cardinality(New) = n
  <2>1. IsFiniteSet({p}) /\ Cardinality({p}) = 1
    BY FS_Singleton
  <2>2. IsFiniteSet(1 .. n) /\ Cardinality(1 .. n) = n
    BY FS_Interval
  <2>3. IsFiniteSet(New) /\ Cardinality(New) = Cardinality({p}) * Cardinality(1 .. n)
    BY <2>1, <2>2, FS_Product
  <2> QED BY <2>1, <2>2, <2>3
<1>4. IsFiniteSet(ToIssue) /\ Cardinality(ToIssue) \in Nat
  BY SetsFinite
<1>5. Cardinality(ToIssue \cap New) = 0
  BY <1>2, FS_EmptySet
<1> HIDE DEF New
<1>6. Cardinality(ToIssue \cup New) = Cardinality(ToIssue) + n - 0
  BY <1>3, <1>4, <1>5, FS_Union
<1> QED BY <1>1, <1>4, <1>6

(* A signaller posts one of the wake-ups it took on. *)
LEMMA Posted ==
  ASSUME TypeOK, TypeOK', NEW p \in Procs,
         pc[p] = "s_post", signalsToIssue[p] > 0,
         pc'[p] # "s_unlock", pc'[p] # "s_post" => signalsToIssue[p] = 1,
         signalsToIssue' = [signalsToIssue EXCEPT ![p] = signalsToIssue[p] - 1],
         \A q \in Procs : q # p => pc'[q] = pc[q]
  PROVE  /\ Cardinality(ToIssue') = Cardinality(ToIssue) - 1
         /\ Cardinality(ToIssue) > 0
<1> DEFINE e == <<p, signalsToIssue[p]>>
<1>1. e \in ToIssue
  BY ToIssueElements DEF TypeOK
<1>2. ToIssue' = ToIssue \ {e}
  <2>1. ASSUME NEW t PROVE t \in ToIssue' <=> t \in ToIssue \ {e}
    <3>1. t \in ToIssue' <=> \E q \in Procs : \E i \in 1 .. signalsToIssue'[q] :
                                pc'[q] \in {"s_unlock", "s_post"} /\ t = <<q, i>>
      BY DEF ToIssue
    <3> QED BY <3>1, ToIssueElements DEF TypeOK
  <2> QED BY <2>1
<1> HIDE DEF e
<1> QED BY <1>1, <1>2, SetsFinite, FS_RemoveElement, FS_EmptySet

LEMMA CountSignal ==
  ASSUME Safe, CountInv, NEW p \in Procs, SignalStep(p)
  PROVE  CountInv'
<1>1. GateInv'
  BY GateSignal DEF CountInv
<1>2. TypeOK /\ TypeOK'
  BY <1>1 DEF CountInv, GateInv, MutexInv
<1> USE DEF CountInv, GateInv, MutexInv, SameSets, CountedIn, Counted, Leaving,
            Go, SemWait, SemPost, sems, counters, locals
<1>3. CASE SUnblock(p)
  BY <1>1, <1>2, <1>3, CountSame, ToIssueSame DEF SUnblock, TypeOK
<1>4. CASE SCheck(p)
  BY <1>1, <1>2, <1>4, CountSame, ToIssueSame DEF SCheck, Branch, TypeOK
<1>5. CASE SAdd(p)
  <2> DEFINE n == ToWake(p, waitersBlocked)
  <2>1. n \in Nat /\ n > 0
    BY <1>2, <1>5 DEF SAdd, ToWake, TypeOK
  <2>2. CountedIn' = CountedIn /\ Leaving' = Leaving
    BY <1>2, <1>5 DEF SAdd, TypeOK
  <2>3. /\ signalsToIssue' = [signalsToIssue EXCEPT ![p] = n]
        /\ waitersToUnblock' = waitersToUnblock + n
        /\ waitersBlocked' = waitersBlocked - n
        /\ blockQueue' = blockQueue
    BY <1>2, <1>5 DEF SAdd, TypeOK
  <2>4. Cardinality(ToIssue') = Cardinality(ToIssue) + n
    BY <1>2, <1>5, <2>1, <2>3, Issue DEF SAdd, TypeOK
  <2>5. WaitersCounted'
    <3> HIDE DEF CountedIn, n
    <3> QED BY <2>1, <2>2, <2>3 DEF WaitersCounted
  <2>6. TokensConserved'
    BY <1>2, <2>1, <2>2, <2>3, <2>4, SetsFinite DEF TokensConserved, TypeOK
  <2> QED BY <1>1, <1>2, <1>5, <2>1, <2>3, <2>5, <2>6 DEF SAdd, TypeOK
<1>6. CASE SGate(p)
  BY <1>1, <1>2, <1>6, CountSame, ToIssueSame DEF SGate, TypeOK
<1>7. CASE SFirst(p)
  <2> DEFINE n == ToWake(p, waitersBlocked)
  <2>1. n \in Nat /\ n > 0
    BY <1>2, <1>7 DEF SFirst, ToWake, TypeOK
  <2>2. CountedIn' = CountedIn /\ Leaving' = Leaving
    BY <1>2, <1>7 DEF SFirst, TypeOK
  <2>3. /\ signalsToIssue' = [signalsToIssue EXCEPT ![p] = n]
        /\ waitersToUnblock' = waitersToUnblock + n
        /\ waitersBlocked' = waitersBlocked - n
        /\ blockQueue' = blockQueue
    BY <1>2, <1>7 DEF SFirst, TypeOK
  <2>4. Cardinality(ToIssue') = Cardinality(ToIssue) + n
    BY <1>2, <1>7, <2>1, <2>3, Issue DEF SFirst, TypeOK
  <2>5. WaitersCounted'
    <3> HIDE DEF CountedIn, n
    <3> QED BY <2>1, <2>2, <2>3 DEF WaitersCounted
  <2>6. TokensConserved'
    BY <1>2, <2>1, <2>2, <2>3, <2>4, SetsFinite DEF TokensConserved, TypeOK
  <2> QED BY <1>1, <1>2, <1>7, <2>1, <2>3, <2>5, <2>6 DEF SFirst, TypeOK
<1>8. CASE SUnlock(p)
  BY <1>1, <1>2, <1>8, CountSame, ToIssueSame DEF SUnlock, TypeOK
<1>9. CASE SPost(p)
  <2>1. CountedIn' = CountedIn /\ Leaving' = Leaving
    BY <1>2, <1>9 DEF SPost, TypeOK
  <2>2. signalsToIssue' = [signalsToIssue EXCEPT ![p] = signalsToIssue[p] - 1]
    BY <1>2, <1>9 DEF SPost, TypeOK
  <2>3. /\ Cardinality(ToIssue') = Cardinality(ToIssue) - 1
        /\ Cardinality(ToIssue) > 0
    BY <1>2, <1>9, <2>2, Posted DEF SPost, TypeOK
  <2>4. blockQueue < SemMax
    <3>1. blockQueue < waitersToUnblock
      BY <1>2, <2>3, SetsFinite DEF TokensConserved, TypeOK
    <3>2. waitersToUnblock <= Cardinality(CountedIn)
      BY <1>2 DEF WaitersCounted
    <3>3. Cardinality(CountedIn) \in Nat /\ Cardinality(CountedIn) <= SemMax
      <4> HIDE DEF CountedIn
      <4>1. Cardinality(Procs) \in Nat
        BY SvcondAssumption, FS_CardinalityType
      <4> QED BY <1>2, <4>1, SetsFinite, SvcondAssumption DEF Safe
    <3> HIDE DEF CountedIn
    <3> QED BY <1>2, <3>1, <3>2, <3>3, SvcondAssumption DEF TypeOK
  <2>5. WaitersCounted'
    BY <1>9, <2>1 DEF SPost, WaitersCounted
  <2>6. TokensConserved'
    <3>1. blockQueue' = blockQueue + 1 /\ waitersToUnblock' = waitersToUnblock
      BY <1>2, <1>9, <2>4 DEF SPost
    <3> HIDE DEF Leaving
    <3> QED BY <1>2, <2>1, <2>3, <3>1, SetsFinite DEF TokensConserved, TypeOK
  <2> QED BY <1>1, <1>2, <1>9, <2>2, <2>5, <2>6 DEF SPost, TypeOK
<1> QED BY <1>3, <1>4, <1>5, <1>6, <1>7, <1>8, <1>9 DEF SignalStep

LEMMA CountNext == Safe /\ CountInv /\ [Next]_vars => CountInv'
<1> SUFFICES ASSUME Safe, CountInv, [Next]_vars PROVE CountInv'
  OBVIOUS
<1>1. CASE UNCHANGED vars
  <2>1. GateInv'
    BY <1>1, GateNext DEF CountInv
  <2> QED BY <1>1, <2>1 DEF vars, CountInv, WaitersCounted, TokensConserved, CountedIn,
                        Counted, ToIssue, Leaving
<1>2. CASE Next
  BY <1>1, <1>2, CountClient, CountWait, CountSignal, CountIntr DEF Next, AllWait
<1> QED BY <1>1, <1>2

(* The two counters always add up to the number of blocked processes, and  *)
(* no wake-up is lost or made up between them, the signallers and          *)
(* block_queue.                                                            *)
THEOREM BooksAreBalanced == ASSUME Safe PROVE Spec => []BooksBalance
<1>1. CountInv => BooksBalance
  BY DEF CountInv, BooksBalance
<1> QED BY <1>1, Safe, CountInit, CountNext, PTL DEF Spec

-----------------------------------------------------------------------------
(* Every step of svcond is a step of the abstract condition variable or    *)
(* leaves it unchanged.                                                    *)
AbsStates == [p \in Procs |-> AbsState(p)]

LEMMA OwnerIs ==
  ASSUME LockMutex, NEW p \in Procs, HasLock(p)
  PROVE  AbsOwner = p
  BY DEF LockMutex, AtMostOne, AbsOwner

LEMMA NoOwner ==
  ASSUME \A p \in Procs : ~HasLock(p)
  PROVE  AbsOwner = None
  BY DEF AbsOwner

LEMMA OwnerIsNext ==
  ASSUME LockMutex', NEW p \in Procs, HasLock(p)'
  PROVE  AbsOwner' = p
  BY DEF LockMutex, AtMostOne, AbsOwner

LEMMA NoOwnerNext ==
  ASSUME \A p \in Procs : ~HasLock(p)'
  PROVE  AbsOwner' = None
  BY DEF AbsOwner

LEMMA NotOwner ==
  ASSUME LockMutex, NEW p \in Procs, ~HasLock(p)
  PROVE  AbsOwner # p
<1>1. CASE \E q \in Procs : HasLock(q)
  BY <1>1, OwnerIs
<1>2. CASE ~\E q \in Procs : HasLock(q)
  BY <1>2, NoOwner, SvcondAssumption
<1> QED BY <1>1, <1>2

(* A step that changes nobody's claim to the lock. *)
LEMMA OwnerSame ==
  ASSUME \A p \in Procs : HasLock(p)' <=> HasLock(p)
  PROVE  AbsOwner' = AbsOwner
  BY DEF AbsOwner

(* A step of one process moves that process alone. *)
LEMMA AbsStatesStep ==
  ASSUME NEW p \in Procs,
         \A q \in Procs : q # p => AbsState(q)' = AbsState(q)
  PROVE  AbsStates' = [AbsStates EXCEPT ![p] = AbsState(p)']
  BY DEF AbsStates

LEMMA SameCardinality ==
  ASSUME NEW S
  PROVE  CV!Cardinality(S) = Cardinality(S)
  BY DEF CV!Cardinality, Cardinality

LEMMA BlockedIsCountedIn ==
  ASSUME GateInv
  PROVE  CV!Blocked = CountedIn
  BY DEF CV!Blocked, CountedIn, Counted, AbsState, GateInv, MutexInv, TypeOK, Steps,
         WaitSteps, SignalSteps

LEMMA RefInit == Safe /\ Init => CV!Init
<1> SUFFICES ASSUME Safe, Init PROVE CV!Init
  OBVIOUS
<1>1. AbsOwner = None
  BY NoOwner DEF Init, HasLock, SignalSteps
<1>2. \A p \in Procs : AbsState(p) = "run"
  BY DEF Init, AbsState, Counted
<1>3. waitersToUnblock = 0
  BY DEF Init, Safe
<1> QED BY <1>1, <1>2, <1>3 DEF CV!Init

LEMMA RefWait ==
  ASSUME Safe, CountInv, NEW p \in Procs, WaitStep(p)
  PROVE  CV!Next \/ UNCHANGED CV!vars
<1>1. GateInv /\ MutexInv /\ LockMutex /\ GateInv' /\ MutexInv' /\ LockMutex'
  BY GateWait DEF CountInv, GateInv, MutexInv
<1>2. \A q \in Procs : q # p => pc'[q] = pc[q] /\ bcast'[q] = bcast[q]
  BY <1>1 DEF WaitStep, WGate, WLoad, WInc, WUngate, WUnlock, WQueue, WUnblock, WCount, WRelease, WOpen, WRelock, ILoad, IDec,
         MutexInv, TypeOK, Go, locals
<1>3. AbsStates' = [AbsStates EXCEPT ![p] = AbsState(p)']
  BY <1>2, AbsStatesStep DEF AbsState, Counted
<1> USE DEF MutexInv, TypeOK, Steps, WaitSteps, SignalSteps, Go, SemWait, SemPost,
            sems, counters, locals
<1>4. CASE WGate(p)
  <2>1. AbsState(p) = "wait" /\ AbsState(p)' = "wait"
    BY <1>1, <1>4 DEF WGate, AbsState, Counted
  <2>2. AbsOwner' = AbsOwner
    BY <1>1, <1>4, OwnerSame DEF WGate, HasLock
  <2> QED BY <1>3, <1>4, <2>1, <2>2 DEF WGate, AbsStates, CV!vars
<1>5. CASE WLoad(p)
  <2>1. AbsState(p) = "wait" /\ AbsState(p)' = "wait"
    BY <1>1, <1>5 DEF WLoad, AbsState, Counted
  <2>2. AbsOwner' = AbsOwner
    BY <1>1, <1>5, OwnerSame DEF WLoad, HasLock
  <2> QED BY <1>3, <1>5, <2>1, <2>2 DEF WLoad, AbsStates, CV!vars
<1>6. CASE WInc(p)
  <2>1. AbsState(p) = "wait" /\ AbsState(p)' = "blocked"
    BY <1>1, <1>6 DEF WInc, AbsState, Counted
  <2>2. AbsOwner' = AbsOwner
    BY <1>1, <1>6, OwnerSame DEF WInc, HasLock
  <2>3. waitersToUnblock = 0 /\ waitersToUnblock' = 0
    BY <1>1, <1>6 DEF WInc, GateInv, GateClosed, HasGate
  <2>4. CV!Block(p)
    BY <1>3, <2>1, <2>2, <2>3 DEF AbsStates, CV!Block, CV!Go
  <2> QED BY <2>4 DEF CV!Next
<1>7. CASE WUngate(p)
  <2>1. AbsState(p) = "blocked" /\ AbsState(p)' = "blocked"
    BY <1>1, <1>7 DEF WUngate, AbsState, Counted
  <2>2. AbsOwner' = AbsOwner
    BY <1>1, <1>7, OwnerSame DEF WUngate, HasLock
  <2> QED BY <1>3, <1>7, <2>1, <2>2 DEF WUngate, AbsStates, CV!vars
<1>8. CASE WUnlock(p)
  <2>1. AbsState(p) = "blocked" /\ AbsState(p)' = "blocked"
    BY <1>1, <1>8 DEF WUnlock, AbsState, Counted
  <2>2. AbsOwner = p /\ AbsOwner' = None
    BY <1>1, <1>8, NoOwnerNext, OwnerIs DEF WUnlock, HasLock, LockMutex, AtMostOne
  <2>3. AbsStates' = AbsStates
    BY <1>3, <2>1 DEF AbsStates
  <2>4. CV!Release(p)
    BY <1>8, <2>1, <2>2, <2>3 DEF WUnlock, AbsStates, CV!Release
  <2> QED BY <2>4 DEF CV!Next
<1>9. CASE WQueue(p)
  <2>1. AbsState(p) = "blocked" /\ AbsState(p)' = "blocked"
    BY <1>1, <1>9 DEF WQueue, AbsState, Counted
  <2>2. AbsOwner' = AbsOwner
    BY <1>1, <1>9, OwnerSame DEF WQueue, HasLock
  <2> QED BY <1>3, <1>9, <2>1, <2>2 DEF WQueue, AbsStates, CV!vars
<1>10. CASE WUnblock(p)
  <2>1. AbsState(p) = "blocked" /\ AbsState(p)' = "blocked"
    BY <1>1, <1>10 DEF WUnblock, AbsState, Counted
  <2>2. AbsOwner' = AbsOwner
    BY <1>1, <1>10, OwnerSame DEF WUnblock, HasLock
  <2> QED BY <1>3, <1>10, <2>1, <2>2 DEF WUnblock, AbsStates, CV!vars
<1>11. CASE WCount(p)
  <2>1. AbsState(p) = "blocked" /\ AbsState(p)' = "woken"
    BY <1>1, <1>11 DEF WCount, AbsState, Counted
  <2>2. AbsOwner' = AbsOwner /\ AbsOwner # p
    BY <1>1, <1>11, OwnerSame, NotOwner DEF WCount, HasLock
  <2>3. waitersToUnblock > 0
    <3>1. p \in Leaving
      BY <1>11 DEF WCount, Leaving
    <3> HIDE DEF Leaving
    <3> QED BY <1>1, <3>1, SetsFinite, FS_EmptySet DEF CountInv, TokensConserved
  <2>4. waitersToUnblock' = waitersToUnblock - 1
    BY <1>11, <2>3 DEF WCount, Uncount
  <2>5. CV!Wake(p)
    BY <1>3, <2>1, <2>2, <2>3, <2>4 DEF AbsStates, CV!Wake, CV!Go
  <2> QED BY <2>5 DEF CV!Next
<1>12. CASE WRelease(p)
  <2>1. AbsState(p) = "woken" /\ AbsState(p)' = "woken"
    BY <1>1, <1>12 DEF WRelease, AfterRelease, AbsState, Counted
  <2>2. AbsOwner' = AbsOwner
    BY <1>1, <1>12, OwnerSame DEF WRelease, AfterRelease, HasLock
  <2> QED BY <1>3, <1>12, <2>1, <2>2 DEF WRelease, AbsStates, CV!vars
<1>13. CASE WOpen(p)
  <2>1. AbsState(p) = "woken" /\ AbsState(p)' = "woken"
    BY <1>1, <1>13 DEF WOpen, AbsState, Counted
  <2>2. AbsOwner' = AbsOwner
    BY <1>1, <1>13, OwnerSame DEF WOpen, HasLock
  <2> QED BY <1>3, <1>13, <2>1, <2>2 DEF WOpen, AbsStates, CV!vars
<1>14. CASE WRelock(p)
  <2>1. AbsState(p) = "woken" /\ AbsState(p)' = "run"
    BY <1>1, <1>14 DEF WRelock, AbsState, Counted
  <2>2. AbsOwner = None /\ AbsOwner' = p
    BY <1>1, <1>14, NoOwner, OwnerIsNext DEF WRelock, HasLock, LockMutex
  <2> QED BY <1>1, <1>3, <1>14, <2>1, <2>2 DEF WRelock, AbsStates, CV!Next, CV!Return, CV!Go
<1>15. CASE ILoad(p)
  BY <1>1, <1>15 DEF ILoad, Safe, SafeSites, GateInv
<1>16. CASE IDec(p)
  BY <1>1, <1>16 DEF IDec, Safe, SafeSites, GateInv
<1> QED BY <1>4, <1>5, <1>6, <1>7, <1>8, <1>9, <1>10, <1>11, <1>12, <1>13, <1>14, <1>15, <1>16 DEF WaitStep

LEMMA RefClient ==
  ASSUME Safe, CountInv, NEW p \in Procs, ClientStep(p)
  PROVE  CV!Next \/ UNCHANGED CV!vars
<1>1. GateInv /\ MutexInv /\ LockMutex /\ GateInv' /\ MutexInv' /\ LockMutex'
  BY GateClient DEF CountInv, GateInv, MutexInv
<1>2. \A q \in Procs : q # p => pc'[q] = pc[q] /\ bcast'[q] = bcast[q]
  BY <1>1 DEF ClientStep, Lock, Unlock, CallWait, CallSignal,
         MutexInv, TypeOK, Go, locals
<1>3. AbsStates' = [AbsStates EXCEPT ![p] = AbsState(p)']
  BY <1>2, AbsStatesStep DEF AbsState, Counted
<1> USE DEF MutexInv, TypeOK, Steps, WaitSteps, SignalSteps, Go, SemWait, SemPost,
            sems, counters, locals
<1>4. CASE Lock(p)
  <2>1. AbsState(p) = "run" /\ AbsState(p)' = "run"
    BY <1>1, <1>4 DEF Lock, AbsState, Counted
  <2>2. AbsOwner = None /\ AbsOwner' = p
    BY <1>1, <1>4, NoOwner, OwnerIsNext DEF Lock, HasLock, LockMutex
  <2>3. AbsStates' = AbsStates
    BY <1>3, <2>1 DEF AbsStates
  <2>4. CV!Lock(p)
    BY <1>4, <2>1, <2>2, <2>3 DEF Lock, AbsStates, CV!Lock
  <2> QED BY <2>4 DEF CV!Next
<1>5. CASE Unlock(p)
  <2>1. AbsState(p) = "run" /\ AbsState(p)' = "run"
    BY <1>1, <1>5 DEF Unlock, AbsState, Counted
  <2>2. AbsOwner = p /\ AbsOwner' = None
    BY <1>1, <1>5, NoOwnerNext, OwnerIs DEF Unlock, HasLock, LockMutex, AtMostOne
  <2>3. AbsStates' = AbsStates
    BY <1>3, <2>1 DEF AbsStates
  <2>4. CV!Unlock(p)
    BY <1>5, <2>1, <2>2, <2>3 DEF Unlock, AbsStates, CV!Unlock
  <2> QED BY <2>4 DEF CV!Next
<1>6. CASE CallWait(p)
  <2>1. AbsState(p) = "run" /\ AbsState(p)' = "wait"
    BY <1>1, <1>6 DEF CallWait, AbsState, Counted
  <2>2. AbsOwner' = AbsOwner /\ AbsOwner = p
    BY <1>1, <1>6, OwnerSame, OwnerIs DEF CallWait, HasLock
  <2> QED BY <1>1, <1>3, <1>6, <2>1, <2>2 DEF CallWait, AbsStates, CV!Next, CV!CallWait, CV!Go
<1>7. CASE CallSignal(p)
  <2>1. AbsState(p) = "run" /\ AbsState(p)' \in {"signal", "broadcast"}
    BY <1>1, <1>7 DEF CallSignal, AbsState, Counted
  <2>2. AbsOwner' = AbsOwner
    BY <1>1, <1>7, OwnerSame DEF CallSignal, HasLock
  <2>3. CV!CallSignal(p)
    BY <1>3, <1>7, <2>1, <2>2 DEF CallSignal, AbsStates, CV!CallSignal, CV!Go
  <2> QED BY <2>3 DEF CV!Next
<1> QED BY <1>4, <1>5, <1>6, <1>7 DEF ClientStep

LEMMA RefSignal ==
  ASSUME Safe, CountInv, NEW p \in Procs, SignalStep(p)
  PROVE  CV!Next \/ UNCHANGED CV!vars
<1>1. GateInv /\ MutexInv /\ LockMutex /\ GateInv' /\ MutexInv' /\ LockMutex'
  BY GateSignal DEF CountInv, GateInv, MutexInv
<1>2. \A q \in Procs : q # p => pc'[q] = pc[q] /\ bcast'[q] = bcast[q]
  BY <1>1 DEF SignalStep, SUnblock, SCheck, SAdd, SGate, SFirst, SUnlock, SPost,
         MutexInv, TypeOK, Go, locals
<1>3. AbsStates' = [AbsStates EXCEPT ![p] = AbsState(p)']
  BY <1>2, AbsStatesStep DEF AbsState, Counted
<1> USE DEF MutexInv, TypeOK, Steps, WaitSteps, SignalSteps, Go, SemWait, SemPost,
            sems, counters, locals
<1>4. CASE SUnblock(p)
  <2>1. AbsState(p)' = AbsState(p)
    BY <1>1, <1>4 DEF SUnblock, AbsState, Counted
  <2>2. AbsOwner' = AbsOwner
    BY <1>1, <1>4, OwnerSame DEF SUnblock, HasLock
  <2> QED BY <1>3, <1>4, <2>1, <2>2 DEF SUnblock, AbsStates, CV!vars
<1>5. CASE SCheck(p)
  <2>1. AbsState(p) = IF bcast[p] THEN "broadcast" ELSE "signal"
    BY <1>1, <1>5 DEF SCheck, AbsState, Counted
  <2>2. AbsOwner' = AbsOwner
    BY <1>1, <1>5, OwnerSame DEF SCheck, Branch, HasLock
  <2>3. CV!Cardinality(CV!Blocked) = waitersBlocked + waitersToUnblock
    BY <1>1, BlockedIsCountedIn, SameCardinality DEF CountInv, WaitersCounted
  <2>4. CASE waitersBlocked # 0
    <3>1. AbsState(p)' = AbsState(p)
      BY <1>1, <1>5, <2>4 DEF SCheck, Branch, AbsState, Counted
    <3> QED BY <1>3, <1>5, <2>2, <3>1 DEF SCheck, AbsStates, CV!vars
  <2>5. CASE waitersBlocked = 0
    <3>1. AbsState(p)' = "done"
      BY <1>1, <1>5, <2>5 DEF SCheck, Branch, AbsState, Counted
    <3>2. waitersToUnblock' = waitersToUnblock /\ waitersToUnblock \in Nat
      BY <1>1, <1>5 DEF SCheck, GateInv
    <3>3. CASE bcast[p]
      <4>1. CV!Broadcast(p)
        BY <1>3, <2>1, <2>2, <2>3, <2>5, <3>1, <3>2, <3>3 DEF AbsStates, CV!Broadcast, CV!Go
      <4> QED BY <4>1 DEF CV!Next
    <3>4. CASE ~bcast[p]
      <4>1. CV!Signal(p)
        BY <1>3, <2>1, <2>2, <2>3, <2>5, <3>1, <3>2, <3>4 DEF AbsStates, CV!Signal, CV!Go
      <4> QED BY <4>1 DEF CV!Next
    <3> QED BY <3>3, <3>4
  <2> QED BY <2>4, <2>5
<1>6. CASE SAdd(p)
  <2>1. AbsState(p) = (IF bcast[p] THEN "broadcast" ELSE "signal") /\ AbsState(p)' = "done"
    BY <1>1, <1>6 DEF SAdd, AbsState, Counted
  <2>2. AbsOwner' = AbsOwner
    BY <1>1, <1>6, OwnerSame DEF SAdd, HasLock
  <2>3. CV!Cardinality(CV!Blocked) = waitersBlocked + waitersToUnblock
    BY <1>1, BlockedIsCountedIn, SameCardinality DEF CountInv, WaitersCounted
  <2>4. waitersBlocked > 0 /\ waitersBlocked \in Nat /\ waitersToUnblock \in Nat
    BY <1>1, <1>6 DEF SAdd, GateInv
  <2>5. waitersToUnblock' = waitersToUnblock + ToWake(p, waitersBlocked)
    BY <1>1, <1>6 DEF SAdd, GateInv
  <2>6. CASE bcast[p]
    <3>1. CV!Broadcast(p)
      BY <1>3, <2>1, <2>2, <2>3, <2>4, <2>5, <2>6 DEF AbsStates, CV!Broadcast, CV!Go, ToWake
    <3> QED BY <3>1 DEF CV!Next
  <2>7. CASE ~bcast[p]
    <3>1. CV!Signal(p)
      BY <1>3, <2>1, <2>2, <2>3, <2>4, <2>5, <2>7 DEF AbsStates, CV!Signal, CV!Go, ToWake
    <3> QED BY <3>1 DEF CV!Next
  <2> QED BY <2>6, <2>7
<1>7. CASE SGate(p)
  <2>1. AbsState(p)' = AbsState(p)
    BY <1>1, <1>7 DEF SGate, AbsState, Counted
  <2>2. AbsOwner' = AbsOwner
    BY <1>1, <1>7, OwnerSame DEF SGate, HasLock
  <2> QED BY <1>3, <1>7, <2>1, <2>2 DEF SGate, AbsStates, CV!vars
<1>8. CASE SFirst(p)
  <2>1. AbsState(p) = (IF bcast[p] THEN "broadcast" ELSE "signal") /\ AbsState(p)' = "done"
    BY <1>1, <1>8 DEF SFirst, AbsState, Counted
  <2>2. AbsOwner' = AbsOwner
    BY <1>1, <1>8, OwnerSame DEF SFirst, HasLock
  <2>3. CV!Cardinality(CV!Blocked) = waitersBlocked + waitersToUnblock
    BY <1>1, BlockedIsCountedIn, SameCardinality DEF CountInv, WaitersCounted
  <2>4. waitersBlocked > 0 /\ waitersBlocked \in Nat /\ waitersToUnblock \in Nat
    BY <1>1, <1>8 DEF SFirst, GateInv
  <2>5. waitersToUnblock' = waitersToUnblock + ToWake(p, waitersBlocked)
    BY <1>1, <1>8 DEF SFirst, GateInv
  <2>6. CASE bcast[p]
    <3>1. CV!Broadcast(p)
      BY <1>3, <2>1, <2>2, <2>3, <2>4, <2>5, <2>6 DEF AbsStates, CV!Broadcast, CV!Go, ToWake
    <3> QED BY <3>1 DEF CV!Next
  <2>7. CASE ~bcast[p]
    <3>1. CV!Signal(p)
      BY <1>3, <2>1, <2>2, <2>3, <2>4, <2>5, <2>7 DEF AbsStates, CV!Signal, CV!Go, ToWake
    <3> QED BY <3>1 DEF CV!Next
  <2> QED BY <2>6, <2>7
<1>9. CASE SUnlock(p)
  <2>1. AbsState(p) = "done" /\ AbsState(p)' \in {"done", "run"}
    BY <1>1, <1>9 DEF SUnlock, AbsState, Counted
  <2>2. AbsOwner' = AbsOwner
    BY <1>1, <1>9, OwnerSame DEF SUnlock, HasLock
  <2>3. CASE AbsState(p)' = "done"
    BY <1>3, <1>9, <2>1, <2>2, <2>3 DEF SUnlock, AbsStates, CV!vars
  <2>4. CASE AbsState(p)' = "run"
    <3>1. CV!EndSignal(p)
      BY <1>3, <1>9, <2>1, <2>2, <2>4 DEF SUnlock, AbsStates, CV!EndSignal, CV!Go
    <3> QED BY <3>1 DEF CV!Next
  <2> QED BY <2>1, <2>3, <2>4
<1>10. CASE SPost(p)
  <2>1. AbsState(p) = "done" /\ AbsState(p)' \in {"done", "run"}
    BY <1>1, <1>10 DEF SPost, AbsState, Counted
  <2>2. AbsOwner' = AbsOwner
    BY <1>1, <1>10, OwnerSame DEF SPost, HasLock
  <2>3. CASE AbsState(p)' = "done"
    BY <1>3, <1>10, <2>1, <2>2, <2>3 DEF SPost, AbsStates, CV!vars
  <2>4. CASE AbsState(p)' = "run"
    <3>1. CV!EndSignal(p)
      BY <1>3, <1>10, <2>1, <2>2, <2>4 DEF SPost, AbsStates, CV!EndSignal, CV!Go
    <3> QED BY <3>1 DEF CV!Next
  <2> QED BY <2>1, <2>3, <2>4
<1> QED BY <1>4, <1>5, <1>6, <1>7, <1>8, <1>9, <1>10 DEF SignalStep

LEMMA RefIntr ==
  ASSUME Safe, CountInv, NEW p \in Procs, IntrStep(p)
  PROVE  CV!Next \/ UNCHANGED CV!vars
<1>1. GateInv /\ MutexInv /\ LockMutex /\ GateInv' /\ MutexInv' /\ LockMutex'
  BY GateIntr DEF CountInv, GateInv, MutexInv
<1>2. \A q \in Procs : q # p => pc'[q] = pc[q] /\ bcast'[q] = bcast[q]
  BY <1>1 DEF IntrStep, WGateIntr, WQueueIntr, WUnblockIntr, SUnblockIntr, SGateIntr,
         MutexInv, TypeOK, Go, locals
<1>3. AbsStates' = [AbsStates EXCEPT ![p] = AbsState(p)']
  BY <1>2, AbsStatesStep DEF AbsState, Counted
<1> USE DEF MutexInv, TypeOK, Steps, WaitSteps, SignalSteps, Go, SemWait, SemPost,
            sems, counters, locals
<1>4. CASE WGateIntr(p)
  <2>1. AbsState(p) = "wait" /\ AbsState(p)' = "run"
    BY <1>1, <1>4 DEF WGateIntr, AbsState, Counted
  <2>2. AbsOwner' = AbsOwner
    BY <1>1, <1>4, OwnerSame DEF WGateIntr, HasLock
  <2> QED BY <1>1, <1>3, <1>4, <2>1, <2>2 DEF WGateIntr, AbsStates, CV!Next, CV!Abort, CV!Go
<1>5. CASE WQueueIntr(p)
  BY <1>1, <1>5 DEF WQueueIntr, Safe, SafeSites, GateInv
<1>6. CASE WUnblockIntr(p)
  BY <1>1, <1>6 DEF WUnblockIntr, Safe, SafeSites, GateInv
<1>7. CASE SUnblockIntr(p)
  <2>1. AbsState(p) \in {"signal", "broadcast"} /\ AbsState(p)' = "run"
    BY <1>1, <1>7 DEF SUnblockIntr, AbsState, Counted
  <2>2. AbsOwner' = AbsOwner
    BY <1>1, <1>7, OwnerSame DEF SUnblockIntr, HasLock
  <2>3. CV!Abort(p)
    BY <1>3, <1>7, <2>1, <2>2 DEF SUnblockIntr, AbsStates, CV!Abort, CV!Go
  <2> QED BY <2>3 DEF CV!Next
<1>8. CASE SGateIntr(p)
  BY <1>1, <1>8 DEF SGateIntr, Safe, SafeSites, GateInv
<1> QED BY <1>4, <1>5, <1>6, <1>7, <1>8 DEF IntrStep

LEMMA RefNext == Safe /\ CountInv /\ [Next]_vars => [CV!Next]_(CV!vars)
<1> SUFFICES ASSUME Safe, CountInv, [Next]_vars PROVE CV!Next \/ UNCHANGED CV!vars
  OBVIOUS
<1>1. CASE UNCHANGED vars
  <2>1. AbsOwner' = AbsOwner
    BY <1>1, OwnerSame DEF vars, HasLock
  <2>2. AbsStates' = AbsStates
    BY <1>1 DEF vars, AbsStates, AbsState, Counted
  <2> QED BY <1>1, <2>1, <2>2 DEF vars, AbsStates, CV!vars
<1>2. CASE Next
  BY <1>1, <1>2, RefClient, RefWait, RefSignal, RefIntr DEF Next, AllWait
<1> QED BY <1>1, <1>2

(* svcond implements the abstract condition variable: a process is blocked *)
(* before it gives up the lock, a signal wakes one of the processes that   *)
(* were blocked when it was made, a broadcast all of them, and nobody      *)
(* returns without the lock (svcond.html, sections 16.1 and 16.2).         *)
THEOREM SvcondImplementsCondVar == ASSUME Safe PROVE Spec => CVSpec
<1> QED BY Safe, CountInit, CountNext, RefInit, RefNext, PTL DEF Spec, CVSpec, CV!Spec
=============================================================================
