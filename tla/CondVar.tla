------------------------------ MODULE CondVar ------------------------------
(***************************************************************************)
(* What a condition variable promises its callers, independent of how      *)
(* libmba builds one out of System V semaphores (module Svcond).           *)
(*                                                                         *)
(* A process calls wait while it owns the lock that goes with the          *)
(* condition variable.  It joins the set of blocked processes before the   *)
(* lock is given up.  signal grants one permit, broadcast one to every     *)
(* blocked process.  A permit belongs to the processes that were blocked   *)
(* when it was granted: nobody may join them before it has been used, so a *)
(* late comer never takes a wake-up that was meant for somebody else.      *)
(***************************************************************************)
EXTENDS Naturals, FiniteSets

CONSTANTS Procs,  \* the processes that share the condition variable
          None    \* no process: the lock is free

VARIABLES owner,    \* the process that owns the lock, or None
          state,    \* where each process is with respect to its calls
          permits   \* wake-ups granted and not yet used

vars == <<owner, state, permits>>

States == {"run", "wait", "blocked", "woken", "signal", "broadcast", "done"}

Blocked == {p \in Procs : state[p] = "blocked"}

Init == /\ owner = None
        /\ state = [p \in Procs |-> "run"]
        /\ permits = 0

Go(p, from, to) == /\ state[p] = from
                   /\ state' = [state EXCEPT ![p] = to]

Lock(p) == /\ owner = None
           /\ state[p] = "run"
           /\ owner' = p
           /\ UNCHANGED <<state, permits>>

Unlock(p) == /\ owner = p
             /\ state[p] = "run"
             /\ owner' = None
             /\ UNCHANGED <<state, permits>>

CallWait(p) == /\ owner = p
               /\ Go(p, "run", "wait")
               /\ UNCHANGED <<owner, permits>>

(* A call that was interrupted before it had any effect. *)
Abort(p) == /\ \E c \in {"wait", "signal", "broadcast"} : Go(p, c, "run")
            /\ UNCHANGED <<owner, permits>>

Block(p) == /\ permits = 0
            /\ Go(p, "wait", "blocked")
            /\ UNCHANGED <<owner, permits>>

(* The lock is given up only by a process that is already blocked. *)
Release(p) == /\ owner = p
              /\ state[p] = "blocked"
              /\ owner' = None
              /\ UNCHANGED <<state, permits>>

Wake(p) == /\ permits > 0
           /\ owner # p
           /\ Go(p, "blocked", "woken")
           /\ permits' = permits - 1
           /\ UNCHANGED owner

(* wait returns only after the lock has been taken again. *)
Return(p) == /\ owner = None
             /\ Go(p, "woken", "run")
             /\ owner' = p
             /\ UNCHANGED permits

CallSignal(p) == /\ \E c \in {"signal", "broadcast"} : Go(p, "run", c)
                 /\ UNCHANGED <<owner, permits>>

Signal(p) == /\ Go(p, "signal", "done")
             /\ permits' = IF permits < Cardinality(Blocked)
                           THEN permits + 1
                           ELSE permits
             /\ UNCHANGED owner

Broadcast(p) == /\ Go(p, "broadcast", "done")
                /\ permits' = Cardinality(Blocked)
                /\ UNCHANGED owner

EndSignal(p) == /\ Go(p, "done", "run")
                /\ UNCHANGED <<owner, permits>>

Next == \E p \in Procs :
           \/ Lock(p) \/ Unlock(p)
           \/ CallWait(p) \/ Abort(p) \/ Block(p) \/ Release(p)
           \/ Wake(p) \/ Return(p)
           \/ CallSignal(p) \/ Signal(p) \/ Broadcast(p) \/ EndSignal(p)

Spec == Init /\ [][Next]_vars
=============================================================================
