------------------------------ MODULE MCSvcond ------------------------------
(* Svcond on small sets of processes. *)
EXTENDS Svcond, TLC

Sym == Permutations(Procs)

NoSites   == {}
QueueSite == {"w_queue"}

(* The processes are alike, in Init, Next and the fairness: what holds of   *)
(* one holds of each.                                                       *)
One == CHOOSE p \in Procs : TRUE

(* A process asleep when no waiter is left unsignalled wakes.               *)
OneWakes == Wakes(One)

(* A call of svcond_wait gets to sleep, a signaller returns.                *)
OneProceeds == Proceeds(One)
=============================================================================
