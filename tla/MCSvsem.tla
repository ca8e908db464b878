------------------------------ MODULE MCSvsem -------------------------------
(* Svsem on small sets of processes, sets and inodes, which are alike.     *)
EXTENDS Svsem, TLC

(* All files have one key, or each its own.                                *)
OneKey == [f \in Files |-> PathInode]
OwnKey == [f \in Files |-> f]

Sym == Permutations(Procs) \cup Permutations(Ids) \cup Permutations(TmpInodes)

(* What a later step can still read: neither the count of tries nor the    *)
(* initial value of a call that has its set, nor the flag of a handle      *)
(* whose set is gone.                                                      *)
Unread == <<sets, files, pc, semid,
            [p \in Procs |-> IF handle[p] = NULL \/ Its(p) \in Live THEN handle[p]
                             ELSE [handle[p] EXCEPT !.undo = FALSE]],
            [p \in Procs |-> IF pc[p] \in {"get", "creat", "stat"} THEN tries[p] ELSE 0],
            [p \in Procs |-> IF pc[p] \in {"stat", "unlink", "pool"}
                             THEN [call[p] EXCEPT !.value = 0] ELSE call[p]]>>
=============================================================================
