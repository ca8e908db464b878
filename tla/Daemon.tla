------------------------------- MODULE Daemon -------------------------------
(***************************************************************************)
(* Programs that become daemons (libmba's src/daemon.c), each started by   *)
(* hand or by init, and each able to die at any time.  daemonize forks;    *)
(* the child takes the lock file, writes its process number to the pid     *)
(* file and changes its directory.  A process whose parent is init counts  *)
(* as a daemon already, and for it daemonize does nothing of this.  The    *)
(* instances run in parallel: each of these is a step.                     *)
(*                                                                         *)
(* A POSIX lock belongs to a process, and is given up when the process     *)
(* closes any descriptor of the file.                                      *)
(*                                                                         *)
(* A definition X_slip is a mistake that X could contain; no behaviour of  *)
(* the model uses it.                                                      *)
(***************************************************************************)
EXTENDS Integers, FiniteSets

CONSTANTS Procs,    \* the processes: every start is another one
          Paths,    \* the pairs <<lockpath, pidpath>> that the programs may be given
          Failing,  \* whether opening, writing and chdir may fail
          NULL      \* no path, or no process

DaemonAssumption == /\ NULL \notin Procs /\ \A p \in Paths : DOMAIN p = {1, 2}
                    /\ Failing \subseteq BOOLEAN /\ FALSE \in Failing

VARIABLES
  paths,   \* the lockpath and pidpath of this program
  pc,      \* of each process: "none", "child", "locked", "written", "runs", "failed", "dead",
           \* or "adopted", when it runs with init for its parent
  locker,  \* the process that has the lock, or NULL
  pidfile  \* the process whose number the pid file begins with, or NULL

vars == <<paths, pc, locker, pidfile>>

Init == /\ paths \in Paths
        /\ pc = [p \in Procs |-> "none"]
        /\ locker = NULL /\ pidfile = NULL

lockpath == paths[1]
pidpath  == paths[2]

Goes(p, to) == pc' = [pc EXCEPT ![p] = to]

-----------------------------------------------------------------------------
(* getppid() is 1: "already a daemon".                                      *)
Adopt(p) == /\ pc[p] = "none" /\ Goes(p, "adopted")
            /\ UNCHANGED <<paths, locker, pidfile>>

(* The child, its descriptors closed and its log opened.                    *)
Fork(p) ==
  /\ pc[p] = "none"
  /\ \/ Goes(p, "child")
     \/ TRUE \in Failing /\ Goes(p, "failed")
  /\ UNCHANGED <<paths, locker, pidfile>>

TakesLock_slip(p) == locker' = p

TakesLock(p) == locker = NULL /\ locker' = p

Lock(p) ==
  /\ pc[p] = "child"
  /\ IF lockpath = NULL THEN Goes(p, "locked") /\ UNCHANGED locker
     ELSE \/ TakesLock(p) /\ Goes(p, "locked")
          \/ locker # NULL /\ Goes(p, "failed") /\ UNCHANGED locker   \* "Server already running"
          \/ TRUE \in Failing /\ Goes(p, "failed") /\ UNCHANGED locker
  /\ UNCHANGED <<paths, pidfile>>

(* Writing the pid file, which is closed; a file of the same path as the    *)
(* lock file takes the lock away with it.                                   *)
Closes(p) == locker' = IF pidpath = lockpath /\ locker = p THEN NULL ELSE locker

WritePid(p) ==
  /\ pc[p] = "locked"
  /\ IF pidpath = NULL THEN Goes(p, "written") /\ UNCHANGED <<locker, pidfile>>
     ELSE \/ pidfile' = p /\ Closes(p) /\ Goes(p, "written")
          \/ TRUE \in Failing /\ Goes(p, "failed") /\ UNCHANGED <<locker, pidfile>>
  /\ UNCHANGED paths

Chdir(p) ==
  /\ pc[p] = "written"
  /\ Goes(p, "runs") \/ (TRUE \in Failing /\ Goes(p, "failed"))
  /\ UNCHANGED <<paths, locker, pidfile>>

(* A process dies, killed or because daemonize failed, and its lock goes.   *)
Die(p) ==
  /\ pc[p] \notin {"none", "dead"}
  /\ Goes(p, "dead") /\ locker' = (IF locker = p THEN NULL ELSE locker)
  /\ UNCHANGED <<paths, pidfile>>

Next == \E p \in Procs : Adopt(p) \/ Fork(p) \/ Lock(p) \/ WritePid(p) \/ Chdir(p) \/ Die(p)

Spec == Init /\ [][Next]_vars
-----------------------------------------------------------------------------
Running == {p \in Procs : pc[p] = "runs"}

Adopted == {p \in Procs : pc[p] = "adopted"}

(* With a lock file and another pid file, or none, at most one instance     *)
(* runs of those that daemonize has forked, it is the one that has the      *)
(* lock, and the pid file names it: in whatever order instances are started *)
(* and die.  Those that init has started run beside it, any number of them, *)
(* without the lock and never named by the pid file.                        *)
OneDaemon == lockpath # NULL /\ lockpath # pidpath =>
               /\ Cardinality(Running) <= 1
               /\ \A p \in Running : locker = p /\ (pidpath # NULL => pidfile = p)
               /\ \A p \in Adopted : locker # p /\ pidfile # p

(* "First instance continues": and no other, also when the process number   *)
(* is written "to lockfile", and also of those that init has started.       *)
FirstContinues == lockpath # NULL => Cardinality(Running \cup Adopted) <= 1
=============================================================================
