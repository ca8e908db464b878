------------------------------- MODULE Svsem --------------------------------
(***************************************************************************)
(* libmba's svsem (src/svsem.c): POSIX-like semaphores made of System V    *)
(* semaphore sets.  A set is known by a key, and ftok makes the key of a   *)
(* set from a file: the file of svsem_open's path, or one that mkstemp     *)
(* makes for svsem_create and svsem_pool_create.  A file is here its       *)
(* inode.  ftok keeps 16 bits of the inode's number and 8 of the device's, *)
(* so that files that differ may have one key.  semid_get opens the set of *)
(* a key or creates it.  The kernel gives a new set any   *)
(* values and the time 0 of the last operation (sem_otime); who created it *)
(* sets the values to 0 and then adds the initial value by a semop, which  *)
(* sets sem_otime, and everybody else waits for that.                      *)
(*                                                                         *)
(* One step is one system call.  A process has one handle at a time, and   *)
(* may be killed between any two steps.  Of the semaphores of a pool one   *)
(* stands for all.                                                         *)
(*                                                                         *)
(* A definition X_slip is a mistake that X could contain; no behaviour of  *)
(* the model uses it.                                                      *)
(***************************************************************************)
EXTENDS Integers, FiniteSetsExt

CONSTANTS
  Procs, NULL,
  Ids,        \* as many sets as the kernel allows (SEMMNI)
  PathInode,  \* the inode of the file that svsem_open is called with
  TmpInodes,  \* inodes for the files of mkstemp
  ftok,       \* the key of each file
  Values,     \* initial values
  SemMax,     \* model bound: the units a semaphore may have (< SEMVMX)
  MaxTries,   \* MAX_TRIES
  PoolReuse   \* an unlinked file's inode is given to another file while
              \* the set of a pool still has its key

ASSUME SvsemAssumption == /\ NULL \notin Ids
                          /\ IsFiniteSet(Procs)
                          /\ PathInode \notin TmpInodes
                          /\ SemMax \in Nat \ {0} /\ Values \subseteq 0 .. SemMax
                          /\ MaxTries \in Nat \ {0}
                          /\ PoolReuse \in BOOLEAN

VARIABLES
  sets,    \* the kernel's sets: NULL, or a record
  files,   \* the inodes of the files of mkstemp that are linked
  pc,      \* where a process is
  call,    \* its call: the function, its flags, the file and initial value
  tries,   \* max
  semid,   \* semid
  handle   \* its svsem_t, or NULL

vars == <<sets, files, pc, call, tries, semid, handle>>

Files == TmpInodes \cup {PathInode}

(* A new set, with the kernel's SEM_UNDO adjustments.  Its key is that of  *)
(* the file it is made from.  Three fields are auxiliary: pool, whether it *)
(* is that of a pool; due, its initial value less the units taken for      *)
(* good; and mine, the units each process took through O_UNDO handles and  *)
(* has not given back.                                                     *)
Nobody == [p \in Procs |-> 0]
Set(c, v) == [file |-> c.file, val |-> v, otime |-> FALSE, adj |-> Nobody,
              pool |-> c.op = "pool", due |-> c.value, mine |-> Nobody]

Live == {i \in Ids : sets[i] # NULL}

(* The set that semget finds for a file, and the sets made from that file. *)
With(f) == {i \in Live : ftok[sets[i].file] = ftok[f]}
From(f) == {i \in Live : sets[i].file = f}

Known(p) == {semid[p]} \cup (IF handle[p] = NULL THEN {} ELSE {handle[p].id})

(* The identifiers that nobody has: the kernel does not give out one that  *)
(* a process still remembers.                                              *)
Unknown == {i \in Ids \ Live : \A p \in Procs : i \notin Known(p)}

Init == /\ sets = [i \in Ids |-> NULL]
        /\ files = {}
        /\ pc = [p \in Procs |-> "idle"]
        /\ call = [p \in Procs |-> NULL]
        /\ tries = [p \in Procs |-> 0]
        /\ semid = [p \in Procs |-> NULL]
        /\ handle = [p \in Procs |-> NULL]

Go(p, from, to) == pc[p] = from /\ pc' = [pc EXCEPT ![p] = to]

(* What a process has when a call has returned and left it the handle x.   *)
Idle(p, x) == /\ call' = [call EXCEPT ![p] = NULL]
              /\ tries' = [tries EXCEPT ![p] = 0]
              /\ semid' = [semid EXCEPT ![p] = NULL]
              /\ handle' = [handle EXCEPT ![p] = x]

(* What semid_get has returned to: svsem_open and svsem_create fill in the *)
(* handle; svsem_pool_create first unlinks its file.                       *)
Obtained(p, i) ==
  LET x == [id |-> i, op |-> call[p].op, file |-> call[p].file, undo |-> call[p].undo]
  IN  /\ pc' = [pc EXCEPT ![p] = IF x.op = "pool" THEN "unlink" ELSE "idle"]
      /\ IF x.op = "pool" THEN semid' = [semid EXCEPT ![p] = i] /\ UNCHANGED <<call, tries, handle>>
         ELSE Idle(p, x)

(* svsem_create leaves its file behind.  svsem_pool_create reads the name  *)
(* of its file from memory that it has freed, so it may unlink it or not.  *)
Failed(p) == /\ pc' = [pc EXCEPT ![p] = "idle"]
             /\ Idle(p, NULL)
             /\ files' \in {files, IF call[p].op = "pool" THEN files \ {call[p].file} ELSE files}

Drop(i) == [sets EXCEPT ![i] = NULL]       \* IPC_RMID

-----------------------------------------------------------------------------
(* The calls, up to the first system call of semid_get.                    *)
First_slip(c) == "get"      \* O_EXCL is not looked at
First(c) == IF c.excl THEN "creat" ELSE "get"

Call(p, c) == /\ handle[p] = NULL
              /\ Go(p, "idle", First(c))
              /\ call' = [call EXCEPT ![p] = c]
              /\ tries' = [tries EXCEPT ![p] = MaxTries]
              /\ UNCHANGED <<sets, semid, handle>>

(* svsem_open; without O_CREAT the value is 0.                             *)
Open(p) ==
  /\ \/ \E v \in Values, excl, undo \in BOOLEAN :
           Call(p, [op |-> "open", file |-> PathInode, excl |-> excl, undo |-> undo, value |-> v])
     \/ \E undo \in BOOLEAN :
           Call(p, [op |-> "open", file |-> PathInode, excl |-> FALSE, undo |-> undo, value |-> 0])
  /\ UNCHANGED files

(* mkstemp: the inode of the new file is one that no file has, but a set   *)
(* may have been made from an earlier file that had it.                    *)
Mkstemp(i) == /\ i \in TmpInodes \ files
              /\ PoolReuse \/ \A s \in From(i) : ~sets[s].pool
              /\ files' = files \cup {i}

Create(p) == \E i \in TmpInodes, v \in Values, undo \in BOOLEAN :
  /\ Mkstemp(i)
  /\ Call(p, [op |-> "create", file |-> i, excl |-> TRUE, undo |-> undo, value |-> v])

PoolCreate(p) == \E i \in TmpInodes, v \in Values, undo \in BOOLEAN :
  /\ Mkstemp(i)
  /\ Call(p, [op |-> "pool", file |-> i, excl |-> FALSE, undo |-> undo, value |-> v])

(* semid_get: semget(key, nsems, 0).                                       *)
Get(p) == /\ pc[p] = "get"
          /\ IF With(call[p].file) = {}
             THEN Go(p, "get", "creat") /\ UNCHANGED <<tries, semid>>
             ELSE /\ Go(p, "get", "stat")
                  /\ semid' = [semid EXCEPT ![p] = CHOOSE i \in With(call[p].file) : TRUE]
                  /\ tries' = [tries EXCEPT ![p] = MaxTries]
          /\ UNCHANGED <<sets, files, call, handle>>

(* EINVAL: the set of the key has fewer semaphores than the pool is to     *)
(* have.                                                                   *)
GetFails(p) == /\ pc[p] = "get" /\ call[p].op = "pool" /\ With(call[p].file) # {}
               /\ Failed(p)
               /\ UNCHANGED sets

(* IPC_STAT: the set is there and initialised, or not yet, or gone.        *)
Initialised(i) == i \in Live /\ sets[i].otime
Stat_slip(p) == /\ pc[p] = "stat" /\ semid[p] \in Live   \* does not wait
                /\ Obtained(p, semid[p])
                /\ UNCHANGED <<sets, files>>

Stat(p) == /\ pc[p] = "stat" /\ Initialised(semid[p])
           /\ Obtained(p, semid[p])
           /\ UNCHANGED <<sets, files>>

StatAgain(p) == /\ pc[p] = "stat" /\ semid[p] \in Live /\ ~Initialised(semid[p])
                /\ tries[p] > 1
                /\ tries' = [tries EXCEPT ![p] = @ - 1]
                /\ UNCHANGED <<sets, files, pc, call, semid, handle>>

StatFails(p) == /\ pc[p] = "stat"
                /\ semid[p] \notin Live \/ (~Initialised(semid[p]) /\ tries[p] = 1)
                /\ Failed(p)
                /\ UNCHANGED sets

(* semget(key, nsems, IPC_CREAT | IPC_EXCL | mode).                        *)
Creat(p) == /\ pc[p] = "creat" /\ With(call[p].file) = {}
            /\ Go(p, "creat", "setval")
            /\ \E v \in Values, i \in Unknown :
                  /\ sets' = [sets EXCEPT ![i] = Set(call[p], v)]
                  /\ semid' = [semid EXCEPT ![p] = i]
            /\ UNCHANGED <<files, call, tries, handle>>

CreatAgain(p) == /\ pc[p] = "creat" /\ With(call[p].file) # {} /\ ~call[p].excl /\ tries[p] > 1
                 /\ Go(p, "creat", "get")
                 /\ tries' = [tries EXCEPT ![p] = @ - 1]
                 /\ UNCHANGED <<sets, files, call, semid, handle>>

(* EEXIST, ETIMEDOUT, or ENOSPC of a kernel that is out of sets.           *)
CreatFails(p) == /\ pc[p] = "creat"
                 /\ \/ With(call[p].file) # {} /\ (call[p].excl \/ tries[p] = 1)
                    \/ With(call[p].file) = {} /\ Unknown = {}
                 /\ Failed(p)
                 /\ UNCHANGED sets

(* SETVAL or SETALL: 0 to the first, which semop sets.                     *)
Setval(p) == /\ Go(p, "setval", "semop") /\ semid[p] \in Live
             /\ sets' = [sets EXCEPT ![semid[p]].val = 0,
                                     ![semid[p]].adj = Nobody]
             /\ UNCHANGED <<files, call, tries, semid, handle>>

Semop(p) == /\ pc[p] = "semop" /\ semid[p] \in Live
            /\ sets' = [sets EXCEPT ![semid[p]].val = @ + call[p].value,
                                    ![semid[p]].otime = TRUE]
            /\ Obtained(p, semid[p])
            /\ UNCHANGED files

(* The set has been removed under the hands of who creates it.             *)
SetFails(p) == /\ pc[p] \in {"setval", "semop"} /\ semid[p] \notin Live
               /\ Failed(p)
               /\ UNCHANGED sets

-----------------------------------------------------------------------------
(* The rest of svsem_pool_create.  The pool may find no memory.            *)
Unlink(p) == /\ Go(p, "unlink", "pool")
             /\ files' = files \ {call[p].file}
             /\ UNCHANGED <<sets, call, tries, semid, handle>>

PoolReady(p) ==
  /\ Go(p, "pool", "idle")
  /\ Idle(p, [id |-> semid[p], op |-> "pool", file |-> call[p].file, undo |-> call[p].undo])
  /\ UNCHANGED <<sets, files>>

PoolFails(p) == /\ Go(p, "pool", "idle")
                /\ sets' = Drop(semid[p])
                /\ Idle(p, NULL)
                /\ UNCHANGED files

-----------------------------------------------------------------------------
(* Operations on a semaphore, by a process that has a handle.  SEM_UNDO,   *)
(* as semop is told to, makes the kernel take the operation back when the  *)
(* process ends.                                                           *)
Using(p) == pc[p] = "idle" /\ handle[p] # NULL
Its(p)   == handle[p].id

Flags_slip(p) == FALSE     \* O_UNDO does not get through to semop
Flags(p) == handle[p].undo

(* The books, due and mine, go by the flag of the handle.                  *)
Apply(p, n) ==
  sets' = [sets EXCEPT ![Its(p)].val = @ + n,
                       ![Its(p)].adj[p] = IF Flags(p) THEN @ - n ELSE @,
                       ![Its(p)].mine[p] = IF handle[p].undo THEN @ - n ELSE @,
                       ![Its(p)].due = IF handle[p].undo THEN @ ELSE @ + n]

(* svsem_wait sleeps while the value is 0, until the set is removed.       *)
Wait(p) == /\ Using(p)
           /\ pc' = [pc EXCEPT ![p] = "wait"]
           /\ UNCHANGED <<sets, files, call, tries, semid, handle>>

Taken(p) == /\ pc[p] = "wait" /\ Its(p) \in Live /\ sets[Its(p)].val > 0
            /\ pc' = [pc EXCEPT ![p] = "idle"]
            /\ Apply(p, -1)
            /\ UNCHANGED <<files, call, tries, semid, handle>>

(* EINTR, EIDRM or EINVAL.                                                 *)
WaitFails(p) == /\ pc[p] = "wait"
                /\ pc' = [pc EXCEPT ![p] = "idle"]
                /\ UNCHANGED <<sets, files, call, tries, semid, handle>>

Trywait_slip(p) == /\ Using(p) /\ Its(p) \in Live
                   /\ Apply(p, -1)
                   /\ UNCHANGED <<files, pc, call, tries, semid, handle>>

Trywait(p) == /\ Using(p) /\ Its(p) \in Live /\ sets[Its(p)].val > 0
              /\ Apply(p, -1)
              /\ UNCHANGED <<files, pc, call, tries, semid, handle>>

(* As documented, with O_UNDO a process posts only what it has waited for. *)
Post(p) == /\ Using(p) /\ Its(p) \in Live
           /\ IF handle[p].undo THEN sets[Its(p)].mine[p] > 0 ELSE sets[Its(p)].due < SemMax
           /\ Apply(p, 1)
           /\ UNCHANGED <<files, pc, call, tries, semid, handle>>

(* svsem_setvalue, which pool_get calls too; the kernel forgets what it    *)
(* would have taken back.                                                  *)
Setvalue(p) == \E v \in Values :
  /\ Using(p) /\ Its(p) \in Live
  /\ sets' = [sets EXCEPT ![Its(p)].val = v, ![Its(p)].adj = Nobody,
                          ![Its(p)].due = v, ![Its(p)].mine = Nobody]
  /\ UNCHANGED <<files, pc, call, tries, semid, handle>>

Without(p) == handle' = [handle EXCEPT ![p] = NULL]

Close(p) == /\ Using(p) /\ handle[p].op = "open"
            /\ Without(p)
            /\ UNCHANGED <<sets, files, pc, call, tries, semid>>

(* svsem_remove keeps the handle of a set that is gone already.            *)
Remove(p) == /\ Using(p) /\ handle[p].op = "open" /\ Its(p) \in Live
             /\ sets' = Drop(Its(p))
             /\ Without(p)
             /\ UNCHANGED <<files, pc, call, tries, semid>>

(* svsem_destroy and svsem_pool_destroy: IPC_RMID, then unlink, which does *)
(* nothing for a pool, whose file is unlinked already.  A set that is gone *)
(* (EINVAL) is as good; any other failure leaves everything as it is.      *)
Destroy_slip(p) == /\ Using(p) /\ handle[p].op # "open"
                   /\ Go(p, "idle", "destroy")   \* without IPC_RMID
                   /\ UNCHANGED <<sets, files, call, tries, semid, handle>>

Destroy(p) == /\ Using(p) /\ handle[p].op # "open"
              /\ Go(p, "idle", "destroy")
              /\ sets' = Drop(Its(p))
              /\ UNCHANGED <<files, call, tries, semid, handle>>

Destroyed(p) == /\ Go(p, "destroy", "idle")
                /\ files' = IF handle[p].op = "create" THEN files \ {handle[p].file} ELSE files
                /\ Without(p)
                /\ UNCHANGED <<sets, call, tries, semid>>

-----------------------------------------------------------------------------
(* The environment.  A process is killed, and the kernel takes back what   *)
(* it was told to; another one takes its place.                            *)
Restored(i, p) == [sets[i] EXCEPT !.val = Min({SemMax, Max({0, @ + sets[i].adj[p]})}),
                                  !.adj[p] = 0, !.mine[p] = 0]

Killed(p) == /\ pc[p] # "idle" \/ handle[p] # NULL
             /\ pc' = [pc EXCEPT ![p] = "idle"]
             /\ Idle(p, NULL)
             /\ sets' = [i \in Ids |-> IF i \in Live THEN Restored(i, p) ELSE NULL]
             /\ UNCHANGED files

(* Somebody removes a set with the ipcrm command.                          *)
Ipcrm(i) == /\ i \in Live
            /\ sets' = Drop(i)
            /\ UNCHANGED <<files, pc, call, tries, semid, handle>>

Getting(p) == \/ Get(p) \/ GetFails(p) \/ Stat(p) \/ StatAgain(p) \/ StatFails(p) \/ Creat(p) \/ CreatAgain(p)
              \/ CreatFails(p) \/ Setval(p) \/ Semop(p) \/ SetFails(p)
              \/ Unlink(p) \/ PoolReady(p) \/ PoolFails(p)

Operation(p) == \/ Wait(p) \/ Taken(p) \/ WaitFails(p) \/ Trywait(p) \/ Post(p) \/ Setvalue(p)
                \/ Close(p) \/ Remove(p) \/ Destroy(p) \/ Destroyed(p)

Next == \/ \E p \in Procs : \/ Open(p) \/ Create(p) \/ PoolCreate(p)
                            \/ Getting(p) \/ Operation(p) \/ Killed(p)
        \/ \E i \in Ids : Ipcrm(i)

Spec == Init /\ [][Next]_vars
-----------------------------------------------------------------------------
Calls == [op : {"open", "create", "pool"}, file : Files, excl : BOOLEAN, undo : BOOLEAN,
          value : Values \cup {0}]

TypeOK == /\ \A i \in Live : /\ sets[i].file \in Files /\ sets[i].val \in 0 .. SemMax
                             /\ sets[i].otime \in BOOLEAN /\ sets[i].pool \in BOOLEAN
                             /\ sets[i].adj \in [Procs -> Int]
                             /\ sets[i].mine \in [Procs -> 0 .. SemMax] /\ sets[i].due \in Nat
          /\ files \subseteq TmpInodes
          /\ pc \in [Procs -> {"idle", "get", "creat", "setval", "semop", "stat", "unlink",
                              "pool", "wait", "destroy"}]
          /\ call \in [Procs -> Calls \cup {NULL}]
          /\ tries \in [Procs -> 0 .. MaxTries]
          /\ semid \in [Procs -> Ids \cup {NULL}]
          /\ \A p \in Procs : handle[p] # NULL => handle[p].id \in Ids

(* Nobody gets a semaphore before the one who creates it has initialised   *)
(* it, in whatever order they open it and whoever is killed.               *)
NeverTooEarly == \A p \in Procs : handle[p] # NULL /\ Its(p) \in Live => sets[Its(p)].otime

(* Once it is initialised, the value of a semaphore is its initial value   *)
(* less the units taken.  Those taken with O_UNDO count only while their   *)
(* process lives: a mutex is not lost with its holder.                     *)
Balanced == \A i \in Live : sets[i].otime =>
              sets[i].val = sets[i].due - SumFunctionOnSet(sets[i].mine, Procs)

(* The sets, and what the processes have of them, are always sound.        *)
SetsRight == TypeOK /\ Balanced

(* A semaphore opened with O_EXCL is one that nobody else had opened.      *)
ExclIsNew == [][\A p, q \in Procs :
                  /\ call[p] # NULL /\ handle'[p] # NULL /\ call[p].excl
                  /\ p # q /\ handle[q] # NULL
                  => handle[q].id # handle'[p].id]_vars

(* svsem_create never meets a set that was made from an earlier file on    *)
(* the inode of its own new file, whoever was killed and wherever: a set   *)
(* of svsem_create does not outlive its file.  It is refused only for the  *)
(* set of another file that ftok gives the same key.                       *)
NothingLeftBehind ==
  \A p \in Procs : pc[p] = "creat" /\ call[p].op = "create" =>
    /\ From(call[p].file) = {}
    /\ \A i \in With(call[p].file) : ~sets[i].pool => sets[i].file \in files \cup {PathInode}

(* Documented of svsem_pool_create (docs/ref/svsem.html): it creates an    *)
(* array of semaphores, so no two pools in use have the same one.          *)
PoolsApart == \A p, q \in Procs :
  /\ p # q /\ handle[p] # NULL /\ handle[q] # NULL
  /\ handle[p].op = "pool" /\ handle[q].op = "pool" /\ Its(p) \in Live
  => Its(p) # Its(q)
=============================================================================
