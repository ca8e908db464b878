---------------------------- MODULE Svsem_proofs ----------------------------
(***************************************************************************)
(* For any number of processes, sets, initial values and tries: nobody     *)
(* gets a semaphore too early, its value is always accounted for, O_EXCL   *)
(* gives a new one, and svsem_create meets nothing that was left behind.   *)
(***************************************************************************)
EXTENDS Svsem, DataFacts

USE SvsemAssumption

Calling == {"get", "creat", "setval", "semop", "stat", "unlink", "pool"}
Setting == {"setval", "semop"}     \* where the one who creates a set is
States  == Calling \cup {"idle", "wait", "destroy"}

Handles == [id : Ids, op : {"open", "create", "pool"}, file : Files, undo : BOOLEAN]

Sets == [file : Files, val : 0 .. SemMax, otime : BOOLEAN, adj : [Procs -> Int],
         pool : BOOLEAN, due : 0 .. SemMax, mine : [Procs -> 0 .. SemMax]]

TypeInv == /\ sets \in [Ids -> Sets \cup {NULL}]
           /\ files \subseteq TmpInodes
           /\ pc \in [Procs -> States]
           /\ call \in [Procs -> Calls \cup {NULL}]
           /\ tries \in [Procs -> 0 .. MaxTries]
           /\ semid \in [Procs -> Ids \cup {NULL}]
           /\ handle \in [Procs -> Handles \cup {NULL}]

(* What the calls ask for: only svsem_open and svsem_create use O_EXCL.    *)
Asks(c) == /\ c \in Calls
           /\ c.op = "pool" => ~c.excl
           /\ c.op = "create" => c.excl
           /\ IF c.op = "open" THEN c.file = PathInode ELSE c.file \in TmpInodes

(* Where a process is says what its variables hold.                        *)
Local(p) == /\ pc[p] \in Calling => Asks(call[p]) /\ handle[p] = NULL
            /\ pc[p] \notin Calling => call[p] = NULL
            /\ pc[p] \in Setting \cup {"stat", "unlink", "pool"} => semid[p] \in Ids
            /\ pc[p] \in {"wait", "destroy"} => handle[p] # NULL
            /\ pc[p] \in {"get", "creat", "stat"} => tries[p] >= 1
            /\ pc[p] \in {"get", "stat"} => ~call[p].excl
            /\ pc[p] \in {"unlink", "pool"} => call[p].op = "pool"

(* And what the set is that it remembers, if that set is still there: not  *)
(* initialised while it is creating it, initialised when it has it, and    *)
(* gone once it has removed it.                                            *)
Remembers(p) ==
  /\ pc[p] \in Setting /\ semid[p] \in Live =>
       /\ ~sets[semid[p]].otime
       /\ sets[semid[p]].due = call[p].value
       /\ pc[p] = "semop" => sets[semid[p]].val = 0
  /\ pc[p] \in {"unlink", "pool"} /\ semid[p] \in Live => sets[semid[p]].otime
  /\ handle[p] # NULL /\ Its(p) \in Live => sets[Its(p)].otime
  /\ pc[p] = "destroy" => Its(p) \notin Live

ProcRight == \A p \in Procs : Local(p) /\ Remembers(p)

(* Two processes never both create the same set.                           *)
CreatorsApart == \A p, q \in Procs :
  p # q /\ pc[p] \in Setting /\ pc[q] \in Setting => semid[p] # semid[q]

(* The books of one set: the kernel would take back what the processes     *)
(* have taken, and nobody has taken anything of a set not yet initialised. *)
Books(s) == /\ s.adj = s.mine
            /\ s.otime => s.val = s.due - SumFunctionOnSet(s.mine, Procs)
            /\ ~s.otime => s.mine = Nobody

BooksRight == \A i \in Live : Books(sets[i])

IInv == TypeInv /\ ProcRight /\ CreatorsApart /\ BooksRight

-----------------------------------------------------------------------------
(* The files, when the inode of a pool's file is not given to another while *)
(* the set of the pool is there.  Whose file it is: of the process that     *)
(* makes a set of it, until svsem_pool_create has unlinked it, or that has  *)
(* the semaphore of svsem_create.                                           *)
Has(p, k) == \/ /\ pc[p] \in Calling \ {"pool"}
                /\ call[p].op # "open" /\ call[p].file = k
             \/ /\ handle[p] # NULL /\ handle[p].op = "create" /\ handle[p].file = k

FilesRight ==
  /\ \A p, q \in Procs, k \in TmpInodes : Has(p, k) /\ Has(q, k) => p = q
  /\ \A p \in Procs, k \in TmpInodes : Has(p, k) => k \in files
  /\ \A i \in Live : sets[i].file \in TmpInodes /\ ~sets[i].pool => sets[i].file \in files

(* Which sets are made from that file.                                      *)
KeyRight(p) ==
  /\ pc[p] = "creat" /\ call[p].op = "create" => From(call[p].file) = {}
  /\ pc[p] \in Setting /\ call[p].op = "create" => From(call[p].file) \subseteq {semid[p]}
  /\ pc[p] \in Calling \ {"pool"} /\ call[p].op = "pool" =>
       \A i \in From(call[p].file) : sets[i].pool
  /\ handle[p] # NULL /\ handle[p].op = "create" =>
       handle[p].file \in TmpInodes /\ From(handle[p].file) \subseteq {Its(p)}

KeysRight == \A p \in Procs : KeyRight(p)

KInv == FilesRight /\ KeysRight

-----------------------------------------------------------------------------
LEMMA NobodyType == Nobody \in [Procs -> 0 .. SemMax] /\ Nobody \in [Procs -> Int]
  BY DEF Nobody

LEMMA SumNobody == SumFunctionOnSet(Nobody, Procs) = 0
  BY SumZero DEF Nobody

(* One field of a set is changed.                                           *)
LEMMA SetVal ==
  ASSUME NEW s \in Sets, NEW v \in 0 .. SemMax
  PROVE  /\ [s EXCEPT !.val = v] \in Sets
         /\ [s EXCEPT !.val = v].val = v /\ [s EXCEPT !.val = v].otime = s.otime /\ [s EXCEPT !.val = v].adj = s.adj
         /\ [s EXCEPT !.val = v].due = s.due /\ [s EXCEPT !.val = v].mine = s.mine
  BY DEF Sets

LEMMA SetOtime ==
  ASSUME NEW s \in Sets, NEW v \in BOOLEAN
  PROVE  /\ [s EXCEPT !.otime = v] \in Sets
         /\ [s EXCEPT !.otime = v].val = s.val /\ [s EXCEPT !.otime = v].otime = v /\ [s EXCEPT !.otime = v].adj = s.adj
         /\ [s EXCEPT !.otime = v].due = s.due /\ [s EXCEPT !.otime = v].mine = s.mine
  BY DEF Sets

LEMMA SetAdj ==
  ASSUME NEW s \in Sets, NEW v \in [Procs -> Int]
  PROVE  /\ [s EXCEPT !.adj = v] \in Sets
         /\ [s EXCEPT !.adj = v].val = s.val /\ [s EXCEPT !.adj = v].otime = s.otime /\ [s EXCEPT !.adj = v].adj = v
         /\ [s EXCEPT !.adj = v].due = s.due /\ [s EXCEPT !.adj = v].mine = s.mine
  BY DEF Sets

LEMMA SetDue ==
  ASSUME NEW s \in Sets, NEW v \in 0 .. SemMax
  PROVE  /\ [s EXCEPT !.due = v] \in Sets
         /\ [s EXCEPT !.due = v].val = s.val /\ [s EXCEPT !.due = v].otime = s.otime /\ [s EXCEPT !.due = v].adj = s.adj
         /\ [s EXCEPT !.due = v].due = v /\ [s EXCEPT !.due = v].mine = s.mine
  BY DEF Sets

LEMMA SetMine ==
  ASSUME NEW s \in Sets, NEW v \in [Procs -> 0 .. SemMax]
  PROVE  /\ [s EXCEPT !.mine = v] \in Sets
         /\ [s EXCEPT !.mine = v].val = s.val /\ [s EXCEPT !.mine = v].otime = s.otime /\ [s EXCEPT !.mine = v].adj = s.adj
         /\ [s EXCEPT !.mine = v].due = s.due /\ [s EXCEPT !.mine = v].mine = v
  BY DEF Sets

LEMMA SetFields ==
  ASSUME NEW s \in Sets
  PROVE  /\ s.val \in 0 .. SemMax /\ s.otime \in BOOLEAN /\ s.adj \in [Procs -> Int]
         /\ s.due \in 0 .. SemMax /\ s.mine \in [Procs -> 0 .. SemMax]
  BY DEF Sets

LEMMA AsksType ==
  ASSUME NEW c, Asks(c)
  PROVE  c.value \in 0 .. SemMax /\ c.file \in Files
<1>1. c.value \in Values \cup {0} /\ c.file \in Files
  BY DEF Asks, Calls
<1>2. 0 \in 0 .. SemMax /\ Values \subseteq 0 .. SemMax
  OBVIOUS
<1> QED
  BY <1>1, <1>2

LEMMA InitInv == Init => IInv
<1> SUFFICES ASSUME Init PROVE IInv
  OBVIOUS
<1>1. TypeInv
  BY DEF Init, TypeInv, States
<1>2. ProcRight
  BY DEF Init, ProcRight, Local, Remembers, Calling, Setting
<1>3. CreatorsApart /\ BooksRight
  BY DEF Init, CreatorsApart, BooksRight, Live, Setting
<1> QED
  BY <1>1, <1>2, <1>3 DEF IInv

-----------------------------------------------------------------------------
(* What a step of p leaves alone: the variables of the others, and of the   *)
(* sets that they remember what they rely on.                               *)
Undisturbed(i) ==
  i \in Live' => /\ i \in Live
                 /\ sets'[i].otime = sets[i].otime
                 /\ ~sets[i].otime => /\ sets'[i].val = sets[i].val
                                      /\ sets'[i].due = sets[i].due

(* The sets of which Remembers says anything.                               *)
Relies(q) == {i \in Ids : \/ pc[q] \in Setting \cup {"unlink", "pool"} /\ semid[q] = i
                          \/ handle[q] # NULL /\ Its(q) = i}

Stays(q) == /\ pc'[q] = pc[q] /\ call'[q] = call[q] /\ tries'[q] = tries[q]
            /\ semid'[q] = semid[q] /\ handle'[q] = handle[q]

OthersStay(p) == \A q \in Procs \ {p} : Stays(q)

LEMMA KeepsRight ==
  ASSUME IInv, NEW q \in Procs, Stays(q), \A i \in Relies(q) : Undisturbed(i)
  PROVE  Local(q)' /\ Remembers(q)'
<1>1. Local(q) /\ Remembers(q)
  BY DEF IInv, ProcRight
<1>2. Local(q)'
  BY <1>1 DEF Stays, Local
<1>3. pc[q] \in Setting \cup {"unlink", "pool"} /\ semid[q] \in Ids => Undisturbed(semid[q])
  BY DEF Relies
<1>4. handle[q] # NULL => Its(q) \in Ids /\ Undisturbed(Its(q))
  BY DEF Relies, Its, IInv, TypeInv, Handles
<1>5. Its(q)' = Its(q)
  BY DEF Its, Stays
<1>6. /\ pc'[q] = pc[q] /\ call'[q] = call[q] /\ semid'[q] = semid[q]
      /\ handle'[q] = handle[q]
  BY DEF Stays
<1>7. Live \subseteq Ids /\ Live' \subseteq Ids
  BY DEF Live
<1>8. pc[q] = "destroy" => handle[q] # NULL
  BY <1>1 DEF Local
<1>9. Remembers(q)'
  <2> USE <1>1, <1>6, <1>7 DEF Remembers, Undisturbed
  <2>1. pc'[q] \in Setting /\ semid'[q] \in Live' =>
          /\ ~sets'[semid'[q]].otime
          /\ sets'[semid'[q]].due = call'[q].value
          /\ pc'[q] = "semop" => sets'[semid'[q]].val = 0
    BY <1>3
  <2>2. pc'[q] \in {"unlink", "pool"} /\ semid'[q] \in Live' => sets'[semid'[q]].otime
    BY <1>3
  <2>3. handle'[q] # NULL /\ Its(q)' \in Live' => sets'[Its(q)'].otime
    BY <1>4, <1>5
  <2>4. pc'[q] = "destroy" => Its(q)' \notin Live'
    BY <1>4, <1>5, <1>8
  <2> QED
    BY <2>1, <2>2, <2>3, <2>4
<1> QED
  BY <1>2, <1>9

LEMMA Frame ==
  ASSUME IInv, TypeInv', NEW p \in Procs, OthersStay(p),
         \A q \in Procs \ {p} : \A i \in Relies(q) : Undisturbed(i),
         Local(p)', Remembers(p)', BooksRight',
         pc'[p] \in Setting => \A q \in Procs \ {p} : pc[q] \in Setting => semid'[p] # semid[q]
  PROVE  IInv'
<1>1. \A q \in Procs \ {p} : Local(q)' /\ Remembers(q)'
  BY KeepsRight DEF OthersStay
<1>2. ProcRight'
  BY <1>1 DEF ProcRight
<1>3. CreatorsApart'
  BY DEF IInv, CreatorsApart, OthersStay, Stays
<1> QED
  BY <1>2, <1>3 DEF IInv

(* The same, of a step that changes no set.                                 *)
LEMMA FrameSets ==
  ASSUME IInv, TypeInv', NEW p \in Procs, OthersStay(p), UNCHANGED sets,
         Local(p)', Remembers(p)', pc'[p] \notin Setting
  PROVE  IInv'
<1>1. Live' = Live /\ \A q \in Procs : \A i \in Relies(q) : Undisturbed(i)
  BY DEF Live, Undisturbed
<1>2. BooksRight'
  BY <1>1 DEF IInv, BooksRight, Books
<1> QED
  BY <1>1, <1>2, Frame

(* The variables of a process that has been called, and of one whose call   *)
(* has returned.                                                            *)
LEMMA Returned ==
  ASSUME IInv, NEW p \in Procs, NEW x \in Handles \cup {NULL},
         pc' = [pc EXCEPT ![p] = "idle"], Idle(p, x)
  PROVE  /\ OthersStay(p) /\ Local(p)'
         /\ pc'[p] = "idle" /\ semid'[p] = NULL /\ handle'[p] = x
         /\ pc' \in [Procs -> States] /\ call' \in [Procs -> Calls \cup {NULL}]
         /\ tries' \in [Procs -> 0 .. MaxTries] /\ semid' \in [Procs -> Ids \cup {NULL}]
         /\ handle' \in [Procs -> Handles \cup {NULL}]
<1> USE DEF IInv, TypeInv, States, Idle
<1>1. OthersStay(p)
  BY DEF OthersStay, Stays
<1>2. pc'[p] = "idle" /\ semid'[p] = NULL /\ handle'[p] = x /\ call'[p] = NULL
  OBVIOUS
<1>3. Local(p)'
  BY <1>2 DEF Local, Calling, Setting
<1> QED
  BY <1>1, <1>2, <1>3

LEMMA CalledInv ==
  ASSUME IInv, NEW p \in Procs, NEW c, Asks(c), Call(p, c), files' \subseteq TmpInodes
  PROVE  IInv'
<1> USE DEF IInv, TypeInv, States, Calling, Call, Go, First
<1>1. c \in Calls
  BY DEF Asks
<1>2. TypeInv'
  BY <1>1
<1>3. OthersStay(p)
  BY DEF OthersStay, Stays
<1>4. Local(p) /\ pc[p] = "idle" /\ pc'[p] \in {"creat", "get"} /\ (pc'[p] = "get" => ~c.excl)
  BY <1>1 DEF ProcRight
<1>5. call'[p] = c /\ tries'[p] = MaxTries /\ handle'[p] = NULL
  OBVIOUS
<1>6. Local(p)'
  BY <1>4, <1>5 DEF Local, Setting
<1>7. Remembers(p)'
  BY <1>4, <1>5 DEF Remembers, Setting
<1> QED
  BY <1>2, <1>3, <1>4, <1>6, <1>7, FrameSets DEF Setting

LEMMA OpenInv == ASSUME IInv, NEW p \in Procs, Open(p) PROVE IInv'
<1>1. PICK c : Asks(c) /\ Call(p, c)
  <2>1. CASE \E v \in Values, excl, undo \in BOOLEAN :
               Call(p, [op |-> "open", file |-> PathInode, excl |-> excl, undo |-> undo, value |-> v])
    BY <2>1 DEF Asks, Calls, Files
  <2>2. CASE \E undo \in BOOLEAN :
               Call(p, [op |-> "open", file |-> PathInode, excl |-> FALSE, undo |-> undo, value |-> 0])
    BY <2>2 DEF Asks, Calls, Files
  <2> QED
    BY <2>1, <2>2 DEF Open
<1> QED
  BY <1>1, CalledInv DEF Open, IInv, TypeInv

LEMMA CreateInv == ASSUME IInv, NEW p \in Procs, Create(p) PROVE IInv'
<1>1. PICK i \in TmpInodes, v \in Values, undo \in BOOLEAN :
        /\ Mkstemp(i)
        /\ Call(p, [op |-> "create", file |-> i, excl |-> TRUE, undo |-> undo, value |-> v])
  BY DEF Create
<1>2. Asks([op |-> "create", file |-> i, excl |-> TRUE, undo |-> undo, value |-> v])
  BY DEF Asks, Calls, Files
<1> QED
  BY <1>1, <1>2, CalledInv DEF Mkstemp, IInv, TypeInv

LEMMA PoolCreateInv == ASSUME IInv, NEW p \in Procs, PoolCreate(p) PROVE IInv'
<1>1. PICK i \in TmpInodes, v \in Values, undo \in BOOLEAN :
        /\ Mkstemp(i)
        /\ Call(p, [op |-> "pool", file |-> i, excl |-> FALSE, undo |-> undo, value |-> v])
  BY DEF PoolCreate
<1>2. Asks([op |-> "pool", file |-> i, excl |-> FALSE, undo |-> undo, value |-> v])
  BY DEF Asks, Calls, Files
<1> QED
  BY <1>1, <1>2, CalledInv DEF Mkstemp, IInv, TypeInv

-----------------------------------------------------------------------------
(* semid_get.                                                               *)
LEMMA ObtainedRight ==
  ASSUME IInv, NEW p \in Procs, pc[p] \in {"stat", "semop"}, NEW i \in Ids, Obtained(p, i)
  PROVE  /\ OthersStay(p) /\ Local(p)'
         /\ \/ pc'[p] = "unlink" /\ semid'[p] = i /\ handle'[p] = NULL
            \/ pc'[p] = "idle" /\ (handle'[p] # NULL => handle'[p].id = i)
         /\ pc' \in [Procs -> States] /\ call' \in [Procs -> Calls \cup {NULL}]
         /\ tries' \in [Procs -> 0 .. MaxTries] /\ semid' \in [Procs -> Ids \cup {NULL}]
         /\ handle' \in [Procs -> Handles \cup {NULL}]
<1>1. Local(p) /\ Asks(call[p]) /\ handle[p] = NULL
  BY DEF IInv, ProcRight, Local, Calling
<1> DEFINE x == [id |-> i, op |-> call[p].op, file |-> call[p].file, undo |-> call[p].undo]
<1>2. x \in Handles /\ x.op = call[p].op /\ x.id = i
  BY <1>1 DEF Handles, Asks, Calls
<1>3. CASE x.op = "pool"
  <2>1. pc' = [pc EXCEPT ![p] = "unlink"] /\ semid' = [semid EXCEPT ![p] = i]
        /\ UNCHANGED <<call, tries, handle>>
    BY <1>3 DEF Obtained
  <2>2. pc'[p] = "unlink" /\ semid'[p] = i /\ handle'[p] = NULL
    BY <1>1, <2>1 DEF IInv, TypeInv
  <2>3. Local(p)'
    BY <1>1, <1>2, <1>3, <2>1, <2>2 DEF Local, Calling, Setting
  <2>4. OthersStay(p)
    BY <2>1 DEF OthersStay, Stays, IInv, TypeInv
  <2> QED
    BY <2>1, <2>2, <2>3, <2>4 DEF IInv, TypeInv, States, Calling
<1>4. CASE x.op # "pool"
  <2>1. pc' = [pc EXCEPT ![p] = "idle"] /\ Idle(p, x)
    BY <1>4 DEF Obtained
  <2> HIDE DEF x
  <2> QED
    BY <1>2, <2>1, Returned
<1> QED
  BY <1>3, <1>4

LEMMA FailedRight ==
  ASSUME IInv, NEW p \in Procs, Failed(p)
  PROVE  /\ OthersStay(p) /\ Local(p)' /\ Remembers(p)'
         /\ pc'[p] = "idle" /\ files' \subseteq TmpInodes
         /\ pc' \in [Procs -> States] /\ call' \in [Procs -> Calls \cup {NULL}]
         /\ tries' \in [Procs -> 0 .. MaxTries] /\ semid' \in [Procs -> Ids \cup {NULL}]
         /\ handle' \in [Procs -> Handles \cup {NULL}]
<1>1. pc' = [pc EXCEPT ![p] = "idle"] /\ Idle(p, NULL) /\ files' \subseteq TmpInodes
  BY DEF Failed, IInv, TypeInv
<1>2. /\ OthersStay(p) /\ Local(p)'
      /\ pc'[p] = "idle" /\ handle'[p] = NULL
      /\ pc' \in [Procs -> States] /\ call' \in [Procs -> Calls \cup {NULL}]
      /\ tries' \in [Procs -> 0 .. MaxTries] /\ semid' \in [Procs -> Ids \cup {NULL}]
      /\ handle' \in [Procs -> Handles \cup {NULL}]
  BY <1>1, Returned
<1>3. Remembers(p)'
  BY <1>2 DEF Remembers, Setting
<1> QED
  BY <1>1, <1>2, <1>3

LEMMA FailsInv == ASSUME IInv, NEW p \in Procs, Failed(p), UNCHANGED sets PROVE IInv'
<1>1. TypeInv'
  BY FailedRight DEF IInv, TypeInv
<1> QED
  BY <1>1, FailedRight, FrameSets DEF Setting

LEMMA GetInv == ASSUME IInv, NEW p \in Procs, Get(p) PROVE IInv'
<1> USE DEF IInv, TypeInv
<1>1. Local(p) /\ Asks(call[p]) /\ handle[p] = NULL /\ pc[p] = "get" /\ ~call[p].excl /\ tries[p] >= 1
  BY DEF Get, ProcRight, Local, Calling
<1>2. CASE With(call[p].file) = {}
  <2>1. pc' = [pc EXCEPT ![p] = "creat"] /\ UNCHANGED <<sets, files, call, tries, semid, handle>>
    BY <1>2 DEF Get, Go
  <2>2. TypeInv' /\ OthersStay(p) /\ pc'[p] = "creat"
    BY <2>1 DEF OthersStay, Stays, States, Calling
  <2>3. Local(p)' /\ Remembers(p)'
    BY <1>1, <2>1, <2>2 DEF Local, Remembers, Calling, Setting
  <2> QED
    BY <2>1, <2>2, <2>3, FrameSets DEF Setting
<1>3. CASE With(call[p].file) # {}
  <2>1. PICK i \in Ids : semid' = [semid EXCEPT ![p] = i]
    <3>1. (CHOOSE i \in With(call[p].file) : TRUE) \in With(call[p].file)
      BY <1>3
    <3> QED
      BY <1>3, <3>1 DEF Get, With, Live
  <2>2. /\ pc' = [pc EXCEPT ![p] = "stat"] /\ tries' = [tries EXCEPT ![p] = MaxTries]
        /\ UNCHANGED <<sets, files, call, handle>>
    BY <1>3 DEF Get, Go
  <2>3. TypeInv' /\ OthersStay(p) /\ pc'[p] = "stat" /\ tries'[p] = MaxTries /\ semid'[p] \in Ids
    BY <2>1, <2>2 DEF OthersStay, Stays, States, Calling
  <2>4. Local(p)' /\ Remembers(p)'
    BY <1>1, <2>2, <2>3 DEF Local, Remembers, Calling, Setting
  <2> QED
    BY <2>2, <2>3, <2>4, FrameSets DEF Setting
<1> QED
  BY <1>2, <1>3

LEMMA GetFailsInv == ASSUME IInv, NEW p \in Procs, GetFails(p) PROVE IInv'
  BY FailsInv DEF GetFails

LEMMA StatInv == ASSUME IInv, NEW p \in Procs, Stat(p) PROVE IInv'
<1>1. pc[p] = "stat" /\ semid[p] \in Live /\ sets[semid[p]].otime /\ Obtained(p, semid[p])
      /\ UNCHANGED <<sets, files>>
  BY DEF Stat, Initialised
<1>2. semid[p] \in Ids
  BY <1>1 DEF Live
<1> DEFINE i == semid[p]
<1>3. /\ OthersStay(p) /\ Local(p)'
      /\ \/ pc'[p] = "unlink" /\ semid'[p] = i /\ handle'[p] = NULL
         \/ pc'[p] = "idle" /\ (handle'[p] # NULL => handle'[p].id = i)
      /\ pc' \in [Procs -> States] /\ call' \in [Procs -> Calls \cup {NULL}]
      /\ tries' \in [Procs -> 0 .. MaxTries] /\ semid' \in [Procs -> Ids \cup {NULL}]
      /\ handle' \in [Procs -> Handles \cup {NULL}]
  BY <1>1, <1>2, ObtainedRight
<1>4. TypeInv'
  BY <1>1, <1>3 DEF IInv, TypeInv
<1>5. Remembers(p)'
  BY <1>1, <1>3 DEF Remembers, Setting, Its
<1> QED
  BY <1>1, <1>3, <1>4, <1>5, FrameSets DEF Setting

LEMMA StatAgainInv == ASSUME IInv, NEW p \in Procs, StatAgain(p) PROVE IInv'
<1> USE DEF IInv, TypeInv
<1>1. /\ pc[p] = "stat" /\ tries[p] > 1 /\ tries' = [tries EXCEPT ![p] = tries[p] - 1]
      /\ UNCHANGED <<sets, files, pc, call, semid, handle>>
  BY DEF StatAgain
<1>2. TypeInv' /\ OthersStay(p) /\ tries'[p] >= 1
  BY <1>1 DEF OthersStay, Stays
<1>3. Local(p)' /\ Remembers(p)'
  BY <1>1, <1>2 DEF ProcRight, Local, Remembers, Calling, Setting
<1> QED
  BY <1>1, <1>2, <1>3, FrameSets DEF Setting

LEMMA CreatAgainInv == ASSUME IInv, NEW p \in Procs, CreatAgain(p) PROVE IInv'
<1> USE DEF IInv, TypeInv
<1>1. /\ pc[p] = "creat" /\ tries[p] > 1 /\ tries' = [tries EXCEPT ![p] = tries[p] - 1]
      /\ pc' = [pc EXCEPT ![p] = "get"] /\ ~call[p].excl
      /\ UNCHANGED <<sets, files, call, semid, handle>>
  BY DEF CreatAgain, Go
<1>2. TypeInv' /\ OthersStay(p) /\ tries'[p] >= 1 /\ pc'[p] = "get"
  BY <1>1 DEF OthersStay, Stays, States, Calling
<1>3. Local(p)' /\ Remembers(p)'
  BY <1>1, <1>2 DEF ProcRight, Local, Remembers, Calling, Setting
<1> QED
  BY <1>1, <1>2, <1>3, FrameSets DEF Setting

LEMMA UnlinkInv == ASSUME IInv, NEW p \in Procs, Unlink(p) PROVE IInv'
<1> USE DEF IInv, TypeInv
<1>1. /\ pc[p] = "unlink" /\ pc' = [pc EXCEPT ![p] = "pool"] /\ files' \subseteq files
      /\ UNCHANGED <<sets, call, tries, semid, handle>>
  BY DEF Unlink, Go
<1>2. TypeInv' /\ OthersStay(p) /\ pc'[p] = "pool"
  BY <1>1 DEF OthersStay, Stays, States, Calling
<1>3. Local(p)' /\ Remembers(p)'
  BY <1>1, <1>2 DEF ProcRight, Local, Remembers, Calling, Setting, Live
<1> QED
  BY <1>1, <1>2, <1>3, FrameSets DEF Setting

LEMMA PoolReadyInv == ASSUME IInv, NEW p \in Procs, PoolReady(p) PROVE IInv'
<1> DEFINE x == [id |-> semid[p], op |-> "pool", file |-> call[p].file, undo |-> call[p].undo]
<1>1. /\ pc[p] = "pool" /\ pc' = [pc EXCEPT ![p] = "idle"] /\ Idle(p, x)
      /\ UNCHANGED <<sets, files>>
  BY DEF PoolReady, Go
<1>2. Local(p) /\ Remembers(p)
  BY DEF IInv, ProcRight
<1>3. semid[p] \in Ids /\ Asks(call[p])
  BY <1>1, <1>2 DEF Local, Calling
<1>4. x \in Handles /\ x.id = semid[p]
  BY <1>3 DEF Handles, Asks, Calls
<1> HIDE DEF x
<1>5. /\ OthersStay(p) /\ Local(p)'
      /\ pc'[p] = "idle" /\ semid'[p] = NULL /\ handle'[p] = x
      /\ pc' \in [Procs -> States] /\ call' \in [Procs -> Calls \cup {NULL}]
      /\ tries' \in [Procs -> 0 .. MaxTries] /\ semid' \in [Procs -> Ids \cup {NULL}]
      /\ handle' \in [Procs -> Handles \cup {NULL}]
  BY <1>1, <1>4, Returned
<1>6. TypeInv'
  BY <1>1, <1>5 DEF IInv, TypeInv
<1>7. Its(p)' = semid[p] /\ Live' = Live
  BY <1>1, <1>4, <1>5 DEF Its, Live
<1>8. Remembers(p)'
  BY <1>1, <1>2, <1>5, <1>7 DEF Remembers, Setting
<1> QED
  BY <1>1, <1>5, <1>6, <1>8, FrameSets DEF Setting

-----------------------------------------------------------------------------
(* A step that takes a process that has a handle to another place, where it *)
(* still has it or has it no more, and changes no set.                      *)
LEMMA HandleInv ==
  ASSUME IInv, NEW p \in Procs, handle[p] # NULL, NEW to \in {"idle", "wait"},
         pc' = [pc EXCEPT ![p] = to], UNCHANGED <<sets, call, tries, semid>>,
         files' \subseteq files,
         UNCHANGED handle \/ (handle' = [handle EXCEPT ![p] = NULL] /\ to = "idle")
  PROVE  IInv'
<1> USE DEF IInv, TypeInv
<1>1. Local(p) /\ Remembers(p) /\ pc[p] \notin Calling /\ call[p] = NULL
  BY DEF ProcRight, Local
<1>2. TypeInv' /\ OthersStay(p) /\ pc'[p] = to /\ handle'[p] \in {handle[p], NULL}
      /\ (to = "wait" => handle'[p] = handle[p])
  BY DEF OthersStay, Stays, States
<1>3. Local(p)'
  BY <1>1, <1>2 DEF Local, Calling, Setting
<1>4. Remembers(p)'
  BY <1>1, <1>2 DEF Remembers, Setting, Its, Live
<1> QED
  BY <1>2, <1>3, <1>4, FrameSets DEF Setting

LEMMA WaitInv == ASSUME IInv, NEW p \in Procs, Wait(p) PROVE IInv'
  BY HandleInv DEF Wait, Using

LEMMA WaitFailsInv == ASSUME IInv, NEW p \in Procs, WaitFails(p) PROVE IInv'
<1>1. handle[p] # NULL
  BY DEF WaitFails, IInv, ProcRight, Local
<1> QED
  BY <1>1, HandleInv DEF WaitFails

LEMMA CloseInv == ASSUME IInv, NEW p \in Procs, Close(p) PROVE IInv'
<1>1. pc' = [pc EXCEPT ![p] = "idle"]
  BY DEF Close, Using, IInv, TypeInv
<1> QED
  BY <1>1, HandleInv DEF Close, Using, Without

LEMMA DestroyedInv == ASSUME IInv, NEW p \in Procs, Destroyed(p) PROVE IInv'
<1>1. handle[p] # NULL
  BY DEF Destroyed, Go, IInv, ProcRight, Local
<1> QED
  BY <1>1, HandleInv DEF Destroyed, Go, Without

-----------------------------------------------------------------------------
(* Removing a set.                                                          *)
LEMMA DropRight ==
  ASSUME IInv, NEW i \in Ids, sets' = Drop(i)
  PROVE  /\ sets' \in [Ids -> Sets \cup {NULL}]
         /\ Live' = Live \ {i}
         /\ \A j \in Ids : Undisturbed(j)
         /\ BooksRight'
<1> USE DEF IInv, TypeInv, Drop
<1>1. sets' \in [Ids -> Sets \cup {NULL}]
  OBVIOUS
<1>2. Live' = Live \ {i} /\ \A j \in Live' : sets'[j] = sets[j]
  BY DEF Live
<1>3. \A j \in Ids : Undisturbed(j)
  BY <1>2 DEF Undisturbed
<1>4. BooksRight'
  BY <1>2 DEF BooksRight, Books
<1> QED
  BY <1>1, <1>2, <1>3, <1>4

LEMMA PoolFailsInv == ASSUME IInv, NEW p \in Procs, PoolFails(p) PROVE IInv'
<1>1. semid[p] \in Ids
  BY DEF PoolFails, Go, IInv, ProcRight, Local
<1>2. pc' = [pc EXCEPT ![p] = "idle"] /\ Idle(p, NULL) /\ sets' = Drop(semid[p]) /\ UNCHANGED files
  BY DEF PoolFails, Go
<1>3. sets' \in [Ids -> Sets \cup {NULL}] /\ (\A j \in Ids : Undisturbed(j)) /\ BooksRight'
  BY <1>1, <1>2, DropRight
<1>4. /\ OthersStay(p) /\ Local(p)'
      /\ pc'[p] = "idle" /\ handle'[p] = NULL
      /\ pc' \in [Procs -> States] /\ call' \in [Procs -> Calls \cup {NULL}]
      /\ tries' \in [Procs -> 0 .. MaxTries] /\ semid' \in [Procs -> Ids \cup {NULL}]
      /\ handle' \in [Procs -> Handles \cup {NULL}]
  BY <1>2, Returned
<1>5. TypeInv'
  BY <1>2, <1>3, <1>4 DEF IInv, TypeInv
<1>6. Remembers(p)'
  BY <1>4 DEF Remembers, Setting
<1> QED
  BY <1>3, <1>4, <1>5, <1>6, Frame DEF Relies, Setting

LEMMA RemoveInv == ASSUME IInv, NEW p \in Procs, Remove(p) PROVE IInv'
<1> USE DEF IInv, TypeInv
<1>1. /\ pc[p] = "idle" /\ handle[p] # NULL /\ sets' = Drop(Its(p))
      /\ handle' = [handle EXCEPT ![p] = NULL] /\ UNCHANGED <<files, pc, call, tries, semid>>
  BY DEF Remove, Using, Without
<1>2. Its(p) \in Ids
  BY <1>1 DEF Its, Handles
<1>3. sets' \in [Ids -> Sets \cup {NULL}] /\ (\A j \in Ids : Undisturbed(j)) /\ BooksRight'
  BY <1>1, <1>2, DropRight
<1>4. TypeInv' /\ OthersStay(p) /\ handle'[p] = NULL
  BY <1>1, <1>3 DEF OthersStay, Stays
<1>5. Local(p)' /\ Remembers(p)'
  BY <1>1, <1>4 DEF ProcRight, Local, Remembers, Calling, Setting
<1> QED
  BY <1>1, <1>3, <1>4, <1>5, Frame DEF Relies, Setting

LEMMA DestroyInv == ASSUME IInv, NEW p \in Procs, Destroy(p) PROVE IInv'
<1> USE DEF IInv, TypeInv
<1>1. /\ pc[p] = "idle" /\ handle[p] # NULL /\ sets' = Drop(Its(p))
      /\ pc' = [pc EXCEPT ![p] = "destroy"] /\ UNCHANGED <<files, call, tries, semid, handle>>
  BY DEF Destroy, Using, Go
<1>2. Its(p) \in Ids
  BY <1>1 DEF Its, Handles
<1>3. /\ sets' \in [Ids -> Sets \cup {NULL}] /\ (\A j \in Ids : Undisturbed(j)) /\ BooksRight'
      /\ Its(p) \notin Live'
  BY <1>1, <1>2, DropRight
<1>4. TypeInv' /\ OthersStay(p) /\ handle'[p] = handle[p] /\ pc'[p] = "destroy" /\ Its(p)' = Its(p)
  BY <1>1, <1>3 DEF OthersStay, Stays, States, Its
<1>5. Local(p)' /\ Remembers(p)'
  BY <1>1, <1>3, <1>4 DEF ProcRight, Local, Remembers, Calling, Setting
<1> QED
  BY <1>1, <1>3, <1>4, <1>5, Frame DEF Relies, Setting

LEMMA IpcrmInv == ASSUME IInv, NEW i \in Ids, Ipcrm(i) PROVE IInv'
<1>1. sets' = Drop(i) /\ UNCHANGED <<files, pc, call, tries, semid, handle>>
  BY DEF Ipcrm
<1>2. sets' \in [Ids -> Sets \cup {NULL}] /\ (\A j \in Ids : Undisturbed(j)) /\ BooksRight'
  BY <1>1, DropRight
<1>3. TypeInv'
  BY <1>1, <1>2 DEF IInv, TypeInv
<1>4. \A q \in Procs : Local(q)' /\ Remembers(q)'
  <2> TAKE q \in Procs
  <2>1. Stays(q) /\ \A j \in Relies(q) : Undisturbed(j)
    BY <1>1, <1>2 DEF Stays, Relies
  <2> QED
    BY <2>1, KeepsRight
<1>5. CreatorsApart'
  BY <1>1 DEF IInv, CreatorsApart
<1> QED
  BY <1>2, <1>3, <1>4, <1>5 DEF IInv, ProcRight

-----------------------------------------------------------------------------
(* Creating a set and initialising it.                                      *)
LEMMA CreatInv == ASSUME IInv, NEW p \in Procs, Creat(p) PROVE IInv'
<1> USE DEF IInv, TypeInv
<1>1. PICK v \in Values, i \in Unknown :
        sets' = [sets EXCEPT ![i] = Set(call[p], v)] /\ semid' = [semid EXCEPT ![p] = i]
  BY DEF Creat
<1>2. /\ pc[p] = "creat" /\ pc' = [pc EXCEPT ![p] = "setval"]
      /\ UNCHANGED <<files, call, tries, handle>>
  BY DEF Creat, Go
<1>3. Local(p) /\ Asks(call[p]) /\ handle[p] = NULL
  BY <1>2 DEF ProcRight, Local, Calling
<1>4. i \in Ids /\ i \notin Live /\ \A q \in Procs : i \notin Known(q)
  BY DEF Unknown
<1> DEFINE new == Set(call[p], v)
<1>5. /\ new \in Sets /\ ~new.otime /\ new.due = call[p].value
      /\ new.adj = Nobody /\ new.mine = Nobody
  <2>1. call[p].value \in 0 .. SemMax /\ call[p].file \in Files
    BY <1>3, AsksType
  <2>2. v \in 0 .. SemMax
    OBVIOUS
  <2> QED
    BY <2>1, <2>2, NobodyType DEF Set, Sets
<1>6. Books(new)
  BY <1>5 DEF Books
<1> HIDE DEF new
<1>7. sets' = [sets EXCEPT ![i] = new]
  BY <1>1 DEF new
<1>8. TypeInv' /\ OthersStay(p) /\ pc'[p] = "setval" /\ semid'[p] = i
  BY <1>1, <1>2, <1>4, <1>5, <1>7 DEF OthersStay, Stays, States, Calling
<1>9. sets'[i] = new /\ \A j \in Ids \ {i} : sets'[j] = sets[j]
  BY <1>4, <1>7
<1>10. \A q \in Procs \ {p} : \A j \in Relies(q) : Undisturbed(j)
  <2> TAKE q \in Procs \ {p}
  <2> TAKE j \in Relies(q)
  <2>1. j \in Ids /\ j # i
    BY <1>4 DEF Relies, Known, Its
  <2> QED
    BY <1>9, <2>1 DEF Undisturbed, Live
<1>11. BooksRight'
  BY <1>6, <1>9 DEF BooksRight, Live, Books
<1>12. Local(p)'
  BY <1>2, <1>3, <1>4, <1>8 DEF Local, Calling, Setting
<1>13. Remembers(p)'
  BY <1>2, <1>3, <1>5, <1>8, <1>9 DEF Remembers, Setting
<1>14. \A q \in Procs \ {p} : pc[q] \in Setting => semid'[p] # semid[q]
  BY <1>4, <1>8 DEF Known
<1> QED
  BY <1>8, <1>10, <1>11, <1>12, <1>13, <1>14, Frame

(* A set that is being created is nobody else's.                            *)
LEMMA Alone ==
  ASSUME IInv, NEW p \in Procs, pc[p] \in Setting, semid[p] \in Live,
         NEW q \in Procs \ {p}
  PROVE  semid[p] \notin Relies(q)
<1>1. Remembers(p) /\ Remembers(q)
  BY DEF IInv, ProcRight
<1>2. ~sets[semid[p]].otime
  BY <1>1 DEF Remembers
<1>3. ~(pc[q] \in {"unlink", "pool"} /\ semid[q] = semid[p])
  BY <1>1, <1>2 DEF Remembers
<1>4. ~(handle[q] # NULL /\ Its(q) = semid[p])
  BY <1>1, <1>2 DEF Remembers
<1>5. ~(pc[q] \in Setting /\ semid[q] = semid[p])
  BY DEF IInv, CreatorsApart
<1> QED
  BY <1>3, <1>4, <1>5 DEF Relies

LEMMA SetvalInv == ASSUME IInv, NEW p \in Procs, Setval(p) PROVE IInv'
<1> USE DEF IInv, TypeInv
<1> DEFINE i == semid[p]
           new == [sets[i] EXCEPT !.val = 0, !.adj = Nobody]
<1>1. /\ pc[p] = "setval" /\ i \in Live /\ pc' = [pc EXCEPT ![p] = "semop"]
      /\ UNCHANGED <<files, call, tries, semid, handle>>
  BY DEF Setval, Go
<1>2. i \in Ids /\ sets[i] \in Sets /\ Books(sets[i])
  BY <1>1 DEF Live, BooksRight
<1>3. sets' = [sets EXCEPT ![i] = new]
  BY <1>2 DEF Setval
<1>4. Local(p) /\ Asks(call[p]) /\ handle[p] = NULL
      /\ ~sets[i].otime /\ sets[i].due = call[p].value
  BY <1>1 DEF ProcRight, Local, Remembers, Calling, Setting
<1>5. /\ new \in Sets /\ ~new.otime /\ new.due = call[p].value /\ new.val = 0
      /\ new.adj = Nobody /\ new.mine = Nobody
  <2> DEFINE mid == [sets[i] EXCEPT !.val = 0]
  <2>1. mid \in Sets /\ mid.val = 0 /\ mid.otime = sets[i].otime
        /\ mid.due = sets[i].due /\ mid.mine = sets[i].mine
    BY <1>2, SetVal
  <2>2. sets[i].mine = Nobody
    BY <1>2, <1>4 DEF Books
  <2>3. new = [mid EXCEPT !.adj = Nobody]
    OBVIOUS
  <2> HIDE DEF mid, new
  <2> QED
    BY <1>4, <2>1, <2>2, <2>3, NobodyType, SetAdj
<1>6. Books(new)
  BY <1>5 DEF Books
<1> HIDE DEF new, i
<1>7. sets'[i] = new /\ \A j \in Ids \ {i} : sets'[j] = sets[j]
  BY <1>2, <1>3
<1>8. TypeInv' /\ OthersStay(p) /\ pc'[p] = "semop" /\ semid'[p] = i
  BY <1>1, <1>3, <1>5 DEF OthersStay, Stays, States, Calling, i
<1>9. \A q \in Procs \ {p} : \A j \in Relies(q) : Undisturbed(j)
  <2> TAKE q \in Procs \ {p}
  <2> TAKE j \in Relies(q)
  <2>1. j \in Ids /\ j # i
    BY <1>1, Alone DEF Relies, Setting, i
  <2> QED
    BY <1>7, <2>1 DEF Undisturbed, Live
<1>10. BooksRight'
  BY <1>6, <1>7, <1>1 DEF BooksRight, Live, Books
<1>11. Local(p)'
  BY <1>1, <1>2, <1>4, <1>8 DEF Local, Calling, Setting
<1>12. Remembers(p)'
  BY <1>1, <1>4, <1>5, <1>7, <1>8 DEF Remembers, Setting
<1>13. \A q \in Procs \ {p} : pc[q] \in Setting => semid'[p] # semid[q]
  BY <1>1, <1>8 DEF CreatorsApart, Setting, i
<1> QED
  BY <1>8, <1>9, <1>10, <1>11, <1>12, <1>13, Frame

LEMMA SemopInv == ASSUME IInv, NEW p \in Procs, Semop(p) PROVE IInv'
<1> DEFINE i == semid[p]
           new == [sets[i] EXCEPT !.val = sets[i].val + call[p].value, !.otime = TRUE]
<1>1. pc[p] = "semop" /\ i \in Live /\ Obtained(p, i) /\ UNCHANGED files
  BY DEF Semop
<1>2. i \in Ids /\ sets[i] \in Sets /\ Books(sets[i])
  BY <1>1 DEF Live, BooksRight, IInv, TypeInv
<1>3. sets' = [sets EXCEPT ![i] = new]
  BY <1>2 DEF Semop, IInv, TypeInv
<1>4. Local(p) /\ Asks(call[p]) /\ handle[p] = NULL
      /\ ~sets[i].otime /\ sets[i].due = call[p].value /\ sets[i].val = 0
  BY <1>1 DEF IInv, ProcRight, Local, Remembers, Calling, Setting
<1>5. sets[i].mine = Nobody /\ sets[i].adj = Nobody
  BY <1>2, <1>4 DEF Books
<1>6. /\ new \in Sets /\ new.otime /\ new.val = new.due
      /\ new.adj = Nobody /\ new.mine = Nobody
  <2>1. call[p].value \in 0 .. SemMax /\ sets[i].val + call[p].value = call[p].value
    BY <1>4, AsksType
  <2> DEFINE mid == [sets[i] EXCEPT !.val = call[p].value]
  <2>2. /\ mid \in Sets /\ mid.val = call[p].value /\ mid.due = call[p].value
        /\ mid.adj = Nobody /\ mid.mine = Nobody
    BY <1>2, <1>4, <1>5, <2>1, SetVal
  <2>3. new = [mid EXCEPT !.otime = TRUE]
    BY <2>1
  <2> HIDE DEF mid, new
  <2> QED
    BY <2>2, <2>3, SetOtime
<1>7. Books(new)
  <2> HIDE DEF new
  <2>1. new.due \in Int
    BY <1>6, SetFields
  <2> QED
    BY <1>6, <2>1, SumNobody DEF Books
<1>8. /\ OthersStay(p) /\ Local(p)'
      /\ \/ pc'[p] = "unlink" /\ semid'[p] = i /\ handle'[p] = NULL
         \/ pc'[p] = "idle" /\ (handle'[p] # NULL => handle'[p].id = i)
      /\ pc' \in [Procs -> States] /\ call' \in [Procs -> Calls \cup {NULL}]
      /\ tries' \in [Procs -> 0 .. MaxTries] /\ semid' \in [Procs -> Ids \cup {NULL}]
      /\ handle' \in [Procs -> Handles \cup {NULL}]
  BY <1>1, <1>2, ObtainedRight
<1> HIDE DEF new, i
<1>9. sets'[i] = new /\ \A j \in Ids \ {i} : sets'[j] = sets[j]
  BY <1>2, <1>3 DEF IInv, TypeInv
<1>10. TypeInv'
  BY <1>1, <1>3, <1>6, <1>8 DEF IInv, TypeInv
<1>11. \A q \in Procs \ {p} : \A j \in Relies(q) : Undisturbed(j)
  <2> TAKE q \in Procs \ {p}
  <2> TAKE j \in Relies(q)
  <2>1. j \in Ids /\ j # i
    BY <1>1, Alone DEF Relies, Setting, i
  <2> QED
    BY <1>9, <2>1 DEF Undisturbed, Live
<1>12. BooksRight'
  BY <1>1, <1>7, <1>9 DEF BooksRight, Live, Books, IInv
<1>13. Remembers(p)'
  BY <1>6, <1>8, <1>9 DEF Remembers, Setting, Its
<1> QED
  BY <1>8, <1>10, <1>11, <1>12, <1>13, Frame DEF Setting

-----------------------------------------------------------------------------
(* The operations keep the books of an initialised set.                     *)
LEMMA OperationInv ==
  ASSUME IInv, NEW p \in Procs, handle[p] # NULL, Its(p) \in Live,
         pc' = [pc EXCEPT ![p] = "idle"], pc[p] \in {"idle", "wait"},
         NEW s \in Sets, s.otime, Books(s),
         sets' = [sets EXCEPT ![Its(p)] = s],
         UNCHANGED <<files, call, tries, semid, handle>>
  PROVE  IInv'
<1> USE DEF IInv, TypeInv
<1>1. Local(p) /\ Remembers(p)
  BY DEF ProcRight
<1>2. Its(p) \in Ids /\ sets[Its(p)].otime
  BY <1>1 DEF Live, Remembers
<1>3. sets'[Its(p)] = s /\ \A j \in Ids \ {Its(p)} : sets'[j] = sets[j]
  BY <1>2
<1>4. TypeInv' /\ OthersStay(p) /\ pc'[p] = "idle" /\ Its(p)' = Its(p)
  BY DEF OthersStay, Stays, States, Its
<1>5. \A q \in Procs \ {p} : \A j \in Relies(q) : Undisturbed(j)
  <2> TAKE q \in Procs \ {p}
  <2> TAKE j \in Relies(q)
  <2>1. sets[Its(p)] \in Sets /\ sets[Its(p)].otime = TRUE /\ s.otime = TRUE
    BY <1>2 DEF Live, Sets
  <2>2. CASE j = Its(p)
    BY <1>3, <2>1, <2>2 DEF Undisturbed, Live
  <2>3. CASE j # Its(p)
    BY <1>3, <2>3 DEF Undisturbed, Live, Relies
  <2> QED
    BY <2>2, <2>3
<1>6. BooksRight'
  BY <1>3 DEF BooksRight, Live, Books
<1>7. Local(p)'
  BY <1>1, <1>4 DEF Local, Calling, Setting
<1>8. Remembers(p)'
  BY <1>3, <1>4 DEF Remembers, Setting
<1> QED
  BY <1>4, <1>5, <1>6, <1>7, <1>8, Frame DEF Setting

LEMMA ApplyRight ==
  ASSUME IInv, NEW p \in Procs, handle[p] # NULL, Its(p) \in Live, NEW n \in {-1, 1}, Apply(p, n),
         n = -1 => sets[Its(p)].val > 0,
         n = 1 => IF handle[p].undo THEN sets[Its(p)].mine[p] > 0 ELSE sets[Its(p)].due < SemMax
  PROVE  \E s \in Sets : s.otime /\ Books(s) /\ sets' = [sets EXCEPT ![Its(p)] = s]
<1> DEFINE t == sets[Its(p)]
<1>1. t \in Sets /\ t.otime /\ Books(t) /\ Its(p) \in Ids
  BY DEF IInv, TypeInv, ProcRight, Remembers, BooksRight, Live
<1>2. /\ t.val \in 0 .. SemMax /\ t.due \in 0 .. SemMax
      /\ t.mine \in [Procs -> 0 .. SemMax] /\ t.adj = t.mine
      /\ t.val = t.due - SumFunctionOnSet(t.mine, Procs)
  <2> HIDE DEF t
  <2> QED
    BY <1>1, SetFields DEF Books
<1>3. CASE handle[p].undo
  <2> DEFINE m == [t.mine EXCEPT ![p] = t.mine[p] - n]
             s1 == [t EXCEPT !.val = t.val + n]
             s2 == [s1 EXCEPT !.adj = m]
             s  == [s2 EXCEPT !.mine = m]
  <2>1. sets' = [sets EXCEPT ![Its(p)] = s]
    BY <1>1, <1>2, <1>3 DEF Apply, Flags, IInv, TypeInv, Sets
  <2> HIDE DEF t
  <2>2. t.mine[p] \in 0 .. SemMax /\ t.mine[p] - n >= 0
    BY <1>2, <1>3 DEF t
  <2>3. m \in [Procs -> Nat] /\ m[p] = t.mine[p] - n /\ \A q \in Procs \ {p} : t.mine[q] = m[q]
    BY <1>2, <2>2
  <2>4. \A q \in Procs : t.mine[q] \in Int /\ m[q] \in Int
    BY <1>2, <2>3
  <2> HIDE DEF m
  <2>5. SumFunctionOnSet(m, Procs) = SumFunctionOnSet(t.mine, Procs) + m[p] - t.mine[p]
    BY <2>3, <2>4, SumChange
  <2>6. SumFunctionOnSet(m, Procs) \in Nat /\ SumFunctionOnSet(t.mine, Procs) \in Int
    BY <2>3, <2>4, SumNat, SumInt
  <2>7. \A q \in Procs : m[q] <= SumFunctionOnSet(m, Procs)
    BY <2>3, SumBounds
  <2>8. t.val + n = t.due - SumFunctionOnSet(m, Procs) /\ t.val + n >= 0
    BY <1>2, <2>2, <2>3, <2>5, <2>6 DEF t
  <2>9. t.val + n \in 0 .. SemMax /\ SumFunctionOnSet(m, Procs) <= SemMax
    BY <1>2, <2>6, <2>8
  <2>10. m \in [Procs -> 0 .. SemMax] /\ m \in [Procs -> Int]
    BY <2>3, <2>6, <2>7, <2>9
  <2>11. /\ s1 \in Sets /\ s1.val = t.val + n /\ s1.due = t.due /\ s1.otime = t.otime
    BY <1>1, <2>9, SetVal
  <2> HIDE DEF s1
  <2>12. s2 \in Sets /\ s2.adj = m /\ s2.val = t.val + n /\ s2.due = t.due /\ s2.otime = t.otime
    BY <2>10, <2>11, SetAdj
  <2> HIDE DEF s2
  <2>13. /\ s \in Sets /\ s.adj = m /\ s.val = t.val + n /\ s.due = t.due /\ s.otime = t.otime
         /\ s.mine = m
    BY <2>10, <2>12, SetMine
  <2> HIDE DEF s
  <2>14. s.otime /\ s.adj = s.mine
    BY <1>1, <2>13
  <2>15. s.val = s.due - SumFunctionOnSet(s.mine, Procs)
    BY <2>8, <2>13
  <2> QED
    BY <2>1, <2>13, <2>14, <2>15 DEF Books
<1>4. CASE ~handle[p].undo
  <2> DEFINE s1 == [t EXCEPT !.val = t.val + n]
             s  == [s1 EXCEPT !.due = t.due + n]
  <2>1. sets' = [sets EXCEPT ![Its(p)] = s]
    BY <1>1, <1>2, <1>4 DEF Apply, Flags, IInv, TypeInv, Sets
  <2>2. n = -1 => t.val > 0
    OBVIOUS
  <2>3. n = 1 => t.due < SemMax
    BY <1>4
  <2> HIDE DEF t
  <2>4. SumFunctionOnSet(t.mine, Procs) \in Nat
    BY <1>2, SumNat
  <2>5. t.val + n \in 0 .. SemMax /\ t.due + n \in 0 .. SemMax
        /\ t.val + n = (t.due + n) - SumFunctionOnSet(t.mine, Procs)
    BY <1>2, <2>2, <2>3, <2>4
  <2>6. /\ s1 \in Sets /\ s1.val = t.val + n /\ s1.adj = t.adj /\ s1.mine = t.mine
        /\ s1.otime = t.otime
    BY <1>1, <2>5, SetVal
  <2> HIDE DEF s1
  <2>7. /\ s \in Sets /\ s.val = t.val + n /\ s.adj = t.adj /\ s.mine = t.mine
        /\ s.otime = t.otime /\ s.due = t.due + n
    BY <2>5, <2>6, SetDue
  <2> HIDE DEF s
  <2>8. s.otime /\ s.adj = s.mine
    BY <1>1, <1>2, <2>7
  <2>9. s.val = s.due - SumFunctionOnSet(s.mine, Procs)
    BY <2>5, <2>7
  <2> QED
    BY <2>1, <2>7, <2>8, <2>9 DEF Books
<1> QED
  BY <1>3, <1>4

LEMMA TakenInv == ASSUME IInv, NEW p \in Procs, Taken(p) PROVE IInv'
<1>1. handle[p] # NULL
  BY DEF Taken, IInv, ProcRight, Local
<1>2. PICK s \in Sets : s.otime /\ Books(s) /\ sets' = [sets EXCEPT ![Its(p)] = s]
  BY <1>1, ApplyRight DEF Taken
<1> QED
  BY <1>1, <1>2, OperationInv DEF Taken

LEMMA TrywaitInv == ASSUME IInv, NEW p \in Procs, Trywait(p) PROVE IInv'
<1>1. PICK s \in Sets : s.otime /\ Books(s) /\ sets' = [sets EXCEPT ![Its(p)] = s]
  BY ApplyRight DEF Trywait, Using
<1>2. pc' = [pc EXCEPT ![p] = "idle"]
  BY DEF Trywait, Using, IInv, TypeInv
<1> QED
  BY <1>1, <1>2, OperationInv DEF Trywait, Using

LEMMA PostInv == ASSUME IInv, NEW p \in Procs, Post(p) PROVE IInv'
<1>1. PICK s \in Sets : s.otime /\ Books(s) /\ sets' = [sets EXCEPT ![Its(p)] = s]
  BY ApplyRight DEF Post, Using
<1>2. pc' = [pc EXCEPT ![p] = "idle"]
  BY DEF Post, Using, IInv, TypeInv
<1> QED
  BY <1>1, <1>2, OperationInv DEF Post, Using

LEMMA SetvalueInv == ASSUME IInv, NEW p \in Procs, Setvalue(p) PROVE IInv'
<1> DEFINE t == sets[Its(p)]
<1>1. PICK v \in Values :
        /\ Using(p) /\ Its(p) \in Live
        /\ sets' = [sets EXCEPT ![Its(p)].val = v, ![Its(p)].adj = Nobody,
                                ![Its(p)].due = v, ![Its(p)].mine = Nobody]
        /\ UNCHANGED <<files, pc, call, tries, semid, handle>>
  BY DEF Setvalue
<1>2. t \in Sets /\ t.otime /\ Its(p) \in Ids
  BY <1>1 DEF IInv, TypeInv, ProcRight, Remembers, Using, Live
<1>3. v \in 0 .. SemMax /\ v \in Int
  OBVIOUS
<1> DEFINE s1 == [t EXCEPT !.val = v]
           s2 == [s1 EXCEPT !.adj = Nobody]
           s3 == [s2 EXCEPT !.due = v]
           s  == [s3 EXCEPT !.mine = Nobody]
<1>4. sets' = [sets EXCEPT ![Its(p)] = s]
  BY <1>1, <1>2 DEF IInv, TypeInv
<1> HIDE DEF t
<1>5. s1 \in Sets /\ s1.val = v /\ s1.otime = t.otime
  BY <1>2, <1>3, SetVal
<1> HIDE DEF s1
<1>6. s2 \in Sets /\ s2.val = v /\ s2.otime = t.otime /\ s2.adj = Nobody
  BY <1>5, NobodyType, SetAdj
<1> HIDE DEF s2
<1>7. s3 \in Sets /\ s3.val = v /\ s3.otime = t.otime /\ s3.adj = Nobody /\ s3.due = v
  BY <1>3, <1>6, SetDue
<1> HIDE DEF s3
<1>8. s \in Sets /\ s.val = v /\ s.otime = t.otime /\ s.adj = Nobody /\ s.due = v /\ s.mine = Nobody
  BY <1>7, NobodyType, SetMine
<1> HIDE DEF s
<1>9. s.otime /\ Books(s)
  BY <1>2, <1>3, <1>8, SumNobody DEF Books
<1>10. pc' = [pc EXCEPT ![p] = "idle"] /\ handle[p] # NULL /\ pc[p] = "idle"
  BY <1>1 DEF Using, IInv, TypeInv
<1> QED
  BY <1>1, <1>4, <1>8, <1>9, <1>10, OperationInv

-----------------------------------------------------------------------------
(* A process is killed: what the kernel takes back never has to be cut off  *)
(* at 0 or at the limit, so the books still agree.                          *)
LEMMA CutsOff == ASSUME NEW v \in 0 .. SemMax PROVE Min({SemMax, Max({0, v})}) = v
<1>1. Max({0, v}) = v
  BY DEF Max
<1>2. Min({SemMax, v}) = v
  BY DEF Min
<1> QED
  BY <1>1, <1>2

LEMMA RestoredRight ==
  ASSUME IInv, NEW p \in Procs, NEW i \in Live
  PROVE  /\ Restored(i, p) \in Sets /\ Books(Restored(i, p))
         /\ Restored(i, p).otime = sets[i].otime /\ Restored(i, p).due = sets[i].due
         /\ ~sets[i].otime => Restored(i, p).val = sets[i].val
<1> DEFINE t == sets[i]
           m == [t.mine EXCEPT ![p] = 0]
           v == t.val + t.mine[p]
           s1 == [t EXCEPT !.val = v]
           s2 == [s1 EXCEPT !.adj = m]
           s  == [s2 EXCEPT !.mine = m]
<1>1. t \in Sets /\ Books(t)
  BY DEF IInv, TypeInv, BooksRight, Live
<1> HIDE DEF t
<1>2. /\ t.val \in 0 .. SemMax /\ t.due \in 0 .. SemMax
      /\ t.mine \in [Procs -> 0 .. SemMax] /\ t.adj = t.mine
  BY <1>1, SetFields DEF Books
<1>3. /\ m \in [Procs -> 0 .. SemMax] /\ m \in [Procs -> Int] /\ m[p] = 0
      /\ \A q \in Procs : t.mine[q] \in Int /\ m[q] \in Int /\ m[q] \in Nat
      /\ \A q \in Procs \ {p} : t.mine[q] = m[q]
  BY <1>2
<1> HIDE DEF m
<1>4. SumFunctionOnSet(m, Procs) = SumFunctionOnSet(t.mine, Procs) + (0 - t.mine[p])
  BY <1>3, SumChange
<1>5. SumFunctionOnSet(m, Procs) \in Nat /\ SumFunctionOnSet(t.mine, Procs) \in Int
  BY <1>3, SumNat, SumInt
<1>6. /\ v \in 0 .. SemMax
      /\ t.otime => v = t.due - SumFunctionOnSet(m, Procs)
      /\ ~t.otime => v = t.val /\ m = Nobody
  <2>1. CASE t.otime
    <3>1. t.val = t.due - SumFunctionOnSet(t.mine, Procs)
      BY <1>1, <2>1 DEF Books
    <3>2. v = t.due - SumFunctionOnSet(m, Procs)
      BY <1>2, <1>4, <1>5, <3>1
    <3>3. v \in 0 .. SemMax
      BY <1>2, <1>5, <3>2
    <3> QED
      BY <2>1, <3>2, <3>3
  <2>2. CASE ~t.otime
    <3>1. t.mine = Nobody
      BY <1>1, <2>2 DEF Books
    <3>2. v = t.val /\ m = Nobody
      BY <1>2, <3>1 DEF Nobody, m
    <3> QED
      BY <1>2, <2>2, <3>2
  <2> QED
    BY <2>1, <2>2
<1>7. Restored(i, p) = s
  <2>1. Min({SemMax, Max({0, t.val + t.adj[p]})}) = v
    BY <1>2, <1>6, CutsOff
  <2>2. Restored(i, p) = [t EXCEPT !.val = v, !.adj = m, !.mine = m]
    BY <1>2, <2>1, <1>1 DEF Restored, t, m, Sets
  <2> QED
    BY <2>2
<1> HIDE DEF v
<1>8. s1 \in Sets /\ s1.val = v /\ s1.due = t.due /\ s1.otime = t.otime
  BY <1>1, <1>6, SetVal
<1> HIDE DEF s1
<1>9. s2 \in Sets /\ s2.adj = m /\ s2.val = v /\ s2.due = t.due /\ s2.otime = t.otime
  BY <1>3, <1>8, SetAdj
<1> HIDE DEF s2
<1>10. /\ s \in Sets /\ s.adj = m /\ s.val = v /\ s.due = t.due /\ s.otime = t.otime
       /\ s.mine = m
  BY <1>3, <1>9, SetMine
<1> HIDE DEF s
<1>11. s.otime => s.val = s.due - SumFunctionOnSet(s.mine, Procs)
  BY <1>6, <1>10
<1>12. Books(s)
  BY <1>6, <1>10, <1>11 DEF Books
<1> QED
  BY <1>6, <1>7, <1>10, <1>12 DEF t

LEMMA KilledInv == ASSUME IInv, NEW p \in Procs, Killed(p) PROVE IInv'
<1>1. /\ pc' = [pc EXCEPT ![p] = "idle"] /\ Idle(p, NULL) /\ UNCHANGED files
      /\ sets' = [i \in Ids |-> IF i \in Live THEN Restored(i, p) ELSE NULL]
  BY DEF Killed
<1>2. /\ OthersStay(p) /\ Local(p)'
      /\ pc'[p] = "idle" /\ handle'[p] = NULL
      /\ pc' \in [Procs -> States] /\ call' \in [Procs -> Calls \cup {NULL}]
      /\ tries' \in [Procs -> 0 .. MaxTries] /\ semid' \in [Procs -> Ids \cup {NULL}]
      /\ handle' \in [Procs -> Handles \cup {NULL}]
  BY <1>1, Returned
<1>3. Live \subseteq Ids /\ \A i \in Live' : i \in Live /\ sets'[i] = Restored(i, p)
  BY <1>1 DEF Live
<1>4. TypeInv'
  BY <1>1, <1>2, <1>3, RestoredRight DEF IInv, TypeInv
<1>5. \A i \in Ids : Undisturbed(i)
  BY <1>3, RestoredRight DEF Undisturbed
<1>6. BooksRight'
  <2>1. \A i \in Live' : Books(sets'[i])
    BY <1>3, RestoredRight
  <2> QED
    BY <2>1 DEF BooksRight, Books
<1>7. Remembers(p)'
  BY <1>2 DEF Remembers, Setting
<1> QED
  BY <1>2, <1>4, <1>5, <1>6, <1>7, Frame DEF Relies, Setting

-----------------------------------------------------------------------------
LEMMA CreatFailsInv == ASSUME IInv, NEW p \in Procs, CreatFails(p) PROVE IInv'
  BY FailsInv DEF CreatFails

LEMMA StatFailsInv == ASSUME IInv, NEW p \in Procs, StatFails(p) PROVE IInv'
  BY FailsInv DEF StatFails

LEMMA SetFailsInv == ASSUME IInv, NEW p \in Procs, SetFails(p) PROVE IInv'
  BY FailsInv DEF SetFails

LEMMA StutterInv == ASSUME IInv, UNCHANGED vars PROVE IInv'
  BY DEF vars, IInv, TypeInv, ProcRight, Local, Remembers, CreatorsApart, BooksRight, Books,
         Its, Live

LEMMA NextInv == IInv /\ [Next]_vars => IInv'
<1> SUFFICES ASSUME IInv, [Next]_vars PROVE IInv'
  OBVIOUS
<1>1. ASSUME NEW p \in Procs, Open(p) \/ Create(p) \/ PoolCreate(p) PROVE IInv'
  BY <1>1, OpenInv, CreateInv, PoolCreateInv
<1>2. ASSUME NEW p \in Procs, Getting(p) PROVE IInv'
  BY <1>2, GetInv, GetFailsInv, StatInv, StatAgainInv, StatFailsInv, CreatInv, CreatAgainInv, CreatFailsInv,
     SetvalInv, SemopInv, SetFailsInv, UnlinkInv, PoolReadyInv, PoolFailsInv DEF Getting
<1>3. ASSUME NEW p \in Procs, Operation(p) PROVE IInv'
  BY <1>3, WaitInv, TakenInv, WaitFailsInv, TrywaitInv, PostInv, SetvalueInv, CloseInv,
     RemoveInv, DestroyInv, DestroyedInv DEF Operation
<1>4. ASSUME NEW p \in Procs, Killed(p) PROVE IInv'
  BY <1>4, KilledInv
<1>5. ASSUME NEW i \in Ids, Ipcrm(i) PROVE IInv'
  BY <1>5, IpcrmInv
<1>6. CASE UNCHANGED vars
  BY <1>6, StutterInv
<1> QED
  BY <1>1, <1>2, <1>3, <1>4, <1>5, <1>6 DEF Next

LEMMA AlwaysIInv == Spec => []IInv
<1>1. Init => IInv
  BY InitInv
<1>2. IInv /\ [Next]_vars => IInv'
  BY NextInv
<1> QED
  BY <1>1, <1>2, PTL DEF Spec

-----------------------------------------------------------------------------
LEMMA InvSetsRight == IInv => SetsRight
<1> SUFFICES ASSUME IInv PROVE SetsRight
  OBVIOUS
<1>1. TypeOK
  <2>1. ASSUME NEW i \in Live
        PROVE  /\ sets[i].file \in Files /\ sets[i].val \in 0 .. SemMax
               /\ sets[i].otime \in BOOLEAN /\ sets[i].pool \in BOOLEAN
               /\ sets[i].adj \in [Procs -> Int]
               /\ sets[i].mine \in [Procs -> 0 .. SemMax] /\ sets[i].due \in Nat
    <3>1. sets[i] \in Sets
      BY DEF IInv, TypeInv, Live
    <3> QED
      BY <3>1 DEF Sets
  <2>2. pc \in [Procs -> {"idle", "get", "creat", "setval", "semop", "stat", "unlink",
                          "pool", "wait", "destroy"}]
    BY DEF IInv, TypeInv, States, Calling
  <2>3. \A p \in Procs : handle[p] # NULL => handle[p].id \in Ids
    BY DEF IInv, TypeInv, Handles
  <2> QED
    BY <2>1, <2>2, <2>3 DEF TypeOK, IInv, TypeInv
<1>2. Balanced
  BY DEF IInv, BooksRight, Books, Balanced
<1> QED
  BY <1>1, <1>2 DEF SetsRight

(* The books of every semaphore balance, whatever is opened, taken, posted, *)
(* removed and killed in any order: no unit taken with O_UNDO is lost with  *)
(* its holder, and none appears from nowhere.                               *)
THEOREM BooksBalance == Spec => []SetsRight
<1>1. IInv => SetsRight
  BY InvSetsRight
<1> QED
  BY <1>1, AlwaysIInv, PTL

(* Nobody has a handle to a set that its creator has not initialised yet.   *)
THEOREM NobodyIsEarly == Spec => []NeverTooEarly
<1>1. IInv => NeverTooEarly
  BY DEF IInv, ProcRight, Remembers, NeverTooEarly
<1> QED
  BY <1>1, AlwaysIInv, PTL

(* A call with O_EXCL returns from the semop of the set that it created,    *)
(* and such a set is not initialised before.                                *)
LEMMA ExclStep ==
  ASSUME IInv, [Next]_vars, NEW p \in Procs, NEW q \in Procs,
         call[p] # NULL, handle'[p] # NULL, call[p].excl, p # q, handle[q] # NULL
  PROVE  handle[q].id # handle'[p].id
<1>1. pc[p] \in Calling /\ handle[p] = NULL /\ Local(p) /\ Remembers(p) /\ Remembers(q)
  BY DEF IInv, ProcRight, Local
<1>2. ASSUME Semop(p) PROVE handle[q].id # handle'[p].id
  <2>1. /\ pc[p] = "semop" /\ semid[p] \in Live /\ ~sets[semid[p]].otime
        /\ Obtained(p, semid[p])
    BY <1>1, <1>2 DEF Semop, Remembers, Setting
  <2>2. handle'[p].id = semid[p]
    <3>1. semid[p] \in Ids
      BY <2>1 DEF Live
    <3> QED
      BY <2>1, <3>1, ObtainedRight
  <2>3. handle[q].id \in Live => sets[handle[q].id].otime
    BY <1>1 DEF Remembers, Its
  <2> QED
    BY <2>1, <2>2, <2>3
<1>3. ~Stat(p)
  BY <1>1 DEF Stat, Local
<1>4. ~PoolReady(p)
  BY <1>1 DEF PoolReady, Go, Local, Asks
<1>5. handle'[p] # handle[p] /\ handle \in [Procs -> Handles \cup {NULL}]
  BY <1>1 DEF IInv, TypeInv
<1>6. ASSUME NEW i \in Ids, Ipcrm(i) PROVE FALSE
  BY <1>5, <1>6 DEF Ipcrm
<1>7. ASSUME UNCHANGED vars PROVE FALSE
  BY <1>5, <1>7 DEF vars
<1>8. ASSUME NEW r \in Procs, Open(r) \/ Create(r) \/ PoolCreate(r) PROVE FALSE
  BY <1>5, <1>8 DEF Open, Create, PoolCreate, Call
<1>9. ASSUME NEW r \in Procs, Operation(r) PROVE FALSE
  <2>1. r # p
    BY <1>1, <1>9 DEF Operation, Wait, Taken, WaitFails, Trywait, Post, Setvalue, Close, Remove,
                      Destroy, Destroyed, Using, Go, Calling
  <2> QED
    BY <1>5, <1>9, <2>1 DEF Operation, Wait, Taken, WaitFails, Trywait, Post, Setvalue, Close,
                            Remove, Destroy, Destroyed, Without
<1>10. ASSUME NEW r \in Procs, Killed(r) PROVE FALSE
  BY <1>5, <1>10 DEF Killed, Idle
<1>11. ASSUME NEW r \in Procs, Getting(r) PROVE Semop(p) \/ Stat(p) \/ PoolReady(p)
  <2>1. CASE r = p
    <3>1. ~Get(p) /\ ~StatAgain(p) /\ ~Creat(p) /\ ~CreatAgain(p) /\ ~Setval(p) /\ ~Unlink(p)
      BY <1>5 DEF Get, StatAgain, Creat, CreatAgain, Setval, Unlink
    <3>2. ~GetFails(p) /\ ~StatFails(p) /\ ~CreatFails(p) /\ ~SetFails(p) /\ ~PoolFails(p)
      BY <1>5 DEF GetFails, StatFails, CreatFails, SetFails, PoolFails, Failed, Idle
    <3> QED
      BY <1>11, <2>1, <3>1, <3>2 DEF Getting
  <2>2. CASE r # p
    <3>1. ~Get(r) /\ ~StatAgain(r) /\ ~Creat(r) /\ ~CreatAgain(r) /\ ~Setval(r) /\ ~Unlink(r)
      BY <1>5 DEF Get, StatAgain, Creat, CreatAgain, Setval, Unlink
    <3>2. /\ ~GetFails(r) /\ ~StatFails(r) /\ ~CreatFails(r) /\ ~SetFails(r)
          /\ ~PoolFails(r) /\ ~PoolReady(r)
      BY <1>5, <2>2 DEF GetFails, StatFails, CreatFails, SetFails, PoolFails, PoolReady, Failed, Idle
    <3>3. ~Stat(r) /\ ~Semop(r)
      BY <1>5, <2>2 DEF Stat, Semop, Obtained, Idle
    <3> QED
      BY <1>11, <3>1, <3>2, <3>3 DEF Getting
  <2> QED
    BY <2>1, <2>2
<1>12. Semop(p) \/ Stat(p) \/ PoolReady(p)
  BY <1>6, <1>7, <1>8, <1>9, <1>10, <1>11 DEF Next
<1> QED
  BY <1>2, <1>3, <1>4, <1>12

(* What O_EXCL returns nobody else has a handle to, though its file, and    *)
(* maybe a set that was removed under its users, is an old one.             *)
THEOREM ExclGivesNew == Spec => ExclIsNew
<1>1. IInv /\ [Next]_vars =>
        [\A p, q \in Procs : /\ call[p] # NULL /\ handle'[p] # NULL /\ call[p].excl
                             /\ p # q /\ handle[q] # NULL
                             => handle[q].id # handle'[p].id]_vars
  BY ExclStep
<1> QED
  BY <1>1, AlwaysIInv, PTL DEF ExclIsNew, Spec

-----------------------------------------------------------------------------
(* The files.  A step that creates no set and makes no file leaves fewer     *)
(* sets, and nobody has a file that it did not have.                        *)
Fewer == \A i \in Ids : sets'[i] # NULL => /\ sets[i] # NULL
                                           /\ sets'[i].file = sets[i].file
                                           /\ sets'[i].pool = sets[i].pool

LEMMA FewerFrom ==
  ASSUME Fewer
  PROVE  /\ Live' \subseteq Live
         /\ \A k : From(k)' \subseteq From(k)
         /\ \A i \in Live' : sets'[i].file = sets[i].file /\ sets'[i].pool = sets[i].pool
  BY DEF Fewer, Live, From

LEMMA FewerSame == ASSUME UNCHANGED sets PROVE Fewer
  BY DEF Fewer

LEMMA FewerDrop == ASSUME IInv, NEW i \in Ids, sets' = Drop(i) PROVE Fewer
  BY DEF IInv, TypeInv, Drop, Fewer

LEMMA FewerChange ==
  ASSUME IInv, NEW j \in Live, NEW s, sets' = [sets EXCEPT ![j] = s],
         s.file = sets[j].file, s.pool = sets[j].pool
  PROVE  Fewer
  BY DEF IInv, TypeInv, Live, Fewer

(* Those who stay have the files that they had.                             *)
LEMMA StaysHas ==
  ASSUME NEW q \in Procs, Stays(q)
  PROVE  \A k : Has(q, k)' <=> Has(q, k)
  BY DEF Stays, Has

LEMMA StaysKey ==
  ASSUME NEW q \in Procs, Stays(q), KeyRight(q), Fewer
  PROVE  KeyRight(q)'
<1>1. Its(q)' = Its(q)
  BY DEF Its, Stays
<1>2. /\ Live' \subseteq Live
      /\ \A k : From(k)' \subseteq From(k)
      /\ \A i \in Live' : sets'[i].pool = sets[i].pool
  BY FewerFrom
<1>3. \A k : From(k)' \subseteq Live'
  BY DEF From
<1> QED
  BY <1>1, <1>2, <1>3 DEF Stays, KeyRight

LEMMA KeyFrame ==
  ASSUME IInv, KInv, NEW p \in Procs, OthersStay(p), Fewer,
         \A k \in TmpInodes : Has(p, k)' => Has(p, k),
         \A k \in TmpInodes : k \in files /\ k \notin files' =>
            Has(p, k) /\ ~Has(p, k)' /\ \A i \in From(k)' : sets[i].pool,
         KeyRight(p)'
  PROVE  KInv'
<1>1. \A q \in Procs \ {p} : Stays(q)
  BY DEF OthersStay
<1>2. \A q \in Procs, k \in TmpInodes : Has(q, k)' => Has(q, k)
  BY <1>1, StaysHas
<1>3. KeysRight'
  BY <1>1, StaysKey DEF KInv, KeysRight
<1>4. \A q, r \in Procs, k \in TmpInodes : Has(q, k)' /\ Has(r, k)' => q = r
  BY <1>2 DEF KInv, FilesRight
<1>5. \A q \in Procs, k \in TmpInodes : Has(q, k)' => k \in files'
  BY <1>2 DEF KInv, FilesRight
<1>6. ASSUME NEW i \in Live', sets'[i].file \in TmpInodes, ~sets'[i].pool
      PROVE  sets'[i].file \in files'
  <2>1. i \in Live /\ sets'[i].file = sets[i].file /\ sets'[i].pool = sets[i].pool
    BY FewerFrom
  <2>2. sets[i].file \in files
    BY <1>6, <2>1 DEF KInv, FilesRight
  <2>3. i \in From(sets[i].file)'
    BY <2>1 DEF From
  <2> QED
    BY <1>6, <2>1, <2>2, <2>3
<1> QED
  BY <1>3, <1>4, <1>5, <1>6 DEF KInv, FilesRight

(* A process that has returned without a handle has no file.                *)
LEMMA KeyGone ==
  ASSUME IInv, NEW p \in Procs, pc'[p] = "idle", handle'[p] = NULL
  PROVE  KeyRight(p)' /\ \A k : ~Has(p, k)'
  BY DEF KeyRight, Has, Setting, Calling

LEMMA FailedKeys ==
  ASSUME IInv, KInv, NEW p \in Procs, Failed(p), UNCHANGED sets, pc[p] \in Calling \ {"pool"}
  PROVE  KInv'
<1>1. OthersStay(p) /\ pc'[p] = "idle" /\ handle'[p] = NULL
  BY Returned DEF Failed
<1>2. Local(p) /\ Asks(call[p])
  BY DEF IInv, ProcRight, Local
<1>3. \A k \in TmpInodes : k \in files /\ k \notin files' =>
        Has(p, k) /\ \A i \in From(k)' : sets[i].pool
  <2>1. SUFFICES ASSUME NEW k \in TmpInodes, k \in files, k \notin files'
                 PROVE  Has(p, k) /\ \A i \in From(k)' : sets[i].pool
    OBVIOUS
  <2>2. call[p].op = "pool" /\ call[p].file = k
    BY <2>1 DEF Failed
  <2>3. Has(p, k)
    BY <2>2 DEF Has
  <2> QED
    BY <2>2, <2>3 DEF KInv, KeysRight, KeyRight, From, Live
<1> QED
  BY <1>1, <1>3, FewerSame, KeyGone, KeyFrame

(* The steps of a call before it has its set.                               *)
LEMMA GettingKeys ==
  ASSUME IInv, KInv, NEW p \in Procs, Get(p) \/ StatAgain(p) \/ CreatAgain(p)
  PROVE  KInv'
<1> USE DEF Get, StatAgain, CreatAgain, Go, IInv, TypeInv
<1>1. Local(p) /\ pc[p] \in {"get", "stat", "creat"} /\ pc'[p] \in {"get", "stat", "creat"}
  BY DEF ProcRight
<1>2. OthersStay(p) /\ Fewer /\ UNCHANGED <<files, call, handle>>
  BY FewerSame DEF OthersStay, Stays
<1>3. call[p].op # "create"
  BY <1>1 DEF Local, Asks, Calling
<1>4. KeyRight(p)'
  BY <1>1, <1>2, <1>3 DEF KInv, KeysRight, KeyRight, From, Live, Calling, Setting, Local
<1>5. \A k \in TmpInodes : Has(p, k)' => Has(p, k)
  BY <1>1, <1>2 DEF Has, Calling
<1> QED
  BY <1>2, <1>4, <1>5, KeyFrame

(* svsem_open and svsem_create have their handle; svsem_pool_create is      *)
(* about to unlink its file.                                                *)
LEMMA ObtainedKeys ==
  ASSUME IInv, KInv, NEW p \in Procs, Obtained(p, semid[p]), Fewer, UNCHANGED files,
         pc[p] \in {"stat", "semop"}, semid[p] \in Live
  PROVE  KInv'
<1> USE DEF IInv, TypeInv
<1>1. Local(p) /\ Asks(call[p]) /\ handle[p] = NULL
  BY DEF ProcRight, Local, Calling
<1>2. OthersStay(p)
  BY DEF OthersStay, Stays, Obtained, Idle
<1>3. /\ Live' \subseteq Live
      /\ \A k : From(k)' \subseteq From(k)
      /\ \A i \in Live' : sets'[i].pool = sets[i].pool
  BY FewerFrom
<1>4. CASE call[p].op = "pool"
  <2>1. pc'[p] = "unlink" /\ call'[p] = call[p] /\ handle'[p] = NULL
    BY <1>1, <1>4 DEF Obtained
  <2>2. \A k \in TmpInodes : Has(p, k)' => Has(p, k)
    BY <1>1, <2>1 DEF Has, Calling
  <2>3. KeyRight(p)'
    <3>1. PICK k : k = call[p].file
      OBVIOUS
    <3>2. \A i \in From(k) : sets[i].pool
      BY <1>4, <3>1 DEF KInv, KeysRight, KeyRight, Calling
    <3>3. \A i \in From(k)' : sets'[i].pool
      BY <1>3, <3>2 DEF From
    <3>4. From(call[p].file)' = From(k)'
      BY <2>1, <3>1
    <3> QED
      BY <1>4, <2>1, <3>3, <3>4 DEF KeyRight, Setting
  <2> QED
    BY <1>2, <2>2, <2>3, KeyFrame
<1>5. CASE call[p].op # "pool"
  <2> DEFINE x == [id |-> semid[p], op |-> call[p].op, file |-> call[p].file, undo |-> call[p].undo]
  <2>1. pc'[p] = "idle" /\ handle'[p] = x
    BY <1>5 DEF Obtained, Idle
  <2>2. x.op = call[p].op /\ x.file = call[p].file /\ x.id = semid[p]
    OBVIOUS
  <2> HIDE DEF x
  <2>3. \A k \in TmpInodes : Has(p, k)' => Has(p, k)
    BY <1>5, <2>1, <2>2 DEF Has, Calling
  <2>4. KeyRight(p)'
    <3>1. PICK k : k = call[p].file
      OBVIOUS
    <3>2. call[p].op = "create" => k \in TmpInodes /\ From(k)' \subseteq {semid[p]}
      BY <1>1, <1>3, <3>1 DEF Local, Asks, KInv, KeysRight, KeyRight, Setting
    <3>3. From(handle[p].file)' = From(k)' /\ handle'[p].file = k /\ Its(p)' = semid[p]
      BY <2>1, <2>2, <3>1 DEF Its
    <3> QED
      BY <2>1, <2>2, <3>2, <3>3 DEF KeyRight, Setting, Calling
  <2> QED
    BY <1>2, <2>3, <2>4, KeyFrame
<1> QED
  BY <1>4, <1>5

LEMMA StatKeys == ASSUME IInv, KInv, NEW p \in Procs, Stat(p) PROVE KInv'
  BY ObtainedKeys, FewerSame DEF Stat, Initialised

LEMMA SetvalKeys == ASSUME IInv, KInv, NEW p \in Procs, Setval(p) PROVE KInv'
<1>1. OthersStay(p) /\ UNCHANGED <<files, call, semid, handle>>
  BY DEF Setval, Go, OthersStay, Stays, IInv, TypeInv
<1>2. pc[p] = "setval" /\ pc'[p] = "semop"
  BY DEF Setval, Go, IInv, TypeInv
<1>3. Fewer
  <2>1. sets[semid[p]] \in Sets /\ semid[p] \in Live
    BY DEF Setval, Live, IInv, TypeInv
  <2> QED
    BY <2>1 DEF Setval, Fewer, Live, Sets, IInv, TypeInv
<1>4. \A k : From(k)' \subseteq From(k)
  BY <1>3, FewerFrom
<1>5. \A i \in Live' : sets'[i].pool = sets[i].pool
  BY <1>3, FewerFrom
<1>6. handle[p] = NULL /\ \A k : Has(p, k)' <=> Has(p, k)
  BY <1>1, <1>2 DEF IInv, ProcRight, Local, Has, Calling
<1>7. KeyRight(p)'
  <2>1. PICK k : k = call[p].file
    OBVIOUS
  <2>2. From(call[p].file)' = From(k)' /\ From(k)' \subseteq Live'
    BY <1>1, <2>1 DEF From
  <2> QED
    BY <1>1, <1>2, <1>4, <1>5, <1>6, <2>1, <2>2 DEF KInv, KeysRight, KeyRight, Setting, Calling
<1> QED
  BY <1>1, <1>3, <1>6, <1>7, KeyFrame

LEMMA SemopKeys == ASSUME IInv, KInv, NEW p \in Procs, Semop(p) PROVE KInv'
<1>1. sets[semid[p]] \in Sets /\ semid[p] \in Live
  BY DEF Semop, Live, IInv, TypeInv
<1>2. Fewer
  BY <1>1 DEF Semop, Fewer, Live, Sets, IInv, TypeInv
<1> QED
  BY <1>1, <1>2, ObtainedKeys DEF Semop

LEMMA UnlinkKeys == ASSUME IInv, KInv, NEW p \in Procs, Unlink(p) PROVE KInv'
<1>1. OthersStay(p) /\ UNCHANGED <<sets, call, semid, handle>>
  BY DEF Unlink, Go, OthersStay, Stays, IInv, TypeInv
<1>2. pc[p] = "unlink" /\ pc'[p] = "pool"
  BY DEF Unlink, Go, IInv, TypeInv
<1>3. handle[p] = NULL /\ call[p].op = "pool"
  BY <1>2 DEF IInv, ProcRight, Local, Calling
<1>4. \A k : ~Has(p, k)'
  BY <1>1, <1>2, <1>3 DEF Has
<1>5. KeyRight(p)'
  BY <1>1, <1>2, <1>3 DEF KeyRight, Setting
<1>6. ASSUME NEW k \in TmpInodes, k \in files, k \notin files'
      PROVE  Has(p, k) /\ \A i \in From(k)' : sets[i].pool
  <2>1. k = call[p].file /\ Has(p, k)
    BY <1>2, <1>3, <1>6 DEF Unlink, Has, Calling
  <2> QED
    BY <1>1, <1>2, <1>3, <2>1 DEF KInv, KeysRight, KeyRight, From, Live, Calling
<1> QED
  BY <1>1, <1>4, <1>5, <1>6, FewerSame, KeyFrame

LEMMA PoolReadyKeys == ASSUME IInv, KInv, NEW p \in Procs, PoolReady(p) PROVE KInv'
<1>1. OthersStay(p) /\ UNCHANGED <<sets, files>> /\ pc'[p] = "idle"
  BY DEF PoolReady, Go, Idle, OthersStay, Stays, IInv, TypeInv
<1>2. handle'[p].op = "pool"
  BY DEF PoolReady, Idle, IInv, TypeInv
<1>3. KeyRight(p)' /\ \A k : ~Has(p, k)'
  BY <1>1, <1>2 DEF KeyRight, Has, Setting, Calling
<1> QED
  BY <1>1, <1>3, FewerSame, KeyFrame

LEMMA PoolFailsKeys == ASSUME IInv, KInv, NEW p \in Procs, PoolFails(p) PROVE KInv'
<1>1. OthersStay(p) /\ UNCHANGED files /\ pc'[p] = "idle" /\ handle'[p] = NULL
  BY DEF PoolFails, Go, Idle, OthersStay, Stays, IInv, TypeInv
<1>2. semid[p] \in Ids
  BY DEF PoolFails, Go, IInv, ProcRight, Local
<1>3. Fewer
  BY <1>2, FewerDrop DEF PoolFails
<1> QED
  BY <1>1, <1>3, KeyGone, KeyFrame

(* The operations leave the files alone.                                    *)
LEMMA UsingKeys ==
  ASSUME IInv, KInv, NEW p \in Procs, handle[p] # NULL, pc[p] \notin Calling,
         NEW to \in {"idle", "wait", "destroy"}, pc' = [pc EXCEPT ![p] = to],
         Fewer, UNCHANGED <<files, call, tries, semid, handle>>
  PROVE  KInv'
<1>1. OthersStay(p) /\ pc'[p] = to /\ Its(p)' = Its(p)
  BY DEF OthersStay, Stays, Its, IInv, TypeInv
<1>2. \A k : From(k)' \subseteq From(k)
  BY FewerFrom
<1>3. \A k : Has(p, k)' => Has(p, k)
  BY <1>1 DEF Has, Calling
<1>4. KeyRight(p)'
  <2>1. PICK k : k = handle[p].file
    OBVIOUS
  <2>2. From(handle[p].file)' = From(k)'
    BY <2>1
  <2> QED
    BY <1>1, <1>2, <2>1, <2>2 DEF KInv, KeysRight, KeyRight, Setting, Calling
<1> QED
  BY <1>1, <1>3, <1>4, KeyFrame

LEMMA UsesCalling ==
  ASSUME IInv, NEW p \in Procs
  PROVE  /\ Using(p) => handle[p] # NULL /\ pc[p] \notin Calling /\ pc = [pc EXCEPT ![p] = "idle"]
         /\ pc[p] \in {"wait", "destroy"} => handle[p] # NULL /\ pc[p] \notin Calling
  BY DEF Using, Calling, IInv, TypeInv, ProcRight, Local

LEMMA WaitKeys == ASSUME IInv, KInv, NEW p \in Procs, Wait(p) \/ WaitFails(p) PROVE KInv'
  BY UsesCalling, UsingKeys, FewerSame DEF Wait, WaitFails

LEMMA ApplyKeys ==
  ASSUME IInv, NEW p \in Procs, Its(p) \in Live, NEW n \in {-1, 1}, Apply(p, n)
  PROVE  Fewer
<1>1. sets[Its(p)] \in Sets /\ Its(p) \in Ids
  BY DEF IInv, TypeInv, Live
<1>2. sets'[Its(p)].file = sets[Its(p)].file /\ sets'[Its(p)].pool = sets[Its(p)].pool
  BY <1>1 DEF Apply, Sets, IInv, TypeInv
<1>3. \A j \in Ids \ {Its(p)} : sets'[j] = sets[j]
  BY DEF Apply, IInv, TypeInv
<1> QED
  BY <1>2, <1>3 DEF Fewer, Live

LEMMA TakenKeys ==
  ASSUME IInv, KInv, NEW p \in Procs, Taken(p) \/ Trywait(p) \/ Post(p)
  PROVE  KInv'
<1>1. Fewer
  BY ApplyKeys DEF Taken, Trywait, Post
<1> QED
  BY <1>1, UsesCalling, UsingKeys DEF Taken, Trywait, Post

LEMMA SetvalueKeys == ASSUME IInv, KInv, NEW p \in Procs, Setvalue(p) PROVE KInv'
<1>1. PICK v \in Values :
        /\ Using(p) /\ Its(p) \in Live
        /\ sets' = [sets EXCEPT ![Its(p)].val = v, ![Its(p)].adj = Nobody,
                                ![Its(p)].due = v, ![Its(p)].mine = Nobody]
        /\ UNCHANGED <<files, pc, call, tries, semid, handle>>
  BY DEF Setvalue
<1>2. sets[Its(p)] \in Sets /\ Its(p) \in Ids
  BY <1>1 DEF IInv, TypeInv, Live
<1>3. sets'[Its(p)].file = sets[Its(p)].file /\ sets'[Its(p)].pool = sets[Its(p)].pool
  BY <1>1, <1>2 DEF Sets, IInv, TypeInv
<1>4. \A j \in Ids \ {Its(p)} : sets'[j] = sets[j]
  BY <1>1 DEF IInv, TypeInv
<1>5. Fewer
  BY <1>1, <1>3, <1>4 DEF Fewer, Live
<1> QED
  BY <1>1, <1>5, UsesCalling, UsingKeys

LEMMA DestroyKeys == ASSUME IInv, KInv, NEW p \in Procs, Destroy(p) PROVE KInv'
<1>1. Its(p) \in Ids
  BY DEF Destroy, Using, Its, IInv, TypeInv, Handles
<1>2. Fewer
  BY <1>1, FewerDrop DEF Destroy
<1> QED
  BY <1>2, UsesCalling, UsingKeys DEF Destroy, Go

LEMMA CloseKeys == ASSUME IInv, KInv, NEW p \in Procs, Close(p) \/ Remove(p) PROVE KInv'
<1>1. OthersStay(p) /\ UNCHANGED files /\ pc'[p] = "idle" /\ handle'[p] = NULL
  BY DEF Close, Remove, Without, Using, OthersStay, Stays, IInv, TypeInv
<1>2. Fewer
  BY FewerDrop, FewerSame DEF Close, Remove, Live
<1> QED
  BY <1>1, <1>2, KeyGone, KeyFrame

(* svsem_destroy unlinks its file when no set is left that was made from it. *)
LEMMA DestroyedKeys == ASSUME IInv, KInv, NEW p \in Procs, Destroyed(p) PROVE KInv'
<1>1. OthersStay(p) /\ UNCHANGED sets /\ pc'[p] = "idle" /\ handle'[p] = NULL
  BY DEF Destroyed, Go, Without, OthersStay, Stays, IInv, TypeInv
<1>2. pc[p] = "destroy" /\ handle[p] # NULL /\ Its(p) \notin Live
  BY DEF Destroyed, Go, IInv, ProcRight, Local, Remembers
<1>3. ASSUME NEW k \in TmpInodes, k \in files, k \notin files'
      PROVE  Has(p, k) /\ \A i \in From(k)' : sets[i].pool
  <2>1. handle[p].op = "create" /\ k = handle[p].file
    BY <1>3 DEF Destroyed
  <2>2. From(k) \subseteq {Its(p)} /\ From(k)' = From(k)
    BY <1>1, <1>2, <2>1 DEF KInv, KeysRight, KeyRight, From, Live
  <2> QED
    BY <1>2, <2>1, <2>2 DEF Has, From
<1> QED
  BY <1>1, <1>3, FewerSame, KeyGone, KeyFrame

LEMMA KilledKeys == ASSUME IInv, KInv, NEW p \in Procs, Killed(p) PROVE KInv'
<1>1. OthersStay(p) /\ UNCHANGED files /\ pc'[p] = "idle" /\ handle'[p] = NULL
  BY DEF Killed, Idle, OthersStay, Stays, IInv, TypeInv
<1>2. Fewer
  <2>1. ASSUME NEW i \in Live
        PROVE  Restored(i, p).file = sets[i].file /\ Restored(i, p).pool = sets[i].pool
    <3>1. sets[i] \in Sets
      BY DEF IInv, TypeInv, Live
    <3> QED
      BY <3>1 DEF Restored, Sets
  <2> QED
    BY <2>1 DEF Killed, Fewer, Live
<1> QED
  BY <1>1, <1>2, KeyGone, KeyFrame

LEMMA IpcrmKeys == ASSUME IInv, KInv, NEW i \in Ids, Ipcrm(i) PROVE KInv'
<1>1. Fewer /\ UNCHANGED files /\ \A q \in Procs : Stays(q)
  BY FewerDrop DEF Ipcrm, Stays
<1>2. CASE Procs = {}
  BY <1>1, <1>2, FewerFrom DEF KInv, FilesRight, KeysRight
<1>3. ASSUME NEW p \in Procs PROVE KInv'
  <2>1. KeyRight(p)'
    BY <1>1, StaysKey DEF KInv, KeysRight
  <2> QED
    BY <1>1, <2>1, StaysHas, KeyFrame DEF OthersStay
<1> QED
  BY <1>2, <1>3

-----------------------------------------------------------------------------
(* A call of svsem_open has no file of mkstemp.                             *)
LEMMA OpenKeys == ASSUME IInv, KInv, NEW p \in Procs, Open(p) PROVE KInv'
<1>1. PICK c : c.op = "open" /\ Call(p, c) /\ UNCHANGED files
  BY DEF Open
<1>2. /\ OthersStay(p) /\ UNCHANGED sets
      /\ call'[p] = c /\ handle'[p] = NULL
  BY <1>1 DEF Call, Go, OthersStay, Stays, IInv, TypeInv
<1>3. KeyRight(p)' /\ \A k : ~Has(p, k)'
  BY <1>1, <1>2 DEF KeyRight, Has
<1> QED
  BY <1>1, <1>2, <1>3, FewerSame, KeyFrame

(* The inode of a new file is that of no file and, with the assumption      *)
(* about pools, that of no set.                                             *)
LEMMA MkstempNew ==
  ASSUME IInv, KInv, ~PoolReuse, NEW i, Mkstemp(i)
  PROVE  i \in TmpInodes /\ From(i) = {} /\ \A q \in Procs : ~Has(q, i)
<1>1. i \in TmpInodes /\ i \notin files
  BY DEF Mkstemp
<1>2. ASSUME NEW j \in From(i) PROVE FALSE
  <2>1. j \in Live /\ sets[j].file = i /\ ~sets[j].pool
    BY <1>2 DEF From, Mkstemp
  <2> QED
    BY <1>1, <2>1 DEF KInv, FilesRight
<1> QED
  BY <1>1, <1>2 DEF KInv, FilesRight

LEMMA NewFile ==
  ASSUME IInv, KInv, ~PoolReuse, NEW p \in Procs, NEW i, Mkstemp(i),
         NEW c, c.file = i, c.op \in {"create", "pool"}, Call(p, c)
  PROVE  KInv'
<1>1. /\ OthersStay(p) /\ UNCHANGED sets
      /\ call'[p] = c /\ handle'[p] = NULL /\ pc'[p] \in {"get", "creat"}
  BY DEF Call, Go, First, OthersStay, Stays, IInv, TypeInv
<1>2. i \in TmpInodes /\ From(i) = {} /\ \A q \in Procs : ~Has(q, i)
  BY MkstempNew
<1>3. \A k \in Files : From(k)' = From(k)
  BY <1>1 DEF From, Live
<1>4. files' = files \cup {i}
  BY DEF Mkstemp
<1>5. \A q \in Procs \ {p} : \A k : Has(q, k)' <=> Has(q, k)
  BY <1>1, StaysHas DEF OthersStay
<1>6. \A k : Has(p, k)' <=> k = i
  BY <1>1 DEF Has, Calling
<1>7. KeyRight(p)'
  <2>1. From(call[p].file)' = {}
    BY <1>1, <1>2 DEF From, Live
  <2> QED
    BY <1>1, <2>1 DEF KeyRight, Setting
<1>8. KeysRight'
  BY <1>1, <1>7, StaysKey, FewerSame DEF OthersStay, KInv, KeysRight
<1>9. FilesRight'
  <2>1. \A q, r \in Procs, k \in TmpInodes : Has(q, k)' /\ Has(r, k)' => q = r
    BY <1>2, <1>5, <1>6 DEF KInv, FilesRight
  <2>2. \A q \in Procs, k \in TmpInodes : Has(q, k)' => k \in files'
    BY <1>4, <1>5, <1>6 DEF KInv, FilesRight
  <2>3. \A j \in Live' : sets'[j].file \in TmpInodes /\ ~sets'[j].pool => sets'[j].file \in files'
    BY <1>1, <1>4 DEF KInv, FilesRight, Live
  <2> QED
    BY <2>1, <2>2, <2>3 DEF FilesRight
<1> QED
  BY <1>8, <1>9 DEF KInv

LEMMA CreateKeys ==
  ASSUME IInv, KInv, ~PoolReuse, NEW p \in Procs, Create(p) \/ PoolCreate(p)
  PROVE  KInv'
<1>1. PICK i, c : Mkstemp(i) /\ c.file = i /\ c.op \in {"create", "pool"} /\ Call(p, c)
  <2>1. CASE Create(p)
    <3>1. PICK i \in TmpInodes, v \in Values, undo \in BOOLEAN :
            /\ Mkstemp(i)
            /\ Call(p, [op |-> "create", file |-> i, excl |-> TRUE, undo |-> undo, value |-> v])
      BY <2>1 DEF Create
    <3> QED
      BY <3>1
  <2>2. CASE PoolCreate(p)
    <3>1. PICK i \in TmpInodes, v \in Values, undo \in BOOLEAN :
            /\ Mkstemp(i)
            /\ Call(p, [op |-> "pool", file |-> i, excl |-> FALSE, undo |-> undo, value |-> v])
      BY <2>2 DEF PoolCreate
    <3> QED
      BY <3>1
  <2> QED
    BY <2>1, <2>2
<1> QED
  BY <1>1, NewFile

(* Only the process that has the file makes a set from it.                  *)
LEMMA CreatKeys == ASSUME IInv, KInv, NEW p \in Procs, Creat(p) PROVE KInv'
<1>1. PICK v \in Values, j \in Unknown :
        sets' = [sets EXCEPT ![j] = Set(call[p], v)] /\ semid' = [semid EXCEPT ![p] = j]
  BY DEF Creat
<1>2. j \in Ids /\ j \notin Live
  BY DEF Unknown
<1>3. /\ OthersStay(p) /\ UNCHANGED <<files, call, handle>>
      /\ pc[p] = "creat" /\ pc'[p] = "setval" /\ semid'[p] = j
  BY <1>1 DEF Creat, Go, OthersStay, Stays, IInv, TypeInv
<1>4. Asks(call[p]) /\ handle[p] = NULL
  BY <1>3 DEF IInv, ProcRight, Local, Calling
<1>5. PICK k : k = call[p].file
  OBVIOUS
<1>6. sets'[j].file = k /\ (sets'[j].pool <=> call[p].op = "pool")
  BY <1>1, <1>2, <1>5 DEF Set, IInv, TypeInv
<1>7. \A i \in Ids \ {j} : sets'[i] = sets[i]
  BY <1>1 DEF IInv, TypeInv
<1>8. From(k) = {}
  BY <1>5 DEF Creat, With, From
<1>9. From(k)' \subseteq {j}
  BY <1>7, <1>8 DEF From, Live
<1>10. \A l : l # k => From(l)' = From(l)
  BY <1>2, <1>6, <1>7 DEF From, Live
<1>11. \A l : call[p].op # "open" => (Has(p, l) <=> l = k) /\ (Has(p, l)' <=> l = k)
  BY <1>3, <1>4, <1>5 DEF Has, Calling
<1>12. \A q \in Procs : \A l : Has(q, l)' <=> Has(q, l)
  <2>1. \A q \in Procs \ {p} : \A l : Has(q, l)' <=> Has(q, l)
    BY <1>3, StaysHas DEF OthersStay
  <2>2. \A l : Has(p, l)' <=> Has(p, l)
    BY <1>3 DEF Has, Calling
  <2> QED
    BY <2>1, <2>2
<1>13. FilesRight'
  <2>1. ASSUME NEW i \in Live', sets'[i].file \in TmpInodes, ~sets'[i].pool
        PROVE  sets'[i].file \in files'
    <3>1. CASE i # j
      BY <1>3, <1>7, <2>1, <3>1 DEF KInv, FilesRight, Live
    <3>2. CASE i = j
      <4>1. call[p].op = "create"
        BY <1>4, <1>5, <1>6, <2>1, <3>2 DEF Asks, Calls
      <4> QED
        BY <1>3, <1>6, <1>11, <2>1, <3>2, <4>1 DEF KInv, FilesRight
    <3> QED
      BY <3>1, <3>2
  <2> QED
    BY <1>3, <1>12, <2>1 DEF KInv, FilesRight
<1>14. KeyRight(p)'
  <2>1. From(call[p].file)' = From(k)'
    BY <1>3, <1>5
  <2> QED
    BY <1>3, <1>4, <1>6, <1>9, <2>1 DEF KeyRight, Setting
<1>15. ASSUME NEW q \in Procs \ {p} PROVE KeyRight(q)'
  <2>1. KeyRight(q) /\ Stays(q) /\ Its(q)' = Its(q) /\ Local(q)
    BY <1>3 DEF KInv, KeysRight, OthersStay, Stays, Its, IInv, ProcRight
  <2>2. ~(k \in TmpInodes /\ Has(q, k))
    BY <1>4, <1>5, <1>11 DEF KInv, FilesRight, Asks
  <2>3. ASSUME pc[q] \in Calling \ {"pool"}, call[q].op # "open" PROVE From(call[q].file)' = From(call[q].file)
    <3>1. PICK l : l = call[q].file
      OBVIOUS
    <3>2. l \in TmpInodes /\ Has(q, l)
      BY <2>1, <2>3, <3>1 DEF Local, Asks, Has
    <3>3. From(call[q].file)' = From(l)'
      BY <1>3, <3>1
    <3> QED
      BY <1>10, <2>2, <3>1, <3>2, <3>3
  <2>4. ASSUME handle[q] # NULL, handle[q].op = "create" PROVE From(handle[q].file)' = From(handle[q].file)
    <3>1. PICK l : l = handle[q].file
      OBVIOUS
    <3>2. l \in TmpInodes /\ Has(q, l)
      BY <2>1, <2>4, <3>1 DEF KeyRight, Has
    <3>3. From(handle[q].file)' = From(l)'
      BY <1>3, <3>1
    <3> QED
      BY <1>10, <2>2, <3>1, <3>2, <3>3
  <2>5. \A i \in Live : sets'[i] = sets[i]
    BY <1>2, <1>7 DEF Live
  <2>6. \A l : From(l) \subseteq Live
    BY DEF From
  <2> QED
    BY <2>1, <2>3, <2>4, <2>5, <2>6 DEF KeyRight, Stays, Setting, Calling
<1> QED
  BY <1>13, <1>14, <1>15 DEF KInv, KeysRight

-----------------------------------------------------------------------------
LEMMA InitKeys == Init => KInv
  BY DEF Init, KInv, FilesRight, KeysRight, KeyRight, Has, Live, Calling, Setting

LEMMA StutterKeys == ASSUME IInv, KInv, UNCHANGED vars PROVE KInv'
<1>1. Fewer /\ UNCHANGED files /\ \A q \in Procs : Stays(q)
  BY FewerSame DEF vars, Stays
<1>2. KeysRight'
  BY <1>1, StaysKey DEF KInv, KeysRight
<1>3. Live' = Live /\ sets' = sets
  BY DEF vars, Live
<1> QED
  BY <1>1, <1>2, <1>3, StaysHas DEF KInv, FilesRight

LEMMA NextKeys == ~PoolReuse /\ IInv /\ KInv /\ [Next]_vars => KInv'
<1> SUFFICES ASSUME ~PoolReuse, IInv, KInv, [Next]_vars PROVE KInv'
  OBVIOUS
<1>1. ASSUME NEW p \in Procs, Open(p) \/ Create(p) \/ PoolCreate(p) PROVE KInv'
  BY <1>1, OpenKeys, CreateKeys
<1>2. ASSUME NEW p \in Procs, Getting(p) PROVE KInv'
  <2>1. CASE GetFails(p) \/ StatFails(p) \/ CreatFails(p) \/ SetFails(p)
    BY <2>1, FailedKeys DEF GetFails, StatFails, CreatFails, SetFails, Calling
  <2>2. CASE ~(GetFails(p) \/ StatFails(p) \/ CreatFails(p) \/ SetFails(p))
    BY <1>2, <2>2, GettingKeys, StatKeys, CreatKeys, SetvalKeys, SemopKeys, UnlinkKeys,
       PoolReadyKeys, PoolFailsKeys DEF Getting
  <2> QED
    BY <2>1, <2>2
<1>3. ASSUME NEW p \in Procs, Operation(p) PROVE KInv'
  BY <1>3, WaitKeys, TakenKeys, SetvalueKeys, CloseKeys, DestroyKeys, DestroyedKeys DEF Operation
<1>4. ASSUME NEW p \in Procs, Killed(p) PROVE KInv'
  BY <1>4, KilledKeys
<1>5. ASSUME NEW i \in Ids, Ipcrm(i) PROVE KInv'
  BY <1>5, IpcrmKeys
<1>6. CASE UNCHANGED vars
  BY <1>6, StutterKeys
<1> QED
  BY <1>1, <1>2, <1>3, <1>4, <1>5, <1>6 DEF Next

(* A set of svsem_create goes before its file does, and no other file gets  *)
(* the inode meanwhile: svsem_create never meets a set that an earlier file *)
(* on its inode has left, whichever files ftok gives one key.  The proviso  *)
(* is that the inode of a pool's file is not given away while the set of    *)
(* the pool is there, which PoolsApart shows to be needed.                  *)
THEOREM NothingIsLeftBehind == ASSUME ~PoolReuse PROVE Spec => []NothingLeftBehind
<1>1. Init => IInv /\ KInv
  BY InitInv, InitKeys
<1>2. IInv /\ KInv /\ [Next]_vars => (IInv /\ KInv)'
  BY NextInv, NextKeys
<1>3. IInv /\ KInv => NothingLeftBehind
  <2> SUFFICES ASSUME IInv, KInv, NEW p \in Procs, pc[p] = "creat", call[p].op = "create"
               PROVE  /\ From(call[p].file) = {}
                      /\ \A i \in With(call[p].file) :
                           ~sets[i].pool => sets[i].file \in files \cup {PathInode}
    BY DEF NothingLeftBehind
  <2>1. From(call[p].file) = {}
    BY DEF KInv, KeysRight, KeyRight
  <2>2. \A i \in Live : ~sets[i].pool => sets[i].file \in files \cup {PathInode}
    BY DEF KInv, FilesRight, IInv, TypeInv, Sets, Files, Live
  <2> QED
    BY <2>1, <2>2 DEF With
<1> QED
  BY <1>1, <1>2, <1>3, PTL DEF Spec
=============================================================================
