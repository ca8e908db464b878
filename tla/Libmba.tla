------------------------------- MODULE Libmba -------------------------------
(* The allocator suba (EXTENDS), the smaller modules of libmba, and the     *)
(* sound server that is built on it, side by side.  They share no state:    *)
(* part, chosen when a behaviour begins, says which of them moves in it.    *)
EXTENDS Suba, Sequences

CONSTANTS NULL,
          Memory, Failing,                         \* what may fail, in all of them
          MaxSize, StackInit, PoolFailing,         \* Pool
          Bins, InitSize,                          \* Varray
          Lists, Tables, Given,                    \* Msgno
          Bytes, Patterns, RingRoom, MaxOut,       \* Shellout
          Procs, LockPaths,                        \* Daemon
          Rules, Packets, CHAN_MAX, Dlen, MaxTime, TimeSteps \* Sound

VARIABLES
  part,
  stk, bits, unused, held, given,
  bins, kept, iter, seen, steady, ended,
  list_tbl, next_tbl_idx, msgno, added,
  at, call, tty, child, out, written, timed, alarm, rang, got, unseen, dst, di, answer,
  paths, pc, locker, pidfile,
  mat, chan, main, i, num, locked, last, time

poolVars   == <<stk, bits, unused, held, given>>
varrayVars == <<bins, kept, iter, seen, steady, ended>>
msgnoVars  == <<list_tbl, next_tbl_idx, msgno, added>>
shoVars    == <<at, call, tty, child, out, written, timed, alarm, rang, got, unseen, dst, di, answer>>
daemonVars == <<paths, pc, locker, pidfile>>
soundVars  == <<mat, chan, main, i, num, locked, last, time>>

libVars == <<part, vars, poolVars, varrayVars, msgnoVars, shoVars, daemonVars, soundVars>>

-----------------------------------------------------------------------------
P == INSTANCE Pool WITH ret <- given, Failing <- PoolFailing
V == INSTANCE Varray
M == INSTANCE Msgno WITH next <- next_tbl_idx, ret <- added
S == INSTANCE Shellout
       WITH pc <- at, count <- written, ret <- answer, Room <- RingRoom, NUL <- NULL
D == INSTANCE Daemon WITH Paths <- LockPaths
T == INSTANCE Sound WITH pc <- main, count <- time, Steps <- TimeSteps

ASSUME LibmbaAssumption ==
       /\ P!PoolAssumption /\ V!VarrayAssumption /\ M!MsgnoAssumption
       /\ S!ShelloutAssumption /\ D!DaemonAssumption /\ T!SoundAssumption

-----------------------------------------------------------------------------
Parts == {"suba", "pool", "varray", "msgno", "shellout", "daemon", "sound"}

Start == Init /\ P!Init /\ V!Init /\ M!Init /\ S!Init /\ D!Init /\ T!Init

LibInit == part \in Parts /\ Start

(* Of all the others nothing changes.                                       *)
Suba     == /\ part = "suba" /\ Next
            /\ UNCHANGED <<part, poolVars, varrayVars, msgnoVars, shoVars, daemonVars, soundVars>>

Pool     == /\ part = "pool" /\ P!Next
            /\ UNCHANGED <<part, vars, varrayVars, msgnoVars, shoVars, daemonVars, soundVars>>

Varray   == /\ part = "varray" /\ V!Next
            /\ UNCHANGED <<part, vars, poolVars, msgnoVars, shoVars, daemonVars, soundVars>>

Msgno    == /\ part = "msgno" /\ M!Next
            /\ UNCHANGED <<part, vars, poolVars, varrayVars, shoVars, daemonVars, soundVars>>

Shellout == /\ part = "shellout" /\ S!Next
            /\ UNCHANGED <<part, vars, poolVars, varrayVars, msgnoVars, daemonVars, soundVars>>

Daemon   == /\ part = "daemon" /\ D!Next
            /\ UNCHANGED <<part, vars, poolVars, varrayVars, msgnoVars, shoVars, soundVars>>

Sound    == /\ part = "sound" /\ T!Next
            /\ UNCHANGED <<part, vars, poolVars, varrayVars, msgnoVars, shoVars, daemonVars>>

LibNext == Suba \/ Pool \/ Varray \/ Msgno \/ Shellout \/ Daemon \/ Sound

LibSpec == LibInit /\ [][LibNext]_libVars

-----------------------------------------------------------------------------
(* An object that a client of a pool has is its own and is not deleted, and *)
(* a client gets one unless all are given out or something fails.  Both are *)
(* said of calls; before the first one nobody has anything.                 *)
PoolRight == [][P!HeldIsKept']_libVars /\ P!GetsOne

(* What a client of a varray wrote stays where it finds it, and an          *)
(* enumeration gives all that was there from its beginning to its end.      *)
VarrayRight == part = "varray" => V!ElementsKept /\ V!EnumerationWhole

(* A message number gives the message that it was given for, whatever       *)
(* tables were added or refused.                                            *)
NumbersSay == part = "msgno" => M!NumbersSay

(* What sho_expect and sho_loop answer agrees with what the shell wrote and *)
(* when the alarm rang, and the user's terminal is restored in the end.     *)
ExpectRight == part = "shellout" => S!ExpectRight /\ S!TtyRestored

(* One instance of a daemon at most runs, in whatever order they start and  *)
(* die.                                                                     *)
OneDaemon == part = "daemon" => D!OneDaemon

(* The callback mixes whole sounds, after every step of the two threads,    *)
(* and no sound is cut off by another.                                      *)
PlaysRight == T!PlaysRight
=============================================================================
