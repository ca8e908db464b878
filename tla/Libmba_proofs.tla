---------------------------- MODULE Libmba_proofs ----------------------------
(***************************************************************************)
(* The smaller modules of libmba, and the sound server, of any size.       *)
(*                                                                         *)
(* Each has an invariant of its own, kept by its Next; since a step of the *)
(* composition is a step of one module or leaves its variables alone, that *)
(* is an invariant of LibSpec.                                             *)
(***************************************************************************)
EXTENDS Libmba, DataFacts

-----------------------------------------------------------------------------
(* Daemons.                                                                 *)

DaemonStates == {"none", "adopted", "child", "locked", "written", "runs", "failed", "dead"}

DaemonTypeOK == /\ paths \in LockPaths
                /\ pc \in [Procs -> DaemonStates]
                /\ locker \in Procs \cup {NULL} /\ pidfile \in Procs \cup {NULL}

(* Who has come past fcntl has the lock until it dies; who has come past   *)
(* the writing of its number was the last to write, since all the others   *)
(* that could have needed the lock.                                        *)
DaemonGuarded == D!lockpath # NULL /\ D!lockpath # D!pidpath

LockIsHeld == DaemonGuarded => \A p \in Procs : pc[p] \in {"locked", "written", "runs"} => locker = p

LastWriter == DaemonGuarded /\ D!pidpath # NULL =>
                \A p \in Procs : pc[p] \in {"written", "runs"} => pidfile = p

(* Who did not fork has neither.                                            *)
NeverForked == \A p \in Procs : pc[p] \in {"none", "adopted"} => locker # p /\ pidfile # p

DaemonIInv == DaemonTypeOK /\ LockIsHeld /\ LastWriter /\ NeverForked

USE DEF DaemonIInv, DaemonTypeOK, DaemonStates, LockIsHeld, LastWriter, NeverForked, DaemonGuarded,
        D!lockpath, D!pidpath, D!Goes

LEMMA DaemonInitInv == D!DaemonAssumption /\ D!Init => DaemonIInv
  BY DEF D!Init, D!DaemonAssumption

LEMMA DaemonNextInv == ASSUME D!DaemonAssumption, DaemonIInv, [D!Next]_D!vars PROVE DaemonIInv'
<1>1. NULL \notin Procs
  BY DEF D!DaemonAssumption
<1>2. ASSUME NEW p \in Procs, D!Adopt(p) \/ D!Fork(p) PROVE DaemonIInv'
  BY <1>2 DEF D!Adopt, D!Fork
<1>3. ASSUME NEW p \in Procs, D!Lock(p) PROVE DaemonIInv'
  <2>1. CASE D!lockpath = NULL
    BY <1>3, <2>1 DEF D!Lock
  <2>2. CASE D!lockpath # NULL /\ D!TakesLock(p) /\ D!Goes(p, "locked")
    BY <1>1, <1>3, <2>2 DEF D!Lock, D!TakesLock
  <2>3. CASE D!lockpath # NULL /\ D!Goes(p, "failed") /\ UNCHANGED locker
    BY <1>3, <2>3 DEF D!Lock
  <2> QED
    BY <1>3, <2>1, <2>2, <2>3 DEF D!Lock
<1>4. ASSUME NEW p \in Procs, D!WritePid(p) PROVE DaemonIInv'
  <2>1. CASE D!pidpath = NULL
    BY <1>4, <2>1 DEF D!WritePid
  <2>2. CASE D!pidpath # NULL /\ pidfile' = p /\ D!Closes(p) /\ D!Goes(p, "written")
    BY <1>1, <1>4, <2>2 DEF D!WritePid, D!Closes
  <2>3. CASE D!pidpath # NULL /\ D!Goes(p, "failed") /\ UNCHANGED <<locker, pidfile>>
    BY <1>4, <2>3 DEF D!WritePid
  <2> QED
    BY <1>4, <2>1, <2>2, <2>3 DEF D!WritePid
<1>5. ASSUME NEW p \in Procs, D!Chdir(p) PROVE DaemonIInv'
  BY <1>5 DEF D!Chdir
<1>6. ASSUME NEW p \in Procs, D!Die(p) PROVE DaemonIInv'
  BY <1>1, <1>6 DEF D!Die
<1>7. CASE UNCHANGED D!vars
  BY <1>7 DEF D!vars
<1> QED
  BY <1>2, <1>3, <1>4, <1>5, <1>6, <1>7 DEF D!Next

(* Of a set whose members are all one and the same there is one at most.    *)
LEMMA AtMostOne ==
  ASSUME NEW set, NEW e, \A x \in set : x = e
  PROVE  Cardinality(set) <= 1
<1>1. CASE set = {}
  BY <1>1, FS_EmptySet
<1>2. CASE set # {}
  <2>1. set = {e}
    BY <1>2
  <2> QED
    BY <2>1, FS_Singleton
<1> QED
  BY <1>1, <1>2

LEMMA DaemonInvImplies == DaemonIInv => D!OneDaemon
<1> SUFFICES ASSUME DaemonIInv, DaemonGuarded PROVE D!OneDaemon
  BY DEF D!OneDaemon
<1>1. \A p \in D!Running : locker = p
  BY DEF D!Running
<1>2. D!Cardinality(D!Running) = Cardinality(D!Running)
  BY DEF D!Cardinality, Cardinality
<1>3. D!Cardinality(D!Running) <= 1
  <2>1. Cardinality(D!Running) <= 1
    BY <1>1, AtMostOne
  <2> QED
    BY <1>2, <2>1
<1>4. D!pidpath # NULL => \A p \in D!Running : pidfile = p
  BY DEF D!Running
<1>5. \A p \in D!Adopted : locker # p /\ pidfile # p
  BY DEF D!Adopted
<1> QED
  BY <1>1, <1>3, <1>4, <1>5 DEF D!OneDaemon

HIDE DEF DaemonIInv, DaemonTypeOK, DaemonStates, LockIsHeld, LastWriter, NeverForked, DaemonGuarded,
         D!lockpath, D!pidpath, D!Goes

(* A step of the composition is a step of the daemons or none.              *)
LEMMA DaemonStep == [LibNext]_libVars => [D!Next]_D!vars
  BY DEF LibNext, Suba, Pool, Varray, Msgno, Shellout, Daemon, Sound, libVars, daemonVars, D!vars

(* However many instances of a daemon are started, and whenever they die:   *)
(* one at most runs, it has the lock, and the pid file names it, if the     *)
(* lock file is not the pid file too.                                       *)
THEOREM OneDaemonRuns == LibSpec => []OneDaemon
<1>1. LibInit => DaemonIInv
  BY DaemonInitInv, LibmbaAssumption DEF LibInit, Start
<1>2. DaemonIInv /\ [LibNext]_libVars => DaemonIInv'
  BY DaemonStep, DaemonNextInv, LibmbaAssumption
<1>3. DaemonIInv => OneDaemon
  BY DaemonInvImplies DEF OneDaemon
<1> QED
  BY <1>1, <1>2, <1>3, PTL DEF LibSpec

-----------------------------------------------------------------------------
(* The sound server.                                                        *)
Channels == 1 .. CHAN_MAX

SoundTypeOK == /\ mat \in Rules /\ locked \in BOOLEAN
               /\ chan \in [Channels -> [data : Nat, len : Nat, pos : Nat]]
               /\ main \in {"read", "scan", "lock", "data", "len", "pos", "unlock"}
               /\ main # "read" => i \in Channels /\ num \in DOMAIN mat

Whole(smp) == /\ smp.data # 0 => smp.data \in DOMAIN mat /\ smp.len = mat[smp.data].len
              /\ smp.pos <= smp.len

(* The lock is taken for the three assignments; between them only their    *)
(* channel is not whole.                                                   *)
AudioLockIsHeld == locked <=> main \in {"data", "len", "pos", "unlock"}

OthersWhole == \A c \in Channels : c # i \/ main \notin {"len", "pos"} => Whole(chan[c])

(* From the search on its channel is at its end: the callback leaves such  *)
(* a channel alone, and nobody else plays a sound.                         *)
StaysAtEnd == main \in {"lock", "data"} => T!AtEnd(chan[i])

HalfAssigned == /\ main \in {"len", "pos"} => chan[i].data = num
                /\ main = "pos" => chan[i].len = mat[num].len

SoundIInv == SoundTypeOK /\ AudioLockIsHeld /\ OthersWhole /\ StaysAtEnd /\ HalfAssigned

USE DEF Channels

LEMMA LeastIsIn == ASSUME NEW m, m \subseteq Nat, m # {} PROVE T!First(m) \in m
  BY LeastNatural DEF T!First

(* T!handle_packet finds a rule of the table.                                 *)
LEMMA RuleFound ==
  ASSUME T!SoundAssumption, mat \in Rules, NEW pkt
  PROVE  T!handle_packet(pkt) \in DOMAIN mat
<1>1. DOMAIN mat \subseteq Nat /\ 1 \in DOMAIN mat
  BY DEF T!SoundAssumption
<1> DEFINE same   == {n \in DOMAIN mat : mat[n].proto = pkt.proto}
           exact  == {n \in same : /\ mat[n].srcport \in {0, pkt.srcport}
                                   /\ mat[n].dstport \in {0, pkt.dstport}}
           either == {n \in same : \/ mat[n].srcport = pkt.srcport
                                   \/ mat[n].dstport = pkt.dstport}
<1>2. T!handle_packet(pkt) = IF exact # {} THEN T!First(exact)
                           ELSE IF either # {} THEN T!First(either) ELSE 1
  BY DEF T!handle_packet
<1>3. exact \subseteq DOMAIN mat /\ either \subseteq DOMAIN mat
  OBVIOUS
<1> HIDE DEF exact, either
<1>4. exact # {} => T!First(exact) \in exact
  BY <1>1, <1>3, LeastIsIn
<1>5. either # {} => T!First(either) \in either
  BY <1>1, <1>3, LeastIsIn
<1> QED
  BY <1>1, <1>2, <1>3, <1>4, <1>5

LEMMA SoundInitInv == T!Init => SoundIInv
<1> SUFFICES ASSUME T!Init PROVE SoundIInv
  OBVIOUS
<1>1. T!Silence \in [data : Nat, len : Nat, pos : Nat] /\ Whole(T!Silence)
  BY DEF T!Silence, Whole
<1>2. \A c \in Channels : chan[c] = T!Silence
  BY DEF T!Init
<1>3. SoundTypeOK
  BY <1>1 DEF T!Init, SoundTypeOK
<1> QED
  BY <1>1, <1>2, <1>3 DEF T!Init, SoundIInv, AudioLockIsHeld, OthersWhole, StaysAtEnd, HalfAssigned

-----------------------------------------------------------------------------
(* The callback mixes no more of a sound than there is.                     *)
LEMMA MixedRight ==
  ASSUME Dlen \in Nat \ {0}, NEW smp \in [data : Nat, len : Nat, pos : Nat], Whole(smp)
  PROVE  /\ T!Mixed(smp) \in [data : Nat, len : Nat, pos : Nat]
         /\ Whole(T!Mixed(smp))
         /\ T!AtEnd(smp) => T!AtEnd(T!Mixed(smp))
<1>1. smp.pos \in Nat /\ smp.len \in Nat /\ smp.pos <= smp.len
  BY DEF Whole
<1>2. T!Mixed(smp) = [smp EXCEPT !.pos = smp.pos + (IF smp.len - smp.pos < Dlen
                                                  THEN smp.len - smp.pos ELSE Dlen)]
  BY DEF T!Mixed
<1> DEFINE n == smp.pos + (IF smp.len - smp.pos < Dlen THEN smp.len - smp.pos ELSE Dlen)
<1>3. n \in Nat /\ n <= smp.len /\ (smp.pos = smp.len => n = smp.len)
  BY <1>1
<1> HIDE DEF n
<1>4. T!Mixed(smp) = [smp EXCEPT !.pos = n]
  BY <1>2 DEF n
<1> QED
  BY <1>3, <1>4 DEF Whole, T!AtEnd

(* What a step changes, and what of the channels stays.                     *)
LEMMA SoundNextInv == ASSUME T!SoundAssumption, SoundIInv, [T!Next]_T!vars PROVE SoundIInv'
<1>1. CHAN_MAX \in Nat \ {0} /\ Dlen \in Nat \ {0}
  BY DEF T!SoundAssumption
<1>2. \A n \in DOMAIN mat : n \in Nat /\ mat[n].len \in Nat
  BY DEF T!SoundAssumption, SoundIInv, SoundTypeOK
<1>3. /\ mat \in Rules /\ locked \in BOOLEAN /\ AudioLockIsHeld /\ StaysAtEnd
      /\ chan \in [Channels -> [data : Nat, len : Nat, pos : Nat]]
      /\ main \in {"read", "scan", "lock", "data", "len", "pos", "unlock"}
  BY DEF SoundIInv, SoundTypeOK
<1>4. main # "read" => i \in Channels /\ num \in DOMAIN mat
  BY DEF SoundIInv, SoundTypeOK
<1>5. OthersWhole /\ HalfAssigned
  BY DEF SoundIInv
<1> DEFINE Same == chan' = chan /\ mat' = mat
<1>6. ASSUME NEW pkt \in Packets, NEW step \in TimeSteps, T!Read(pkt, step) PROVE SoundIInv'
  <2>1. Same /\ UNCHANGED locked /\ main = "read" /\ main' \in {"read", "scan"}
    BY <1>6 DEF T!Read
  <2>2. main' # "read" => i' \in Channels /\ num' \in DOMAIN mat
    BY <1>1, <1>3, <1>6, RuleFound DEF T!Read
  <2> QED
    BY <1>3, <1>5, <2>1, <2>2
       DEF SoundIInv, SoundTypeOK, AudioLockIsHeld, OthersWhole, StaysAtEnd, HalfAssigned, Whole
<1>7. CASE T!Scan
  <2>1. Same /\ UNCHANGED <<locked, num>> /\ main = "scan" /\ main' \in {"read", "scan", "lock"}
    BY <1>7 DEF T!Scan
  <2>2. i' \in Channels /\ (main' = "lock" => T!AtEnd(chan[i']))
    BY <1>1, <1>4, <1>7 DEF T!Scan
  <2> QED
    BY <1>3, <1>4, <1>5, <2>1, <2>2
       DEF SoundIInv, SoundTypeOK, AudioLockIsHeld, OthersWhole, StaysAtEnd, HalfAssigned, Whole, T!AtEnd
<1>8. CASE T!Lock \/ T!Unlock
  <2>1. Same /\ UNCHANGED <<num, i>> /\ locked' \in BOOLEAN
    BY <1>8 DEF T!Lock, T!Unlock, T!SDL_LockAudio
  <2>2. \/ main = "lock" /\ main' = "data" /\ locked'
        \/ main = "unlock" /\ main' = "read" /\ ~locked'
    BY <1>8 DEF T!Lock, T!Unlock, T!SDL_LockAudio
  <2> QED
    BY <1>3, <1>4, <1>5, <2>1, <2>2
       DEF SoundIInv, SoundTypeOK, AudioLockIsHeld, OthersWhole, StaysAtEnd, HalfAssigned, Whole, T!AtEnd
<1>9. CASE T!Data \/ T!Len1 \/ T!Pos
  <2> DEFINE smp == chan'[i]
  <2>1. UNCHANGED <<mat, i, num, locked>> /\ main \in {"data", "len", "pos"}
    BY <1>9 DEF T!Data, T!Len1, T!Pos, T!Assign
  <2>2. i \in Channels /\ num \in DOMAIN mat
    BY <1>4, <2>1
  <2>3. \A c \in Channels : c # i => chan'[c] = chan[c]
    BY <1>3, <1>9 DEF T!Data, T!Len1, T!Pos, T!Assign
  <2>4. CASE T!Data
    <3>1. chan' = [chan EXCEPT ![i] = [chan[i] EXCEPT !.data = num]] /\ main = "data" /\ main' = "len"
      BY <2>4 DEF T!Data, T!Assign
    <3>2. smp = [chan[i] EXCEPT !.data = num]
      BY <1>3, <2>2, <3>1
    <3>3. smp \in [data : Nat, len : Nat, pos : Nat] /\ smp.data = num
      BY <1>2, <1>3, <2>2, <3>2
    <3>4. chan' \in [Channels -> [data : Nat, len : Nat, pos : Nat]]
      BY <1>3, <2>2, <3>1, <3>3
    <3> QED
      BY <1>3, <1>5, <2>1, <2>2, <2>3, <3>1, <3>3, <3>4
         DEF SoundIInv, SoundTypeOK, AudioLockIsHeld, OthersWhole, StaysAtEnd, HalfAssigned, Whole
  <2>5. CASE T!Len1
    <3>1. chan' = [chan EXCEPT ![i] = [chan[i] EXCEPT !.len = mat[num].len]] /\ main = "len" /\ main' = "pos"
      BY <2>5 DEF T!Len1, T!Assign
    <3>2. smp = [chan[i] EXCEPT !.len = mat[num].len]
      BY <1>3, <2>2, <3>1
    <3>3. smp \in [data : Nat, len : Nat, pos : Nat] /\ smp.data = num /\ smp.len = mat[num].len
      BY <1>2, <1>3, <1>5, <2>2, <3>1, <3>2 DEF HalfAssigned
    <3>4. chan' \in [Channels -> [data : Nat, len : Nat, pos : Nat]]
      BY <1>3, <2>2, <3>1, <3>3
    <3> QED
      BY <1>3, <1>5, <2>1, <2>2, <2>3, <3>1, <3>3, <3>4
         DEF SoundIInv, SoundTypeOK, AudioLockIsHeld, OthersWhole, StaysAtEnd, HalfAssigned, Whole
  <2>6. CASE T!Pos
    <3>1. chan' = [chan EXCEPT ![i] = [chan[i] EXCEPT !.pos = 0]] /\ main = "pos" /\ main' = "unlock"
      BY <2>6 DEF T!Pos, T!Assign
    <3>2. smp = [chan[i] EXCEPT !.pos = 0]
      BY <1>3, <2>2, <3>1
    <3>3. /\ smp \in [data : Nat, len : Nat, pos : Nat]
          /\ smp.data = num /\ smp.len = mat[num].len /\ smp.pos = 0
      BY <1>2, <1>3, <1>5, <2>2, <3>1, <3>2 DEF HalfAssigned
    <3>4. chan' \in [Channels -> [data : Nat, len : Nat, pos : Nat]]
      BY <1>3, <2>2, <3>1, <3>3
    <3> QED
      BY <1>2, <1>3, <1>5, <2>1, <2>2, <2>3, <3>1, <3>3, <3>4
         DEF SoundIInv, SoundTypeOK, AudioLockIsHeld, OthersWhole, StaysAtEnd, HalfAssigned, Whole
  <2> QED
    BY <1>9, <2>4, <2>5, <2>6
<1>10. CASE T!sound_callback
  <2>1. ~locked /\ UNCHANGED <<mat, main, i, num, locked>>
    BY <1>10 DEF T!sound_callback
  <2>2. \A c \in Channels : Whole(chan[c])
    BY <1>3, <1>5, <2>1 DEF AudioLockIsHeld, OthersWhole
  <2>3. chan' = [c \in Channels |-> T!Mixed(chan[c])]
    BY <1>3, <1>10 DEF T!sound_callback
  <2>4. \A c \in Channels : /\ chan'[c] \in [data : Nat, len : Nat, pos : Nat]
                            /\ Whole(chan'[c])
                            /\ T!AtEnd(chan[c]) => T!AtEnd(chan'[c])
    BY <1>1, <1>3, <2>2, <2>3, MixedRight
  <2>5. SoundTypeOK' /\ AudioLockIsHeld'
    BY <1>3, <1>4, <2>1, <2>3, <2>4 DEF SoundTypeOK, AudioLockIsHeld
  <2>6. OthersWhole' /\ HalfAssigned'
    BY <1>3, <2>1, <2>4 DEF OthersWhole, HalfAssigned, AudioLockIsHeld, Whole
  <2>7. StaysAtEnd'
    BY <1>3, <1>4, <2>1, <2>4 DEF StaysAtEnd, AudioLockIsHeld, T!AtEnd
  <2> QED
    BY <2>5, <2>6, <2>7 DEF SoundIInv
<1>11. CASE UNCHANGED T!vars
  BY <1>11 DEF T!vars, SoundIInv, SoundTypeOK, AudioLockIsHeld, OthersWhole, StaysAtEnd, HalfAssigned,
               Whole, T!AtEnd
<1> QED
  BY <1>6, <1>7, <1>8, <1>9, <1>10, <1>11 DEF T!Next

-----------------------------------------------------------------------------
LEMMA SoundInvImplies == SoundIInv => T!MixesWhole
  BY DEF SoundIInv, SoundTypeOK, Whole, AudioLockIsHeld, OthersWhole, T!MixesWhole

(* When the channel is given its new sound, the old one was at its end.     *)
LEMMA CutsNothing == SoundIInv /\ T!Data => chan[i].pos = chan[i].len
  BY DEF SoundIInv, StaysAtEnd, T!Data, T!Assign, T!AtEnd

(* A step of the composition is a step of the server or none.               *)
LEMMA SoundStep == [LibNext]_libVars => [T!Next]_T!vars
  BY DEF LibNext, Suba, Pool, Varray, Msgno, Shellout, Daemon, Sound, libVars, soundVars, T!vars

(* The callback sees whole sounds only, and none is cut off, whenever the   *)
(* library calls it and however many channels and rules there are.          *)
THEOREM SoundsPlay == LibSpec => PlaysRight
<1>1. LibInit => SoundIInv
  BY SoundInitInv DEF LibInit, Start
<1>2. SoundIInv /\ [LibNext]_libVars => SoundIInv'
  BY SoundStep, SoundNextInv, LibmbaAssumption
<1>3. SoundIInv => T!MixesWhole
  BY SoundInvImplies
<1>4. SoundIInv => (T!Data => chan[i].pos = chan[i].len)
  BY CutsNothing
<1> QED
  BY <1>1, <1>2, <1>3, <1>4, PTL DEF LibSpec, PlaysRight, T!PlaysRight, T!NeverCut

-----------------------------------------------------------------------------
(* sho_expect, sho_loop and the alarm.                                      *)
ShoTypeOK == /\ at \in {"closed", "opened", "armed", "waiting", "echoing"}
             /\ call \in {"open", "expect", "loop"}
             /\ child \in {"none", "runs", "exited", "reaped"}
             /\ out \in Seq(Bytes) /\ got \in Seq(Bytes)
             /\ dst \in [0 .. RingRoom - 1 -> Bytes \cup {NULL}]
             /\ di \in 0 .. RingRoom - 1 /\ answer \in Int

(* Where the next byte goes, and what is in front of it.                    *)
Ring(g, d, k) == /\ k = Len(g) % RingRoom /\ k <= Len(g)
                 /\ \A x \in 0 .. k - 1 : d[x] = g[Len(g) - k + x + 1]

(* A pattern in what was read, and in the ring.                             *)
NoticedIn(g, j, n) == /\ n >= Len(Patterns[j])
                      /\ SubSeq(g, n - Len(Patterns[j]) + 1, n) = Patterns[j]
                      /\ n % RingRoom >= Len(Patterns[j])

Unnoticed(n) == \A j \in S!Tried : ~NoticedIn(got, j, n)

(* What was read before, and the last byte.                                 *)
Overlooked == /\ \A n \in 1 .. Len(got) - 1 : Unnoticed(n)
              /\ got # <<>> /\ (S!Reading \/ answer <= 0) => Unnoticed(Len(got))

Answered ==
  got # <<>> /\ ~S!Reading =>
    /\ answer > 0 => /\ NoticedIn(got, answer, Len(got))
                     /\ \A j \in 1 .. answer - 1 : ~NoticedIn(got, j, Len(got))
    /\ answer <= 0 /\ call # "loop" => child # "runs" \/ rang
    /\ call # "loop" => dst[di] = NULL

(* The byte that sho_loop is showing to the user, or could not show.        *)
Shown == /\ unseen \in {0, 1}
         /\ at = "echoing" => call = "loop" /\ dst[di] \in Bytes
         /\ unseen = 1 => call = "loop" /\ (at = "echoing" \/ (~S!Reading /\ answer = -1))

ShoIInv == /\ ShoTypeOK /\ (S!Reading \/ got # <<>> => Ring(got, dst, di))
           /\ Overlooked /\ Answered /\ Shown /\ S!TtyRestored

(* Remainders.                                                              *)
LEMMA Remainder ==
  ASSUME NEW a \in Nat, NEW n \in Nat \ {0}
  PROVE  a % n \in 0 .. n - 1 /\ \E q \in Int : a = n * q + (a % n)
<1>1. a \div n \in Int /\ a % n \in 0 .. n - 1 /\ a = n * (a \div n) + (a % n)
  OBVIOUS
<1> QED
  BY <1>1

LEMMA RemainderIs ==
  ASSUME NEW a \in Nat, NEW n \in Nat \ {0}, NEW q \in Int, NEW r \in 0 .. n - 1, a = n * q + r
  PROVE  a % n = r
<1>1. PICK p \in Int : a = n * p + (a % n)
  BY Remainder
<1>2. a % n \in 0 .. n - 1
  BY Remainder
<1>3. n * (p - q) = r - (a % n)
  BY <1>1, <1>2
<1>4. CASE p > q
  <2>1. n * (p - q) >= n
    BY <1>4
  <2> QED
    BY <1>2, <1>3, <2>1
<1>5. CASE p < q
  <2>1. n * (p - q) <= -n
    BY <1>5
  <2> QED
    BY <1>2, <1>3, <2>1
<1>6. CASE p = q
  BY <1>1, <1>2, <1>6
<1> QED
  BY <1>4, <1>5, <1>6

LEMMA RemainderNext ==
  ASSUME NEW a \in Nat, NEW n \in Nat \ {0}
  PROVE  (a + 1) % n = IF a % n = n - 1 THEN 0 ELSE (a % n) + 1
<1>1. PICK q \in Int : a = n * q + (a % n)
  BY Remainder
<1>2. a % n \in 0 .. n - 1
  BY Remainder
<1>3. CASE a % n < n - 1
  <2>1. PICK b \in Nat, z \in 0 .. n - 1 : b = a + 1 /\ z = (a % n) + 1
    BY <1>2, <1>3
  <2>2. b = n * q + z
    BY <1>1, <1>2, <2>1
  <2>3. b % n = z
    BY <2>2, RemainderIs
  <2> QED
    BY <1>2, <1>3, <2>1, <2>3
<1>4. CASE a % n = n - 1
  <2>1. PICK m \in Int, p \in Int : m = n * q /\ p = q + 1
    OBVIOUS
  <2>2. n * p = m + n
    BY <2>1
  <2>3. a = m + (n - 1)
    BY <1>1, <1>4, <2>1
  <2>4. PICK b \in Nat, z \in 0 .. n - 1 : b = a + 1 /\ z = 0
    OBVIOUS
  <2>5. b = n * p + z
    BY <2>2, <2>3, <2>4
  <2>6. b % n = z
    BY <2>5, RemainderIs
  <2> QED
    BY <1>4, <2>4, <2>6
<1> QED
  BY <1>2, <1>3, <1>4

LEMMA SmallRemainder == ASSUME NEW n \in Nat \ {0}, NEW a \in 0 .. n - 1 PROVE a % n = a
<1>1. a = n * 0 + a /\ 0 \in Int /\ a \in Nat
  OBVIOUS
<1> QED
  BY <1>1, RemainderIs

(* The ring.                                                                *)
LEMMA PatternsRight ==
  ASSUME S!ShelloutAssumption
  PROVE  /\ RingRoom \in Nat \ {0} /\ NULL \notin Bytes
         /\ S!Tried \subseteq DOMAIN Patterns
         /\ \A j \in DOMAIN Patterns : /\ j \in Nat /\ j > 0 /\ Patterns[j] \in Seq(Bytes)
                                       /\ Len(Patterns[j]) \in Nat /\ Len(Patterns[j]) > 0
<1>1. Patterns \in Seq(Seq(Bytes) \ {<<>>}) /\ Patterns # <<>>
  BY DEF S!ShelloutAssumption
<1>2. 1 \in DOMAIN Patterns
  BY <1>1
<1>3. \A j \in DOMAIN Patterns : j \in Nat /\ j > 0 /\ Patterns[j] \in Seq(Bytes) /\ Patterns[j] # <<>>
  BY <1>1
<1>4. \A p \in Seq(Bytes) : p # <<>> => Len(p) \in Nat /\ Len(p) > 0
  OBVIOUS
<1> QED
  BY <1>2, <1>3, <1>4 DEF S!ShelloutAssumption, S!Tried

LEMMA RingGrows ==
  ASSUME RingRoom \in Nat \ {0}, NEW g \in Seq(Bytes), NEW b \in Bytes,
         NEW d \in [0 .. RingRoom - 1 -> Bytes \cup {NULL}],
         NEW k \in 0 .. RingRoom - 1, Ring(g, d, k),
         NEW n, n = (k + 1) % RingRoom
  PROVE  n \in 0 .. RingRoom - 1 /\ Ring(Append(g, b), [d EXCEPT ![k] = b], n)
<1>1. PICK m \in Nat : m = Len(g)
  OBVIOUS
<1>2. k = m % RingRoom /\ k <= m
  BY <1>1 DEF Ring
<1>3. Append(g, b) \in Seq(Bytes) /\ Len(Append(g, b)) = m + 1
  BY <1>1
<1>4. (m + 1) % RingRoom = IF k = RingRoom - 1 THEN 0 ELSE k + 1
  BY <1>2, RemainderNext
<1>5. (k + 1) % RingRoom = IF k = RingRoom - 1 THEN 0 ELSE k + 1
  <2>1. k % RingRoom = k /\ k \in Nat
    BY SmallRemainder
  <2> QED
    BY <2>1, RemainderNext
<1>6. CASE k = RingRoom - 1
  <2>1. n = 0 /\ n = (m + 1) % RingRoom
    BY <1>4, <1>5, <1>6
  <2>2. PICK g2, d2 : g2 = Append(g, b) /\ d2 = [d EXCEPT ![k] = b] /\ Len(g2) = m + 1
    BY <1>3
  <2>3. Ring(g2, d2, n)
    BY <2>1, <2>2 DEF Ring
  <2> QED
    BY <2>1, <2>2, <2>3
<1>7. CASE k # RingRoom - 1
  <2>1. n = k + 1 /\ n \in 0 .. RingRoom - 1 /\ n <= m + 1 /\ n = (m + 1) % RingRoom
    BY <1>2, <1>4, <1>5, <1>7
  <2>2. ASSUME NEW x \in 0 .. n - 1
        PROVE  [d EXCEPT ![k] = b][x] = Append(g, b)[(m + 1) - n + x + 1]
    <3>1. CASE x = k
      <4>1. (m + 1) - n + x + 1 = m + 1
        BY <2>1, <3>1
      <4>2. Append(g, b)[m + 1] = b
        BY <1>1
      <4> QED
        BY <3>1, <4>1, <4>2
    <3>2. CASE x # k
      <4>1. x \in 0 .. k - 1
        BY <2>1, <3>2
      <4>2. d[x] = g[m - k + x + 1]
        BY <1>1, <4>1 DEF Ring
      <4>3. PICK y \in 1 .. m : y = m - k + x + 1 /\ y = (m + 1) - n + x + 1
        BY <1>2, <2>1, <4>1
      <4>4. Append(g, b)[y] = g[y]
        BY <1>1, <4>3
      <4>5. [d EXCEPT ![k] = b][x] = d[x]
        BY <3>2, <4>1
      <4> QED
        BY <4>2, <4>3, <4>4, <4>5
    <3> QED
      BY <3>1, <3>2
  <2> QED
    BY <1>3, <2>1, <2>2 DEF Ring
<1> QED
  BY <1>6, <1>7

LEMMA PartOf ==
  ASSUME NEW g \in Seq(Bytes), NEW p \in Seq(Bytes), NEW n \in 1 .. Len(g), n >= Len(p), Len(p) > 0
  PROVE  SubSeq(g, n - Len(p) + 1, n) = p <=> \A x \in 1 .. Len(p) : p[x] = g[n - Len(p) + x]
<1>1. PICK l \in Nat : l = Len(p) /\ l > 0 /\ l <= n
  OBVIOUS
<1>2. PICK s \in Seq(Bytes) : /\ s = SubSeq(g, n - l + 1, n) /\ Len(s) = l
                              /\ \A x \in 1 .. l : s[x] = g[n - l + x]
  <2>1. n - l + 1 \in 1 .. Len(g) /\ n - l + 1 <= n
    BY <1>1
  <2>2. SubSeq(g, n - l + 1, n) \in Seq(Bytes)
    BY <1>1, <2>1
  <2>3. Len(SubSeq(g, n - l + 1, n)) = l
    BY <1>1, <2>1
  <2>4. \A x \in 1 .. l : SubSeq(g, n - l + 1, n)[x] = g[n - l + x]
    BY <1>1, <2>1
  <2> QED
    BY <2>2, <2>3, <2>4
<1>3. s = p <=> \A x \in 1 .. l : s[x] = p[x]
  <2>1. \A q \in Seq(Bytes) : q \in [1 .. Len(q) -> Bytes]
    OBVIOUS
  <2>2. s \in [1 .. l -> Bytes] /\ p \in [1 .. l -> Bytes]
    BY <1>1, <1>2, <2>1
  <2> QED
    BY <2>2
<1> QED
  BY <1>1, <1>2, <1>3

LEMMA RingNotices ==
  ASSUME S!ShelloutAssumption, NEW g \in Seq(Bytes), g # <<>>, NEW d,
         NEW k \in 0 .. RingRoom - 1, Ring(g, d, k), NEW j \in DOMAIN Patterns
  PROVE  NoticedIn(g, j, Len(g)) <=> k >= Len(Patterns[j]) /\ S!Ends(Patterns[j], d, k)
<1>1. PICK m \in Nat : m = Len(g) /\ m > 0
  OBVIOUS
<1>2. k = m % RingRoom /\ k <= m
  BY <1>1 DEF Ring
<1>3. PICK p \in Seq(Bytes), l \in Nat : p = Patterns[j] /\ l = Len(p) /\ l > 0
  BY PatternsRight
<1> RingRoom \in Nat
  BY PatternsRight
<1>4. CASE k >= l
  <2>1. ASSUME NEW x \in 1 .. l
        PROVE  d[(k - l + x - 1) % RingRoom] = g[m - l + x]
    <3>1. PICK y \in 0 .. k - 1 : y = k - l + x - 1 /\ y \in 0 .. RingRoom - 1
      BY <1>4
    <3>2. y % RingRoom = y
      BY <3>1, PatternsRight, SmallRemainder
    <3>3. d[y] = g[m - k + y + 1]
      BY <1>1 DEF Ring
    <3>4. m - k + y + 1 = m - l + x
      BY <3>1
    <3> QED
      BY <3>1, <3>2, <3>3, <3>4
  <2>2. S!Ends(p, d, k) <=> \A x \in 1 .. l : p[x] = d[(k - l + x - 1) % RingRoom]
    BY <1>3 DEF S!Ends
  <2>3. SubSeq(g, m - l + 1, m) = p <=> \A x \in 1 .. l : p[x] = g[m - l + x]
    <3>1. m \in 1 .. Len(g) /\ m >= Len(p) /\ Len(p) > 0
      BY <1>1, <1>2, <1>3, <1>4
    <3>2. SubSeq(g, m - Len(p) + 1, m) = p <=> \A x \in 1 .. Len(p) : p[x] = g[m - Len(p) + x]
      BY <3>1, PartOf
    <3> QED
      BY <1>3, <3>2
  <2>4. NoticedIn(g, j, m) <=> SubSeq(g, m - l + 1, m) = p
    BY <1>1, <1>2, <1>3, <1>4 DEF NoticedIn
  <2> QED
    BY <1>1, <1>3, <1>4, <2>1, <2>2, <2>3, <2>4
<1>5. CASE ~(k >= l)
  BY <1>1, <1>2, <1>3, <1>5 DEF NoticedIn
<1> QED
  BY <1>4, <1>5

(* What was there is there when another byte is read.                       *)
LEMMA NoticedStays ==
  ASSUME S!ShelloutAssumption, NEW g \in Seq(Bytes), NEW b \in Bytes, NEW n \in 1 .. Len(g),
         NEW j \in DOMAIN Patterns
  PROVE  NoticedIn(Append(g, b), j, n) <=> NoticedIn(g, j, n)
<1>1. PICK p \in Seq(Bytes), l \in Nat : p = Patterns[j] /\ l = Len(p) /\ l > 0
  BY PatternsRight
<1>2. CASE n >= l
  <2>1. Append(g, b) \in Seq(Bytes) /\ n \in 1 .. Len(Append(g, b))
    OBVIOUS
  <2>2. SubSeq(g, n - l + 1, n) = p <=> \A x \in 1 .. l : p[x] = g[n - l + x]
    BY <1>1, <1>2, PartOf
  <2>3. SubSeq(Append(g, b), n - l + 1, n) = p <=> \A x \in 1 .. l : p[x] = Append(g, b)[n - l + x]
    <3>1. PICK g2 \in Seq(Bytes) : g2 = Append(g, b) /\ n \in 1 .. Len(g2)
      BY <2>1
    <3>2. SubSeq(g2, n - Len(p) + 1, n) = p <=> \A x \in 1 .. Len(p) : p[x] = g2[n - Len(p) + x]
      BY <1>1, <1>2, <3>1, PartOf
    <3> QED
      BY <1>1, <3>1, <3>2
  <2>4. \A x \in 1 .. l : Append(g, b)[n - l + x] = g[n - l + x]
    BY <1>2
  <2> QED
    BY <1>1, <2>2, <2>3, <2>4 DEF NoticedIn
<1>3. CASE ~(n >= l)
  BY <1>1, <1>3 DEF NoticedIn
<1> QED
  BY <1>2, <1>3

-----------------------------------------------------------------------------
(* The steps of sho_open, sho_expect, sho_loop and sho_close.               *)
LEMMA ShoInitInv == ASSUME S!ShelloutAssumption, S!Init PROVE ShoIInv
<1>1. ShoTypeOK
  BY PatternsRight DEF S!Init, S!Empty, ShoTypeOK
<1>2. got = <<>> /\ ~S!Reading /\ Len(got) = 0 /\ tty = "cooked"
  BY DEF S!Init, S!Reading
<1>3. Shown
  BY DEF S!Init, Shown
<1> QED
  BY <1>1, <1>2, <1>3 DEF ShoIInv, Overlooked, Answered, S!TtyRestored

(* What changes nothing that the program has read.                          *)
LEMMA ShoQuiet ==
  ASSUME ShoIInv, UNCHANGED <<call, got, unseen, dst, di, answer>>,
         at' \in {"closed", "opened", "armed", "waiting", "echoing"},
         S!Reading' <=> S!Reading, at' = "echoing" <=> at = "echoing",
         out' \in Seq(Bytes), child' \in {"none", "runs", "exited", "reaped"},
         child' = "runs" => child = "runs", rang => rang', S!TtyRestored'
  PROVE  ShoIInv'
<1>1. ShoTypeOK'
  BY DEF ShoIInv, ShoTypeOK
<1>2. \A n : Unnoticed(n)' <=> Unnoticed(n)
  BY DEF Unnoticed, S!Tried
<1>3. Overlooked'
  BY <1>2 DEF ShoIInv, Overlooked
<1>4. Answered'
  BY DEF ShoIInv, Answered
<1>5. Shown'
  BY DEF ShoIInv, Shown
<1> QED
  BY <1>1, <1>3, <1>4, <1>5 DEF ShoIInv

LEMMA ShoReturns ==
  ASSUME NEW r, S!Returns(r)
  PROVE  /\ answer' = r /\ at' \in {"opened", "closed"} /\ ~S!Reading'
         /\ S!TtyRestored'
  BY DEF S!Returns, S!Undone, S!Reading, S!TtyRestored

(* The read ends without a byte, or the byte cannot be shown.               *)
LEMMA ShoEnds ==
  ASSUME S!ShelloutAssumption, ShoIInv, at \in {"waiting", "echoing"}, NEW r \in {0, -1},
         S!Returns(r), at = "echoing" => r = -1,
         UNCHANGED <<call, child, out, got, unseen, di>>,
         dst' = (IF call = "loop" THEN dst ELSE [dst EXCEPT ![di] = NULL]),
         call # "loop" => child # "runs" \/ rang'
  PROVE  ShoIInv'
<1>1. S!Reading /\ Ring(got, dst, di) /\ ShoTypeOK /\ Overlooked
  BY DEF S!Reading, ShoIInv
<1>2. answer' = r /\ at' \in {"opened", "closed"} /\ ~S!Reading' /\ S!TtyRestored'
  BY ShoReturns
<1>3. ShoTypeOK'
  BY <1>1, <1>2 DEF ShoTypeOK
<1>4. Ring(got', dst', di')
  BY <1>1 DEF Ring, ShoTypeOK
<1>5. \A n : Unnoticed(n)' <=> Unnoticed(n)
  BY DEF Unnoticed, S!Tried
<1>6. Overlooked'
  BY <1>1, <1>5 DEF Overlooked
<1>7. call # "loop" => dst'[di] = NULL
  BY <1>1 DEF ShoTypeOK
<1>8. Answered'
  BY <1>2, <1>7 DEF Answered
<1>9. Shown'
  BY <1>1, <1>2 DEF ShoIInv, Shown
<1> QED
  BY <1>2, <1>3, <1>4, <1>6, <1>8, <1>9 DEF ShoIInv

LEMMA ShoBegins ==
  ASSUME S!ShelloutAssumption, ShoIInv, NEW c \in {"open", "expect", "loop"}, NEW t, S!Begins(c, t),
         out' \in Seq(Bytes), child' \in {"none", "runs", "exited", "reaped"}
  PROVE  ShoIInv'
<1>1. /\ at' = "armed" /\ call' = c /\ got' = <<>> /\ di' = 0 /\ dst' = dst /\ answer' = answer
      /\ unseen' = 0
      /\ Len(got') = 0 /\ RingRoom \in Nat \ {0}
  BY PatternsRight DEF S!Begins
<1>2. ShoTypeOK'
  BY <1>1 DEF ShoIInv, ShoTypeOK
<1>3. 0 % RingRoom = 0
  BY <1>1, SmallRemainder
<1>4. Ring(got', dst', di')
  BY <1>1, <1>3 DEF Ring
<1>5. Shown'
  BY <1>1 DEF Shown
<1> QED
  BY <1>1, <1>2, <1>4, <1>5 DEF ShoIInv, Overlooked, Answered, S!TtyRestored

LEMMA ShoCompares ==
  ASSUME S!ShelloutAssumption, ShoIInv, at \in {"waiting", "echoing"}, NEW b \in Bytes,
         S!Compares(b), UNCHANGED <<call, child, rang>>, out' \in Seq(Bytes)
  PROVE  ShoIInv'
<1>1. got' = Append(got, b) /\ unseen' = 0
  BY DEF S!Compares
<1>2. S!Reading /\ Ring(got, dst, di) /\ ShoTypeOK /\ Overlooked /\ RingRoom \in Nat \ {0}
  BY PatternsRight DEF S!Reading, ShoIInv
<1>4. PICK buf \in [0 .. RingRoom - 1 -> Bytes \cup {NULL}] : buf = [dst EXCEPT ![di] = b]
  BY <1>2 DEF ShoTypeOK
<1>5. PICK n \in 0 .. RingRoom - 1 : n = (di + 1) % RingRoom
  BY <1>2, RingGrows DEF ShoTypeOK
<1>6. Ring(got', buf, n) /\ got' \in Seq(Bytes) /\ Len(got') = Len(got) + 1 /\ got' # <<>>
  <2>1. Ring(Append(got, b), [dst EXCEPT ![di] = b], n)
    BY <1>2, <1>5, RingGrows DEF ShoTypeOK
  <2>2. PICK g \in Seq(Bytes) : g = got
    BY <1>2 DEF ShoTypeOK
  <2>3. /\ Append(g, b) \in Seq(Bytes) /\ Len(Append(g, b)) = Len(g) + 1
        /\ Append(g, b) # <<>>
    OBVIOUS
  <2> QED
    BY <1>1, <1>4, <2>1, <2>2, <2>3
<1>7. PICK m : m = S!Matches(buf, n)
  OBVIOUS
<1>8. /\ di' = n
      /\ IF m # {} THEN LET j == CHOOSE k \in m : \A l \in m : k <= l
                        IN  dst' = [buf EXCEPT ![n] = NULL] /\ S!Returns(j)
         ELSE dst' = buf /\ at' = "armed" /\ UNCHANGED <<tty, answer>>
  BY <1>4, <1>5, <1>7 DEF S!Compares
<1>9. \A j \in DOMAIN Patterns : j \in S!Tried => (j \in m <=> NoticedIn(got', j, Len(got')))
  BY <1>6, <1>7, RingNotices DEF S!Matches
<1>10. m \subseteq S!Tried /\ S!Tried \subseteq DOMAIN Patterns /\ DOMAIN Patterns \subseteq Nat
       /\ S!Tried' = S!Tried
  BY <1>1, <1>7, PatternsRight DEF S!Matches, S!Tried
<1>11. \A k \in 1 .. Len(got) : Unnoticed(k)'
  <2>1. SUFFICES ASSUME NEW k \in 1 .. Len(got), NEW j \in S!Tried PROVE ~NoticedIn(got', j, k)
    BY <1>10 DEF Unnoticed
  <2>2. NoticedIn(Append(got, b), j, k) <=> NoticedIn(got, j, k)
    BY <1>2, <1>10, NoticedStays DEF ShoTypeOK
  <2>3. Unnoticed(k)
    BY <1>2 DEF Overlooked, ShoTypeOK
  <2> QED
    BY <1>1, <2>2, <2>3 DEF Unnoticed
<1>12. \A k \in 1 .. Len(got') - 1 : Unnoticed(k)'
  BY <1>2, <1>6, <1>11 DEF ShoTypeOK
<1>13. CASE m = {}
  <2>1. ShoTypeOK'
    BY <1>1, <1>2, <1>6, <1>8, <1>13 DEF ShoTypeOK
  <2>2. Unnoticed(Len(got))'
    BY <1>9, <1>10, <1>13 DEF Unnoticed
  <2>3. Overlooked'
    BY <1>12, <2>2 DEF Overlooked
  <2> QED
    BY <1>1, <1>6, <1>8, <1>13, <2>1, <2>3 DEF ShoIInv, Answered, Shown, S!Reading, S!TtyRestored
<1>14. CASE m # {}
  <2>1. PICK j \in m : \A l \in m : j <= l
    BY <1>10, <1>14, LeastNatural
  <2>2. (CHOOSE k \in m : \A l \in m : k <= l) = j
    BY <1>10, <2>1
  <2>3. dst' = [buf EXCEPT ![n] = NULL] /\ S!Returns(j)
    BY <1>8, <1>14, <2>2
  <2>4. answer' = j /\ at' \in {"opened", "closed"} /\ ~S!Reading' /\ S!TtyRestored'
    BY <2>3, ShoReturns
  <2>5. j \in Nat /\ j > 0 /\ j \in S!Tried /\ NoticedIn(got', j, Len(got'))
    BY <1>9, <1>10, <2>1, PatternsRight
  <2>6. ASSUME NEW l \in 1 .. j - 1 PROVE ~NoticedIn(got', l, Len(got'))
    <3>1. l \in S!Tried
      BY <2>5, <2>6 DEF S!Tried, S!ShelloutAssumption
    <3>2. l \notin m
      BY <1>10, <2>1, <2>5, <2>6
    <3> QED
      BY <1>9, <1>10, <3>1, <3>2
  <2>7. ShoTypeOK'
    BY <1>1, <1>2, <1>6, <1>8, <2>3, <2>4, <2>5 DEF ShoTypeOK
  <2>8. Ring(got', dst', di') /\ dst'[di'] = NULL
    BY <1>6, <1>8, <2>3 DEF Ring
  <2>9. Overlooked'
    BY <1>12, <2>4, <2>5 DEF Overlooked
  <2>10. Answered'
    BY <2>4, <2>5, <2>6, <2>8 DEF Answered
  <2> QED
    BY <1>1, <2>4, <2>7, <2>8, <2>9, <2>10 DEF ShoIInv, Shown, S!Reading
<1> QED
  BY <1>13, <1>14

LEMMA ShoReads == ASSUME S!ShelloutAssumption, ShoIInv, S!ReadByte PROVE ShoIInv'
<1>1. /\ at = "waiting" /\ out # <<>> /\ UNCHANGED <<call, child, rang>> /\ out' = Tail(out)
      /\ ShoTypeOK /\ Ring(got, dst, di) /\ RingRoom \in Nat \ {0}
  BY PatternsRight DEF S!ReadByte, S!Reading, ShoIInv
<1>2. PICK b \in Bytes : b = Head(out) /\ out' \in Seq(Bytes)
  BY <1>1 DEF ShoTypeOK
<1>3. CASE call # "loop"
  BY <1>1, <1>2, <1>3, ShoCompares DEF S!ReadByte
<1>4. CASE call = "loop"
  <2>1. /\ at' = "echoing" /\ dst' = [dst EXCEPT ![di] = b] /\ unseen' = 1
        /\ UNCHANGED <<tty, got, di, answer>>
    BY <1>2, <1>4 DEF S!ReadByte
  <2>2. ShoTypeOK'
    BY <1>1, <1>2, <2>1 DEF ShoTypeOK
  <2>3. Ring(got', dst', di')
    BY <1>1, <2>1 DEF Ring, ShoTypeOK
  <2>4. \A n : Unnoticed(n)' <=> Unnoticed(n)
    BY <1>1, <2>1 DEF Unnoticed, S!Tried
  <2>5. Overlooked'
    BY <1>1, <2>1, <2>4 DEF ShoIInv, Overlooked, S!Reading
  <2>6. Shown' /\ Answered' /\ S!TtyRestored'
    BY <1>1, <1>4, <2>1 DEF Shown, Answered, S!Reading, S!TtyRestored, ShoTypeOK
  <2> QED
    BY <2>2, <2>3, <2>5, <2>6 DEF ShoIInv
<1> QED
  BY <1>3, <1>4

LEMMA ShoEchoes == ASSUME S!ShelloutAssumption, ShoIInv, S!Echo PROVE ShoIInv'
<1>1. at = "echoing" /\ call = "loop" /\ UNCHANGED <<call, child, out, rang>> /\ out \in Seq(Bytes)
  BY DEF S!Echo, ShoIInv, Shown, ShoTypeOK
<1>2. PICK b \in Bytes : b = dst[di]
  BY <1>1 DEF ShoIInv, Shown
<1>3. CASE S!Compares(dst[di])
  BY <1>1, <1>2, <1>3, ShoCompares
<1>4. CASE S!Returns(-1) /\ UNCHANGED <<got, unseen, dst, di>>
  BY <1>1, <1>4, ShoEnds
<1> QED
  BY <1>3, <1>4 DEF S!Echo

LEMMA ShoNextInv == ASSUME S!ShelloutAssumption, ShoIInv, [S!Next]_S!vars PROVE ShoIInv'
<1>1. ShoTypeOK /\ S!TtyRestored
  BY DEF ShoIInv
<1>2. ASSUME NEW t \in BOOLEAN, S!sho_open(t) PROVE ShoIInv'
  <2>1. CASE S!Begins("open", TRUE) /\ child' = "runs" /\ out' = <<>>
    <3>1. out' \in Seq(Bytes) /\ "open" \in {"open", "expect", "loop"}
      BY <2>1
    <3> QED
      BY <2>1, <3>1, ShoBegins
  <2>2. CASE /\ S!Undone /\ answer' = -1 /\ call' = "open" /\ got' = <<>>
             /\ UNCHANGED <<at, child, out, dst, di>> /\ unseen' = 0
    <3>1. ~S!Reading /\ ~S!Reading' /\ got' = <<>> /\ Len(got') = 0 /\ tty' = "cooked"
      BY <1>2, <2>2 DEF S!sho_open, S!Reading, S!Undone
    <3>2. ShoTypeOK'
      BY <1>1, <2>2 DEF ShoTypeOK
    <3>3. Shown'
      BY <2>2, <3>1 DEF Shown, S!Reading
    <3> QED
      BY <3>1, <3>2, <3>3 DEF ShoIInv, Overlooked, Answered, S!TtyRestored
  <2> QED
    BY <1>2, <2>1, <2>2 DEF S!sho_open
<1>3. ASSUME NEW t \in BOOLEAN, S!sho_expect(t) \/ S!sho_loop(t) PROVE ShoIInv'
  <2>1. PICK c \in {"expect", "loop"} : S!Begins(c, t) /\ UNCHANGED S!terminal
    BY <1>3 DEF S!sho_expect, S!sho_loop
  <2> QED
    BY <1>1, <2>1, ShoBegins DEF ShoTypeOK, S!terminal
<1>4. CASE S!Enter
  BY <1>1, <1>4, ShoQuiet DEF S!Enter, ShoTypeOK, S!Reading, S!TtyRestored, S!terminal
<1>5. CASE S!ReadEnd
  BY <1>5, ShoEnds DEF S!ReadEnd
<1>6. CASE S!ReadUser
  <2>1. CASE at' = "armed" /\ UNCHANGED <<tty, answer>>
    BY <1>1, <1>6, <2>1, ShoQuiet DEF S!ReadUser, ShoTypeOK, S!Reading, S!TtyRestored
  <2>2. CASE \E r \in {0, -1} : S!Off(r) /\ S!Returns(r)
    BY <1>6, <2>2, ShoEnds DEF S!ReadUser
  <2> QED
    BY <1>6, <2>1, <2>2 DEF S!ReadUser
<1>7. CASE S!Alarm
  <2>1. CASE at \in {"waiting", "echoing"} /\ rang' = TRUE /\ S!Returns(-1)
             /\ dst' = IF call = "loop" THEN dst ELSE [dst EXCEPT ![di] = NULL]
    <3>1. /\ S!Returns(-1) /\ rang' /\ UNCHANGED <<call, child, out, got, unseen, di>>
          /\ dst' = IF call = "loop" THEN dst ELSE [dst EXCEPT ![di] = NULL]
      BY <1>7, <2>1 DEF S!Alarm
    <3> QED
      BY <2>1, <3>1, ShoEnds
  <2>2. CASE UNCHANGED <<at, tty, answer, rang, dst>>
    <3>1. UNCHANGED <<at, tty, call, child, out, rang, got, unseen, dst, di, answer>>
      BY <1>7, <2>2 DEF S!Alarm
    <3> QED
      BY <1>1, <3>1, ShoQuiet DEF ShoTypeOK, S!Reading, S!TtyRestored
  <2> QED
    BY <1>7, <2>1, <2>2 DEF S!Alarm
<1>8. CASE S!Write
  <2>1. PICK b \in Bytes : out' = Append(out, b)
    BY <1>8 DEF S!Write
  <2>2. out' \in Seq(Bytes)
    BY <1>1, <2>1 DEF ShoTypeOK
  <2> QED
    BY <1>1, <1>8, <2>2, ShoQuiet DEF S!Write, ShoTypeOK, S!Reading, S!TtyRestored
<1>9. CASE S!Exit
  BY <1>1, <1>9, ShoQuiet DEF S!Exit, ShoTypeOK, S!Reading, S!TtyRestored
<1>10. CASE S!sho_close
  BY <1>1, <1>10, ShoQuiet DEF S!sho_close, ShoTypeOK, S!Reading, S!TtyRestored
<1>11. CASE UNCHANGED S!vars
  BY <1>1, <1>11, ShoQuiet DEF S!vars, ShoTypeOK, S!Reading, S!TtyRestored
<1> QED
  BY <1>2, <1>3, <1>4, <1>5, <1>6, <1>7, <1>8, <1>9, <1>10, <1>11, ShoReads, ShoEchoes DEF S!Next

LEMMA ShoInvImplies == ShoIInv => S!ExpectRight /\ S!TtyRestored
<1> SUFFICES ASSUME ShoIInv PROVE S!ExpectRight
  BY DEF ShoIInv
<1>1. \A j, n : S!Noticed(j, n) <=> NoticedIn(got, j, n)
  BY DEF S!Noticed, S!EndsAt, NoticedIn
<1>2. SUFFICES ASSUME got # <<>> PROVE S!ExpectRight
  BY DEF S!ExpectRight, ShoIInv, Shown
<1>3. Ring(got, dst, di) /\ Overlooked /\ Answered /\ Len(got) \in Nat /\ Len(got) > 0
  BY <1>2 DEF ShoIInv, ShoTypeOK
<1>4. \A n \in 1 .. Len(got) - (IF S!Reading \/ answer <= 0 THEN 0 ELSE 1), j \in S!Tried : ~S!Noticed(j, n)
  <2>1. \A n \in 1 .. Len(got) - (IF S!Reading \/ answer <= 0 THEN 0 ELSE 1) : Unnoticed(n)
    BY <1>2, <1>3 DEF Overlooked
  <2> QED
    BY <1>1, <2>1 DEF Unnoticed
<1>5. /\ ~S!Reading /\ answer > 0 => /\ S!Noticed(answer, Len(got))
                                     /\ \A j \in 1 .. answer - 1 : ~S!Noticed(j, Len(got))
      /\ ~S!Reading /\ answer <= 0 /\ call # "loop" => child # "runs" \/ rang
      /\ ~S!Reading /\ call # "loop" => dst[di] = NULL
  BY <1>1, <1>2, <1>3 DEF Answered
<1>6. \A k \in 0 .. di - 1 : dst[k] = got[Len(got) - di + k + 1]
  BY <1>3 DEF Ring
<1>7. unseen > 0 => unseen = 1 /\ call = "loop" /\ (at = "echoing" \/ (~S!Reading /\ answer = -1))
  BY DEF ShoIInv, Shown
<1> QED
  BY <1>4, <1>5, <1>6, <1>7 DEF S!ExpectRight

(* A step of the composition is a step of shellout or none.                 *)
LEMMA ShoStep == [LibNext]_libVars => [S!Next]_S!vars
  BY DEF LibNext, Suba, Pool, Varray, Msgno, Shellout, Daemon, Sound, libVars, shoVars, S!vars

(* Whatever the shell writes, whenever it ends and whenever the alarm       *)
(* rings, for any patterns and a buffer of any size: no pattern that lies   *)
(* in the ring is read over, sho_expect answers the first of those that end *)
(* at the last byte, any other answer has its reason, and the terminal is   *)
(* restored.                                                                *)
THEOREM AnswersAreRight == LibSpec => []ExpectRight
<1>1. LibInit => ShoIInv
  BY ShoInitInv, LibmbaAssumption DEF LibInit, Start, LibmbaAssumption
<1>2. ShoIInv /\ [LibNext]_libVars => ShoIInv'
  BY ShoStep, ShoNextInv, LibmbaAssumption DEF LibmbaAssumption
<1>3. ShoIInv => ExpectRight
  BY ShoInvImplies DEF ExpectRight
<1> QED
  BY <1>1, <1>2, <1>3, PTL DEF LibSpec

-----------------------------------------------------------------------------
(* Message numbers.                                                         *)
Numbers == Nat \X Nat

MsgnoTypeOK == /\ list_tbl \in [1 .. Tables - 1 -> [list : Lists \cup {NULL}, num_msgs : Nat]]
               /\ next_tbl_idx \in 1 .. Tables
               /\ DOMAIN msgno = Lists /\ msgno = [l \in Lists |-> msgno[l]]
               /\ \A l \in Lists : msgno[l] \in Seq(Numbers)

(* The numbers of a list that was added: their high bits are its place, and *)
(* the low bits grow.                                                       *)
Ascends(s, hi) == /\ \A k \in DOMAIN s : s[k][1] = hi
                  /\ \A k, m \in DOMAIN s : k < m => s[k][2] < s[m][2]

MsgnoIInv == /\ MsgnoTypeOK
             /\ \A t \in 1 .. next_tbl_idx - 1 :
                  list_tbl[t].list \in Lists /\ Ascends(msgno[list_tbl[t].list], t + 1)

(* The loop over the entries of a list.                                     *)
Loops(s0, k) == [msgnos |-> s0, next |-> 0, refused |-> k]

Turn(s, k) == LET n == s.msgnos[k]
              IN  IF s.refused # 0 THEN s
                  ELSE IF M!Refused(n, s.next) THEN [s EXCEPT !.refused = k]
                  ELSE [s EXCEPT !.msgnos[k] = M!Numbered(n, s.next).msgno,
                                 !.next = M!Numbered(n, s.next).next]

IsLoop(after, list) ==
  after = [k \in 0 .. Len(msgno[list]) |->
             IF k = 0 THEN Loops(msgno[list], 0) ELSE Turn(after[k - 1], k)]

LoopOf(list) == CHOOSE after : IsLoop(after, list)

LEMMA LoopIs == \A list : M!Loop(list) = LoopOf(list)[Len(msgno[list])]
  BY DEF M!Loop, LoopOf, IsLoop, Turn, Loops

LoopStates(l) == [msgnos : [1 .. l -> Numbers], next : Nat, refused : Nat]

LEMMA TurnStays ==
  ASSUME M!MsgnoAssumption, MsgnoTypeOK, NEW l \in Nat, NEW s \in LoopStates(l), NEW k \in 1 .. l
  PROVE  Turn(s, k) \in LoopStates(l)
<1>1. s.msgnos[k] \in Numbers /\ s.next \in Nat /\ next_tbl_idx \in Nat
  BY DEF LoopStates, MsgnoTypeOK, M!MsgnoAssumption
<1>2. PICK v \in Numbers, m \in Nat : M!Numbered(s.msgnos[k], s.next) = [msgno |-> v, next |-> m]
  BY <1>1 DEF M!Numbered, M!Hi, Numbers
<1>3. [s EXCEPT !.msgnos[k] = v, !.next = m] \in LoopStates(l)
  BY <1>2 DEF LoopStates
<1>4. [s EXCEPT !.refused = k] \in LoopStates(l)
  BY DEF LoopStates
<1> QED
  BY <1>2, <1>3, <1>4 DEF Turn

LEMMA LoopsExist ==
  ASSUME M!MsgnoAssumption, MsgnoTypeOK, NEW list \in Lists
  PROVE  IsLoop(LoopOf(list), list)
<1> DEFINE l == Len(msgno[list])
<1>1. l \in Nat /\ Loops(msgno[list], 0) \in LoopStates(l)
  BY DEF MsgnoTypeOK, Loops, LoopStates
<1> DEFINE step == [x \in LoopStates(l) \X (1 .. l) |-> Turn(x[1], x[2])]
<1>2. step \in [LoopStates(l) \X (1 .. l) -> LoopStates(l)]
  BY <1>1, TurnStays
<1> HIDE DEF l
<1>3. PICK f \in [0 .. l -> LoopStates(l)] : f[0] = Loops(msgno[list], 0) /\ Steps(f, step, l)
  <2> HIDE DEF step
  <2> QED
    BY <1>1, <1>2, StepsExist
<1>4. \A k \in 1 .. l : f[k] = Turn(f[k - 1], k)
  <2>1. ASSUME NEW k \in 1 .. l PROVE f[k] = Turn(f[k - 1], k)
    <3>1. f[k] = step[<<f[k - 1], k>>]
      BY <1>3 DEF Steps
    <3>2. k - 1 \in 0 .. l
      BY <1>1
    <3> QED
      BY <1>3, <3>1, <3>2
  <2> QED
    BY <2>1
<1> HIDE DEF step
<1>5. f = [k \in 0 .. l |-> IF k = 0 THEN Loops(msgno[list], 0) ELSE Turn(f[k - 1], k)]
  BY <1>1, <1>3, <1>4
<1>6. IsLoop(f, list)
  BY <1>5 DEF IsLoop, l
<1> QED
  BY <1>6 DEF LoopOf

(* What the loop has done with the first entries of a list that it did not  *)
(* refuse.                                                                  *)
Placed(s, n, hi) == /\ \A k \in 1 .. n : s.msgnos[k][1] = hi /\ s.msgnos[k][2] < s.next
                    /\ \A k, m \in 1 .. n : k < m => s.msgnos[k][2] < s.msgnos[m][2]

LEMMA TurnNumbers ==
  ASSUME M!MsgnoAssumption, MsgnoTypeOK, NEW l \in Nat, NEW s \in LoopStates(l), NEW k \in 1 .. l,
         s.refused = 0 => Placed(s, k - 1, next_tbl_idx + 1)
  PROVE  Turn(s, k).refused = 0 => Placed(Turn(s, k), k, next_tbl_idx + 1)
<1> DEFINE n == s.msgnos[k]
           v == IF n[2] = 0 THEN s.next ELSE n[2]
<1>1. n \in Numbers /\ s.next \in Nat /\ next_tbl_idx \in Nat /\ s.msgnos \in [1 .. l -> Numbers]
  BY DEF LoopStates, MsgnoTypeOK, M!MsgnoAssumption
<1>2. SUFFICES ASSUME s.refused = 0, ~M!Refused(n, s.next)
               PROVE  Placed(Turn(s, k), k, next_tbl_idx + 1)
  <2>1. CASE s.refused # 0
    BY <2>1 DEF Turn
  <2>2. CASE M!Refused(n, s.next)
    <3>1. [s EXCEPT !.refused = k].refused = k
      BY DEF LoopStates
    <3> QED
      BY <2>2, <3>1 DEF Turn
  <2> QED
    BY <2>1, <2>2
<1>3. v \in Nat /\ v >= s.next /\ M!Numbered(n, s.next) = [msgno |-> <<next_tbl_idx + 1, v>>, next |-> v + 1]
  <2>1. n[1] = 0 /\ (n[2] = 0 \/ ~(n[2] < s.next)) /\ n[2] \in Nat
    BY <1>1, <1>2 DEF M!Refused, Numbers
  <2>2. CASE n[2] = 0
    BY <1>1, <2>2 DEF M!Numbered, M!Hi
  <2>3. CASE n[2] # 0
    <3>1. v = n[2] /\ v >= s.next
      BY <1>1, <2>1, <2>3
    <3> QED
      BY <2>1, <2>3, <3>1 DEF M!Numbered, M!Hi
  <2> QED
    BY <2>2, <2>3
<1> HIDE DEF v
<1>4. PICK s2 : s2 = Turn(s, k)
  OBVIOUS
<1>5. /\ s2.msgnos = [s.msgnos EXCEPT ![k] = <<next_tbl_idx + 1, v>>]
      /\ s2.next = v + 1
  BY <1>2, <1>3, <1>4 DEF Turn, LoopStates
<1> HIDE DEF n
<1>6. /\ s2.msgnos[k][1] = next_tbl_idx + 1 /\ s2.msgnos[k][2] = v
      /\ \A m \in 1 .. k - 1 : s2.msgnos[m] = s.msgnos[m] /\ s.msgnos[m] \in Numbers
  BY <1>1, <1>5
<1>7. \A m \in 1 .. k - 1 : s.msgnos[m][1] = next_tbl_idx + 1 /\ s.msgnos[m][2] < s.next
  BY <1>2 DEF Placed
<1>8. \A m \in 1 .. k : s2.msgnos[m][1] = next_tbl_idx + 1 /\ s2.msgnos[m][2] < v + 1
  <2>1. ASSUME NEW m \in 1 .. k PROVE s2.msgnos[m][1] = next_tbl_idx + 1 /\ s2.msgnos[m][2] < v + 1
    <3>1. CASE m = k
      BY <1>3, <1>6, <3>1
    <3>2. CASE m \in 1 .. k - 1
      <4>1. s.msgnos[m][2] \in Nat
        BY <1>6, <3>2 DEF Numbers
      <4> QED
        BY <1>1, <1>3, <1>6, <1>7, <3>2, <4>1
    <3> QED
      BY <3>1, <3>2
  <2> QED
    BY <2>1
<1>9. \A j, m \in 1 .. k : j < m => s2.msgnos[j][2] < s2.msgnos[m][2]
  <2>1. ASSUME NEW j \in 1 .. k, NEW m \in 1 .. k, j < m PROVE s2.msgnos[j][2] < s2.msgnos[m][2]
    <3>1. j \in 1 .. k - 1 /\ s.msgnos[j][2] \in Nat
      BY <1>6, <2>1 DEF Numbers
    <3>2. CASE m = k
      <4>1. s.msgnos[j][2] < s.next /\ s2.msgnos[j][2] = s.msgnos[j][2] /\ s2.msgnos[m][2] = v
        BY <1>6, <1>7, <3>1, <3>2
      <4>2. v \in Nat /\ v >= s.next /\ s.next \in Nat /\ s.msgnos[j][2] \in Nat
        BY <1>1, <1>3, <3>1
      <4>3. \A a, b, c \in Nat : a < b /\ c >= b => a < c
        OBVIOUS
      <4>4. s.msgnos[j][2] < v
        BY <4>1, <4>2, <4>3
      <4> QED
        BY <4>1, <4>4
    <3>3. CASE m \in 1 .. k - 1
      BY <1>2, <1>6, <2>1, <3>1, <3>3 DEF Placed
    <3> QED
      BY <3>2, <3>3
  <2> QED
    BY <2>1
<1> QED
  BY <1>4, <1>5, <1>8, <1>9 DEF Placed

(* The loop leaves numbers, and those that a list is added with have its    *)
(* place and ascend.                                                        *)
LEMMA LoopNumbers ==
  ASSUME M!MsgnoAssumption, MsgnoTypeOK, NEW list \in Lists
  PROVE  LET s == M!Loop(list)
         IN  /\ s.msgnos \in Seq(Numbers) /\ Len(s.msgnos) \in Nat /\ s.refused \in Nat
             /\ s.refused = 0 => Ascends(s.msgnos, next_tbl_idx + 1)
<1>1. PICK l \in Nat : l = Len(msgno[list]) /\ Loops(msgno[list], 0) \in LoopStates(l)
  BY DEF MsgnoTypeOK, Loops, LoopStates
<1>2. PICK f : f = LoopOf(list)
  OBVIOUS
<1>3. f[0] = Loops(msgno[list], 0) /\ \A k \in 1 .. l : f[k] = Turn(f[k - 1], k)
  <2>1. f = [k \in 0 .. l |-> IF k = 0 THEN Loops(msgno[list], 0) ELSE Turn(f[k - 1], k)]
    BY <1>1, <1>2, LoopsExist DEF IsLoop
  <2>2. 0 \in 0 .. l /\ \A k \in 1 .. l : k \in 0 .. l /\ k # 0
    BY <1>1
  <2> QED
    BY <2>1, <2>2
<1> DEFINE Good == {k \in 0 .. l : /\ f[k] \in LoopStates(l)
                                   /\ f[k].refused = 0 => Placed(f[k], k, next_tbl_idx + 1)}
<1>4. 0 \in Good
  BY <1>1, <1>3 DEF Placed
<1>5. ASSUME NEW k \in 1 .. l, k - 1 \in Good PROVE k \in Good
  <2>1. Turn(f[k - 1], k) \in LoopStates(l)
    BY <1>5, TurnStays
  <2>2. Turn(f[k - 1], k).refused = 0 => Placed(Turn(f[k - 1], k), k, next_tbl_idx + 1)
    BY <1>5, TurnNumbers
  <2> QED
    BY <1>3, <2>1, <2>2
<1>6. l \in Good
  <2> HIDE DEF Good
  <2> QED
    BY <1>4, <1>5, UpTo
<1>7. PICK s \in LoopStates(l) : /\ s = M!Loop(list)
                                 /\ s.refused = 0 => Placed(s, l, next_tbl_idx + 1)
  BY <1>1, <1>2, <1>6, LoopIs
<1>8. s.msgnos \in Seq(Numbers) /\ DOMAIN s.msgnos = 1 .. l /\ s.refused \in Nat /\ Len(s.msgnos) \in Nat
  BY DEF LoopStates
<1> QED
  BY <1>7, <1>8 DEF Placed, Ascends

LEMMA MsgnoInitInv == ASSUME M!MsgnoAssumption, M!Init PROVE MsgnoIInv
<1>1. \A l \in Lists : msgno[l] = [k \in DOMAIN Given[l] |-> <<0, Given[l][k]>>] /\ Given[l] \in Seq(Nat)
  BY DEF M!Init, M!MsgnoAssumption
<1>2. \A l \in Lists : msgno[l] \in Seq(Numbers)
  <2>1. ASSUME NEW l \in Lists PROVE msgno[l] \in Seq(Numbers)
    <3>1. PICK g \in Seq(Nat) : g = Given[l] /\ msgno[l] = [k \in DOMAIN g |-> <<0, g[k]>>]
      BY <1>1
    <3>2. \A k \in DOMAIN g : <<0, g[k]>> \in Numbers
      BY DEF Numbers
    <3>3. DOMAIN g = 1 .. Len(g) /\ Len(g) \in Nat
      OBVIOUS
    <3>4. [k \in 1 .. Len(g) |-> <<0, g[k]>>] \in Seq(Numbers)
      BY <3>2, <3>3
    <3> QED
      BY <3>1, <3>3, <3>4
  <2> QED
    BY <2>1
<1>3. DOMAIN msgno = Lists /\ msgno = [l \in Lists |-> msgno[l]]
  BY DEF M!Init
<1>4. list_tbl \in [1 .. Tables - 1 -> [list : Lists \cup {NULL}, num_msgs : Nat]]
  BY DEF M!Init
<1> QED
  BY <1>2, <1>3, <1>4 DEF MsgnoIInv, MsgnoTypeOK, M!Init, M!MsgnoAssumption

LEMMA MsgnoNextInv ==
  ASSUME M!MsgnoAssumption, MsgnoIInv, [M!Next]_M!vars
  PROVE  MsgnoIInv'
<1>1. MsgnoTypeOK /\ Tables \in Nat /\ next_tbl_idx \in 1 .. Tables
  BY DEF MsgnoIInv, MsgnoTypeOK, M!MsgnoAssumption
<1>2. CASE UNCHANGED <<list_tbl, next_tbl_idx, msgno>>
  BY <1>2 DEF MsgnoIInv, MsgnoTypeOK, Ascends
<1>3. ASSUME NEW list \in Lists, M!msgno_add_codes(list), ~UNCHANGED <<list_tbl, next_tbl_idx, msgno>>
      PROVE  MsgnoIInv'
  <2>1. PICK s : s = M!Loop(list)
    OBVIOUS
  <2>2. /\ s.msgnos \in Seq(Numbers) /\ Len(s.msgnos) \in Nat /\ s.refused \in Nat
        /\ s.refused = 0 => Ascends(s.msgnos, next_tbl_idx + 1)
    BY <1>1, <2>1, LoopNumbers
  <2>3. /\ next_tbl_idx < Tables
        /\ \A t \in 1 .. next_tbl_idx - 1 : list_tbl[t].list # list
        /\ msgno' = [msgno EXCEPT ![list] = s.msgnos]
        /\ \/ /\ s.refused = 0
              /\ list_tbl' = [list_tbl EXCEPT ![next_tbl_idx].list = list,
                                              ![next_tbl_idx].num_msgs = @ + Len(s.msgnos)]
              /\ next_tbl_idx' = next_tbl_idx + 1
           \/ /\ s.refused # 0
              /\ list_tbl' = [list_tbl EXCEPT ![next_tbl_idx].num_msgs = @ + s.refused - 1]
              /\ next_tbl_idx' = next_tbl_idx
    BY <1>3, <2>1 DEF M!msgno_add_codes
  <2>4. DOMAIN msgno = Lists /\ \A l \in Lists : msgno'[l] = IF l = list THEN s.msgnos ELSE msgno[l]
    BY <1>1, <2>3 DEF MsgnoTypeOK
  <2>5. /\ DOMAIN msgno' = Lists /\ msgno' = [l \in Lists |-> msgno'[l]]
        /\ \A l \in Lists : msgno'[l] \in Seq(Numbers)
    <3>1. msgno' = [l \in Lists |-> IF l = list THEN s.msgnos ELSE msgno[l]]
      BY <1>1, <2>3 DEF MsgnoTypeOK
    <3> QED
      BY <1>1, <2>2, <2>4, <3>1 DEF MsgnoTypeOK
  <2>6. next_tbl_idx \in 1 .. Tables - 1 /\ next_tbl_idx' \in 1 .. Tables
    BY <1>1, <2>3
  <2>7. /\ list_tbl' \in [1 .. Tables - 1 -> [list : Lists \cup {NULL}, num_msgs : Nat]]
        /\ \A t \in 1 .. next_tbl_idx - 1 : list_tbl'[t] = list_tbl[t]
        /\ s.refused = 0 => list_tbl'[next_tbl_idx].list = list
    <3>1. list_tbl \in [1 .. Tables - 1 -> [list : Lists \cup {NULL}, num_msgs : Nat]]
      BY <1>1 DEF MsgnoTypeOK
    <3>2. PICK c \in Nat : c = list_tbl[next_tbl_idx].num_msgs
      BY <2>6, <3>1
    <3>3. \A t \in 1 .. next_tbl_idx - 1 : t # next_tbl_idx /\ t \in 1 .. Tables - 1
      BY <1>1, <2>6
    <3>4. CASE s.refused = 0
      <4>1. list_tbl' = [list_tbl EXCEPT ![next_tbl_idx] = [list |-> list, num_msgs |-> c + Len(s.msgnos)]]
        BY <2>3, <2>6, <3>1, <3>2, <3>4
      <4>2. c + Len(s.msgnos) \in Nat
        BY <2>2
      <4> QED
        BY <2>6, <3>1, <3>3, <4>1, <4>2
    <3>5. CASE s.refused # 0
      <4>1. PICK q \in Lists \cup {NULL} : q = list_tbl[next_tbl_idx].list
        BY <2>6, <3>1
      <4>2. list_tbl' = [list_tbl EXCEPT ![next_tbl_idx] = [list |-> q, num_msgs |-> c + s.refused - 1]]
        BY <2>3, <2>6, <3>1, <3>2, <3>5, <4>1
      <4>3. c + s.refused - 1 \in Nat
        BY <2>2, <3>5
      <4> QED
        BY <2>6, <3>1, <3>3, <3>5, <4>2, <4>3
    <3> QED
      BY <3>4, <3>5
  <2>8. \A t \in 1 .. next_tbl_idx' - 1 : /\ list_tbl'[t].list \in Lists
                                          /\ Ascends(msgno'[list_tbl'[t].list], t + 1)
    <3>1. ASSUME NEW t \in 1 .. next_tbl_idx - 1
          PROVE  list_tbl'[t].list \in Lists /\ Ascends(msgno'[list_tbl'[t].list], t + 1)
      <4>1. PICK q \in Lists : q = list_tbl[t].list /\ Ascends(msgno[q], t + 1)
        BY DEF MsgnoIInv
      <4> QED
        BY <2>3, <2>4, <2>7, <4>1
    <3>2. ASSUME s.refused = 0
          PROVE  /\ list_tbl'[next_tbl_idx].list \in Lists
                 /\ Ascends(msgno'[list_tbl'[next_tbl_idx].list], next_tbl_idx + 1)
      BY <2>2, <2>4, <2>7, <3>2
    <3>3. \A t \in 1 .. next_tbl_idx' - 1 : t \in 1 .. next_tbl_idx - 1 \/ (t = next_tbl_idx /\ s.refused = 0)
      BY <2>3, <2>6
    <3> QED
      BY <3>1, <3>2, <3>3
  <2> QED
    BY <2>5, <2>6, <2>7, <2>8 DEF MsgnoIInv, MsgnoTypeOK, Ascends
<1> QED
  BY <1>2, <1>3 DEF M!Next, M!vars

LEMMA MsgnoInvImplies == ASSUME M!MsgnoAssumption, MsgnoIInv PROVE M!NumbersSay
<1> SUFFICES ASSUME NEW t \in 1 .. next_tbl_idx - 1, t + 1 < Tables,
                    NEW k \in DOMAIN msgno[list_tbl[t].list]
             PROVE  M!msgno_msg(msgno[list_tbl[t].list][k]) = <<list_tbl[t].list, k>>
  BY DEF M!NumbersSay
<1>1. PICK l \in Lists : l = list_tbl[t].list /\ Ascends(msgno[l], t + 1)
  BY DEF MsgnoIInv
<1>2. PICK s \in Seq(Numbers) : s = msgno[l]
  BY DEF MsgnoIInv, MsgnoTypeOK
<1>3. k \in DOMAIN s /\ s[k] \in Numbers /\ s[k][1] = t + 1 /\ t \in Nat /\ t # 0
  BY <1>1, <1>2 DEF Ascends, MsgnoIInv, MsgnoTypeOK, M!MsgnoAssumption
<1>4. {m \in DOMAIN s : s[m] = s[k]} = {k}
  <2>1. ASSUME NEW m \in DOMAIN s, m # k PROVE s[m] # s[k]
    <3>1. m \in Nat /\ k \in Nat /\ s[m] \in Numbers /\ s[k] \in Numbers
      BY <1>3
    <3>2. s[m][2] \in Nat /\ s[k][2] \in Nat
      BY <3>1 DEF Numbers
    <3>3. s[m][2] < s[k][2] \/ s[k][2] < s[m][2]
      <4>1. m < k \/ k < m
        BY <2>1, <3>1
      <4> QED
        BY <1>1, <1>2, <1>3, <4>1 DEF Ascends
    <3> QED
      BY <3>2, <3>3
  <2> QED
    BY <1>3, <2>1
<1>5. (CHOOSE m \in {k} : \A j \in {k} : m <= j) = k
  <2>1. k \in Nat
    BY <1>3
  <2> QED
    BY <2>1
<1>6. l # NULL /\ l = list_tbl[s[k][1] - 1].list
  <2>1. s[k][1] - 1 = t
    BY <1>3
  <2> QED
    BY <1>1, <2>1 DEF M!MsgnoAssumption
<1>7. s[k][1] # 0 /\ s[k][1] # 1 /\ ~(s[k][1] >= Tables)
  BY <1>3 DEF M!MsgnoAssumption
<1>8. PICK n : n = s[k]
  OBVIOUS
<1>9. M!msgno_msg(n) = <<l, k>>
  <2>1. n[1] # 0 /\ n[1] # 1 /\ ~(n[1] >= Tables)
    BY <1>7, <1>8
  <2>2. list_tbl[n[1] - 1].list = l /\ l # NULL
    BY <1>6, <1>8
  <2>3. M!Found(n) = {k}
    BY <1>2, <1>4, <1>8, <2>2 DEF M!Found
  <2>4. M!Min({k}) = k
    BY <1>5 DEF M!Min
  <2>5. M!Found(n) # {} /\ M!Min(M!Found(n)) = k
    BY <2>3, <2>4
  <2>6. M!msgno_msg(n) = <<list_tbl[n[1] - 1].list, M!Min(M!Found(n))>>
    BY <2>1, <2>5, Zenon DEF M!msgno_msg
  <2> QED
    BY <2>2, <2>5, <2>6
<1> QED
  BY <1>1, <1>2, <1>8, <1>9

(* A step of the composition is a step of the numbers or none.              *)
LEMMA MsgnoStep == [LibNext]_libVars => [M!Next]_M!vars
  BY DEF LibNext, Suba, Pool, Varray, Msgno, Shellout, Daemon, Sound, libVars, msgnoVars, M!vars

(* Whatever tables with whatever numbers are added, refused and added       *)
(* again, and however many there may be: each number of a list that was     *)
(* added gives its own message, unless its list has the last place.         *)
THEOREM NumbersAreTheirs == LibSpec => []NumbersSay
<1>1. LibInit => MsgnoIInv
  BY MsgnoInitInv, LibmbaAssumption DEF LibInit, Start, LibmbaAssumption
<1>2. MsgnoIInv /\ [LibNext]_libVars => MsgnoIInv'
  BY MsgnoStep, MsgnoNextInv, LibmbaAssumption DEF LibmbaAssumption
<1>3. MsgnoIInv => NumbersSay
  BY MsgnoInvImplies, LibmbaAssumption DEF NumbersSay, LibmbaAssumption
<1> QED
  BY <1>1, <1>2, <1>3, PTL DEF LibSpec

-----------------------------------------------------------------------------
(* Pools, for at least as many objects as an empty stack grows to: the      *)
(* object made at place n of the stack is number n + 1 as long as it lives. *)
Stacks == [elems : Seq(Nat), size : Nat]

GoodStack(s) == /\ s \in Stacks /\ Len(s.elems) <= s.size /\ s.size <= MaxSize
                /\ \A k \in 1 .. Len(s.elems) : s.elems[k] = k

(* The count of unused objects may be too large, never too small.           *)
PoolIInv == /\ GoodStack(stk)
            /\ bits \subseteq 0 .. Len(stk.elems) - 1
            /\ held = {n + 1 : n \in bits}
            /\ unused \in Int /\ unused >= Len(stk.elems) - Cardinality(held)

LEMMA StackGrows ==
  ASSUME P!PoolAssumption, StackInit <= MaxSize, NEW s, GoodStack(s),
         Len(s.elems) < s.size \/ s.size < MaxSize
  PROVE  /\ GoodStack(P!Push(s, Len(s.elems) + 1))
         /\ Len(P!Push(s, Len(s.elems) + 1).elems) = Len(s.elems) + 1
<1>1. PICK e \in Seq(Nat), z \in Nat : s = [elems |-> e, size |-> z]
  BY DEF GoodStack, Stacks
<1>2. Len(e) \in Nat /\ Len(e) <= z /\ z <= MaxSize /\ MaxSize \in Nat /\ StackInit \in Nat /\ StackInit > 0
  BY <1>1 DEF GoodStack, P!PoolAssumption
<1>3. PICK g \in Nat : g = (IF Len(e) = z THEN P!Grown(s) ELSE z) /\ Len(e) + 1 <= g /\ g <= MaxSize
  <2>1. CASE Len(e) # z
    BY <1>2, <2>1
  <2>2. CASE Len(e) = z
    <3>1. z < MaxSize
      BY <1>1, <1>2, <2>2
    <3>2. P!Grown(s) = IF z * 2 > MaxSize THEN MaxSize ELSE IF z = 0 THEN StackInit ELSE z * 2
      BY <1>1 DEF P!Grown
    <3> QED
      BY <1>2, <2>2, <3>1, <3>2
  <2> QED
    BY <2>1, <2>2
<1>4. P!Push(s, Len(s.elems) + 1) = [elems |-> Append(e, Len(e) + 1), size |-> g]
  BY <1>1, <1>3 DEF P!Push
<1>5. /\ Append(e, Len(e) + 1) \in Seq(Nat) /\ Len(Append(e, Len(e) + 1)) = Len(e) + 1
      /\ \A k \in 1 .. Len(e) : e[k] = k
  BY <1>1, <1>2 DEF GoodStack
<1>6. \A k \in 1 .. Len(e) + 1 : Append(e, Len(e) + 1)[k] = k
  BY <1>2, <1>5
<1>7. PICK a \in Seq(Nat) : a = Append(e, Len(e) + 1)
  BY <1>5
<1>8. PICK r : r = P!Push(s, Len(s.elems) + 1)
  OBVIOUS
<1>9. r = [elems |-> a, size |-> g] /\ Len(a) = Len(e) + 1 /\ \A k \in 1 .. Len(a) : a[k] = k
  BY <1>4, <1>5, <1>6, <1>7, <1>8
<1>10. r \in Stacks /\ r.elems = a /\ r.size = g
  BY <1>9 DEF Stacks
<1>11. GoodStack(r) /\ Len(r.elems) = Len(e) + 1
  BY <1>3, <1>9, <1>10 DEF GoodStack
<1> QED
  BY <1>1, <1>8, <1>11

LEMMA PopStays == ASSUME NEW s \in Stacks PROVE P!Pop(s) \in Stacks
<1>1. PICK e \in Seq(Nat), z \in Nat : s = [elems |-> e, size |-> z]
  BY DEF Stacks
<1>2. P!Pop(s) = [elems |-> SubSeq(e, 1, Len(e) - 1), size |-> IF P!Shrinks(s) THEN z \div 2 ELSE z]
  BY <1>1 DEF P!Pop, P!Front
<1>3. SubSeq(e, 1, Len(e) - 1) \in Seq(Nat) /\ z \div 2 \in Nat
  OBVIOUS
<1> QED
  BY <1>2, <1>3 DEF Stacks

LEMMA StackShrinks ==
  ASSUME P!PoolAssumption, NEW s, GoodStack(s), Len(s.elems) > 0
  PROVE  GoodStack(P!Pop(s)) /\ Len(P!Pop(s).elems) = Len(s.elems) - 1
<1>1. PICK e \in Seq(Nat), z \in Nat : s = [elems |-> e, size |-> z]
  BY DEF GoodStack, Stacks
<1>2. /\ Len(e) \in Nat /\ Len(e) <= z /\ Len(e) > 0 /\ z <= MaxSize /\ MaxSize \in Nat
      /\ \A k \in 1 .. Len(e) : e[k] = k
  BY <1>1 DEF GoodStack, P!PoolAssumption
<1>3. PICK g \in Nat : g = (IF P!Shrinks(s) THEN z \div 2 ELSE z) /\ Len(e) - 1 <= g /\ g <= MaxSize
  <2>1. CASE P!Shrinks(s)
    <3>1. Len(e) < z \div 4
      BY <1>1, <2>1 DEF P!Shrinks
    <3> QED
      BY <1>2, <2>1, <3>1
  <2>2. CASE ~P!Shrinks(s)
    BY <1>2, <2>2
  <2> QED
    BY <2>1, <2>2
<1>4. P!Pop(s) = [elems |-> SubSeq(e, 1, Len(e) - 1), size |-> g]
  BY <1>1, <1>3 DEF P!Pop, P!Front
<1>5. PICK a : a = SubSeq(e, 1, Len(e) - 1)
  OBVIOUS
<1>6. a \in Seq(Nat)
  BY <1>5
<1>7. a = [k \in 1 .. Len(e) - 1 |-> e[k]]
  BY <1>2, <1>5
<1>8. Len(a) = Len(e) - 1 /\ \A k \in 1 .. Len(a) : a[k] = k
  BY <1>2, <1>6, <1>7
<1>9. PICK r : r = P!Pop(s)
  OBVIOUS
<1>10. r \in Stacks /\ r.elems = a /\ r.size = g
  BY <1>4, <1>5, <1>6, <1>9 DEF Stacks
<1>11. GoodStack(r) /\ Len(r.elems) = Len(e) - 1
  BY <1>3, <1>8, <1>10 DEF GoodStack
<1> QED
  BY <1>1, <1>9, <1>11

(* How many objects are above the last one in use.                          *)
LEMMA UnusedIs ==
  ASSUME GoodStack(stk), bits \subseteq 0 .. Len(stk.elems) - 1
  PROVE  P!Unused \in 0 .. Len(stk.elems) /\ \A n \in bits : n < Len(stk.elems) - P!Unused
<1>1. PICK e \in Seq(Nat) : e = stk.elems /\ Len(e) \in Nat
  BY DEF GoodStack, Stacks
<1> DEFINE taken == {n \in DOMAIN stk.elems : n - 1 \in bits}
<1>2. P!Unused = Len(e) - (IF taken = {} THEN 0 ELSE P!Max(taken))
  BY <1>1 DEF P!Unused
<1>3. taken \subseteq 1 .. Len(e) /\ \A n \in bits : n + 1 \in taken /\ n \in Int
  BY <1>1
<1>4. CASE taken = {}
  BY <1>1, <1>2, <1>3, <1>4
<1>5. CASE taken # {}
  <2> HIDE DEF taken
  <2> DEFINE above == {x \in 0 .. Len(e) : Len(e) - x \in taken}
  <2>1. ASSUME NEW y \in taken PROVE Len(e) - y \in above /\ y \in 1 .. Len(e)
    <3>1. y \in 1 .. Len(e)
      BY <1>3
    <3>2. Len(e) - y \in 0 .. Len(e) /\ Len(e) - (Len(e) - y) = y
      BY <1>1, <3>1
    <3> QED
      BY <3>1, <3>2
  <2>2. PICK m \in above : \A x \in above : m <= x
    <3>1. above \subseteq Nat
      OBVIOUS
    <3> HIDE DEF above
    <3>2. above # {}
      BY <1>5, <2>1
    <3> QED
      BY <3>1, <3>2, LeastNatural
  <2>3. Len(e) - m \in taken /\ \A y \in taken : y <= Len(e) - m
    <3>1. ASSUME NEW y \in taken PROVE y <= Len(e) - m
      <4>1. m <= Len(e) - y /\ y \in 1 .. Len(e)
        BY <2>1, <2>2
      <4>2. m \in Nat
        BY <2>2
      <4> QED
        BY <1>1, <4>1, <4>2
    <3> QED
      BY <2>2, <3>1
  <2>4. P!Max(taken) \in taken /\ \A y \in taken : y <= P!Max(taken)
    BY <2>3 DEF P!Max
  <2>5. PICK t \in 1 .. Len(e) : t = P!Max(taken) /\ \A y \in taken : y <= t
    BY <1>3, <2>4
  <2>6. P!Unused = Len(e) - t
    BY <1>2, <1>5, <2>5
  <2>7. ASSUME NEW n \in bits PROVE n < t
    BY <1>3, <2>5
  <2>8. Len(e) - P!Unused = t /\ P!Unused \in 0 .. Len(e)
    BY <1>1, <2>5, <2>6
  <2> QED
    BY <1>1, <2>7, <2>8
<1> QED
  BY <1>4, <1>5

(* The stacks that pool_clean may have after popping an object.             *)
AfterPops(before) ==
  UNION {{P!Pop(s)} \cup (IF P!Shrinks(s) /\ "memory" \in PoolFailing THEN {s} ELSE {}) : s \in before}

LEMMA PoppedIs ==
  ASSUME stk \in Stacks, P!Unused \in Nat
  PROVE  P!Popped[0] = {stk} /\ \A n \in 1 .. P!Unused : P!Popped[n] = AfterPops(P!Popped[n - 1])
<1>1. PICK l \in Nat : l = P!Unused
  OBVIOUS
<1> DEFINE IsPopped(f) == f = [n \in 0 .. l |-> IF n = 0 THEN {stk} ELSE AfterPops(f[n - 1])]
           step == [x \in (SUBSET Stacks) \X (1 .. l) |-> AfterPops(x[1])]
<1>2. step \in [(SUBSET Stacks) \X (1 .. l) -> SUBSET Stacks]
  BY PopStays DEF AfterPops
<1>3. {stk} \in SUBSET Stacks
  OBVIOUS
<1>4. PICK f \in [0 .. l -> SUBSET Stacks] : f[0] = {stk} /\ Steps(f, step, l)
  <2> HIDE DEF step
  <2> QED
    BY <1>2, <1>3, StepsExist
<1>5. ASSUME NEW n \in 1 .. l PROVE f[n] = AfterPops(f[n - 1])
  <2>1. f[n] = step[<<f[n - 1], n>>]
    BY <1>4 DEF Steps
  <2>2. n - 1 \in 0 .. l
    BY <1>1
  <2> QED
    BY <1>4, <2>1, <2>2
<1> HIDE DEF step
<1>6. IsPopped(f)
  BY <1>4, <1>5
<1>7. P!Popped = CHOOSE g : IsPopped(g)
  BY <1>1 DEF P!Popped, AfterPops
<1>8. IsPopped(P!Popped)
  <2> HIDE DEF IsPopped
  <2> QED
    BY <1>6, <1>7
<1>9. 0 \in 0 .. l /\ \A n \in 1 .. l : n \in 0 .. l /\ n # 0
  BY <1>1
<1> QED
  BY <1>1, <1>8, <1>9

LEMMA PoppedAreGood ==
  ASSUME P!PoolAssumption, GoodStack(stk), P!Unused \in 0 .. Len(stk.elems)
  PROVE  \A n \in 0 .. P!Unused : \A s \in P!Popped[n] :
           GoodStack(s) /\ Len(s.elems) >= Len(stk.elems) - P!Unused /\ Len(s.elems) <= Len(stk.elems)
<1>1. PICK l \in Nat, z \in Nat : l = P!Unused /\ z = Len(stk.elems) /\ l <= z
  BY DEF GoodStack, Stacks
<1> DEFINE Good(s, n) == GoodStack(s) /\ Len(s.elems) \in z - n .. z
           Fine == {n \in 0 .. l : \A s \in P!Popped[n] : Good(s, n)}
<1>2. P!Popped[0] = {stk} /\ \A n \in 1 .. l : P!Popped[n] = AfterPops(P!Popped[n - 1])
  BY <1>1, PoppedIs DEF GoodStack
<1>3. 0 \in Fine
  BY <1>1, <1>2
<1>4. ASSUME NEW n \in 1 .. l, n - 1 \in Fine PROVE n \in Fine
  <2>1. ASSUME NEW s \in P!Popped[n - 1] PROVE Good(P!Pop(s), n) /\ Good(s, n)
    <3>1. GoodStack(s) /\ Len(s.elems) \in z - (n - 1) .. z
      BY <1>4
    <3>2. Len(s.elems) > 0
      BY <1>1, <3>1
    <3>3. GoodStack(P!Pop(s)) /\ Len(P!Pop(s).elems) = Len(s.elems) - 1
      BY <3>1, <3>2, StackShrinks
    <3>4. PICK a \in Nat : a = Len(s.elems)
      BY <3>1 DEF GoodStack, Stacks
    <3>5. a >= z - (n - 1) /\ a <= z /\ n \in Nat
      BY <3>1, <3>4
    <3>6. a - 1 \in z - n .. z /\ a \in z - n .. z
      BY <1>1, <3>4, <3>5
    <3> QED
      BY <3>1, <3>3, <3>4, <3>6
  <2>2. \A s \in P!Popped[n] : Good(s, n)
    <3> HIDE DEF Good
    <3> QED
      BY <1>2, <2>1 DEF AfterPops
  <2> QED
    BY <2>2
<1>5. \A n \in 0 .. l : n \in Fine
  <2> HIDE DEF Fine
  <2> QED
    BY <1>3, <1>4, UpTo
<1>6. ASSUME NEW n \in 0 .. l, NEW s \in P!Popped[n]
      PROVE  GoodStack(s) /\ Len(s.elems) >= z - l /\ Len(s.elems) <= z
  <2>1. GoodStack(s) /\ Len(s.elems) \in z - n .. z
    BY <1>5
  <2> QED
    BY <1>1, <2>1
<1> QED
  BY <1>1, <1>6

(* What the clients have, and how many.                                     *)
LEMMA HeldCounted ==
  ASSUME PoolIInv
  PROVE  /\ Len(stk.elems) \in Nat /\ held \subseteq 1 .. Len(stk.elems)
         /\ IsFiniteSet(held) /\ Cardinality(held) \in Nat /\ Cardinality(held) <= Len(stk.elems)
         /\ bits = 0 .. Len(stk.elems) - 1 => Cardinality(held) = Len(stk.elems)
<1>1. PICK l \in Nat : l = Len(stk.elems)
  BY DEF PoolIInv, GoodStack, Stacks
<1>2. \A n \in bits : n \in 0 .. l - 1
  BY <1>1 DEF PoolIInv
<1>3. held \subseteq 1 .. l
  BY <1>1, <1>2 DEF PoolIInv
<1>4. IsFiniteSet(1 .. l) /\ Cardinality(1 .. l) = l
  BY FS_Interval
<1>5. IsFiniteSet(held) /\ Cardinality(held) <= l
  BY <1>3, <1>4, FS_Subset
<1>6. Cardinality(held) \in Nat
  BY <1>5, FS_CardinalityType
<1>7. ASSUME bits = 0 .. l - 1 PROVE Cardinality(held) = l
  <2>1. ASSUME NEW x \in 1 .. l PROVE x \in held
    <3>1. x - 1 \in bits /\ (x - 1) + 1 = x
      BY <1>7
    <3> QED
      BY <3>1 DEF PoolIInv
  <2>2. held = 1 .. l
    BY <1>3, <2>1
  <2> QED
    BY <1>4, <2>2
<1> QED
  BY <1>1, <1>3, <1>5, <1>6, <1>7

(* The first place that is free is at most that of a new object.            *)
LEMMA FirstFree ==
  ASSUME P!PoolAssumption, PoolIInv
  PROVE  /\ P!FindFirst \in 0 .. Len(stk.elems) /\ P!FindFirst \notin bits
         /\ P!FindFirst = Len(stk.elems) => bits = 0 .. Len(stk.elems) - 1
         /\ ~(P!Places \subseteq bits)
<1>1. PICK l \in Nat : l = Len(stk.elems) /\ l <= MaxSize /\ bits \subseteq 0 .. l - 1 /\ MaxSize \in Nat
  BY DEF PoolIInv, GoodStack, Stacks, P!PoolAssumption
<1>2. l \in P!Places /\ l \notin bits /\ P!Places \subseteq Nat
  BY <1>1 DEF P!Places
<1>3. PICK m \in P!Places \ bits : \A k \in P!Places \ bits : m <= k
  <2>1. P!Places \ bits \subseteq Nat /\ P!Places \ bits # {}
    BY <1>2
  <2> QED
    BY <2>1, LeastNatural
<1>4. \A k \in 0 .. m - 1 : k \in P!Places
  BY <1>1, <1>3 DEF P!Places
<1>5. \A k \in 0 .. m - 1 : k \in bits
  <2>1. ASSUME NEW k \in 0 .. m - 1, k \notin bits PROVE FALSE
    <3>1. m <= k /\ m \in Nat
      BY <1>2, <1>3, <1>4, <2>1
    <3> QED
      BY <3>1
  <2> QED
    BY <2>1
<1>6. PICK n : n = P!FindFirst
  OBVIOUS
<1>7. n \in P!Places /\ n \notin bits /\ \A k \in 0 .. n - 1 : k \in bits
  BY <1>3, <1>5, <1>6 DEF P!FindFirst
<1>8. n \in Nat /\ n <= l
  <2>1. n \in Nat
    BY <1>2, <1>7
  <2>2. ~(l < n)
    BY <1>1, <1>2, <1>7, <2>1
  <2> QED
    BY <1>1, <2>1, <2>2
<1>9. ASSUME n = l PROVE bits = 0 .. l - 1
  BY <1>1, <1>7, <1>9
<1> QED
  BY <1>1, <1>2, <1>6, <1>7, <1>8, <1>9

LEMMA PoolInitInv == ASSUME P!PoolAssumption, P!Init PROVE PoolIInv
<1>1. stk = [elems |-> <<>>, size |-> 0] /\ bits = {} /\ held = {} /\ unused = 0 /\ MaxSize \in Nat
  BY DEF P!Init, P!PoolAssumption
<1>2. Cardinality(held) = 0
  BY <1>1, FS_EmptySet
<1>3. GoodStack(stk) /\ Len(stk.elems) = 0
  BY <1>1 DEF GoodStack, Stacks
<1> QED
  BY <1>1, <1>2, <1>3 DEF PoolIInv

LEMMA PoolGets ==
  ASSUME P!PoolAssumption, StackInit <= MaxSize, PoolIInv, P!pool_get
  PROVE  /\ PoolIInv'
         /\ given'.answer = NULL => given'.failed \/ Cardinality(held) = MaxSize
<1>1. PICK l \in Nat, c \in Nat :
        /\ l = Len(stk.elems) /\ c = Cardinality(held) /\ c <= l /\ l <= MaxSize /\ MaxSize \in Nat
        /\ l <= stk.size /\ stk.size \in Nat /\ stk.size <= MaxSize
        /\ held \subseteq 1 .. l /\ IsFiniteSet(held) /\ (bits = 0 .. l - 1 => c = l)
        /\ bits \subseteq 0 .. l - 1
  <2>1. stk.size \in Nat /\ Len(stk.elems) <= stk.size /\ stk.size <= MaxSize /\ MaxSize \in Nat
    BY DEF PoolIInv, GoodStack, Stacks, P!PoolAssumption
  <2>2. bits \subseteq 0 .. Len(stk.elems) - 1
    BY DEF PoolIInv
  <2> QED
    BY <2>1, <2>2, HeldCounted
<1>2. PICK u \in Int : u = unused /\ u >= l - c /\ GoodStack(stk) /\ held = {k + 1 : k \in bits}
  BY <1>1 DEF PoolIInv
<1>3. PICK n : n = P!FindFirst /\ n \in 0 .. l /\ n \notin bits /\ (n = l => bits = 0 .. l - 1)
  BY <1>1, FirstFree
<1>4. ASSUME UNCHANGED <<stk, bits, unused, held>> PROVE PoolIInv'
  BY <1>4 DEF PoolIInv
<1>5. NULL \notin Nat
  BY DEF P!PoolAssumption
<1>6. CASE P!Full /\ UNCHANGED <<stk, bits, unused, held>>
  <2>1. c = MaxSize
    BY <1>1, <1>2, <1>6 DEF P!Full
  <2> QED
    BY <1>1, <1>4, <1>6, <2>1
<1>7. CASE n = l /\ P!Made(n)
  <2>1. c = l
    BY <1>1, <1>3, <1>7
  <2>2. CASE /\ ~P!PushFails(stk) \/ ("memory" \in PoolFailing /\ Len(stk.elems) < MaxSize)
             /\ stk' = P!Push(stk, P!Fresh)
             /\ bits' = bits \cup {n} /\ held' = held \cup {P!Fresh}
             /\ P!Returns("get", P!Fresh) /\ UNCHANGED unused
    <3>1. P!Fresh = l + 1
      BY <1>1 DEF P!Fresh
    <3>2. l < stk.size \/ stk.size < MaxSize
      BY <1>1, <2>2 DEF P!PushFails
    <3>3. GoodStack(stk') /\ Len(stk'.elems) = l + 1
      BY <1>1, <1>2, <2>2, <3>1, <3>2, StackGrows
    <3>4. Cardinality(held') = c + 1
      <4>1. l + 1 \notin held
        BY <1>1
      <4> QED
        BY <1>1, <2>2, <3>1, <4>1, FS_AddElement
    <3>5. bits' \subseteq 0 .. l /\ held' = {k + 1 : k \in bits'}
      <4>1. bits' = bits \cup {l} /\ held' = held \cup {l + 1}
        BY <1>7, <2>2, <3>1
      <4>2. \A k \in bits \cup {l} : k \in 0 .. l
        BY <1>1
      <4> QED
        BY <1>2, <4>1, <4>2
    <3>6. unused' \in Int /\ unused' >= (l + 1) - (c + 1)
      <4>1. unused' = u /\ u \in Int /\ u >= l - c
        BY <1>2, <2>2
      <4> QED
        BY <4>1
    <3>7. PoolIInv'
      BY <3>3, <3>4, <3>5, <3>6 DEF PoolIInv, GoodStack
    <3>8. given'.answer # NULL
      BY <1>5, <2>2, <3>1 DEF P!Returns
    <3> QED
      BY <3>7, <3>8
  <2>3. CASE /\ IF Len(stk.elems) = MaxSize THEN P!Returns("get", NULL) ELSE P!Fails("get", NULL)
             /\ UNCHANGED <<stk, bits, unused, held>>
    <3>1. given'.failed \/ c = MaxSize
      BY <1>1, <2>1, <2>3 DEF P!Fails
    <3> QED
      BY <1>1, <1>4, <2>3, <3>1
  <2> QED
    BY <1>7, <2>2, <2>3 DEF P!Made
<1>8. CASE n < l /\ P!UsedAgain(n)
  <2>1. P!At(stk, n) = n + 1 /\ n \in Nat
    BY <1>1, <1>2, <1>3, <1>8 DEF P!At, GoodStack
  <2>2. CASE /\ bits' = bits \cup {n} /\ held' = held \cup {P!At(stk, n)}
             /\ unused' = unused - 1
             /\ P!Returns("get", P!At(stk, n)) /\ UNCHANGED stk
    <3>1. Cardinality(held') = c + 1
      <4>1. n + 1 \notin held
        <5>1. \A k \in bits : k \in Nat /\ k # n
          BY <1>1, <1>3
        <5> QED
          BY <1>2, <2>1, <5>1
      <4> QED
        BY <1>1, <2>1, <2>2, <4>1, FS_AddElement
    <3>2. bits' \subseteq 0 .. l - 1 /\ held' = {k + 1 : k \in bits'}
      <4>1. bits' = bits \cup {n} /\ held' = held \cup {n + 1}
        BY <2>1, <2>2
      <4>2. \A k \in bits \cup {n} : k \in 0 .. l - 1
        BY <1>1, <1>3, <1>8
      <4> QED
        BY <1>2, <4>1, <4>2
    <3>3. unused' \in Int /\ unused' >= l - (c + 1)
      <4>1. unused' = u - 1 /\ u \in Int /\ u >= l - c
        BY <1>2, <2>2
      <4> QED
        BY <4>1
    <3>4. PoolIInv'
      BY <1>1, <1>2, <2>2, <3>1, <3>2, <3>3 DEF PoolIInv
    <3>5. given'.answer # NULL
      BY <1>5, <2>1, <2>2 DEF P!Returns
    <3> QED
      BY <3>4, <3>5
  <2>3. CASE P!Fails("get", NULL) /\ UNCHANGED <<stk, bits, unused, held>>
    BY <1>4, <2>3 DEF P!Fails
  <2> QED
    BY <1>8, <2>2, <2>3 DEF P!UsedAgain
<1> QED
  BY <1>1, <1>3, <1>6, <1>7, <1>8, FirstFree DEF P!pool_get

LEMMA PoolReleases ==
  ASSUME PoolIInv, NEW x \in held, P!pool_release(x)
  PROVE  PoolIInv'
<1>1. PICK l \in Nat, c \in Nat :
        /\ l = Len(stk.elems) /\ c = Cardinality(held)
        /\ held \subseteq 1 .. l /\ IsFiniteSet(held) /\ bits \subseteq 0 .. l - 1
  <2>1. bits \subseteq 0 .. Len(stk.elems) - 1
    BY DEF PoolIInv
  <2> QED
    BY <2>1, HeldCounted
<1>2. PICK u \in Int : u = unused /\ u >= l - c /\ GoodStack(stk) /\ held = {k + 1 : k \in bits}
  BY <1>1 DEF PoolIInv
<1>3. x \in 1 .. l
  BY <1>1
<1>4. P!SelectInSeq(stk.elems, LAMBDA y : y = x) = x
  <2> DEFINE places == {k \in 1 .. Len(stk.elems) : stk.elems[k] = x}
  <2>1. places = {x}
    BY <1>1, <1>2, <1>3 DEF GoodStack
  <2>2. P!Min({x}) = x
    <3>1. x \in Int
      BY <1>3
    <3> QED
      BY <3>1 DEF P!Min
  <2>3. P!SelectInSeq(stk.elems, LAMBDA y : y = x) = IF places # {} THEN P!Min(places) ELSE 0
    BY DEF P!SelectInSeq
  <2> HIDE DEF places
  <2> QED
    BY <2>1, <2>2, <2>3
<1>5. /\ bits' = bits \ {x - 1} /\ held' = held \ {x} /\ stk' = stk
      /\ unused' = u + 1
  BY <1>2, <1>4 DEF P!pool_release
<1>6. Cardinality(held') = c - 1
  BY <1>1, <1>5, FS_RemoveElement
<1>7. held' = {k + 1 : k \in bits'}
  <2>1. \A k \in bits : k \in Int
    BY <1>1
  <2> QED
    BY <1>2, <1>3, <1>5, <2>1
<1>8. unused' \in Int /\ unused' >= l - (c - 1)
  BY <1>2, <1>5
<1>9. bits' \subseteq 0 .. l - 1
  BY <1>1, <1>5
<1> QED
  BY <1>1, <1>2, <1>5, <1>6, <1>7, <1>8, <1>9 DEF PoolIInv

LEMMA PoolCleans ==
  ASSUME P!PoolAssumption, PoolIInv, P!pool_clean
  PROVE  PoolIInv'
<1>1. PICK l \in Nat, c \in Nat : l = Len(stk.elems) /\ c = Cardinality(held) /\ bits \subseteq 0 .. l - 1
  <2>1. bits \subseteq 0 .. Len(stk.elems) - 1
    BY DEF PoolIInv
  <2> QED
    BY <2>1, HeldCounted
<1>2. PICK u \in Int : u = unused /\ u >= l - c /\ GoodStack(stk) /\ held = {k + 1 : k \in bits}
  BY <1>1 DEF PoolIInv
<1>3. PICK z \in 0 .. l : z = P!Unused /\ \A n \in bits : n < l - z
  BY <1>1, <1>2, UnusedIs
<1>4. UNCHANGED <<bits, unused, held>>
  BY DEF P!pool_clean
<1>5. ASSUME GoodStack(stk'), Len(stk'.elems) \in l - z .. l PROVE PoolIInv'
  <2>1. PICK m \in Nat : m = Len(stk'.elems) /\ m >= l - z /\ m <= l
    BY <1>1, <1>3, <1>5
  <2>2. \A n \in bits : n \in 0 .. m - 1
    BY <1>1, <1>3, <2>1
  <2>3. u >= m - c
    <3>1. u >= l - c /\ m <= l
      BY <1>2, <2>1
    <3> QED
      BY <3>1
  <2> QED
    BY <1>1, <1>2, <1>4, <1>5, <2>1, <2>2, <2>3 DEF PoolIInv
<1>6. ASSUME NEW n \in 0 .. z, NEW s \in P!Popped[n]
      PROVE  /\ GoodStack(s) /\ Len(s.elems) \in l - z .. l
             /\ GoodStack(P!Clean(s)) /\ P!Clean(s).elems = s.elems
  <2>1. GoodStack(s) /\ Len(s.elems) >= l - z /\ Len(s.elems) <= l /\ Len(s.elems) \in Nat
    BY <1>1, <1>2, <1>3, <1>6, PoppedAreGood DEF GoodStack, Stacks
  <2>2. P!Clean(s) \in Stacks /\ P!Clean(s).elems = s.elems /\ P!Clean(s).size = Len(s.elems)
    BY <2>1 DEF GoodStack, Stacks, P!Clean
  <2>3. Len(s.elems) <= MaxSize
    BY <2>1 DEF GoodStack, Stacks, P!PoolAssumption
  <2>4. GoodStack(P!Clean(s))
    BY <2>1, <2>2, <2>3 DEF GoodStack
  <2> QED
    BY <1>1, <2>1, <2>2, <2>4
<1>7. CASE stk' = stk
  BY <1>4, <1>7 DEF PoolIInv
<1>8. CASE stk' \in {P!Clean(s) : s \in P!Popped[P!Unused]}
  BY <1>3, <1>5, <1>6, <1>8
<1>9. CASE stk' \in P!Popped[P!Unused]
  BY <1>3, <1>5, <1>6, <1>9
<1>10. CASE stk' \in UNION {P!Popped[n] : n \in 1 .. P!Unused}
  <2>1. PICK n \in 1 .. z : stk' \in P!Popped[n]
    BY <1>3, <1>10
  <2> QED
    BY <1>5, <1>6, <2>1
<1> QED
  BY <1>7, <1>8, <1>9, <1>10 DEF P!pool_clean

LEMMA PoolNextInv ==
  ASSUME P!PoolAssumption, StackInit <= MaxSize, PoolIInv, [P!Next]_P!vars
  PROVE  PoolIInv'
<1>1. CASE UNCHANGED P!vars
  BY <1>1 DEF P!vars, PoolIInv
<1> QED
  BY <1>1, PoolGets, PoolReleases, PoolCleans DEF P!Next

LEMMA PoolInvImplies == PoolIInv => P!HeldIsKept
<1> SUFFICES ASSUME PoolIInv PROVE P!HeldIsKept
  OBVIOUS
<1>1. PICK e \in Seq(Nat), l \in Nat : e = stk.elems /\ l = Len(e) /\ \A k \in 1 .. l : e[k] = k
  BY DEF PoolIInv, GoodStack, Stacks
<1>2. bits \subseteq 0 .. l - 1 /\ l <= stk.size /\ stk.size <= MaxSize
  BY <1>1 DEF PoolIInv, GoodStack
<1>3. \A n \in bits : n \in 0 .. l - 1 /\ P!At(stk, n) = n + 1
  BY <1>1, <1>2 DEF P!At
<1>4. held = {P!At(stk, n) : n \in bits \cap 0 .. l - 1}
  BY <1>3 DEF PoolIInv
<1>5. P!IsInjective(e)
  BY <1>1 DEF P!IsInjective
<1> QED
  BY <1>1, <1>2, <1>4, <1>5 DEF P!HeldIsKept

LEMMA PoolGetsOne ==
  P!PoolAssumption /\ StackInit <= MaxSize /\ PoolIInv =>
    (P!pool_get /\ given'.answer = NULL => given'.failed \/ P!Cardinality(held) = MaxSize)
<1>1. P!Cardinality(held) = Cardinality(held)
  BY DEF P!Cardinality, Cardinality
<1> QED
  BY <1>1, PoolGets

(* A step of the composition is a step of the pool or none.                 *)
LEMMA PoolStep == [LibNext]_libVars => [P!Next]_P!vars
  BY DEF LibNext, Suba, Pool, Varray, Msgno, Shellout, Daemon, Sound, libVars, poolVars, P!vars

(* In a pool of any size, not smaller than a stack's first one, whatever    *)
(* fails: what a client has is its own, on the stack and alive, and         *)
(* pool_get refuses one only when all are given out or something failed.    *)
THEOREM ClientsKeepTheirs == StackInit <= MaxSize => (LibSpec => PoolRight)
<1> SUFFICES ASSUME StackInit <= MaxSize PROVE LibSpec => PoolRight
  OBVIOUS
<1>1. LibInit => PoolIInv
  BY PoolInitInv, LibmbaAssumption DEF LibInit, Start, LibmbaAssumption
<1>2. PoolIInv /\ [LibNext]_libVars => PoolIInv'
  BY PoolStep, PoolNextInv, LibmbaAssumption DEF LibmbaAssumption
<1>3. PoolIInv => P!HeldIsKept
  BY PoolInvImplies
<1>4. PoolIInv => (P!pool_get /\ given'.answer = NULL => given'.failed \/ P!Cardinality(held) = MaxSize)
  BY PoolGetsOne, LibmbaAssumption DEF LibmbaAssumption
<1> QED
  BY <1>1, <1>2, <1>3, <1>4, PTL DEF LibSpec, PoolRight, P!GetsOne
=============================================================================
