-------------------------------- MODULE Sound -------------------------------
(***************************************************************************)
(* The sounds of tcpsound (src/sound.c, and the packets of tcpsound.c that *)
(* are heard): handle_packet picks the sound of a packet, sound_play puts  *)
(* it on a channel that is at its end, and sound_callback, in the thread   *)
(* of the audio library, mixes the channels.                               *)
(*                                                                         *)
(* The library calls the callback at any time at which the audio lock is   *)
(* not taken; sound_play looks for its channel without the lock.           *)
(*                                                                         *)
(* A definition X_slip is a mistake that X could contain; no behaviour of  *)
(* the model uses it.                                                      *)
(***************************************************************************)
EXTENDS Integers, Sequences

CONSTANTS Rules,     \* snd->mat: sequences of [proto, srcport, dstport, len], one chosen
          Packets,   \* the packets: [proto, srcport, dstport]
          CHAN_MAX,  \* the number of channels: 4
          Dlen,      \* the bytes that one call of the callback mixes
          MaxTime,   \* a bound on the packets that are read
          Steps      \* the times between two packets: DTIME_MIN or less, or more

SoundAssumption == /\ \A m \in Rules : /\ 1 \in DOMAIN m /\ DOMAIN m \subseteq Nat
                                        /\ \A n \in DOMAIN m : m[n].len \in Nat
                   /\ CHAN_MAX \in Nat \ {0} /\ Dlen \in Nat \ {0}
                   /\ MaxTime \in Nat /\ Steps \subseteq {"short", "long"}

VARIABLES
  mat,     \* the rules, from 1
  chan,    \* the channels: their data (the number of a rule, or 0), len and pos
  pc,      \* the main thread: "read", "scan", "lock", "data", "len", "pos" or "unlock"
  i,       \* sound_play's channel
  num,     \* sound_play's rule
  locked,  \* whether the audio lock is taken
  last,    \* is_redundant's last packet, or <<>> when it is too old to count
  count    \* the packets read

vars == <<mat, chan, pc, i, num, locked, last, count>>

Silence == [data |-> 0, len |-> 0, pos |-> 0]

Init == /\ mat \in Rules
        /\ chan = [c \in 1 .. CHAN_MAX |-> Silence]
        /\ pc = "read" /\ i = 0 /\ num = 0 /\ locked = FALSE
        /\ last = <<>> /\ count = 0

-----------------------------------------------------------------------------
(* handle_packet: the first rule that matches exactly, a port 0 matching    *)
(* every port; or the first with one of the two ports; or rule 0.  The      *)
(* rules above nmat are all 0, which no packet's protocol is.               *)
First(m) == CHOOSE n \in m : \A k \in m : n <= k

handle_packet(pkt) ==
  LET same   == {n \in DOMAIN mat : mat[n].proto = pkt.proto}
      exact  == {n \in same : /\ mat[n].srcport \in {0, pkt.srcport}
                              /\ mat[n].dstport \in {0, pkt.dstport}}
      either == {n \in same : \/ mat[n].srcport = pkt.srcport
                              \/ mat[n].dstport = pkt.dstport}
  IN  IF exact # {} THEN First(exact) ELSE IF either # {} THEN First(either) ELSE 1

(* A packet is heard when it comes late enough, or is another one than the  *)
(* last that is_redundant was asked about.  It is asked only about packets  *)
(* that come early, and one that comes late makes the last one too old.     *)
Redundant(pkt) == last = <<pkt>> /\ pkt.srcport # 0

Read(pkt, step) ==
  /\ pc = "read" /\ count < MaxTime
  /\ count' = count + 1
  /\ last' = IF step = "long" THEN <<>> ELSE <<pkt>>
  /\ IF step = "long" \/ ~Redundant(pkt)
     THEN pc' = "scan" /\ i' = 1 /\ num' = handle_packet(pkt)
     ELSE UNCHANGED <<pc, i, num>>
  /\ UNCHANGED <<mat, chan, locked>>

-----------------------------------------------------------------------------
(* sound_play: the search, one channel at a time, the lock, the three       *)
(* assignments and the release.                                             *)
AtEnd_slip(smp) == smp.pos <= smp.len

AtEnd(smp) == smp.pos = smp.len

Scan ==
  /\ pc = "scan"
  /\ IF AtEnd(chan[i]) THEN pc' = "lock" /\ UNCHANGED i
     ELSE IF i = CHAN_MAX THEN pc' = "read" /\ UNCHANGED i   \* ENOBUFS
     ELSE i' = i + 1 /\ UNCHANGED pc
  /\ UNCHANGED <<mat, chan, num, locked, last, count>>

SDL_LockAudio_slip == UNCHANGED locked

SDL_LockAudio == ~locked /\ locked' = TRUE

Lock == /\ pc = "lock" /\ SDL_LockAudio /\ pc' = "data"
        /\ UNCHANGED <<mat, chan, i, num, last, count>>

Assign(at, to, smp) == /\ pc = at /\ pc' = to
                       /\ chan' = [chan EXCEPT ![i] = smp]
                       /\ UNCHANGED <<mat, i, num, locked, last, count>>

Data == Assign("data", "len", [chan[i] EXCEPT !.data = num])
Len1 == Assign("len", "pos", [chan[i] EXCEPT !.len = mat[num].len])
Pos  == Assign("pos", "unlock", [chan[i] EXCEPT !.pos = 0])

Unlock == /\ pc = "unlock" /\ locked' = FALSE /\ pc' = "read"
          /\ UNCHANGED <<mat, chan, i, num, last, count>>

(* The callback, which the library calls under the lock.                    *)
Mixed(smp) == LET left == smp.len - smp.pos
              IN  [smp EXCEPT !.pos = @ + (IF left < Dlen THEN left ELSE Dlen)]

sound_callback == /\ ~locked
                  /\ chan' = [c \in DOMAIN chan |-> Mixed(chan[c])]
                  /\ UNCHANGED <<mat, pc, i, num, locked, last, count>>

Next == \/ \E pkt \in Packets, step \in Steps : Read(pkt, step)
        \/ Scan \/ Lock \/ Data \/ Len1 \/ Pos \/ Unlock
        \/ sound_callback

Spec == Init /\ [][Next]_vars
-----------------------------------------------------------------------------
(* Whenever the callback may run, each channel holds one whole sound, of    *)
(* which no more than there is has been mixed: the callback never sees a    *)
(* channel that is half assigned.                                           *)
MixesWhole == ~locked => \A c \in DOMAIN chan :
                /\ chan[c].data # 0 => chan[c].len = mat[chan[c].data].len
                /\ chan[c].pos \in 0 .. chan[c].len

(* A sound is not cut off by another one: the channel that sound_play found *)
(* at its end, without the lock, is still at its end when it is given the   *)
(* new sound.                                                               *)
NeverCut == [][Data => chan[i].pos = chan[i].len]_vars

(* Both, the first after every step of the two threads.                     *)
PlaysRight == [][MixesWhole']_vars /\ NeverCut
=============================================================================
