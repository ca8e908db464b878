------------------------------ MODULE Shellout ------------------------------
(***************************************************************************)
(* Driving a shell on a pseudo terminal (libmba's src/shellout.c).         *)
(* sho_open starts it and waits for its prompt, sho_expect reads what it   *)
(* writes until a pattern, the end or the timeout, sho_loop does the same  *)
(* between the user and the shell, and sho_close waits for its end.        *)
(*                                                                         *)
(* The shell, the clock and the program take turns at every read.  A       *)
(* signal that comes while the program is not in a system call is taken    *)
(* by a handler that only records it.  (Setting that handler cannot fail.) *)
(*                                                                         *)
(* A definition X_slip is a mistake that X could contain; no behaviour of  *)
(* the model uses it.                                                      *)
(***************************************************************************)
EXTENDS Integers, SequencesExt

CONSTANTS Bytes,     \* what the shell writes
          Patterns,  \* pv: patterns, the first one the prompt
          Room,      \* dn, the size of the buffer, which is used as a ring
          MaxOut,    \* a bound on the bytes the shell writes
          Failing,   \* whether the terminal calls of sho_open may fail
          NUL

ShelloutAssumption == /\ Patterns \in Seq(Seq(Bytes) \ {<<>>}) /\ Patterns # <<>>
                      /\ Room \in Nat \ {0} /\ MaxOut \in Nat
                      /\ Failing \subseteq BOOLEAN /\ FALSE \in Failing /\ NUL \notin Bytes

VARIABLES
  pc,     \* "closed", "opened", or in a call: "armed" outside a system call, "waiting" in
          \* read or select, "echoing" in sho_loop's write to the user
  call,   \* the last call: "open", "expect" or "loop"
  tty,    \* the user's terminal: "cooked" or "raw"
  child,  \* the shell: "none", "runs", "exited" or "reaped"
  out,    \* the bytes it wrote that are not read yet
  count,  \* how many it wrote
  timed,  \* whether the call has a timeout
  alarm,  \* whether the alarm clock is set
  rang,   \* auxiliary: whether it interrupted this call
  got,    \* auxiliary: the bytes that this call read and compared with the patterns
  unseen, \* auxiliary: how many it read and did not compare
  dst,    \* the buffer
  di,     \* the place of the next byte in it
  ret     \* what the last call returned

vars == <<pc, call, tty, child, out, count, timed, alarm, rang, got, unseen, dst, di, ret>>

terminal == <<tty, child, out, count>>

Empty == [k \in 0 .. Room - 1 |-> NUL]

Init == /\ pc = "closed" /\ call = "open" /\ tty = "cooked"
        /\ child = "none" /\ out = <<>> /\ count = 0
        /\ timed = FALSE /\ alarm = FALSE /\ rang = FALSE
        /\ got = <<>> /\ unseen = 0 /\ dst = Empty /\ di = 0 /\ ret = -1

-----------------------------------------------------------------------------
(* A call begins to read: the alarm clock is set or, with timeout 0, off.   *)
(* The buffer holds what it held.                                           *)
Begins(c, t) == /\ pc' = "armed" /\ call' = c /\ timed' = t /\ alarm' = t
                /\ rang' = FALSE /\ got' = <<>> /\ unseen' = 0 /\ di' = 0
                /\ UNCHANGED <<dst, ret>>

(* sho_open's error path; the shell that it may have started stays, and no  *)
(* other is started in this model.                                          *)
Undone_slip == UNCHANGED tty

Undone == tty' = "cooked"

(* sho_open up to its sho_expect, with a terminal the user is to interact   *)
(* with (interact) or without.                                              *)
sho_open(interact) ==
  /\ pc = "closed" /\ child \in {"none", "reaped"}
  /\ \/ /\ tty' = IF interact THEN "raw" ELSE tty
        /\ child' = "runs" /\ out' = <<>>
        /\ Begins("open", TRUE) /\ UNCHANGED count
     \/ /\ TRUE \in Failing
        /\ Undone /\ ret' = -1 /\ call' = "open" /\ got' = <<>> /\ unseen' = 0
        /\ UNCHANGED <<pc, child, out, count, timed, alarm, rang, dst, di>>

sho_expect(t) == /\ pc = "opened"
                 /\ Begins("expect", t) /\ UNCHANGED terminal

sho_loop(t) == /\ pc = "opened"
               /\ Begins("loop", t) /\ UNCHANGED terminal

(* The program enters read or select, after whatever came since alarm().    *)
Enter == /\ pc = "armed" /\ pc' = "waiting"
         /\ UNCHANGED <<terminal, call, timed, alarm, rang, got, unseen, dst, di, ret>>

-----------------------------------------------------------------------------
(* What a call returns; that of sho_open ends it.                           *)
Returns(r) ==
  /\ ret' = r
  /\ IF call # "open" THEN pc' = "opened" /\ UNCHANGED tty
     ELSE IF r <= 0 THEN pc' = "closed" /\ Undone
     ELSE \/ pc' = "opened" /\ UNCHANGED tty
          \/ TRUE \in Failing /\ pc' = "closed" /\ Undone   \* writing the prompt fails

(* sho_loop does not turn the alarm off when it returns 0 or -1.            *)
Off(r) == alarm' = (alarm /\ call = "loop" /\ r <= 0)

(* The pattern that ends at the last byte, among those that do not reach    *)
(* over the end of the ring: only di bytes are compared.                    *)
Tried == IF call = "open" THEN {1} ELSE DOMAIN Patterns

Ends(p, buf, n) == \A i \in 1 .. Len(p) : p[i] = buf[(n - Len(p) + i - 1) % Room]

Matches_slip(buf, n) == {j \in Tried : Ends(Patterns[j], buf, n)}

Matches(buf, n) == {j \in Tried : n >= Len(Patterns[j]) /\ Ends(Patterns[j], buf, n)}

Compares(b) ==
  /\ LET buf == [dst EXCEPT ![di] = b]
         n   == (di + 1) % Room
         m   == Matches(buf, n)
         j   == CHOOSE k \in m : \A l \in m : k <= l
     IN  /\ got' = Append(got, b) /\ di' = n
         /\ IF m # {} THEN dst' = [buf EXCEPT ![n] = NUL] /\ Off(j) /\ Returns(j)
            ELSE /\ dst' = buf /\ pc' = "armed"
                 /\ alarm' = (IF call = "loop" THEN timed ELSE alarm)
                 /\ UNCHANGED <<tty, ret>>
  /\ unseen' = 0

(* A byte is read.  sho_loop shows it to the user before it looks at it.    *)
ReadByte ==
  /\ pc = "waiting" /\ out # <<>> /\ out' = Tail(out)
  /\ IF call # "loop" THEN Compares(Head(out))
     ELSE /\ pc' = "echoing" /\ dst' = [dst EXCEPT ![di] = Head(out)] /\ unseen' = 1
          /\ UNCHANGED <<tty, alarm, got, di, ret>>
  /\ UNCHANGED <<call, child, count, timed, rang>>

(* The write succeeds or not.                                               *)
Echo_slip ==                        \* its failure is overlooked
  /\ pc = "echoing"
  /\ \/ Compares(dst[di])
     \/ pc' = "armed" /\ UNCHANGED <<tty, alarm, ret, got, unseen, dst, di>>
  /\ UNCHANGED <<call, child, out, count, timed, rang>>

Echo ==
  /\ pc = "echoing"
  /\ \/ Compares(dst[di])
     \/ Off(-1) /\ Returns(-1) /\ UNCHANGED <<got, unseen, dst, di>>
  /\ UNCHANGED <<call, child, out, count, timed, rang>>

(* The shell has gone: the read gives the end of the file or an error.      *)
ReadEnd ==
  /\ pc = "waiting" /\ out = <<>> /\ child = "exited"
  /\ \E r \in {0, -1} : Off(r) /\ Returns(r)
  /\ dst' = (IF call = "loop" THEN dst ELSE [dst EXCEPT ![di] = NUL])
  /\ UNCHANGED <<call, child, out, count, timed, rang, got, unseen, di>>

(* sho_loop reads from the user and writes to the shell.                    *)
ReadUser ==
  /\ pc = "waiting" /\ call = "loop"
  /\ \/ pc' = "armed" /\ alarm' = timed /\ UNCHANGED <<tty, ret>>
     \/ \E r \in {0, -1} : Off(r) /\ Returns(r)
  /\ UNCHANGED <<call, child, out, count, timed, rang, got, unseen, dst, di>>

(* The alarm interrupts the system call, or comes before it and is lost: a  *)
(* write may block or not.                                                  *)
Alarm ==
  /\ alarm /\ alarm' = FALSE
  /\ \/ /\ pc \in {"waiting", "echoing"} /\ rang' = TRUE /\ Returns(-1)
        /\ dst' = IF call = "loop" THEN dst ELSE [dst EXCEPT ![di] = NUL]
     \/ pc # "waiting" /\ UNCHANGED <<pc, tty, ret, rang, dst>>
  /\ UNCHANGED <<call, child, out, count, timed, got, unseen, di>>

(* The shell writes, and exits.                                             *)
Write == /\ child = "runs" /\ count < MaxOut
         /\ \E b \in Bytes : out' = Append(out, b)
         /\ count' = count + 1
         /\ UNCHANGED <<pc, call, tty, child, timed, alarm, rang, got, unseen, dst, di, ret>>

Exit == /\ child = "runs" /\ child' = "exited"
        /\ UNCHANGED <<pc, call, tty, out, count, timed, alarm, rang, got, unseen, dst, di, ret>>

(* sho_close: waitpid returns when the shell has exited, or when an alarm   *)
(* that sho_loop left on interrupts it.                                     *)
sho_close ==
  /\ pc = "opened"
  /\ \/ child = "exited" /\ child' = "reaped" /\ UNCHANGED alarm
     \/ alarm /\ alarm' = FALSE /\ UNCHANGED child
  /\ pc' = "closed" /\ tty' = "cooked"
  /\ UNCHANGED <<call, out, count, timed, rang, got, unseen, dst, di, ret>>

Next == \/ \E t \in BOOLEAN : sho_open(t) \/ sho_expect(t) \/ sho_loop(t)
        \/ Enter \/ ReadByte \/ Echo \/ ReadEnd \/ ReadUser \/ Alarm
        \/ Write \/ Exit \/ sho_close

Spec == Init /\ [][Next]_vars
-----------------------------------------------------------------------------
EndsAt(j, n) == n >= Len(Patterns[j]) /\ SubSeq(got, n - Len(Patterns[j]) + 1, n) = Patterns[j]

(* Pattern j ends there, and does not reach over the end of the ring.       *)
Noticed(j, n) == EndsAt(j, n) /\ n % Room >= Len(Patterns[j])

Reading == pc \in {"armed", "waiting", "echoing"}

(* A pattern that was read over and not noticed reached over the end of the *)
(* ring, and so does one that goes before the answer j in the list and ends *)
(* where j does; any other answer means that the shell has gone, the time   *)
(* was up or, in sho_loop, that the user's side ended; and the buffer holds *)
(* the last bytes, with a '\0' behind them after sho_expect: whenever the   *)
(* shell writes, and whenever the alarm rings.  Every byte read is compared *)
(* but one: the last of a sho_loop that could not show it to the user, and  *)
(* answers -1 although a pattern may end there.                             *)
ExpectRight ==
  /\ unseen > 0 => unseen = 1 /\ call = "loop" /\ (pc = "echoing" \/ (~Reading /\ ret = -1))
  /\ got # <<>> =>
    /\ \A n \in 1 .. Len(got) - (IF Reading \/ ret <= 0 THEN 0 ELSE 1), j \in Tried : ~Noticed(j, n)
    /\ \A k \in 0 .. di - 1 : dst[k] = got[Len(got) - di + k + 1]
    /\ ~Reading /\ ret > 0 => Noticed(ret, Len(got)) /\ \A j \in 1 .. ret - 1 : ~Noticed(j, Len(got))
    /\ ~Reading /\ ret <= 0 /\ call # "loop" => child # "runs" \/ rang
    /\ ~Reading /\ call # "loop" => dst[di] = NUL

(* The user's terminal is as it was whenever no shell is open: after        *)
(* sho_close, and after whatever failed in sho_open.                        *)
TtyRestored == pc = "closed" => tty = "cooked"

(* "Read individual bytes from descriptor fd until one of the patterns in p *)
(* is encountered": a pattern that ends at or just behind the end of the    *)
(* buffer is not noticed.                                                   *)
PatternSeen == Reading => \A n \in 1 .. Len(got), j \in Tried : ~EndsAt(j, n)
=============================================================================
