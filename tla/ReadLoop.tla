------------------------------ MODULE ReadLoop ------------------------------
(***************************************************************************)
(* nm_utils_fd_read_loop and nm_utils_fd_read_loop_exact: reading a given  *)
(* number of bytes from a descriptor whose reads come back early, are      *)
(* interrupted, would block, or fail.                                      *)
(*                                                                         *)
(* One caller makes call after call on one stream.  The bytes of the       *)
(* stream are named by their position, counted from 1; the other end adds  *)
(* bytes at any time until it closes.  read(2) takes the bytes out of the  *)
(* stream, so that bytes a call took and did not hand over are lost.       *)
(***************************************************************************)
EXTENDS Integers

CONSTANTS
  SsizeMax,    \* the largest size the loop accepts
  MaxWritten,  \* bound: bytes the other end writes
  MaxSignals   \* bound: signals that interrupt system calls

ASSUME ReadLoopAssumption ==
  SsizeMax \in Nat /\ MaxWritten \in Nat /\ MaxSignals \in Nat

VARIABLES
  written,  \* the bytes the other end has written
  closed,   \* it has closed its end
  blocking, \* the descriptor's mode
  signals,  \* signals that came
  taken,    \* the bytes taken out of the stream
  at,       \* where the call is: "read", "wait", or "out" when there is none
  args,     \* its arguments: size, exactness, do_poll
  p,        \* how far into the buffer the next read writes
  nbytes,   \* what is still wanted
  n,        \* what was read
  buf,      \* the caller's buffer, 0 where nothing was written
  result,   \* what the last call returned
  start,    \* history: `taken' when the call began
  failed    \* history: a read of this call failed for good

stream == <<written, closed, blocking>>
vars   == <<stream, signals, taken, at, args, p, nbytes, n, buf, result, start, failed>>

EIO    == -5
EAGAIN == -11
EINVAL == -22

Buffers   == [1..SsizeMax -> Nat]
Arguments == [size : 0..(SsizeMax + 1), exact : BOOLEAN, do_poll : BOOLEAN]

Init ==
  /\ written = 0 /\ closed = FALSE /\ blocking \in BOOLEAN
  /\ signals = 0 /\ taken = 0
  /\ at = "out"
  /\ args = [size |-> 0, exact |-> FALSE, do_poll |-> FALSE]
  /\ p = 0 /\ nbytes = 0 /\ n = 0
  /\ buf = [i \in 1..SsizeMax |-> 0]
  /\ result = 0 /\ start = 0 /\ failed = FALSE

Available == written - taken
AtEnd     == closed /\ Available = 0

-----------------------------------------------------------------------------
(* The other end of the stream. *)

Write ==
  /\ ~closed /\ written < MaxWritten
  /\ written' = written + 1
  /\ UNCHANGED <<closed, blocking, signals, taken, at, args, p, nbytes, n, buf,
                 result, start, failed>>

Close ==
  /\ ~closed
  /\ closed' = TRUE
  /\ UNCHANGED <<written, blocking, signals, taken, at, args, p, nbytes, n, buf,
                 result, start, failed>>

-----------------------------------------------------------------------------
(* Mutant: too few bytes are no error. *)
AnswerShort(v) == IF args.exact /\ v > 0 THEN 0 ELSE v

(* What read_loop_exact makes of the value v of the loop: too few bytes    *)
(* are an error, and the right number of them is 0.                        *)
Answer(v) ==
  IF ~args.exact \/ v < 0 THEN v ELSE IF v # args.size THEN EIO ELSE 0

Return(v) == at' = "out" /\ result' = Answer(v)

(* Mutant: every size is accepted. *)
CallUnchecked(a) ==
  /\ at = "out"
  /\ args' = a
  /\ p' = 0 /\ nbytes' = a.size /\ n' = 0
  /\ buf' = [i \in 1..SsizeMax |-> 0]
  /\ start' = taken /\ failed' = FALSE
  /\ at' = "read" /\ UNCHANGED result
  /\ UNCHANGED <<stream, signals, taken>>

(* A call, with a descriptor and a buffer.  A size that no result could    *)
(* tell is refused.                                                        *)
Call(a) ==
  /\ at = "out"
  /\ args' = a
  /\ p' = 0 /\ nbytes' = a.size /\ n' = 0
  /\ buf' = [i \in 1..SsizeMax |-> 0]
  /\ start' = taken /\ failed' = FALSE
  /\ IF a.size > SsizeMax THEN at' = "out" /\ result' = EINVAL
                          ELSE at' = "read" /\ UNCHANGED result
  /\ UNCHANGED <<stream, signals, taken>>

(* Mutant: the next read writes over what this one wrote. *)
ReadOverwrites(k) ==
  /\ at = "read" /\ k \in 1..nbytes /\ k <= Available
  /\ buf' = [i \in 1..SsizeMax |-> IF i \in (p + 1)..(p + k) THEN taken + i - p ELSE buf[i]]
  /\ taken' = taken + k
  /\ UNCHANGED p /\ nbytes' = nbytes - k /\ n' = n + k
  /\ IF nbytes = k THEN Return(n + k) ELSE UNCHANGED <<at, result>>
  /\ UNCHANGED <<stream, signals, args, start, failed>>

(* read gives k bytes, as many as are wanted or fewer. *)
ReadSome(k) ==
  /\ at = "read" /\ k \in 1..nbytes /\ k <= Available
  /\ buf' = [i \in 1..SsizeMax |-> IF i \in (p + 1)..(p + k) THEN taken + i - p ELSE buf[i]]
  /\ taken' = taken + k
  /\ p' = p + k /\ nbytes' = nbytes - k /\ n' = n + k
  /\ IF nbytes = k THEN Return(n + k) ELSE UNCHANGED <<at, result>>
  /\ UNCHANGED <<stream, signals, args, start, failed>>

(* Mutant: the end of the stream is an answer only if something was read. *)
ReadEndGoesOn ==
  /\ at = "read" /\ (AtEnd \/ nbytes = 0) /\ n > 0
  /\ Return(n)
  /\ UNCHANGED <<stream, signals, taken, args, p, nbytes, n, buf, start, failed>>

(* read gives no bytes: the stream has ended, or none were asked for. *)
ReadEnd ==
  /\ at = "read" /\ (AtEnd \/ nbytes = 0)
  /\ Return(n)
  /\ UNCHANGED <<stream, signals, taken, args, p, nbytes, n, buf, start, failed>>

(* Mutant: a signal ends the loop. *)
InterruptedReturns ==
  /\ at = "read" /\ signals < MaxSignals
  /\ signals' = signals + 1
  /\ Return(n)
  /\ UNCHANGED <<stream, taken, args, p, nbytes, n, buf, start, failed>>

(* read is interrupted.  `continue' goes to the loop's condition, so that  *)
(* a read of nothing is not tried again.                                   *)
ReadInterrupted ==
  /\ at = "read" /\ signals < MaxSignals
  /\ signals' = signals + 1
  /\ IF nbytes = 0 THEN Return(n) ELSE UNCHANGED <<at, result>>
  /\ UNCHANGED <<stream, taken, args, p, nbytes, n, buf, start, failed>>

(* Mutant: an error is returned whatever was read before it. *)
ErrorAlways(errno) == Return(errno)

(* An error is not returned when something was read before it. *)
ErrorOr(errno) == Return(IF n > 0 THEN n ELSE errno)

(* Nothing is there yet.  A blocking descriptor waits in read itself. *)
ReadWouldBlock ==
  /\ at = "read" /\ ~blocking /\ nbytes > 0 /\ Available = 0 /\ ~closed
  /\ IF args.do_poll THEN at' = "wait" /\ UNCHANGED result ELSE ErrorOr(EAGAIN)
  /\ UNCHANGED <<stream, signals, taken, args, p, nbytes, n, buf, start, failed>>

ReadFails ==
  /\ at = "read"
  /\ failed' = TRUE
  /\ ErrorOr(EIO)
  /\ UNCHANGED <<stream, signals, taken, args, p, nbytes, n, buf, start>>

(* fd_wait_for_event with no time limit: something to read, the other end  *)
(* closed, or a signal.  Its result is ignored.                            *)
WaitForEvent ==
  /\ at = "wait"
  /\ \/ (Available > 0 \/ closed) /\ UNCHANGED signals
     \/ signals < MaxSignals /\ signals' = signals + 1
  /\ at' = "read"
  /\ UNCHANGED <<stream, taken, args, p, nbytes, n, buf, result, start, failed>>

Progress ==
  \/ \E k \in 1..SsizeMax : ReadSome(k)
  \/ ReadEnd \/ ReadWouldBlock \/ WaitForEvent

Next ==
  \/ Write \/ Close
  \/ Progress \/ ReadInterrupted \/ ReadFails
  \/ \E a \in Arguments : Call(a)

Spec == Init /\ [][Next]_vars

(* The caller's thread runs on.  Nothing is assumed of the other end, and  *)
(* no signal or failure need come to its help.                             *)
FairSpec == Spec /\ WF_vars(Progress)

-----------------------------------------------------------------------------
(* Every variable has its type. *)
TypeOK ==
  /\ written \in 0..MaxWritten /\ taken \in 0..written
  /\ closed \in BOOLEAN /\ blocking \in BOOLEAN /\ failed \in BOOLEAN
  /\ signals \in 0..MaxSignals
  /\ at \in {"read", "wait", "out"}
  /\ args \in Arguments
  /\ p \in 0..SsizeMax /\ n \in 0..SsizeMax /\ nbytes \in 0..(SsizeMax + 1)
  /\ buf \in Buffers
  /\ result \in {EIO, EAGAIN, EINVAL} \cup 0..SsizeMax
  /\ start \in Nat

(* What a call took out of the stream is in the buffer, in order and       *)
(* without gaps, over any number of short reads, interruptions and waits;  *)
(* and the caller of nm_utils_fd_read_loop can tell how much it is: the    *)
(* result is its number, and an error means that nothing was taken.        *)
NoByteLost ==
  /\ \A i \in 1..(taken - start) : buf[i] = start + i
  /\ at = "out" /\ ~args.exact =>
       taken - start = IF result >= 0 THEN result ELSE 0

(* nm_utils_fd_read_loop_exact answers 0 for exactly the calls that filled *)
(* the buffer, but for a read of nothing that failed.                      *)
ExactIsAll ==
  at = "out" /\ args.exact /\ result # EINVAL =>
    /\ result = 0 => taken - start = args.size
    /\ taken - start = args.size => result = 0 \/ (args.size = 0 /\ failed)

(* A signal or a short read never ends a call: fewer bytes than wanted are *)
(* returned only where the stream ended, where a read failed, or where the *)
(* descriptor does not block and the caller asked not to wait.             *)
ShortOnlyAtTheEnd ==
  at = "out" /\ ~args.exact /\ result < args.size /\ result # EINVAL =>
    AtEnd \/ failed \/ (~blocking /\ ~args.do_poll)

(* Once the other end has closed, every call comes to its end. *)
CallEnds == closed /\ at # "out" ~> at = "out"
=============================================================================
