--------------------------- MODULE ReadLoopProofs ---------------------------
(***************************************************************************)
(* What the read loop gives its caller, for every size, every number of    *)
(* bytes and signals, and every order of short reads and interruptions.    *)
(***************************************************************************)
EXTENDS ReadLoop, TLAPS

(* The loop keeps three counts of one quantity, and the properties hold    *)
(* because they agree: p and n are what was taken, and with nbytes make up *)
(* what was asked for.                                                     *)
CountsAgree ==
  /\ p = n /\ taken = start + n /\ n + nbytes = args.size
  /\ at # "out" => args.size <= SsizeMax
  /\ at = "wait" => nbytes > 0
  /\ \A i \in 1..n : buf[i] = start + i

(* The loop stopped before it had everything, for a reason. *)
Excused == AtEnd \/ failed \/ (~blocking /\ ~args.do_poll)

(* What was returned is the answer for all that was read or, if that is    *)
(* nothing, for an error; and there was a reason to stop there.            *)
Told ==
  /\ at = "out" /\ result = EINVAL => n = 0
  /\ at = "out" /\ result # EINVAL =>
       \/ result = Answer(n) /\ (n < args.size => Excused)
       \/ n = 0 /\ result = EIO /\ failed
       \/ n = 0 /\ result = EAGAIN /\ args.size > 0 /\ Excused

ReadInv == TypeOK /\ CountsAgree

(* The values that Return passes on are results. *)
LEMMA AnswerType ==
  ASSUME TypeOK, NEW v \in {EIO, EAGAIN} \cup 0..SsizeMax
  PROVE  Answer(v) \in {EIO, EAGAIN, EINVAL} \cup 0..SsizeMax
BY ReadLoopAssumption DEF Answer, TypeOK, Arguments, EIO, EAGAIN, EINVAL

LEMMA ReadInit == Init => ReadInv
<1> SUFFICES ASSUME Init PROVE ReadInv
  OBVIOUS
<1>1. TypeOK
  <2>1. buf \in Buffers
    BY DEF Init, Buffers
  <2>2. args \in Arguments
    BY ReadLoopAssumption DEF Init, Arguments
  <2>3. closed \in BOOLEAN /\ blocking \in BOOLEAN /\ failed \in BOOLEAN
    BY DEF Init
  <2>4. written \in 0..MaxWritten /\ taken \in 0..written /\ signals \in 0..MaxSignals
    BY ReadLoopAssumption DEF Init
  <2>5. p \in 0..SsizeMax /\ n \in 0..SsizeMax /\ nbytes \in 0..(SsizeMax + 1) /\ start \in Nat
    BY ReadLoopAssumption DEF Init
  <2>6. at \in {"read", "wait", "out"} /\ result \in {EIO, EAGAIN, EINVAL} \cup 0..SsizeMax
    BY ReadLoopAssumption DEF Init
  <2> QED BY <2>1, <2>2, <2>3, <2>4, <2>5, <2>6 DEF TypeOK
<1>2. CountsAgree
  BY ReadLoopAssumption DEF Init, CountsAgree
<1> QED BY <1>1, <1>2 DEF ReadInv

(* A read that gives k bytes. *)
LEMMA SomeStep ==
  ASSUME ReadInv, NEW k \in 1..SsizeMax, ReadSome(k)
  PROVE  ReadInv'
<1> USE ReadLoopAssumption
<1>1. p' \in 0..SsizeMax /\ n' \in 0..SsizeMax /\ nbytes' \in 0..(SsizeMax + 1) /\ taken' \in 0..written
  BY DEF ReadInv, TypeOK, CountsAgree, ReadSome, Available, Arguments
<1>2. buf' \in Buffers
  BY DEF ReadInv, TypeOK, ReadSome, Buffers, Available
<1>3. at' \in {"read", "out"} /\ result' \in {EIO, EAGAIN, EINVAL} \cup 0..SsizeMax
  <2>1. CASE nbytes = k
    <3>1. n + k \in 0..SsizeMax
      BY <1>1 DEF ReadSome
    <3> QED BY <2>1, <3>1, AnswerType DEF ReadInv, ReadSome, Return
  <2>2. CASE nbytes # k
    BY <2>2 DEF ReadInv, TypeOK, ReadSome
  <2> QED BY <2>1, <2>2
<1>4. TypeOK'
  BY <1>1, <1>2, <1>3 DEF ReadInv, TypeOK, ReadSome, stream
<1>5. \A i \in 1..n' : buf'[i] = start' + i
  BY <1>1 DEF ReadInv, TypeOK, CountsAgree, ReadSome, Buffers, Available
<1>6. CountsAgree'
  BY <1>3, <1>5 DEF ReadInv, TypeOK, CountsAgree, ReadSome, Available, Arguments
<1> QED BY <1>4, <1>6 DEF ReadInv

(* Every step that takes nothing out of the stream and is no call. *)
LEMMA IdleStep ==
  ASSUME ReadInv,
         UNCHANGED <<blocking, taken, args, p, nbytes, n, buf, start>>,
         written' \in written..MaxWritten, closed' \in BOOLEAN, failed' \in BOOLEAN,
         signals' \in 0..MaxSignals,
         \/ UNCHANGED <<at, result>>
         \/ at # "out" /\ \E v \in {n, EIO, EAGAIN} : Return(v)
         \/ at # "out" /\ at' = "read" /\ UNCHANGED result
         \/ at # "out" /\ at' = "wait" /\ nbytes > 0 /\ UNCHANGED result
  PROVE  ReadInv'
<1> USE ReadLoopAssumption
<1>1. at' \in {"read", "wait", "out"} /\ result' \in {EIO, EAGAIN, EINVAL} \cup 0..SsizeMax
  <2>1. ASSUME NEW v \in {n, EIO, EAGAIN}, Return(v)
        PROVE  at' = "out" /\ result' \in {EIO, EAGAIN, EINVAL} \cup 0..SsizeMax
    BY <2>1, AnswerType DEF ReadInv, TypeOK, Return
  <2> QED BY <2>1 DEF ReadInv, TypeOK
<1>2. TypeOK'
  BY <1>1 DEF ReadInv, TypeOK
<1>3. CountsAgree'
  BY DEF ReadInv, TypeOK, CountsAgree, Return
<1> QED BY <1>2, <1>3 DEF ReadInv

LEMMA CallStep == ASSUME ReadInv, NEW a \in Arguments, Call(a) PROVE ReadInv'
<1> USE ReadLoopAssumption
<1>1. TypeOK'
  <2>1. buf' \in Buffers
    BY DEF Call, Buffers
  <2>2. nbytes' \in 0..(SsizeMax + 1)
    BY DEF Call, Arguments
  <2>3. at' \in {"read", "wait", "out"} /\ result' \in {EIO, EAGAIN, EINVAL} \cup 0..SsizeMax
    BY DEF Call, ReadInv, TypeOK
  <2>4. failed' \in BOOLEAN
    BY DEF Call
  <2>5. p' \in 0..SsizeMax /\ n' \in 0..SsizeMax /\ start' \in Nat
    BY DEF Call, ReadInv, TypeOK
  <2> QED BY <2>1, <2>2, <2>3, <2>4, <2>5 DEF ReadInv, TypeOK, Call, stream
<1>2. CountsAgree'
  BY DEF ReadInv, TypeOK, CountsAgree, Call, stream, Arguments
<1> QED BY <1>1, <1>2 DEF ReadInv

LEMMA ReadStep == ReadInv /\ [Next]_vars => ReadInv'
<1> SUFFICES ASSUME ReadInv, [Next]_vars PROVE ReadInv'
  OBVIOUS
<1> USE DEF stream
<1>1. CASE Write
  BY <1>1, IdleStep, ReadLoopAssumption DEF Write, ReadInv, TypeOK
<1>2. CASE Close
  BY <1>2, IdleStep, ReadLoopAssumption DEF Close, ReadInv, TypeOK
<1>3. ASSUME NEW k \in 1..SsizeMax, ReadSome(k) PROVE ReadInv'
  BY <1>3, SomeStep
<1>4. CASE ReadEnd
  BY <1>4, IdleStep, ReadLoopAssumption DEF ReadEnd, ReadInv, TypeOK
<1>5. CASE ReadInterrupted
  BY <1>5, IdleStep, ReadLoopAssumption DEF ReadInterrupted, ReadInv, TypeOK
<1>6. CASE ReadWouldBlock
  BY <1>6, IdleStep, ReadLoopAssumption DEF ReadWouldBlock, ErrorOr, ReadInv, TypeOK
<1>7. CASE ReadFails
  BY <1>7, IdleStep, ReadLoopAssumption DEF ReadFails, ErrorOr, ReadInv, TypeOK
<1>8. CASE WaitForEvent
  BY <1>8, IdleStep, ReadLoopAssumption DEF WaitForEvent, ReadInv, TypeOK
<1>9. ASSUME NEW a \in Arguments, Call(a) PROVE ReadInv'
  BY <1>9, CallStep
<1>10. CASE UNCHANGED vars
  BY <1>10, IdleStep, ReadLoopAssumption DEF vars, ReadInv, TypeOK
<1> QED BY <1>1, <1>2, <1>3, <1>4, <1>5, <1>6, <1>7, <1>8, <1>9, <1>10 DEF Next, Progress

LEMMA ReadCorrect == Spec => []ReadInv
BY ReadInit, ReadStep, PTL DEF Spec

LEMMA ToldStep == ReadInv /\ Told /\ [Next]_vars => Told'
<1> SUFFICES ASSUME ReadInv, Told, [Next]_vars PROVE Told'
  OBVIOUS
<1> USE ReadLoopAssumption DEF stream, Excused, AtEnd, Available, EIO, EAGAIN, EINVAL
<1>1. CASE Write
  BY <1>1 DEF Write, Told, Answer
<1>2. CASE Close
  BY <1>2 DEF Close, Told, Answer
<1>3. ASSUME NEW k \in 1..SsizeMax, ReadSome(k) PROVE Told'
  BY <1>3 DEF ReadSome, Return, Told, Answer, ReadInv, CountsAgree, TypeOK, Arguments
<1>4. CASE ReadEnd
  BY <1>4 DEF ReadEnd, Return, Told, Answer, ReadInv, CountsAgree, TypeOK, Arguments
<1>5. CASE ReadInterrupted
  BY <1>5 DEF ReadInterrupted, Return, Told, Answer, ReadInv, CountsAgree, TypeOK, Arguments
<1>6. CASE ReadWouldBlock
  BY <1>6 DEF ReadWouldBlock, ErrorOr, Return, Told, Answer, ReadInv, CountsAgree, TypeOK, Arguments
<1>7. CASE ReadFails
  BY <1>7 DEF ReadFails, ErrorOr, Return, Told, Answer, ReadInv, CountsAgree, TypeOK, Arguments
<1>8. CASE WaitForEvent
  BY <1>8 DEF WaitForEvent, Told
<1>9. ASSUME NEW a \in Arguments, Call(a) PROVE Told'
  BY <1>9 DEF Call, Told
<1>10. CASE UNCHANGED vars
  BY <1>10 DEF vars, Told, Answer
<1> QED BY <1>1, <1>2, <1>3, <1>4, <1>5, <1>6, <1>7, <1>8, <1>9, <1>10 DEF Next, Progress

LEMMA ToldInit == Init => Told
BY DEF Init, Told, Answer, EINVAL

LEMMA ToldCorrect == Spec => [](ReadInv /\ Told)
<1>1. ReadInv /\ Told /\ [Next]_vars => (ReadInv /\ Told)'
  BY ReadStep, ToldStep
<1> QED BY ReadInit, ToldInit, <1>1, PTL DEF Spec

(* Every variable of the read loop keeps its type: no read writes past the *)
(* size that was asked for.                                                *)
THEOREM ReadTypeCorrect == Spec => []TypeOK
BY ReadCorrect, PTL DEF ReadInv

(* No byte is lost or misplaced, however often reads are short or          *)
(* interrupted, and the result tells how many bytes were read.             *)
THEOREM BytesAreKept == Spec => []NoByteLost
<1>1. ReadInv /\ Told => NoByteLost
  BY ReadLoopAssumption
  DEF ReadInv, Told, NoByteLost, CountsAgree, TypeOK, Answer, EIO, EAGAIN, EINVAL
<1> QED BY ToldCorrect, <1>1, PTL

(* read_loop_exact succeeds exactly when it filled the buffer. *)
THEOREM ExactIsAllOrError == Spec => []ExactIsAll
<1>1. ReadInv /\ Told => ExactIsAll
  BY ReadLoopAssumption
  DEF ReadInv, Told, ExactIsAll, CountsAgree, TypeOK, Answer, EIO, EAGAIN, EINVAL
<1> QED BY ToldCorrect, <1>1, PTL

(* No signal and no short read ends a call early. *)
THEOREM ShortReadsGoOn == Spec => []ShortOnlyAtTheEnd
<1>1. ReadInv /\ Told => ShortOnlyAtTheEnd
  BY ReadLoopAssumption
  DEF ReadInv, Told, ShortOnlyAtTheEnd, Excused, CountsAgree, TypeOK, Answer, EIO, EAGAIN, EINVAL
<1> QED BY ToldCorrect, <1>1, PTL
=============================================================================
