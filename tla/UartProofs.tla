----------------------------- MODULE UartProofs -----------------------------
(***************************************************************************)
(* bus_recv of the UART bus stays within its buffer and its time, and it   *)
(* hands over whole frames in order from the first after a silence on, for *)
(* every set of frames, every fault, every timeout and every clock width.  *)
(***************************************************************************)
EXTENDS UartBus, WireProofs

-----------------------------------------------------------------------------
(* The clock.                                                               *)

\* A number in the range of the clock is its own remainder, and a negative one
\* wraps around once.
LEMMA Remainders ==
    ASSUME NEW n \in Nat, n > 0, NEW x \in Int
    PROVE  /\ 0 <= x /\ x < n => x % n = x
           /\ -n <= x /\ x < 0 => x % n = x + n
  BY SMT

\* hal_millis() - start grows by one with the clock, also across the wrap.
LEMMA SinceGrows ==
    ASSUME NEW n \in Nat, n > 0,
           NEW c \in Int, 0 <= c, c < n, NEW s \in Int, 0 <= s, s < n
    PROVE  /\ (c - s) % n \in Nat
           /\ (c + 1) % n \in Nat /\ (c + 1) % n < n
           /\ ((c - s) % n) + 1 < n => (((c + 1) % n) - s) % n = ((c - s) % n) + 1
  BY Remainders, SMT

-----------------------------------------------------------------------------
(* Types.                                                                   *)

\* The constants as the steps use them.
LEMMA ConstantFacts ==
    /\ Wrap \in Nat /\ Wrap > 0 /\ Timeout \in Nat /\ Timeout > 0 /\ Timeout < Wrap
    /\ Quiet \in Nat
    /\ \A b \in BadBytes : b \in Byte
    /\ \A f \in Frames : f \in WireFrame /\ proto_finalize(f) \in Seq(Byte)
<1>1. \A f \in Frames : f \in WireFrame /\ Len(f.payload) <= MAX_PAYLOAD_SIZE
  BY UartAssumption
<1>2. \A f \in Frames : proto_finalize(f) \in Seq(Byte)
  BY <1>1, FramesSurvive
<1> QED
  BY <1>1, <1>2, UartAssumption

LEMMA EmptySequences == <<>> \in Seq(Byte) /\ <<>> \in Seq(WireFrame)
  OBVIOUS

LEMMA ClockFacts ==
    ASSUME TypeOK
    PROVE  /\ Since(clock, start) \in Nat
           /\ Since(clock, clock) = 0
           /\ NextMillis \in 0 .. (Wrap - 1)
           /\ Since(clock, start) + 1 < Wrap =>
                Since(NextMillis, start) = Since(clock, start) + 1
<1>1. clock \in Int /\ 0 <= clock /\ clock < Wrap
      /\ start \in Int /\ 0 <= start /\ start < Wrap
  BY ConstantFacts DEF TypeOK
<1>2. (clock - clock) % Wrap = 0
  BY <1>1, ConstantFacts, Remainders
<1> QED
  BY <1>1, <1>2, ConstantFacts, SinceGrows DEF Since, NextMillis

LEMMA InitType == Init => TypeOK
<1> SUFFICES ASSUME Init
             PROVE  TypeOK
  OBVIOUS
<1>1. 0 \in 0 .. (Wrap - 1) /\ Quiet \in 0 .. Quiet
  BY ConstantFacts
<1>2. /\ line \in Seq(Byte) /\ rx \in Seq(Byte) /\ buf \in Seq(Byte)
      /\ owed \in Seq(WireFrame)
  BY DEF Init
<1>3. /\ tx \in {"boot", "up", "halted"}
      /\ pc \in {"boot", "created", "halted", "idle", "hunt", "frame"}
      /\ sound \in BOOLEAN
  BY DEF Init
<1> QED
  BY <1>1, <1>2, <1>3 DEF Init, TypeOK

LEMMA TypeStep == TypeOK /\ [Next]_vars => TypeOK'
<1> SUFFICES ASSUME TypeOK, [Next]_vars
             PROVE  TypeOK'
  OBVIOUS
<1> USE DEF TypeOK, StartWait, Disturb, Undisturbed, readerVars, history
<1>1. CASE Setup
  <2>1. CASE CreateSender
    BY <2>1 DEF CreateSender
  <2>2. CASE bus_create
    BY <2>2 DEF bus_create
  <2>3. CASE bus_set_baud
    BY <2>3 DEF bus_set_baud
  <2> QED
    BY <1>1, <2>1, <2>2, <2>3 DEF Setup
<1>2. CASE Restart
  <2>1. CASE RestartSender
    <3>1. sound' \in BOOLEAN
      BY <2>1, Zenon DEF RestartSender
    <3>2. owed' = <<>> /\ line' = <<>> /\ tx' = "boot" /\ faults' = faults + 1
          /\ UNCHANGED <<silence, rx, clock, pc, buf, start, limit, elapsed, sends>>
      BY <2>1 DEF RestartSender
    <3> QED
      BY <3>1, <3>2, EmptySequences
  <2>2. CASE RestartReceiver
    <3>1. sound' \in BOOLEAN
      BY <2>2, Zenon DEF RestartReceiver
    <3>2. owed' = <<>> /\ rx' = <<>> /\ buf' = <<>> /\ pc' = "boot"
          /\ clock' = 0 /\ start' = 0 /\ limit' = Pause /\ elapsed' = 0
          /\ faults' = faults + 1 /\ UNCHANGED <<tx, line, silence, sends>>
      BY <2>2 DEF RestartReceiver
    <3>3. 0 \in 0 .. (Wrap - 1)
      BY ConstantFacts
    <3> QED
      BY <3>1, <3>2, <3>3, EmptySequences
  <2> QED
    BY <1>2, <2>1, <2>2 DEF Restart
<1>3. ASSUME NEW f \in Frames, bus_send(f)
      PROVE  TypeOK'
  <2>1. (line \o proto_finalize(f)) \in Seq(Byte)
    BY ConstantFacts
  <2>2. ReaderReady \in BOOLEAN
    BY DEF ReaderReady, Listening, Receiving
  <2>3. owed' \in Seq(WireFrame)
    BY <1>3, ConstantFacts DEF bus_send
  <2> QED
    BY <1>3, <2>1, <2>2, <2>3 DEF bus_send
<1>4. CASE Call
  BY <1>4 DEF Call
<1>5. CASE HuntByte
  <2>1. SOF \in Byte
    BY DEF SOF, Byte
  <2>2. rx' \in Seq(Byte)
    BY <1>5 DEF HuntByte
  <2>3. CASE Head(rx) = SOF
    <3>1. buf' = <<SOF>>
      BY <1>5, <2>3 DEF HuntByte
    <3>2. buf' \in Seq(Byte)
      BY <2>1, <3>1
    <3> QED
      BY <1>5, <2>2, <2>3, <3>2 DEF HuntByte
  <2>4. CASE Head(rx) # SOF
    BY <1>5, <2>2, <2>4 DEF HuntByte
  <2> QED
    BY <2>3, <2>4
<1>6. CASE ReadByte
  <2>1. rx' \in Seq(Byte) /\ Append(buf, Head(rx)) \in Seq(Byte)
    BY <1>6 DEF ReadByte
  <2>2. owed' \in Seq(WireFrame) /\ sound' = sound
    <3>1. owed # <<>> => Tail(owed) \in Seq(WireFrame)
      OBVIOUS
    <3>2. \/ UNCHANGED owed
          \/ owed' = IF owed = <<>> THEN <<>> ELSE Tail(owed)
      BY <1>6, Zenon DEF ReadByte, Deliver
    <3>3. sound' = sound
      BY <1>6 DEF ReadByte, Deliver
    <3> QED
      BY <3>1, <3>2, <3>3, EmptySequences
  <2>3. /\ pc' \in {"idle", "frame"}
        /\ limit' \in {Timeout, Pause, Startup}
        /\ start' = clock
        /\ elapsed' \in {0, elapsed}
        /\ buf' \in {<<>>, Append(buf, Head(rx))}
    BY <1>6 DEF ReadByte, Return, Deliver
  <2>4. buf' \in Seq(Byte)
    BY <2>1, <2>3, EmptySequences
  <2>5. UNCHANGED <<tx, line, silence, clock, sends, faults>>
    BY <1>6 DEF ReadByte
  <2> QED
    BY <2>1, <2>2, <2>3, <2>4, <2>5
<1>7. CASE RecvTimeout
  BY <1>7 DEF RecvTimeout, Return
<1>8. CASE Tick
  <2>1. ASSUME NEW b \in Byte
        PROVE  Stored(b) \in Seq(Byte)
    BY DEF Stored
  <2>2. line' \in Seq(Byte) /\ rx' \in Seq(Byte)
    <3>1. CASE Arrive
      BY <2>1, <3>1 DEF Arrive
    <3>2. CASE Fault
      BY <2>1, <3>2, ConstantFacts DEF Fault
    <3>3. CASE Silent
      BY <3>3 DEF Silent
    <3> QED
      BY <1>8, <3>1, <3>2, <3>3 DEF Tick
  <2>3. silence' \in 0 .. Quiet /\ faults' \in Nat
    BY <1>8, ConstantFacts DEF Tick, Arrive, Fault, Silent
  <2>4. sound' \in BOOLEAN /\ owed' \in Seq(WireFrame)
    <3>1. (sound' = FALSE /\ owed' = <<>>) \/ UNCHANGED <<sound, owed>>
      BY <1>8 DEF Tick, Arrive, Fault, Silent
    <3> QED
      BY <3>1, EmptySequences
  <2>5. clock' \in 0 .. (Wrap - 1)
    BY <1>8, ClockFacts DEF Tick
  <2> QED
    BY <1>8, <2>2, <2>3, <2>4, <2>5 DEF Tick
<1>9. CASE UNCHANGED vars
  BY <1>9 DEF vars
<1> QED
  BY <1>1, <1>2, <1>3, <1>4, <1>5, <1>6, <1>7, <1>8, <1>9 DEF Next, Reader

\* Every variable keeps its type.
THEOREM TypeCorrect == Spec => []TypeOK
  BY InitType, TypeStep, PTL DEF Spec

-----------------------------------------------------------------------------
(* The buffer of bus_recv.                                                  *)

\* Once the length byte is read it is legal, and the frame is not complete.
LengthKnown(bytes) ==
    Len(bytes) >= HEADER =>
        /\ bytes[HEADER] <= MAX_PAYLOAD_SIZE
        /\ Len(bytes) < HEADER + bytes[HEADER] + 1

BufferInv == LengthKnown(buf)

LEMMA LengthByte ==
    ASSUME NEW s \in Seq(Byte), Len(s) >= HEADER
    PROVE  s[HEADER] \in Nat
<1>1. HEADER \in 1 .. Len(s)
  BY DEF HEADER
<1>2. s[HEADER] \in Byte
  BY <1>1
<1>3. \A b \in Byte : b \in Nat
  BY DEF Byte
<1> QED
  BY <1>2, <1>3

\* A byte that neither ends the frame nor has an illegal length keeps it so.
LEMMA OneMoreByte ==
    ASSUME NEW s \in Seq(Byte), NEW b \in Byte, LengthKnown(s),
           ~TooLong(Append(s, b)), ~Complete(Append(s, b))
    PROVE  LengthKnown(Append(s, b))
<1> DEFINE t == Append(s, b)
<1>1. Len(s) \in Nat /\ Len(t) = Len(s) + 1 /\ t \in Seq(Byte)
  OBVIOUS
<1>2. CASE Len(t) < HEADER
  BY <1>1, <1>2 DEF LengthKnown, HEADER
<1>3. CASE Len(t) = HEADER
  <2>1. t[HEADER] \in Nat
    BY <1>1, <1>3 DEF HEADER, Byte
  <2> QED
    BY <1>3, <2>1 DEF LengthKnown, TooLong, HEADER, MAX_PAYLOAD_SIZE
<1>4. CASE Len(t) > HEADER
  <2>0. Len(s) >= HEADER /\ t[HEADER] = s[HEADER]
    BY <1>1, <1>4 DEF HEADER
  <2>1. s[HEADER] \in Nat
    BY <2>0, LengthByte
  <2>2. Len(s) < HEADER + t[HEADER] + 1 /\ t[HEADER] <= MAX_PAYLOAD_SIZE
    BY <2>0 DEF LengthKnown
  <2>3. Len(t) # HEADER + t[HEADER] + 1
    BY <1>4 DEF Complete
  <2> HIDE DEF t
  <2> QED
    BY <1>1, <2>0, <2>1, <2>2, <2>3 DEF LengthKnown, HEADER
<1> QED
  BY <1>1, <1>2, <1>3, <1>4 DEF HEADER

LEMMA Longer ==
    ASSUME NEW s \in Seq(Byte), NEW b \in Byte
    PROVE  Append(s, b) # <<>>
<1>1. Len(Append(s, b)) = Len(s) + 1 /\ Len(s) \in Nat
  OBVIOUS
<1>2. Len(<<>>) = 0
  OBVIOUS
<1> QED
  BY <1>1, <1>2

LEMMA ShortBuffers ==
    /\ LengthKnown(<<>>) /\ LengthKnown(<<SOF>>)
  BY DEF LengthKnown, HEADER

LEMMA BufferStep == TypeOK /\ BufferInv /\ [Next]_vars => BufferInv'
<1> SUFFICES ASSUME TypeOK, BufferInv, [Next]_vars
             PROVE  BufferInv'
  OBVIOUS
<1> USE DEF BufferInv
<1>1. CASE UNCHANGED buf
  BY <1>1 DEF LengthKnown
<1>2. CASE buf' = <<>> \/ buf' = <<SOF>>
  BY <1>2, ShortBuffers
<1>3. ASSUME rx # <<>>, ~TooLong(Append(buf, Head(rx))),
             ~Complete(Append(buf, Head(rx))), buf' = Append(buf, Head(rx))
      PROVE  LengthKnown(buf')
  <2>1. Head(rx) \in Byte /\ buf \in Seq(Byte)
    BY <1>3 DEF TypeOK
  <2> QED
    BY <1>3, <2>1, OneMoreByte
<1> QED
  BY <1>1, <1>2, <1>3
     DEF Next, Setup, CreateSender, bus_create, bus_set_baud, Restart,
         RestartSender, RestartReceiver, bus_send, Reader, Call, HuntByte,
         ReadByte, RecvTimeout, Return, Deliver, Tick, vars, readerVars

LEMMA BufferFits == TypeOK /\ BufferInv => FrameFits
<1> SUFFICES ASSUME TypeOK, BufferInv
             PROVE  Len(buf) < 13
  BY DEF FrameFits, MAX_FRAME, HEADER, MAX_PAYLOAD_SIZE
<1>1. Len(buf) \in Nat /\ (Len(buf) >= 4 => buf[4] \in Nat)
  BY LengthByte DEF TypeOK, HEADER
<1>2. Len(buf) >= 4 => buf[4] <= 8 /\ Len(buf) < 4 + buf[4] + 1
  BY DEF BufferInv, LengthKnown, HEADER, MAX_PAYLOAD_SIZE
<1> QED
  BY <1>1, <1>2

\* bus_recv never stores more than the frame its caller provides can hold,
\* whatever bytes arrive.
THEOREM BufferNeverOverflows == Spec => []FrameFits
<1>1. Init => BufferInv
  BY ShortBuffers DEF Init, BufferInv
<1> QED
  BY <1>1, InitType, TypeStep, BufferStep, BufferFits, PTL DEF Spec

-----------------------------------------------------------------------------
(* The time a call takes.                                                   *)

\* Every byte read started a new wait of at most Timeout.
CallInv ==
    /\ ~Receiving => elapsed = 0
    /\ pc # "frame" => buf = <<>>
    /\ Receiving => /\ limit = Timeout
                    /\ Since(clock, start) <= Timeout
                    /\ elapsed <= Timeout * Len(buf) + Since(clock, start)

\* The waits for the bytes read so far, and the one that begins.
LEMMA OneMoreWait ==
    ASSUME NEW T \in Nat, NEW len \in Nat, NEW e \in Nat, NEW d \in Nat,
           d <= T, e <= T * len + d
    PROVE  e <= T * (len + 1)
  BY SMT

LEMMA CallStep == TypeOK /\ CallInv /\ [Next]_vars => CallInv'
<1> SUFFICES ASSUME TypeOK, CallInv, [Next]_vars
             PROVE  CallInv'
  OBVIOUS
<1>1. CASE UNCHANGED <<pc, buf, clock, start, limit, elapsed>>
  BY <1>1 DEF CallInv, Receiving
<1>2. ASSUME pc' \notin {"hunt", "frame"}, elapsed' = 0, buf' = <<>>
      PROVE  CallInv'
  BY <1>2 DEF CallInv, Receiving
<1>3. Since(clock, clock) = 0 /\ Since(clock, start) \in Nat
  BY ClockFacts
<1>4. Len(buf) \in Nat /\ elapsed \in Nat /\ Timeout \in Nat
  BY ConstantFacts DEF TypeOK
<1>5. CASE Call
  <2>1. pc' = "hunt" /\ pc = "idle" /\ start' = clock /\ clock' = clock
        /\ limit' = Timeout /\ elapsed' = 0 /\ buf' = buf
    BY <1>5 DEF Call, StartWait
  <2>2. Since(clock', start') = 0
    BY <1>3, <2>1
  <2>3. buf' = <<>>
    BY <2>1 DEF CallInv
  <2>4. Timeout * Len(buf') = 0
    BY <1>4, <2>3
  <2> QED
    BY <1>4, <2>1, <2>2, <2>3, <2>4 DEF CallInv, Receiving
<1>6. CASE HuntByte
  <2>1. CASE Head(rx) # SOF
    BY <1>1, <1>6, <2>1 DEF HuntByte
  <2>2. CASE Head(rx) = SOF
    <3>1. pc = "hunt" /\ pc' = "frame" /\ buf' = <<SOF>> /\ start' = clock
          /\ limit' = Timeout /\ clock' = clock /\ elapsed' = elapsed
      BY <1>6, <2>2 DEF HuntByte, StartWait
    <3>2. buf = <<>> /\ elapsed <= Timeout * 0 + Since(clock, start)
          /\ Since(clock, start) <= Timeout
      BY <3>1 DEF CallInv, Receiving
    <3>3. elapsed <= Timeout * 1 + 0
      BY <1>3, <1>4, <3>2
    <3>4. Since(clock', start') = 0 /\ Len(buf') = 1
      BY <1>3, <3>1
    <3> QED
      BY <1>4, <3>1, <3>3, <3>4 DEF CallInv, Receiving
  <2> QED
    BY <2>1, <2>2
<1>7. CASE ReadByte
  <2>1. CASE pc' = "idle"
    BY <1>2, <1>7, <2>1 DEF ReadByte, Return, Deliver
  <2>2. CASE pc' # "idle"
    <3>1. pc = "frame" /\ pc' = "frame" /\ start' = clock /\ limit' = Timeout
          /\ clock' = clock /\ elapsed' = elapsed
          /\ buf' = Append(buf, Head(rx))
      BY <1>7, <2>2 DEF ReadByte, Return, Deliver, StartWait
    <3>2. elapsed <= Timeout * Len(buf) + Since(clock, start)
          /\ Since(clock, start) <= Timeout
      BY <3>1 DEF CallInv, Receiving
    <3>3. elapsed <= Timeout * (Len(buf) + 1)
      BY <1>3, <1>4, <3>2, OneMoreWait
    <3>4. Since(clock', start') = 0 /\ Len(buf') = Len(buf) + 1
      BY <1>3, <3>1 DEF TypeOK
    <3>5. Timeout * Len(buf') + Since(clock', start') = Timeout * (Len(buf) + 1)
      BY <1>4, <3>4
    <3> QED
      BY <1>4, <3>1, <3>3, <3>4, <3>5 DEF CallInv, Receiving
  <2> QED
    BY <2>1, <2>2
<1>8. CASE Tick
  <2>1. CASE ~Receiving
    <3>1. pc' = pc /\ elapsed' = 0 /\ buf' = <<>>
      BY <1>8, <2>1 DEF Tick, CallInv, Receiving
    <3> QED
      BY <1>2, <2>1, <3>1 DEF Receiving
  <2>2. CASE Receiving
    <3>1. UNCHANGED <<pc, buf, start, limit>> /\ elapsed' = elapsed + 1
          /\ clock' = NextMillis /\ ~(Since(clock, start) >= limit)
      BY <1>8, <2>2 DEF Tick, Listening, TimeIsUp
    <3>2. limit = Timeout /\ elapsed <= Timeout * Len(buf) + Since(clock, start)
      BY <2>2 DEF CallInv
    <3>3. Since(clock', start') = Since(clock, start) + 1
      BY <1>3, <1>4, <3>1, <3>2, ConstantFacts, ClockFacts
    <3>4. Timeout * Len(buf) \in Nat
      BY <1>4
    <3>5. elapsed' <= Timeout * Len(buf') + Since(clock', start')
      BY <1>3, <1>4, <3>1, <3>2, <3>3, <3>4
    <3>6. Since(clock', start') <= Timeout
      BY <1>3, <1>4, <3>1, <3>2, <3>3
    <3> QED
      BY <2>2, <3>1, <3>2, <3>5, <3>6 DEF CallInv, Receiving
  <2> QED
    BY <2>1, <2>2
<1>9. CASE RestartReceiver \/ RecvTimeout
  BY <1>2, <1>9 DEF RestartReceiver, RecvTimeout, Return
<1>10. CASE bus_create \/ bus_set_baud
  BY <1>2, <1>10 DEF CallInv, Receiving, bus_create, bus_set_baud
<1>11. CASE CreateSender \/ RestartSender \/ (\E f \in Frames : bus_send(f))
            \/ UNCHANGED vars
  BY <1>1, <1>11
     DEF CreateSender, RestartSender, bus_send, readerVars, vars
<1> QED
  BY <1>5, <1>6, <1>7, <1>8, <1>9, <1>10, <1>11
     DEF Next, Setup, Restart, Reader

LEMMA CallFits == TypeOK /\ CallInv => CallIsBounded
<1> SUFFICES ASSUME TypeOK, CallInv
             PROVE  elapsed <= Timeout * (Len(buf) + 1)
  BY DEF CallIsBounded
<1>1. Len(buf) \in Nat /\ Timeout \in Nat /\ elapsed \in Nat
  BY ConstantFacts DEF TypeOK
<1>2. CASE Receiving
  <2>1. Since(clock, start) \in Nat
    BY ClockFacts
  <2> QED
    BY <1>1, <1>2, <2>1, OneMoreWait DEF CallInv
<1>3. CASE ~Receiving
  <2>1. elapsed = 0 /\ Timeout * (Len(buf) + 1) \in Nat
    BY <1>1, <1>3 DEF CallInv
  <2> QED
    BY <2>1
<1> QED
  BY <1>2, <1>3

\* One timeout per byte bounds a call of bus_recv, with a clock of any width
\* that wraps in the middle of it, and with any delays of the sender.
THEOREM CallsAreBounded == Spec => []CallIsBounded
<1>1. Init => CallInv
  BY DEF Init, CallInv, Receiving
<1> QED
  BY <1>1, InitType, TypeStep, CallStep, CallFits, PTL DEF Spec
-----------------------------------------------------------------------------
(* Bytes that are a sequence of frames.                                     *)

\* What bus_send makes of a frame, as the reader will meet it.
LEMMA FrameBytes ==
    ASSUME NEW f \in Frames
    PROVE  LET b == proto_finalize(f)
           IN  /\ b \in Seq(Byte) /\ Len(b) > HEADER /\ b[1] = SOF
               /\ b[HEADER] \in Nat /\ b[HEADER] <= MAX_PAYLOAD_SIZE
               /\ Len(b) = HEADER + b[HEADER] + 1
               /\ proto_is_valid(b) /\ Decoded(b) = f
<1> DEFINE b == proto_finalize(f)
<1>1. f \in WireFrame /\ Len(f.payload) <= MAX_PAYLOAD_SIZE
  BY UartAssumption
<1>2. /\ b \in Seq(Byte) /\ Len(b) > HEADER /\ b[1] = SOF
      /\ Len(b) = HEADER + b[HEADER] + 1 /\ proto_is_valid(b) /\ Decoded(b) = f
  BY <1>1, FramesSurvive
<1> HIDE DEF b
<1>3. b[HEADER] \in Nat
  BY <1>2, LengthByte DEF HEADER
<1>4. b[HEADER] <= MAX_PAYLOAD_SIZE
  BY <1>2 DEF proto_is_valid
<1> QED
  BY <1>2, <1>3, <1>4 DEF b

\* c[k] is where in w the k-th of the frames fs ends.
Ends(c, w, fs) ==
    /\ c[0] = 0 /\ c[Len(fs)] = Len(w)
    /\ \A j, k \in 0 .. Len(fs) : j <= k => c[j] <= c[k]
    /\ \A k \in 1 .. Len(fs) :
        /\ fs[k] \in Frames
        /\ c[k] = c[k - 1] + Len(proto_finalize(fs[k]))
        /\ \A i \in 1 .. Len(proto_finalize(fs[k])) :
            w[c[k - 1] + i] = proto_finalize(fs[k])[i]

\* The bytes of w are those of the frames fs, one after the other.
Framed(w, fs) == \E c \in [0 .. Len(fs) -> 0 .. Len(w)] : Ends(c, w, fs)

LEMMA NoFrames == Framed(<<>>, <<>>)
<1> DEFINE c == [k \in 0 .. 0 |-> 0]
<1>1. c \in [0 .. Len(<<>>) -> 0 .. Len(<<>>)] /\ c[0] = 0 /\ Len(<<>>) = 0
  OBVIOUS
<1>2. \A k \in 1 .. Len(<<>>) : FALSE
  BY <1>1
<1>3. /\ c[Len(<<>>)] = Len(<<>>)
      /\ \A j, k \in 0 .. Len(<<>>) : j <= k => c[j] <= c[k]
  BY <1>1
<1> HIDE DEF c
<1> QED
  BY <1>1, <1>2, <1>3, Zenon DEF Framed, Ends

LEMMA NoBytes ==
    ASSUME NEW w \in Seq(Byte), Framed(w, <<>>)
    PROVE  w = <<>>
  BY DEF Framed, Ends

\* The first frame is there, from its first byte to its last.
LEMMA FirstFrame ==
    ASSUME NEW w \in Seq(Byte), NEW fs \in Seq(WireFrame), Framed(w, fs), fs # <<>>
    PROVE  /\ Head(fs) \in Frames
           /\ Len(proto_finalize(Head(fs))) <= Len(w)
           /\ \A i \in 1 .. Len(proto_finalize(Head(fs))) :
                w[i] = proto_finalize(Head(fs))[i]
<1> DEFINE n == Len(fs)
           b == proto_finalize(fs[1])
<1>1. n \in Nat /\ n >= 1 /\ Head(fs) = fs[1]
  OBVIOUS
<1>2. PICK c \in [0 .. n -> 0 .. Len(w)] : Ends(c, w, fs)
  BY Zenon DEF Framed
<1>3. /\ fs[1] \in Frames /\ c[1] = c[1 - 1] + Len(b)
      /\ \A i \in 1 .. Len(b) : w[c[1 - 1] + i] = b[i]
  BY <1>1, <1>2 DEF Ends
<1>4. b \in Seq(Byte)
  BY <1>3, FrameBytes
<1>5. c[1 - 1] = 0 /\ c[1] <= c[n] /\ c[n] = Len(w)
  BY <1>1, <1>2 DEF Ends
<1> HIDE DEF b, n
<1>6. Len(b) <= Len(w) /\ \A i \in 1 .. Len(b) : w[i] = b[i]
  BY <1>2, <1>3, <1>4, <1>5
<1> QED
  BY <1>1, <1>3, <1>6 DEF b

\* One more frame behind the others.
LEMMA OneMoreFrame ==
    ASSUME NEW w \in Seq(Byte), NEW fs \in Seq(WireFrame), Framed(w, fs),
           NEW f \in Frames
    PROVE  Framed(w \o proto_finalize(f), Append(fs, f))
<1> DEFINE n == Len(fs)
           b == proto_finalize(f)
           v == w \o b
           gs == Append(fs, f)
<1>1. b \in Seq(Byte) /\ n \in Nat
  BY FrameBytes
<1> HIDE DEF b
<1>2. /\ v \in Seq(Byte) /\ Len(v) = Len(w) + Len(b)
      /\ \A i \in 1 .. Len(w) : v[i] = w[i]
      /\ \A i \in 1 .. Len(b) : v[Len(w) + i] = b[i]
      /\ Len(w) \in Nat /\ Len(b) \in Nat
  BY <1>1
<1>3. /\ Len(gs) = n + 1 /\ gs[n + 1] = f
      /\ \A k \in 1 .. n : gs[k] = fs[k]
  BY <1>1
<1>4. PICK c \in [0 .. n -> 0 .. Len(w)] : Ends(c, w, fs)
  BY Zenon DEF Framed
<1>5. /\ c[0] = 0 /\ c[n] = Len(w)
      /\ \A j, k \in 0 .. n : j <= k => c[j] <= c[k]
      /\ \A k \in 1 .. n :
          /\ fs[k] \in Frames
          /\ c[k] = c[k - 1] + Len(proto_finalize(fs[k]))
          /\ \A i \in 1 .. Len(proto_finalize(fs[k])) :
              w[c[k - 1] + i] = proto_finalize(fs[k])[i]
  BY <1>4, Zenon DEF Ends
<1> DEFINE d == [k \in 0 .. (n + 1) |-> IF k = n + 1 THEN Len(v) ELSE c[k]]
<1> HIDE DEF v, gs, n
<1>6. d \in [0 .. (n + 1) -> 0 .. Len(v)]
  BY <1>1, <1>2, <1>4
<1>7. /\ d[0] = 0 /\ d[n + 1] = Len(v)
      /\ \A k \in 0 .. n : d[k] = c[k]
  BY <1>1, <1>4, <1>5
<1>8. \A j, k \in 0 .. (n + 1) : j <= k => d[j] <= d[k]
  BY <1>1, <1>2, <1>4, <1>5, <1>6, <1>7
<1> HIDE DEF d
<1>9. ASSUME NEW k \in 1 .. (n + 1)
      PROVE  /\ gs[k] \in Frames
             /\ d[k] = d[k - 1] + Len(proto_finalize(gs[k]))
             /\ \A i \in 1 .. Len(proto_finalize(gs[k])) :
                 v[d[k - 1] + i] = proto_finalize(gs[k])[i]
  <2>1. CASE k = n + 1
    <3>1. gs[k] = f /\ k - 1 = n /\ d[k - 1] = Len(w) /\ d[k] = Len(v)
      BY <1>1, <1>3, <1>5, <1>7, <2>1
    <3> QED
      BY <1>2, <3>1 DEF b
  <2>2. CASE k # n + 1
    <3> DEFINE e == proto_finalize(fs[k])
    <3>1. k \in 1 .. n /\ k \in 0 .. n /\ k - 1 \in 0 .. n
      BY <1>1, <2>2
    <3>2. gs[k] = fs[k] /\ d[k] = c[k] /\ d[k - 1] = c[k - 1]
      BY <1>3, <1>7, <3>1
    <3>3. fs[k] \in Frames /\ c[k] = c[k - 1] + Len(e)
          /\ \A i \in 1 .. Len(e) : w[c[k - 1] + i] = e[i]
      BY <1>5, <3>1
    <3>4. e \in Seq(Byte) /\ c[k] \in 0 .. Len(w) /\ c[k - 1] \in 0 .. Len(w)
      BY <1>4, <3>1, <3>3, FrameBytes
    <3> HIDE DEF e
    <3>5. \A i \in 1 .. Len(e) : c[k - 1] + i \in 1 .. Len(w)
      BY <3>3, <3>4
    <3>6. \A i \in 1 .. Len(e) : v[c[k - 1] + i] = e[i]
      BY <1>2, <3>3, <3>5
    <3> QED
      BY <3>2, <3>3, <3>6 DEF e
  <2> QED
    BY <2>1, <2>2
<1>10. Framed(v, gs)
  <2>1. /\ d \in [0 .. Len(gs) -> 0 .. Len(v)]
        /\ d[0] = 0 /\ d[Len(gs)] = Len(v)
        /\ \A j, k \in 0 .. Len(gs) : j <= k => d[j] <= d[k]
    BY <1>3, <1>6, <1>7, <1>8, Zenon
  <2>2. Ends(d, v, gs)
    BY <1>3, <1>9, <2>1, Zenon DEF Ends
  <2> QED
    BY <2>1, <2>2, Zenon DEF Framed
<1> QED
  BY <1>10 DEF v, gs, b

\* The others, when the first one has been read.
LEMMA RestOfFrames ==
    ASSUME NEW w \in Seq(Byte), NEW fs \in Seq(WireFrame), Framed(w, fs), fs # <<>>,
           NEW v \in Seq(Byte), NEW m \in Nat, m = Len(proto_finalize(Head(fs))),
           Len(w) = m + Len(v), \A i \in 1 .. Len(v) : v[i] = w[m + i]
    PROVE  Framed(v, Tail(fs))
<1> DEFINE n == Len(fs) - 1
           gs == Tail(fs)
<1>1. /\ n \in Nat /\ Len(fs) = n + 1 /\ Len(gs) = n /\ Head(fs) = fs[1]
      /\ \A k \in 1 .. n : gs[k] = fs[k + 1]
  OBVIOUS
<1> HIDE DEF n, gs
<1>2. PICK c \in [0 .. (n + 1) -> 0 .. Len(w)] : Ends(c, w, fs)
  BY <1>1, Zenon DEF Framed
<1>3. /\ c[0] = 0 /\ c[n + 1] = Len(w)
      /\ \A j, k \in 0 .. (n + 1) : j <= k => c[j] <= c[k]
      /\ \A k \in 1 .. (n + 1) :
          /\ fs[k] \in Frames
          /\ c[k] = c[k - 1] + Len(proto_finalize(fs[k]))
          /\ \A i \in 1 .. Len(proto_finalize(fs[k])) :
              w[c[k - 1] + i] = proto_finalize(fs[k])[i]
  BY <1>1, <1>2, Zenon DEF Ends
<1>4. c[1] = m
  <2>1. 1 \in 1 .. (n + 1) /\ 1 - 1 = 0
    BY <1>1
  <2>2. c[1] = c[1 - 1] + Len(proto_finalize(fs[1]))
    BY <1>3, <2>1
  <2> QED
    BY <1>1, <1>3, <2>1, <2>2
<1> DEFINE d == [k \in 0 .. n |-> c[k + 1] - m]
<1>5. Len(w) \in Nat /\ Len(v) \in Nat
  OBVIOUS
<1>6. ASSUME NEW k \in 0 .. n
      PROVE  /\ c[k + 1] \in Int /\ m <= c[k + 1] /\ c[k + 1] <= m + Len(v)
             /\ d[k] = c[k + 1] - m
  <2>1. k + 1 \in 0 .. (n + 1) /\ 1 \in 0 .. (n + 1) /\ 1 <= k + 1
    BY <1>1
  <2>2. c[k + 1] \in 0 .. Len(w)
    BY <1>2, <2>1
  <2>3. c[1] <= c[k + 1]
    BY <1>3, <2>1
  <2> QED
    BY <1>4, <1>5, <2>2, <2>3
<1>7. d \in [0 .. n -> 0 .. Len(v)]
  <2>1. \A k \in 0 .. n : c[k + 1] - m \in 0 .. Len(v)
    BY <1>5, <1>6
  <2> QED
    BY <2>1
<1>8. d[0] = 0 /\ d[n] = Len(v)
  BY <1>1, <1>3, <1>4, <1>5, <1>6
<1>9. ASSUME NEW j \in 0 .. n, NEW k \in 0 .. n, j <= k
      PROVE  d[j] <= d[k]
  <2>1. c[j + 1] <= c[k + 1]
    BY <1>1, <1>3, <1>9
  <2> QED
    BY <1>6, <2>1
<1> HIDE DEF d
<1>10. ASSUME NEW k \in 1 .. n
       PROVE  /\ gs[k] \in Frames
              /\ d[k] = d[k - 1] + Len(proto_finalize(gs[k]))
              /\ \A i \in 1 .. Len(proto_finalize(gs[k])) :
                  v[d[k - 1] + i] = proto_finalize(gs[k])[i]
  <2> DEFINE e == proto_finalize(fs[k + 1])
  <2>1. k + 1 \in 1 .. (n + 1) /\ (k + 1) - 1 = k /\ k \in 0 .. n /\ k - 1 \in 0 .. n
        /\ (k - 1) + 1 = k
    BY <1>1
  <2>2. /\ gs[k] = fs[k + 1] /\ d[k] = c[k + 1] - m /\ d[k - 1] = c[k] - m
        /\ d[k] \in 0 .. Len(v) /\ d[k - 1] \in 0 .. Len(v) /\ c[k] \in Int
    BY <1>1, <1>6, <1>7, <2>1
  <2>3. /\ fs[k + 1] \in Frames /\ c[k + 1] = c[k] + Len(e)
        /\ \A i \in 1 .. Len(e) : w[c[k] + i] = e[i]
    BY <1>3, <2>1
  <2>4. e \in Seq(Byte)
    BY <2>3, FrameBytes
  <2> HIDE DEF e
  <2>5. d[k] = d[k - 1] + Len(e)
    BY <2>2, <2>3, <2>4
  <2>6. ASSUME NEW i \in 1 .. Len(e)
        PROVE  v[d[k - 1] + i] = e[i]
    <3>1. /\ d[k - 1] \in Int /\ 0 <= d[k - 1] /\ d[k] <= Len(v)
          /\ Len(e) \in Nat /\ i \in Int /\ 1 <= i /\ i <= Len(e)
      BY <1>5, <2>2, <2>4
    <3>2. d[k - 1] + i <= Len(v)
      BY <1>5, <2>5, <3>1
    <3>3. m + (d[k - 1] + i) = c[k] + i
      BY <2>2, <3>1
    <3>4. d[k - 1] + i \in 1 .. Len(v)
      BY <1>5, <3>1, <3>2
    <3> QED
      BY <2>3, <3>3, <3>4
  <2> QED
    BY <2>2, <2>3, <2>5, <2>6 DEF e
<1>11. Ends(d, v, gs)
  BY <1>1, <1>8, <1>9, <1>10, Zenon DEF Ends
<1>12. Framed(v, gs)
  BY <1>1, <1>7, <1>11, Zenon DEF Framed
<1> QED
  BY <1>12 DEF gs

-----------------------------------------------------------------------------
(* After a silence the reader has nothing left to read.                     *)

\* What the refinement needs of the reader, beside CallInv.
ReaderInv ==
    /\ pc = "frame" => buf # <<>>
    /\ Receiving => got = <<>>
    /\ pc = "idle" => limit \in {Pause, Startup} /\ Since(clock, start) <= limit
    /\ Len(rx) <= RxSize
    /\ sound \/ owed = <<>>
    /\ sound => Listening

LEMMA InitReader == Init => ReaderInv
<1> SUFFICES ASSUME Init
             PROVE  ReaderInv
  OBVIOUS
<1>1. sound = FALSE /\ owed = <<>> /\ pc = "boot" /\ rx = <<>>
  BY DEF Init
<1>2. Len(rx) <= RxSize
  BY <1>1, UartAssumption
<1> QED
  BY <1>1, <1>2 DEF ReaderInv, Receiving

\* The part of ReaderInv about the history.
LEMMA SoundStep ==
    ASSUME TypeOK, ReaderInv, [Next]_vars
    PROVE  (sound' \/ owed' = <<>>) /\ (sound' => Listening')
<1>1. CASE UNCHANGED <<sound, owed, pc>>
  BY <1>1 DEF ReaderInv, Listening, Receiving
<1>2. ASSUME sound' = FALSE, owed' = <<>>
      PROVE  (sound' \/ owed' = <<>>) /\ (sound' => Listening')
  BY <1>2
<1>3. ASSUME NEW f \in Frames, bus_send(f)
      PROVE  (sound' \/ owed' = <<>>) /\ (sound' => Listening')
  <2>1. sound' = ReaderReady /\ owed' = (IF sound' THEN Append(owed, f) ELSE <<>>)
        /\ pc' = pc
    BY <1>3 DEF bus_send, readerVars
  <2>2. ReaderReady => Listening
    BY DEF ReaderReady
  <2>3. Listening' = Listening
    BY <2>1 DEF Listening, Receiving
  <2>4. sound' => Listening'
    BY <2>1, <2>2, <2>3
  <2>5. sound' \/ owed' = <<>>
    BY <2>1
  <2> QED
    BY <2>4, <2>5
<1>4. ASSUME Listening', sound' = sound, owed = <<>> => owed' = <<>>
      PROVE  (sound' \/ owed' = <<>>) /\ (sound' => Listening')
  BY <1>4 DEF ReaderInv
<1>5. CASE Setup
  BY <1>1, <1>4, <1>5 DEF Setup, CreateSender, bus_create, bus_set_baud, history,
     readerVars, Listening, ReaderInv, Receiving
<1>6. CASE Restart
  BY <1>2, <1>6 DEF Restart, RestartSender, RestartReceiver, Disturb
<1>7. CASE Reader
  BY <1>4, <1>7 DEF Reader, Call, HuntByte, ReadByte, RecvTimeout, Return, Deliver,
     history, Listening, Receiving, Undisturbed
<1>8. CASE Tick
  BY <1>1, <1>2, <1>8 DEF Tick, Arrive, Fault, Silent, Undisturbed, Disturb
<1>9. CASE UNCHANGED vars
  BY <1>1, <1>9 DEF vars, history, readerVars
<1> QED
  BY <1>3, <1>5, <1>6, <1>7, <1>8, <1>9 DEF Next

\* The part about the bytes received and the time between two calls.
LEMMA ReaderStep == TypeOK /\ CallInv /\ ReaderInv /\ [Next]_vars => ReaderInv'
<1> SUFFICES ASSUME TypeOK, CallInv, ReaderInv, [Next]_vars
             PROVE  ReaderInv'
  OBVIOUS
<1> DEFINE Waits == /\ pc = "frame" => buf # <<>>
                    /\ Receiving => got = <<>>
                    /\ pc = "idle" => /\ limit \in {Pause, Startup}
                                      /\ Since(clock, start) <= limit
           Holds == Len(rx) <= RxSize
<1>1. SUFFICES Waits' /\ Holds'
  BY SoundStep DEF ReaderInv
<1>2. /\ Since(clock, clock) = 0 /\ 0 <= Pause /\ 0 <= Startup
      /\ Pause \in Nat /\ Startup \in Nat /\ RxSize \in Nat
  BY ClockFacts, UartAssumption
<1>3. ASSUME UNCHANGED <<pc, buf, got, clock, start, limit>>
      PROVE  Waits'
  BY <1>3 DEF ReaderInv, Receiving
<1>4. ASSUME rx' = rx \/ rx' = <<>> \/ (rx # <<>> /\ rx' = Tail(rx))
      PROVE  Holds'
  <2>1. rx \in Seq(Byte) /\ Len(rx) <= RxSize
    BY DEF TypeOK, ReaderInv
  <2>2. rx # <<>> => Len(Tail(rx)) <= RxSize
    BY <1>2, <2>1
  <2> QED
    BY <1>2, <1>4, <2>1, <2>2
<1>5. CASE Setup
  <2>1. CASE CreateSender
    BY <1>3, <1>4, <2>1 DEF CreateSender, readerVars
  <2>2. CASE bus_create
    BY <1>4, <2>2 DEF bus_create, Receiving
  <2>3. CASE bus_set_baud
    BY <1>2, <1>4, <2>3 DEF bus_set_baud, StartWait, Receiving
  <2> QED
    BY <1>5, <2>1, <2>2, <2>3 DEF Setup
<1>6. CASE Restart
  BY <1>3, <1>4, <1>6
     DEF Restart, RestartSender, RestartReceiver, readerVars, Receiving
<1>7. ASSUME NEW f \in Frames, bus_send(f)
      PROVE  Waits' /\ Holds'
  <2>1. UNCHANGED <<pc, buf, got, clock, start, limit, rx>>
    BY <1>7 DEF bus_send, readerVars
  <2> QED
    BY <1>3, <1>4, <2>1
<1>8. CASE Reader
  <2>1. CASE Call
    BY <1>4, <2>1 DEF Call, Receiving
  <2>2. CASE HuntByte
    BY <1>4, <2>2 DEF HuntByte, Receiving, ReaderInv
  <2>3. CASE ReadByte
    <3>1. Append(buf, Head(rx)) # <<>>
      <4>1. rx \in Seq(Byte) /\ rx # <<>> /\ buf \in Seq(Byte)
        BY <2>3 DEF TypeOK, ReadByte
      <4>2. Head(rx) \in Byte
        BY <4>1
      <4> QED
        BY <4>1, <4>2, Longer
    <3>2. CASE pc' = "idle"
      BY <1>2, <1>4, <2>3, <3>2
         DEF ReadByte, Deliver, Return, StartWait, Receiving
    <3>3. CASE pc' # "idle"
      BY <1>4, <2>3, <3>1, <3>3 DEF ReadByte, Deliver, Return, Receiving, ReaderInv
    <3> QED
      BY <3>2, <3>3
  <2>4. CASE RecvTimeout
    BY <1>2, <1>4, <2>4 DEF RecvTimeout, Return, StartWait, Receiving
  <2> QED
    BY <1>8, <2>1, <2>2, <2>3, <2>4 DEF Reader
<1>9. CASE Tick
  <2>1. UNCHANGED <<pc, buf, got, start, limit>> /\ clock' = NextMillis
    BY <1>9 DEF Tick
  <2>2. pc = "idle" => Since(clock', start') <= limit'
    <3> SUFFICES ASSUME pc = "idle"
                 PROVE  Since(clock', start') <= limit'
      OBVIOUS
    <3>1. ~(Since(clock, start) >= limit) /\ limit \in {Pause, Startup}
      BY <1>9 DEF Tick, Listening, TimeIsUp, ReaderInv
    <3>2. Since(NextMillis, start) = Since(clock, start) + 1
          /\ Since(clock, start) \in Nat
      BY <3>1, ClockFacts, UartAssumption
    <3> QED
      BY <1>2, <2>1, <3>1, <3>2
  <2>3. Waits'
    BY <2>1, <2>2 DEF ReaderInv, Receiving
  <2>4. \A b \in Byte : Len(Stored(b)) <= RxSize
    BY <1>2 DEF Stored, Missed, TypeOK, ReaderInv
  <2>5. Holds'
    <3>1. CASE Arrive
      BY <2>4, <3>1 DEF Arrive, TypeOK
    <3>2. CASE Fault
      BY <1>4, <2>4, <3>2, ConstantFacts DEF Fault
    <3>3. CASE Silent
      BY <1>4, <3>3 DEF Silent
    <3> QED
      BY <1>9, <3>1, <3>2, <3>3 DEF Tick
  <2> QED
    BY <2>3, <2>5
<1>10. CASE UNCHANGED vars
  BY <1>3, <1>4, <1>10 DEF vars, readerVars
<1> HIDE DEF Waits, Holds
<1> QED
  BY <1>5, <1>6, <1>7, <1>8, <1>9, <1>10 DEF Next

\* Time to read n bytes, in the worst case a call for each, and to give up.
Backlog(n) == n * Pause + Timeout + 1

LEMMA Backlogs ==
    /\ \A n \in Nat : /\ Backlog(n) \in Nat /\ Backlog(n + 1) = Backlog(n) + Pause
                      /\ Timeout + 1 <= Backlog(n)
    /\ \A n \in 0 .. RxSize : /\ Backlog(n) + Pause <= Quiet
                              /\ Backlog(n) + Startup <= Quiet
<1> DEFINE P == Pause
           R == RxSize
<1>1. P \in Nat /\ R \in Nat /\ Timeout \in Nat /\ Startup \in Nat /\ Quiet \in Nat
      /\ Quiet > Startup + (R + 1) * P + Timeout
  BY UartAssumption
<1> HIDE DEF P, R
<1>2. \A n \in Nat : n * P \in Nat /\ (n + 1) * P = n * P + P
  BY <1>1
<1>3. ASSUME NEW n \in 0 .. R
      PROVE  n * P <= R * P
  BY <1>1, <1>3
<1>4. Quiet >= Startup + (R * P + P) + Timeout + 1
  BY <1>1, <1>2
<1>5. ASSUME NEW n \in Nat
      PROVE  n * P + Timeout + 1 \in Nat /\ Timeout + 1 <= n * P + Timeout + 1
             /\ (n + 1) * P + Timeout + 1 = n * P + Timeout + 1 + P
  BY <1>1, <1>2
<1>6. ASSUME NEW n \in 0 .. R
      PROVE  /\ n * P + Timeout + 1 + P <= Quiet
             /\ n * P + Timeout + 1 + Startup <= Quiet
  <2>1. n * P \in Nat /\ R * P \in Nat /\ n * P <= R * P
    BY <1>1, <1>2, <1>3
  <2> QED
    BY <1>1, <1>4, <2>1
<1> QED
  BY <1>5, <1>6 DEF Backlog, P, R

\* Silent time the reader may still need until it is back in step.
StillNeeds ==
    IF rx = <<>>
    THEN IF pc = "frame" THEN Timeout + 1 - Since(clock, start) ELSE 0
    ELSE Backlog(Len(rx)) + IF pc = "idle" THEN limit - Since(clock, start)
                            ELSE IF TimeIsUp THEN Pause ELSE 0

DrainInv == Listening => silence + StillNeeds <= Quiet

\* It is never more than the silence that counts as one.
LEMMA NeedsAtMostQuiet ==
    TypeOK /\ CallInv /\ ReaderInv /\ Listening =>
        StillNeeds \in Int /\ StillNeeds <= Quiet
<1> SUFFICES ASSUME TypeOK, CallInv, ReaderInv, Listening
             PROVE  StillNeeds \in Int /\ StillNeeds <= Quiet
  OBVIOUS
<1> DEFINE d == Since(clock, start)
<1>1. /\ d \in Nat /\ Timeout \in Nat /\ Quiet \in Nat /\ Pause \in Nat
      /\ Startup \in Nat /\ RxSize \in Nat
  BY ClockFacts, UartAssumption
<1>2. Len(rx) \in 0 .. RxSize /\ Len(rx) \in Nat
  BY <1>1 DEF TypeOK, ReaderInv
<1>3. Backlog(Len(rx)) \in Nat /\ Backlog(Len(rx)) + Pause <= Quiet
      /\ Backlog(Len(rx)) + Startup <= Quiet /\ Timeout + 1 <= Backlog(Len(rx))
  BY <1>2, Backlogs
<1>4. pc = "idle" => limit \in {Pause, Startup}
  BY DEF ReaderInv
<1> DEFINE B == Backlog(Len(rx))
<1>5. CASE rx = <<>>
  <2>1. StillNeeds = IF pc = "frame" THEN Timeout + 1 - d ELSE 0
    BY <1>5 DEF StillNeeds
  <2>2. Timeout + 1 <= Quiet
    <3> HIDE DEF B, d
    <3> QED
      BY <1>1, <1>3 DEF B
  <2> HIDE DEF d
  <2> QED
    BY <1>1, <2>1, <2>2
<1>6. CASE rx # <<>>
  <2>1. StillNeeds = B + IF pc = "idle" THEN limit - d
                         ELSE IF TimeIsUp THEN Pause ELSE 0
    BY <1>6 DEF StillNeeds
  <2>2. B \in Nat /\ B + Pause <= Quiet /\ B + Startup <= Quiet
    BY <1>3
  <2> HIDE DEF B, d
  <2>3. CASE pc = "idle"
    <3>1. limit \in Nat /\ B + limit <= Quiet
      BY <1>1, <1>4, <2>2, <2>3
    <3> QED
      BY <1>1, <2>1, <2>2, <2>3, <3>1
  <2>4. CASE pc # "idle"
    BY <1>1, <2>1, <2>2, <2>4
  <2> QED
    BY <2>3, <2>4
<1> QED
  BY <1>5, <1>6

\* One byte less to read.
LEMMA OneByteRead ==
    ASSUME TypeOK, rx # <<>>
    PROVE  /\ Len(rx) \in Nat
           /\ Tail(rx) # <<>> => /\ Len(Tail(rx)) \in Nat
                                 /\ Backlog(Len(Tail(rx))) \in Nat
                                 /\ Backlog(Len(rx)) = Backlog(Len(Tail(rx))) + Pause
           /\ Backlog(Len(rx)) \in Nat /\ Timeout + 1 <= Backlog(Len(rx))
<1>1. Len(rx) \in Nat /\ Len(Tail(rx)) \in Nat /\ Len(rx) = Len(Tail(rx)) + 1
  BY DEF TypeOK
<1> QED
  BY <1>1, Backlogs

LEMMA DrainStep ==
    /\ TypeOK /\ CallInv /\ ReaderInv /\ DrainInv
    /\ TypeOK' /\ CallInv' /\ ReaderInv'
    /\ [Next]_vars
    => DrainInv'
<1>0. (TypeOK /\ CallInv /\ ReaderInv /\ Listening =>
          StillNeeds \in Int /\ StillNeeds <= Quiet)'
  BY NeedsAtMostQuiet, PTL
<1> SUFFICES ASSUME TypeOK, CallInv, ReaderInv, DrainInv, TypeOK', CallInv', ReaderInv',
                    [Next]_vars, Listening'
             PROVE  silence' + StillNeeds' <= Quiet
  BY DEF DrainInv
<1> DEFINE d == Since(clock, start)
           s == silence'
           n == StillNeeds'
<1>l. Listening => d <= limit
  BY DEF CallInv, ReaderInv, Listening
<1>1. /\ d \in Nat /\ Since(clock, clock) = 0
      /\ Timeout \in Nat /\ Timeout > 0 /\ Quiet \in Nat /\ Pause \in Nat
      /\ Startup \in Nat /\ silence \in Nat /\ silence <= Quiet
      /\ silence' \in Nat /\ silence' <= Quiet
      /\ limit \in Nat
  <2>1. d \in Nat /\ Since(clock, clock) = 0
    BY ClockFacts
  <2>2. /\ Timeout \in Nat /\ Timeout > 0 /\ Quiet \in Nat /\ Pause \in Nat
        /\ Startup \in Nat
    BY UartAssumption
  <2>3. silence \in Nat /\ silence <= Quiet /\ silence' \in Nat /\ silence' <= Quiet
    BY <2>2 DEF TypeOK
  <2>4. limit \in Nat
    BY <2>2 DEF TypeOK
  <2> QED
    BY <2>1, <2>2, <2>3, <2>4
<1>2. ASSUME Listening, UNCHANGED <<silence, rx, pc, clock, start, limit>>
      PROVE  silence' + StillNeeds' <= Quiet
  BY <1>2 DEF DrainInv, StillNeeds, TimeIsUp
<1>3. ASSUME rx' = <<>>, pc' # "frame"
      PROVE  silence' + StillNeeds' <= Quiet
  <2>1. n = 0
    BY <1>3 DEF StillNeeds
  <2>2. s \in Nat /\ s <= Quiet /\ Quiet \in Nat
    BY <1>1
  <2> HIDE DEF s, n
  <2>3. s + n <= Quiet
    BY <2>1, <2>2
  <2> QED
    BY <2>3 DEF s, n
<1>4. CASE Setup \/ Restart \/ UNCHANGED vars \/ \E f \in Frames : bus_send(f)
  <2>1. CASE CreateSender \/ RestartSender \/ UNCHANGED vars
               \/ \E f \in Frames : bus_send(f)
    <3>1. UNCHANGED <<silence, rx, pc, clock, start, limit>>
      BY <2>1 DEF CreateSender, RestartSender, bus_send, vars, readerVars
    <3>2. Listening
      BY <3>1 DEF Listening, Receiving
    <3> QED
      BY <1>2, <3>1, <3>2
  <2>2. CASE bus_create \/ RestartReceiver
    BY <2>2 DEF bus_create, RestartReceiver, Listening, Receiving
  <2>3. CASE bus_set_baud
    BY <1>3, <2>3 DEF bus_set_baud
  <2> QED
    BY <1>4, <2>1, <2>2, <2>3 DEF Setup, Restart
<1>5. CASE Reader
  <2>1. Listening /\ silence' = silence /\ clock' = clock
    BY <1>5 DEF Reader, Call, HuntByte, ReadByte, RecvTimeout, Listening, Receiving
  <2>2. silence + StillNeeds <= Quiet
    BY <2>1 DEF DrainInv
  <2> SUFFICES StillNeeds' <= StillNeeds
    <3>1. /\ StillNeeds \in Int /\ n \in Int /\ n <= StillNeeds
          /\ s = silence /\ s \in Nat /\ s + StillNeeds <= Quiet
      BY <1>0, <1>1, <2>1, <2>2, NeedsAtMostQuiet
    <3> HIDE DEF s, n
    <3>2. s + n <= Quiet
      BY <1>1, <3>1
    <3> QED
      BY <3>2 DEF s, n
  <2>3. CASE Call
    <3>1. pc = "idle" /\ pc' = "hunt" /\ start' = clock /\ limit' = Timeout /\ rx' = rx
      BY <2>3 DEF Call, StartWait
    <3>2. ~TimeIsUp'
      BY <1>1, <2>1, <3>1 DEF TimeIsUp
    <3>3. rx # <<>> => Backlog(Len(rx)) \in Nat
      BY OneByteRead
    <3>4. 0 <= limit - d
      BY <1>1, <1>l, <2>1
    <3> QED
      BY <1>1, <3>1, <3>2, <3>3, <3>4 DEF StillNeeds
  <2>4. CASE HuntByte
    <3>1. pc = "hunt" /\ rx # <<>> /\ rx' = Tail(rx)
      BY <2>4 DEF HuntByte
    <3>2. CASE Head(rx) = SOF
      BY <1>1, <2>1, <2>4, <3>1, <3>2, OneByteRead
         DEF HuntByte, StartWait, StillNeeds, TimeIsUp
    <3>3. CASE Head(rx) # SOF
      BY <1>1, <2>1, <2>4, <3>1, <3>3, OneByteRead
         DEF HuntByte, StillNeeds, TimeIsUp
    <3> QED
      BY <3>2, <3>3
  <2>5. CASE ReadByte
    <3>1. pc = "frame" /\ rx # <<>> /\ rx' = Tail(rx) /\ start' = clock
          /\ \/ pc' = "frame" /\ limit' = Timeout
             \/ pc' = "idle" /\ limit' = Pause
      BY <2>5 DEF ReadByte, StartWait, Return, Deliver
    <3> QED
      BY <1>1, <2>1, <3>1, OneByteRead DEF StillNeeds, TimeIsUp
  <2>6. CASE RecvTimeout
    <3>1. pc \in {"hunt", "frame"} /\ TimeIsUp /\ pc' = "idle" /\ start' = clock
          /\ limit' = Pause /\ rx' = rx
      BY <2>6 DEF RecvTimeout, Return, StartWait, Receiving
    <3>2. d <= limit /\ limit = Timeout
      BY <1>l, <2>1, <3>1 DEF CallInv, Receiving
    <3>3. rx # <<>> => Backlog(Len(rx)) \in Nat
      BY OneByteRead
    <3>4. 0 <= Timeout + 1 - d
      BY <1>1, <3>2
    <3> QED
      BY <1>1, <2>1, <3>1, <3>3, <3>4 DEF StillNeeds
  <2> QED
    BY <1>5, <2>3, <2>4, <2>5, <2>6 DEF Reader
<1>6. CASE Tick
  <2>1. UNCHANGED <<pc, start, limit>> /\ clock' = NextMillis
        /\ (Receiving => rx = <<>>) /\ (Listening => d < limit)
    BY <1>1, <1>l, <1>6 DEF Tick, TimeIsUp
  <2>2. Listening
    BY <2>1 DEF Listening, Receiving
  <2>3. CASE Arrive \/ Fault
    <3>1. s = 0
      BY <2>3 DEF Arrive, Fault
    <3>2. n \in Int /\ n <= Quiet
      BY <1>0
    <3> HIDE DEF s, n
    <3>3. s + n <= Quiet
      BY <1>1, <3>1, <3>2
    <3> QED
      BY <3>3 DEF s, n
  <2>4. CASE Silent
    <3>1. rx' = rx /\ silence' <= silence + 1
      BY <1>1, <2>4 DEF Silent
    <3>2. Since(clock', start') = d + 1
      <4>1. d + 1 < Wrap
        <5>1. d < limit /\ limit \in {Timeout, Pause, Startup}
          BY <2>1, <2>2 DEF TypeOK
        <5>2. limit < Wrap /\ Wrap \in Nat
          BY <5>1, UartAssumption
        <5> HIDE DEF d
        <5> QED
          BY <1>1, <5>1, <5>2
      <4> QED
        BY <2>1, <4>1, ClockFacts
    <3>3. silence + StillNeeds <= Quiet
      BY <2>2 DEF DrainInv
    <3>4. rx # <<>> => Backlog(Len(rx)) \in Nat
      BY OneByteRead
    <3>5. pc \in {"hunt", "frame"} => rx = <<>>
      BY <2>1 DEF Receiving
    <3>6. pc \in {"idle", "hunt", "frame"}
      BY <2>2 DEF Listening, Receiving
    <3>7. silence' + StillNeeds' <= silence + StillNeeds \/ StillNeeds' = 0
      <4>1. CASE rx = <<>>
        BY <1>1, <2>1, <3>1, <3>2, <4>1 DEF StillNeeds
      <4>2. CASE rx # <<>>
        <5>1. pc = "idle"
          BY <3>5, <3>6, <4>2
        <5> QED
          BY <1>1, <2>1, <3>1, <3>2, <3>4, <4>2, <5>1 DEF StillNeeds
      <4> QED
        BY <4>1, <4>2
    <3>8. /\ s \in Nat /\ s <= Quiet /\ n \in Int
          /\ s + n <= silence + StillNeeds \/ n = 0
      BY <1>0, <1>1, <3>7
    <3> HIDE DEF s, n
    <3>9. s + n <= Quiet
      BY <1>1, <3>3, <3>8, NeedsAtMostQuiet, <2>2
    <3> QED
      BY <3>9 DEF s, n
  <2> QED
    BY <1>6, <2>3, <2>4 DEF Tick
<1> QED
  BY <1>4, <1>5, <1>6 DEF Next

\* A link in step again: nothing is under way, in the wire, the buffer or bus_recv.
LEMMA SilenceDrains ==
    ASSUME TypeOK, CallInv, ReaderInv, DrainInv, ReaderReady, ~sound
    PROVE  rx = <<>> /\ line = <<>> /\ buf = <<>> /\ pc # "frame"
<1> DEFINE d == Since(clock, start)
<1>1. Listening /\ line = <<>> /\ silence = Quiet
  BY DEF ReaderReady
<1>2. StillNeeds \in Int /\ silence + StillNeeds <= Quiet
  BY <1>1, NeedsAtMostQuiet DEF DrainInv
<1>3. StillNeeds <= 0
  BY <1>1, <1>2, ConstantFacts
<1>4. /\ d \in Nat /\ Timeout \in Nat /\ Pause \in Nat
      /\ limit \in Nat
  BY ClockFacts, UartAssumption DEF TypeOK
<1>5. /\ pc = "idle" => d <= limit
      /\ pc = "frame" => d <= Timeout
  BY DEF CallInv, ReaderInv, Receiving
<1>6. rx # <<>> => Backlog(Len(rx)) \in Nat /\ Timeout + 1 <= Backlog(Len(rx))
  BY OneByteRead
<1> HIDE DEF d
<1>7. rx = <<>>
  BY <1>3, <1>4, <1>5, <1>6 DEF StillNeeds, d
<1>8. pc # "frame"
  BY <1>3, <1>4, <1>5, <1>7 DEF StillNeeds, d
<1> QED
  BY <1>1, <1>7, <1>8 DEF CallInv

-----------------------------------------------------------------------------
(* A sound link carries frames and nothing else.                            *)

\* From the frame bus_recv is reading to the byte sent last.
Stream == buf \o rx \o line

\* The byte after the one read last is here within a byte time.
NextIsHere == Since(clock, start) = 0 \/ (Since(clock, start) = 1 /\ rx # <<>>)

StreamInv ==
    sound => /\ Framed(Stream, owed)
             /\ buf # <<>> => Len(buf) < Len(proto_finalize(Head(owed)))
             /\ pc = "frame" => NextIsHere

\* The next byte, if one was received, is one more of the first frame.
LEMMA NextByte ==
    ASSUME TypeOK, StreamInv, sound, rx # <<>>
    PROVE  LET b == proto_finalize(Head(owed))
               bytes == Append(buf, Head(rx))
           IN  /\ owed # <<>> /\ Head(owed) \in Frames
               /\ bytes \in Seq(Byte) /\ Len(bytes) = Len(buf) + 1
               /\ Len(bytes) <= Len(b)
               /\ \A i \in 1 .. Len(bytes) : bytes[i] = b[i]
<1> DEFINE b == proto_finalize(Head(owed))
           bytes == Append(buf, Head(rx))
<1>1. /\ buf \in Seq(Byte) /\ rx \in Seq(Byte) /\ line \in Seq(Byte)
      /\ owed \in Seq(WireFrame)
  BY DEF TypeOK
<1>2. /\ Stream \in Seq(Byte) /\ Stream # <<>>
      /\ bytes \in Seq(Byte) /\ Len(bytes) = Len(buf) + 1
      /\ Len(bytes) <= Len(Stream)
      /\ \A i \in 1 .. Len(bytes) : Stream[i] = bytes[i]
  BY <1>1 DEF Stream
<1>3. Framed(Stream, owed) /\ (buf # <<>> => Len(buf) < Len(b))
  BY DEF StreamInv
<1>4. owed # <<>>
  BY <1>2, <1>3, NoBytes
<1>5. /\ Head(owed) \in Frames /\ Len(b) <= Len(Stream)
      /\ \A i \in 1 .. Len(b) : Stream[i] = b[i]
  BY <1>1, <1>2, <1>3, <1>4, FirstFrame
<1>6. b \in Seq(Byte) /\ Len(b) > 4
  BY <1>5, FrameBytes DEF HEADER
<1> HIDE DEF b, bytes
<1>7. Len(bytes) <= Len(b)
  BY <1>1, <1>2, <1>3, <1>6
<1>8. \A i \in 1 .. Len(bytes) : bytes[i] = b[i]
  BY <1>2, <1>5, <1>6, <1>7
<1> QED
  BY <1>2, <1>4, <1>5, <1>7, <1>8 DEF b, bytes

\* So bus_recv refuses none, and stops exactly at its end.
LEMMA FrameIsRead ==
    ASSUME TypeOK, StreamInv, sound, rx # <<>>
    PROVE  LET b == proto_finalize(Head(owed))
               bytes == Append(buf, Head(rx))
           IN  /\ ~TooLong(bytes)
               /\ Complete(bytes) <=> bytes = b
               /\ ~Complete(bytes) => Len(bytes) < Len(b)
               /\ Complete(bytes) => proto_is_valid(bytes) /\ Decoded(bytes) = Head(owed)
<1> DEFINE b == proto_finalize(Head(owed))
           bytes == Append(buf, Head(rx))
<1>1. /\ Head(owed) \in Frames /\ bytes \in Seq(Byte) /\ Len(bytes) <= Len(b)
      /\ \A i \in 1 .. Len(bytes) : bytes[i] = b[i]
  BY NextByte
<1>2. /\ b \in Seq(Byte) /\ Len(b) > HEADER
      /\ b[HEADER] \in Nat /\ b[HEADER] <= MAX_PAYLOAD_SIZE
      /\ Len(b) = HEADER + b[HEADER] + 1
      /\ proto_is_valid(b) /\ Decoded(b) = Head(owed)
  BY <1>1, FrameBytes
<1> HIDE DEF b, bytes
<1>3. Len(bytes) >= HEADER => bytes[HEADER] = b[HEADER]
  BY <1>1, <1>2 DEF HEADER
<1>4. ~TooLong(bytes)
  BY <1>1, <1>2, <1>3 DEF TooLong, HEADER, MAX_PAYLOAD_SIZE
<1>5. Complete(bytes) => Len(bytes) = Len(b)
  BY <1>1, <1>2, <1>3 DEF Complete, HEADER
<1>6. Len(bytes) = Len(b) => bytes = b
  BY <1>1, <1>2, SameSequence
<1>7. bytes = b => Complete(bytes)
  BY <1>2 DEF Complete
<1>8. ~Complete(bytes) => Len(bytes) < Len(b)
  BY <1>1, <1>2, <1>6, <1>7
<1> QED
  BY <1>2, <1>4, <1>5, <1>6, <1>7, <1>8 DEF b, bytes

\* A byte moves on, and the stream stays the same.
LEMMA ByteMoves ==
    ASSUME NEW s \in Seq(Byte), NEW t \in Seq(Byte), NEW u \in Seq(Byte), t # <<>>
    PROVE  /\ Append(s, Head(t)) \o Tail(t) \o u = s \o t \o u
           /\ u \o Append(s, Head(t)) \o Tail(t) = u \o s \o t
<1>1. Append(s, Head(t)) \o Tail(t) = s \o t
  <2> DEFINE v == Append(s, Head(t)) \o Tail(t)
             w == s \o t
  <2>1. v \in Seq(Byte) /\ w \in Seq(Byte) /\ Len(v) = Len(w)
        /\ \A i \in 1 .. Len(v) : v[i] = w[i]
    OBVIOUS
  <2> HIDE DEF v, w
  <2>2. v = w
    BY <2>1, SameSequence
  <2> QED
    BY <2>2 DEF v, w
<1>2. u \o Append(s, Head(t)) \o Tail(t) = u \o (Append(s, Head(t)) \o Tail(t))
  <2> DEFINE a == Append(s, Head(t))
             b == Tail(t)
             v == u \o a \o b
             w == u \o (a \o b)
  <2>1. a \in Seq(Byte) /\ b \in Seq(Byte)
    OBVIOUS
  <2> HIDE DEF a, b
  <2>2. v \in Seq(Byte) /\ w \in Seq(Byte) /\ Len(v) = Len(w)
        /\ \A i \in 1 .. Len(v) : v[i] = w[i]
    BY <2>1
  <2> HIDE DEF v, w
  <2>3. v = w
    BY <2>2, SameSequence
  <2> QED
    BY <2>3 DEF v, w, a, b
<1>3. u \o s \o t = u \o (s \o t)
  <2> DEFINE v == u \o s \o t
             w == u \o (s \o t)
  <2>1. v \in Seq(Byte) /\ w \in Seq(Byte) /\ Len(v) = Len(w)
        /\ \A i \in 1 .. Len(v) : v[i] = w[i]
    OBVIOUS
  <2> HIDE DEF v, w
  <2>2. v = w
    BY <2>1, SameSequence
  <2> QED
    BY <2>2 DEF v, w
<1> QED
  BY <1>1, <1>2, <1>3

LEMMA StreamStep ==
    /\ TypeOK /\ CallInv /\ ReaderInv /\ DrainInv /\ StreamInv
    /\ [Next]_vars
    => StreamInv'
<1> SUFFICES ASSUME TypeOK, CallInv, ReaderInv, DrainInv, StreamInv, [Next]_vars, sound'
             PROVE  /\ Framed(Stream', owed')
                    /\ buf' # <<>> => Len(buf') < Len(proto_finalize(Head(owed')))
                    /\ pc' = "frame" => NextIsHere'
  BY DEF StreamInv
<1> DEFINE Good == /\ Framed(Stream, owed)
                   /\ buf # <<>> => Len(buf) < Len(proto_finalize(Head(owed)))
                   /\ pc = "frame" => NextIsHere
<1>1. /\ buf \in Seq(Byte) /\ rx \in Seq(Byte) /\ line \in Seq(Byte)
      /\ owed \in Seq(WireFrame)
      /\ Stream = buf \o rx \o line
  BY DEF TypeOK, Stream
<1>2. sound => Good
  BY DEF StreamInv
<1>3. Since(clock, clock) = 0
  BY ClockFacts
<1>4. ASSUME UNCHANGED <<sound, buf, rx, line, owed, pc, clock, start>>
      PROVE  Good'
  BY <1>2, <1>4 DEF Stream, NextIsHere
<1>5. CASE Setup
  <2>1. CASE CreateSender \/ bus_create
    <3>1. \/ sound' = sound /\ pc' # "frame"
          \/ UNCHANGED <<sound, pc, clock, start, rx>>
      BY <2>1 DEF CreateSender, bus_create, readerVars, history
    <3>2. UNCHANGED <<sound, buf, rx, line, owed, clock, start>>
      BY <2>1 DEF CreateSender, bus_create, readerVars, history
    <3> QED
      BY <1>2, <3>1, <3>2 DEF Stream, NextIsHere
  <2>2. CASE bus_set_baud
    <3>1. ~sound
      BY <2>2 DEF bus_set_baud, ReaderInv, Listening, Receiving
    <3> QED
      BY <2>2, <3>1 DEF bus_set_baud, history
  <2> QED
    BY <1>5, <2>1, <2>2 DEF Setup
<1>6. CASE Restart
  BY <1>6 DEF Restart, RestartSender, RestartReceiver, Disturb
<1>7. ASSUME NEW f \in Frames, bus_send(f)
      PROVE  Good'
  <2> DEFINE b == proto_finalize(f)
  <2>1. /\ line' = line \o b /\ sound' = ReaderReady /\ owed' = Append(owed, f)
        /\ UNCHANGED <<rx, buf, pc, clock, start>>
    BY <1>7 DEF bus_send, readerVars
  <2>2. b \in Seq(Byte)
    BY FrameBytes
  <2>3. Stream' = Stream \o b /\ Stream \in Seq(Byte)
    <3> DEFINE v == buf \o rx \o (line \o b)
               w == (buf \o rx \o line) \o b
    <3> HIDE DEF b
    <3>1. v \in Seq(Byte) /\ w \in Seq(Byte) /\ Len(v) = Len(w)
          /\ \A i \in 1 .. Len(v) : v[i] = w[i]
      BY <1>1, <2>2
    <3> HIDE DEF v, w
    <3>2. v = w
      BY <3>1, SameSequence
    <3>3. buf \o rx \o line \in Seq(Byte)
      BY <1>1
    <3> QED
      BY <2>1, <3>2, <3>3 DEF v, w, Stream
  <2>4. Framed(Stream, owed) /\ (~sound => buf = <<>> /\ pc # "frame")
    <3>1. CASE sound
      BY <1>2, <3>1
    <3>2. CASE ~sound
      <4>1. rx = <<>> /\ line = <<>> /\ buf = <<>> /\ pc # "frame"
        BY <2>1, <3>2, SilenceDrains
      <4>2. owed = <<>> /\ Stream = <<>>
        BY <3>2, <4>1 DEF ReaderInv, Stream
      <4> QED
        BY <4>1, <4>2, NoFrames
    <3> QED
      BY <3>1, <3>2
  <2>5. Framed(Stream', owed')
    BY <1>1, <2>1, <2>3, <2>4, OneMoreFrame
  <2>6. buf' # <<>> => Len(buf') < Len(proto_finalize(Head(owed')))
    <3> SUFFICES ASSUME buf # <<>>
                 PROVE  Len(buf) < Len(proto_finalize(Head(owed')))
      BY <2>1
    <3>1. sound /\ Len(buf) < Len(proto_finalize(Head(owed)))
      BY <1>2, <2>4
    <3>2. owed # <<>>
      <4>1. Stream # <<>>
        BY <1>1
      <4> QED
        BY <2>3, <2>4, <4>1, NoBytes
    <3>3. Head(owed') = Head(owed)
      BY <1>1, <2>1, <3>2
    <3> QED
      BY <3>1, <3>3
  <2> QED
    BY <1>2, <2>1, <2>4, <2>5, <2>6 DEF NextIsHere
<1>8. CASE Call
  <2>1. UNCHANGED <<sound, buf, rx, line, owed>> /\ pc' # "frame"
    BY <1>8 DEF Call, history
  <2> QED
    BY <1>2, <2>1 DEF Stream
<1>9. CASE HuntByte
  <2> DEFINE b == proto_finalize(Head(owed))
  <2>1. /\ pc = "hunt" /\ rx # <<>> /\ rx' = Tail(rx)
        /\ UNCHANGED <<sound, line, owed, clock>>
    BY <1>9 DEF HuntByte, history
  <2>2. buf = <<>>
    BY <2>1 DEF CallInv
  <2>3. /\ Head(owed) \in Frames
        /\ Append(buf, Head(rx))[1] = b[1]
    BY <2>1, <2>2, NextByte
  <2>4. b \in Seq(Byte) /\ Len(b) > 4 /\ b[1] = SOF
    BY <2>3, FrameBytes DEF HEADER
  <2>5. Head(rx) = SOF
    BY <2>2, <2>3, <2>4
  <2>6. pc' = "frame" /\ buf' = <<SOF>> /\ start' = clock
    BY <1>9, <2>5 DEF HuntByte, StartWait
  <2>7. buf' = Append(buf, Head(rx)) /\ Len(buf') = 1
    BY <2>2, <2>5, <2>6
  <2>8. Stream' = Stream
    BY <1>1, <2>1, <2>7, ByteMoves DEF Stream
  <2>9. Since(clock', start') = 0
    BY <1>3, <2>1, <2>6
  <2>10. Framed(Stream', owed') /\ b = proto_finalize(Head(owed'))
    BY <1>2, <2>1, <2>8
  <2> HIDE DEF b
  <2>11. Len(buf') < Len(b)
    BY <2>4, <2>7
  <2>12. Len(buf') < Len(proto_finalize(Head(owed')))
    BY <2>10, <2>11, Zenon
  <2> QED
    BY <2>9, <2>10, <2>12, Zenon DEF NextIsHere
<1>10. CASE ReadByte
  <2> DEFINE b == proto_finalize(Head(owed))
             bytes == Append(buf, Head(rx))
  <2>1. pc = "frame" /\ rx # <<>> /\ rx' = Tail(rx) /\ sound
        /\ UNCHANGED <<line, clock>>
    BY <1>10 DEF ReadByte, Undisturbed, Deliver
  <2>2. /\ ~TooLong(bytes)
        /\ Complete(bytes) <=> bytes = b
        /\ ~Complete(bytes) => Len(bytes) < Len(b)
        /\ Complete(bytes) => proto_is_valid(bytes)
    BY <2>1, FrameIsRead
  <2>3. CASE ~Complete(bytes)
    <3>1. buf' = bytes /\ start' = clock /\ owed' = owed
      BY <1>10, <2>2, <2>3 DEF ReadByte, StartWait, Undisturbed
    <3>2. Stream' = Stream
      BY <1>1, <2>1, <3>1, ByteMoves DEF Stream
    <3>3. Since(clock', start') = 0
      BY <1>3, <2>1, <3>1
    <3>4. Framed(Stream', owed') /\ b = proto_finalize(Head(owed'))
      BY <1>2, <2>1, <3>1, <3>2
    <3>5. Len(buf') < Len(b)
      BY <2>2, <2>3, <3>1
    <3> HIDE DEF b
    <3>6. Len(buf') < Len(proto_finalize(Head(owed')))
      BY <3>4, <3>5, Zenon
    <3> QED
      BY <3>3, <3>4, <3>6, Zenon DEF NextIsHere
  <2>4. CASE Complete(bytes)
    <3>1. owed # <<>>
      BY <2>1, NextByte
    <3>2. buf' = <<>> /\ pc' = "idle" /\ owed' = Tail(owed)
      BY <1>10, <2>2, <2>4, <3>1 DEF ReadByte, Deliver, Return
    <3>3. bytes = b /\ bytes \in Seq(Byte) /\ Tail(rx) \in Seq(Byte)
      BY <1>1, <2>1, <2>2, <2>4, NextByte
    <3>4. Stream' = Tail(rx) \o line
      BY <1>1, <2>1, <3>2, <3>3 DEF Stream
    <3>5. Stream = bytes \o Tail(rx) \o line
      BY <1>1, <2>1, ByteMoves
    <3>6. /\ Stream \in Seq(Byte) /\ Stream' \in Seq(Byte)
          /\ Len(Stream) = Len(bytes) + Len(Stream') /\ Len(bytes) \in Nat
          /\ \A i \in 1 .. Len(Stream') : Stream'[i] = Stream[Len(bytes) + i]
      <4> HIDE DEF bytes
      <4> QED
        BY <1>1, <3>3, <3>4, <3>5
    <3>7. Framed(Stream', Tail(owed))
      <4> HIDE DEF bytes
      <4>1. Len(bytes) = Len(proto_finalize(Head(owed))) /\ Framed(Stream, owed)
        BY <1>2, <2>1, <3>3
      <4> QED
        BY <1>1, <3>1, <3>6, <4>1, RestOfFrames
    <3> QED
      BY <3>2, <3>7
  <2> QED
    BY <2>3, <2>4
<1>11. CASE RecvTimeout
  <2>1. /\ pc \in {"hunt", "frame"} /\ Since(clock, start) >= Timeout
        /\ pc' = "idle" /\ buf' = <<>> /\ UNCHANGED <<sound, rx, line, owed>>
    BY <1>11 DEF RecvTimeout, Return, Receiving, TimeIsUp, CallInv, history
  <2>2. pc # "frame"
    BY <1>2, <2>1, UartAssumption DEF NextIsHere
  <2>3. buf = <<>>
    BY <2>2 DEF CallInv
  <2> QED
    BY <1>2, <2>1, <2>3 DEF Stream
<1>12. CASE Tick
  <2>1. UNCHANGED <<pc, buf, start>> /\ clock' = NextMillis /\ (Receiving => rx = <<>>)
    BY <1>12 DEF Tick
  <2>2. ~Fault
    BY DEF Fault, Disturb
  <2>3. (Arrive /\ ~Missed) \/ Silent
    BY <1>12, <2>2 DEF Tick, Arrive, Disturb
  <2>4. UNCHANGED <<sound, owed>>
    BY <2>3 DEF Arrive, Silent, Undisturbed
  <2>5. Stream' = Stream /\ (Arrive => rx' # <<>>)
    <3>1. CASE Arrive /\ ~Missed
      <4>1. line # <<>> /\ line' = Tail(line) /\ rx' = Append(rx, Head(line))
        BY <3>1 DEF Arrive, Stored
      <4>2. buf \o Append(rx, Head(line)) \o Tail(line) = buf \o rx \o line
        BY <1>1, <4>1, ByteMoves
      <4>3. Append(rx, Head(line)) # <<>>
        <5>1. Head(line) \in Byte
          BY <1>1, <4>1
        <5>2. Len(Append(rx, Head(line))) = Len(rx) + 1 /\ Len(rx) \in Nat
          BY <1>1, <5>1
        <5>3. Len(<<>>) = 0
          OBVIOUS
        <5> QED
          BY <5>2, <5>3
      <4> QED
        BY <2>1, <4>1, <4>2, <4>3 DEF Stream
    <3>2. CASE Silent
      BY <2>1, <3>2 DEF Stream, Silent, Arrive
    <3> QED
      BY <2>3, <3>1, <3>2
  <2>6. pc = "frame" => Since(clock', start') = 1 /\ rx' # <<>>
    <3> SUFFICES ASSUME pc = "frame"
                 PROVE  Since(clock', start') = 1 /\ rx' # <<>>
      OBVIOUS
    <3>1. rx = <<>> /\ Since(clock, start) = 0 /\ buf # <<>>
      BY <1>2, <2>1, <2>4 DEF NextIsHere, Receiving, ReaderInv
    <3>2. Since(clock', start') = 1
      BY <2>1, <3>1, ClockFacts, UartAssumption
    <3>3. ~Silent
      <4> SUFFICES ASSUME line = <<>>
                   PROVE  FALSE
        BY DEF Silent
      <4>1. Stream = buf /\ Stream # <<>>
        BY <1>1, <3>1
      <4>2. Framed(Stream, owed) /\ Len(buf) < Len(proto_finalize(Head(owed)))
        BY <1>2, <2>4, <3>1
      <4>3. owed # <<>>
        BY <1>1, <4>1, <4>2, NoBytes
      <4>4. Head(owed) \in Frames /\ Len(proto_finalize(Head(owed))) <= Len(Stream)
        BY <1>1, <4>1, <4>2, <4>3, FirstFrame
      <4>5. proto_finalize(Head(owed)) \in Seq(Byte)
        BY <4>4, FrameBytes
      <4> QED
        BY <1>1, <4>1, <4>2, <4>4, <4>5
    <3> QED
      BY <2>3, <2>5, <3>2, <3>3
  <2> QED
    BY <1>2, <2>1, <2>4, <2>5, <2>6 DEF NextIsHere
<1>13. CASE UNCHANGED vars
  BY <1>4, <1>13 DEF vars, readerVars, history
<1> QED
  BY <1>5, <1>6, <1>7, <1>8, <1>9, <1>10, <1>11, <1>12, <1>13 DEF Next, Reader

-----------------------------------------------------------------------------
(* The link implements FrameChannel.                                        *)

\* Every step is one of the abstract channel, or none for it.
LEMMA ChannelStep ==
    /\ TypeOK /\ CallInv /\ ReaderInv /\ StreamInv
    /\ [Next]_vars
    => [Channel!Next]_(Channel!vars)
<1> SUFFICES ASSUME TypeOK, CallInv, ReaderInv, StreamInv, [Next]_vars
             PROVE  Channel!Next \/ UNCHANGED <<sound, owed, got>>
  BY DEF Channel!vars
<1>1. sound \/ owed = <<>>
  BY DEF ReaderInv
<1>2. ASSUME sound' = FALSE, owed' = <<>>, got' \in {got, <<>>}
      PROVE  Channel!Next
  BY <1>2 DEF Channel!Next, Channel!Disturb
<1>3. CASE Setup \/ UNCHANGED vars
  BY <1>3 DEF Setup, CreateSender, bus_create, bus_set_baud, vars, history, readerVars
<1>4. CASE Restart
  <2>1. sound' = FALSE /\ owed' = <<>> /\ got' \in {got, <<>>}
    BY <1>4 DEF Restart, RestartSender, RestartReceiver, Disturb, readerVars
  <2> QED
    BY <1>2, <2>1
<1>5. ASSUME NEW f \in Frames, bus_send(f)
      PROVE  Channel!Next
  <2>1. /\ sound' = ReaderReady /\ got' = got
        /\ owed' = (IF sound' THEN Append(owed, f) ELSE <<>>)
    BY <1>5 DEF bus_send, readerVars
  <2>2. sound => ReaderReady
    BY DEF ReaderReady, ReaderInv
  <2>3. sound' \in {sound, TRUE}
    BY <2>1, <2>2 DEF TypeOK, ReaderReady, Listening, Receiving
  <2>4. ~sound' => owed = <<>>
    BY <1>1, <2>1, <2>2
  <2>5. owed' = IF sound' THEN Append(owed, f) ELSE owed
    BY <2>1, <2>4
  <2>6. Channel!Send(f)
    BY <2>1, <2>3, <2>5 DEF Channel!Send
  <2> QED
    BY <2>6 DEF Channel!Next
<1>6. CASE Call
  <2>1. got' = <<>> /\ UNCHANGED <<sound, owed>>
    BY <1>6 DEF Call, history
  <2>2. got # <<>> => Channel!Call
    BY <2>1 DEF Channel!Call
  <2> QED
    BY <2>1, <2>2 DEF Channel!Next
<1>7. CASE HuntByte
  BY <1>7 DEF HuntByte, history
<1>8. CASE ReadByte
  <2> DEFINE bytes == Append(buf, Head(rx))
  <2>1. rx # <<>> /\ got = <<>>
    BY <1>8 DEF ReadByte, ReaderInv, Receiving
  <2>2. CASE ~(Complete(bytes) /\ proto_is_valid(bytes))
    BY <1>8, <2>1, <2>2 DEF ReadByte, Undisturbed, Return
  <2>3. CASE Complete(bytes) /\ proto_is_valid(bytes)
    <3>1. CASE sound
      <4>1. ~TooLong(bytes) /\ Decoded(bytes) = Head(owed) /\ owed # <<>>
        BY <2>1, <2>3, <3>1, FrameIsRead, NextByte
      <4>2. sound' = sound /\ got' = <<Head(owed)>> /\ owed' = Tail(owed)
        BY <1>8, <2>3, <4>1 DEF ReadByte, Deliver, Return
      <4>3. Channel!Deliver
        BY <2>1, <4>1, <4>2 DEF Channel!Deliver
      <4> QED
        BY <4>3 DEF Channel!Next
    <3>2. CASE ~sound
      <4>1. UNCHANGED <<sound, owed>>
        BY <1>1, <1>8, <3>2 DEF ReadByte, Deliver, Undisturbed
      <4>2. got' = got \/ got' # <<>>
        BY <1>8, <2>1 DEF ReadByte, Deliver, Return
      <4>3. got' # <<>> => Channel!DeliverAnything
        BY <2>1, <3>2, <4>1 DEF Channel!DeliverAnything
      <4> QED
        BY <4>1, <4>2, <4>3, <2>1 DEF Channel!Next
    <3> QED
      BY <3>1, <3>2
  <2> QED
    BY <2>2, <2>3
<1>9. CASE RecvTimeout
  <2>1. got' = <<>> /\ UNCHANGED <<sound, owed>> /\ Receiving
    BY <1>9 DEF RecvTimeout, Return, history
  <2> QED
    BY <2>1 DEF ReaderInv
<1>10. CASE Tick
  <2>1. got' = got
    BY <1>10 DEF Tick
  <2>2. (sound' = FALSE /\ owed' = <<>>) \/ UNCHANGED <<sound, owed>>
    BY <1>10 DEF Tick, Arrive, Fault, Silent, Disturb, Undisturbed
  <2> QED
    BY <1>2, <2>1, <2>2
<1> QED
  BY <1>3, <1>4, <1>5, <1>6, <1>7, <1>8, <1>9, <1>10 DEF Next, Reader

(***************************************************************************)
(* The safety of FrameChannel for every set of frames, every disturbance   *)
(* and every clock: a frame sent after a silence, and those that follow it *)
(* until the next disturbance, are handed over whole, in order and once.   *)
(* The parser needs no marker that cannot occur inside a frame for this,   *)
(* only the silence, because it never gives up a frame that is arriving.   *)
(***************************************************************************)
THEOREM FramesKeepTheirOrder == Spec => WholeFramesInOrder
<1>1. Init => /\ TypeOK /\ CallInv /\ ReaderInv /\ DrainInv /\ StreamInv
              /\ Channel!Init
  <2> SUFFICES ASSUME Init
               PROVE  CallInv /\ DrainInv /\ StreamInv /\ Channel!Init
    BY InitType, InitReader
  <2>1. pc = "boot" /\ sound = FALSE /\ owed = <<>> /\ got = <<>>
        /\ elapsed = 0 /\ buf = <<>>
    BY DEF Init
  <2> QED
    BY <2>1 DEF CallInv, DrainInv, StreamInv, Receiving, Listening, Channel!Init
<1>2. /\ TypeOK /\ CallInv /\ ReaderInv /\ DrainInv /\ StreamInv
      /\ [Next]_vars
      => /\ (TypeOK /\ CallInv /\ ReaderInv /\ DrainInv /\ StreamInv)'
         /\ [Channel!Next]_(Channel!vars)
  BY TypeStep, CallStep, ReaderStep, DrainStep, StreamStep, ChannelStep
<1> QED
  BY <1>1, <1>2, PTL DEF Spec, WholeFramesInOrder, Channel!Safety
=============================================================================
