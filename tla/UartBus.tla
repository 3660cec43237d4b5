------------------------------- MODULE UartBus -------------------------------
(***************************************************************************)
(* Two boards on a serial wire: a UNO R4 that sends (bus_uno_r4.c) and a   *)
(* UNO that receives (bus_arduino.c); the other direction has a wire of    *)
(* its own and the same code.  Time is counted in the time of one byte.    *)
(*                                                                         *)
(* bus_recv is its byte loop: hunting for a SOF, then reading the rest of  *)
(* the frame, each byte with a timeout of its own.  The wire may lose or   *)
(* change a byte or invent one, and either board may restart.              *)
(***************************************************************************)
EXTENDS WireFormat

CONSTANTS
    Frames,      \* frames the sender may send
    BadBytes,    \* what a disturbed byte may look like
    Timeout,     \* timeout_ms (50 ms)
    Pause,       \* longest time between two bus_recv calls
    Startup,     \* hal_delay of node_begin (index * 150 ms)
    Wrap,        \* hal_millis wraps to 0 here (2^32)
    RxSize,      \* bytes the serial receive buffer holds (64)
    Quiet,       \* a silence after which the reader has drained its buffer
    MaxSends,    \* bound on frames sent
    MaxFaults    \* bound on disturbed bytes and restarts

ASSUME UartAssumption ==
    /\ Frames \subseteq WireFrame
    /\ \A f \in Frames : Len(f.payload) <= MAX_PAYLOAD_SIZE
    /\ BadBytes \subseteq Byte
    /\ Timeout \in Nat /\ Timeout > 1
    /\ Pause \in Nat /\ Startup \in Nat
    /\ Wrap \in Nat
    /\ Timeout < Wrap /\ Pause < Wrap /\ Startup < Wrap
    /\ RxSize \in Nat
    /\ Quiet \in Nat /\ Quiet > Startup + (RxSize + 1) * Pause + Timeout
    /\ MaxSends \in Nat /\ MaxFaults \in Nat

VARIABLES
    tx,         \* the sender: "boot", "up", or "halted" in setup()
    line,       \* bytes written and not yet arrived
    silence,    \* time since the line carried a byte, up to Quiet
    rx,         \* bytes in the receiver's serial buffer
    pc,         \* the receiver: in setup(), between calls, or in bus_recv
    buf,        \* bytes of the frame bus_recv is reading
    clock,      \* hal_millis of the receiver
    start,      \* hal_millis when the current wait began
    limit,      \* how long it may last
    elapsed,    \* history: how long the current bus_recv has taken
    got,        \* what the last bus_recv returned: <<>> or <<frame>>
    sound,      \* history: no disturbance since the last silence
    owed,       \* history: frames sent since then and not delivered
    sends,      \* frames sent so far
    faults      \* disturbances so far

readerVars == <<pc, buf, start, limit, elapsed, got>>
history == <<sound, owed, sends, faults>>
vars == <<tx, line, silence, rx, clock, readerVars, history>>

Receiving == pc \in {"hunt", "frame"}

\* setup() has opened the port.
Listening == pc = "idle" \/ Receiving

TypeOK ==
    /\ tx \in {"boot", "up", "halted"}
    /\ line \in Seq(Byte) /\ rx \in Seq(Byte) /\ buf \in Seq(Byte)
    /\ silence \in 0 .. Quiet
    /\ pc \in {"boot", "created", "halted", "idle", "hunt", "frame"}
    /\ clock \in 0 .. (Wrap - 1) /\ start \in 0 .. (Wrap - 1)
    /\ limit \in {Timeout, Pause, Startup} /\ elapsed \in Nat
    /\ sends \in Nat /\ faults \in Nat
    /\ sound \in BOOLEAN
    /\ owed \in Seq(WireFrame)

Init ==
    /\ tx = "boot" /\ pc = "boot"
    /\ line = <<>> /\ rx = <<>> /\ buf = <<>>
    /\ silence = Quiet
    /\ clock = 0 /\ start = 0 /\ limit = Pause /\ elapsed = 0
    /\ got = <<>>
    /\ sound = FALSE /\ owed = <<>>
    /\ sends = 0 /\ faults = 0

\* Mutant: the clock has more bits than the stamps it is compared with.
NextMillisWide == clock + 1

NextMillis == (clock + 1) % Wrap

\* Mutant: a signed difference, or a comparison with start + timeout.
SinceSigned(now, then) == now - then

\* hal_millis() - start, in uint32_t arithmetic.
Since(now, then) == (now - then) % Wrap

TimeIsUp == Since(clock, start) >= limit

StartWait(time) == start' = clock /\ limit' = time

\* Nothing under way can be relied on any more.
Disturb == sound' = FALSE /\ owed' = <<>>

Undisturbed == UNCHANGED <<sound, owed>>

-----------------------------------------------------------------------------
(* The sender.                                                              *)

\* setup() of the R4: bus_create takes Serial1, or malloc fails and it halts.
CreateSender ==
    /\ tx = "boot"
    /\ tx' \in {"up", "halted"}
    /\ UNCHANGED <<line, silence, rx, clock, readerVars, history>>

\* A frame sent now will be read from its start.
ReaderReady == Listening /\ (sound \/ (line = <<>> /\ silence = Quiet))

bus_send(f) ==
    /\ tx = "up"
    /\ sends < MaxSends
    /\ sends' = sends + 1
    /\ line' = line \o proto_finalize(f)
    /\ sound' = ReaderReady
    /\ owed' = IF sound' THEN Append(owed, f) ELSE <<>>
    /\ UNCHANGED <<tx, silence, rx, clock, readerVars, faults>>

\* The sender restarts; what it had not written yet is never written.
RestartSender ==
    /\ tx = "up"
    /\ faults < MaxFaults
    /\ faults' = faults + 1
    /\ tx' = "boot"
    /\ line' = <<>>
    /\ Disturb
    /\ UNCHANGED <<silence, rx, clock, readerVars, sends>>

-----------------------------------------------------------------------------
(* The receiver's setup().                                                  *)

\* bus_create of the UNO: either allocation may fail, and setup() halts.
bus_create ==
    /\ pc = "boot"
    /\ pc' \in {"created", "halted"}
    /\ UNCHANGED <<tx, line, silence, rx, clock, buf, start, limit, elapsed, got,
                   history>>

\* end() and begin() empty the buffer; then node_begin delays.
bus_set_baud ==
    /\ pc = "created"
    /\ pc' = "idle"
    /\ rx' = <<>>
    /\ StartWait(Startup)
    /\ UNCHANGED <<tx, line, silence, clock, buf, elapsed, got, history>>

RestartReceiver ==
    /\ pc # "boot"
    /\ faults < MaxFaults
    /\ faults' = faults + 1
    /\ pc' = "boot"
    /\ rx' = <<>> /\ buf' = <<>> /\ got' = <<>>
    /\ clock' = 0 /\ start' = 0 /\ limit' = Pause /\ elapsed' = 0
    /\ Disturb
    /\ UNCHANGED <<tx, line, silence, sends>>

-----------------------------------------------------------------------------
(* bus_recv.                                                                *)

Call ==
    /\ pc = "idle"
    /\ pc' = "hunt"
    /\ StartWait(Timeout)
    /\ elapsed' = 0
    /\ got' = <<>>
    /\ UNCHANGED <<tx, line, silence, rx, clock, buf, history>>

\* The call returns result and the node goes about its business.
Return(result) ==
    /\ pc' = "idle"
    /\ buf' = <<>>
    /\ StartWait(Pause)
    /\ elapsed' = 0
    /\ got' = result

\* Mutant: the frame shares the deadline of the hunt.
HuntByteOneDeadline ==
    /\ pc = "hunt"
    /\ rx # <<>>
    /\ rx' = Tail(rx)
    /\ IF Head(rx) = SOF
       THEN pc' = "frame" /\ buf' = <<SOF>>
       ELSE UNCHANGED <<pc, buf>>
    /\ UNCHANGED <<tx, line, silence, clock, start, limit, elapsed, got, history>>

\* One byte is looked at; anything but a SOF is dropped.
HuntByte ==
    /\ pc = "hunt"
    /\ rx # <<>>
    /\ rx' = Tail(rx)
    /\ IF Head(rx) = SOF
       THEN pc' = "frame" /\ buf' = <<SOF>> /\ StartWait(Timeout)
       ELSE UNCHANGED <<pc, buf, start, limit>>
    /\ UNCHANGED <<tx, line, silence, clock, elapsed, got, history>>

\* Mutant: the length is checked by proto_is_valid only.
TooLongUnchecked(bytes) == FALSE

TooLong(bytes) == Len(bytes) = HEADER /\ bytes[HEADER] > MAX_PAYLOAD_SIZE

\* Mutant: the checksum is taken for one more byte of the payload.
CompleteLate(bytes) == Len(bytes) > HEADER + 1 /\ Len(bytes) = HEADER + bytes[HEADER] + 2

Complete(bytes) == Len(bytes) > HEADER /\ Len(bytes) = HEADER + bytes[HEADER] + 1

Deliver(f) ==
    /\ Return(<<f>>)
    /\ owed' = IF owed = <<>> THEN <<>> ELSE Tail(owed)
    /\ UNCHANGED sound

\* read_byte succeeds; the frame goes on, is given up, or is complete.
ReadByte ==
    LET bytes == Append(buf, Head(rx)) IN
    /\ pc = "frame"
    /\ rx # <<>>
    /\ rx' = Tail(rx)
    /\ \/ /\ ~TooLong(bytes) /\ ~Complete(bytes)
          /\ buf' = bytes
          /\ StartWait(Timeout)
          /\ Undisturbed
          /\ UNCHANGED <<pc, elapsed, got>>
       \/ /\ \/ TooLong(bytes)
             \/ Complete(bytes) /\ ~proto_is_valid(bytes)
          /\ Return(<<>>)
          /\ Undisturbed
       \/ /\ Complete(bytes) /\ proto_is_valid(bytes)
          /\ Deliver(Decoded(bytes))
    /\ UNCHANGED <<tx, line, silence, clock, sends, faults>>

\* The hunt or one read_byte ran out of time; the bytes read are forgotten.
RecvTimeout ==
    /\ Receiving
    /\ TimeIsUp
    /\ Return(<<>>)
    /\ UNCHANGED <<tx, line, silence, rx, clock, history>>

Reader == Call \/ HuntByte \/ ReadByte \/ RecvTimeout

-----------------------------------------------------------------------------
(* The wire, one byte time per step.                                        *)

\* The serial library misses a byte while closed or when its buffer is full.
Missed == ~Listening \/ Len(rx) >= RxSize

Stored(b) == IF Missed THEN rx ELSE Append(rx, b)

Arrive ==
    /\ line # <<>>
    /\ line' = Tail(line)
    /\ rx' = Stored(Head(line))
    /\ IF Missed THEN Disturb ELSE Undisturbed
    /\ silence' = 0
    /\ UNCHANGED faults

\* A byte is lost, or changed, or there was none and the receiver saw one.
Fault ==
    /\ faults < MaxFaults
    /\ faults' = faults + 1
    /\ line' = IF line = <<>> THEN <<>> ELSE Tail(line)
    /\ rx' \in {Stored(b) : b \in BadBytes} \cup (IF line = <<>> THEN {} ELSE {rx})
    /\ silence' = 0
    /\ Disturb

Silent ==
    /\ line = <<>>
    /\ silence' = IF silence < Quiet THEN silence + 1 ELSE silence
    /\ UNCHANGED <<line, rx, faults>>
    /\ Undisturbed

\* The processor is fast: it polls until the buffer is empty or its time is up.
Tick ==
    /\ Receiving => rx = <<>>
    /\ Listening => ~TimeIsUp
    /\ clock' = NextMillis
    /\ elapsed' = IF Receiving THEN elapsed + 1 ELSE 0
    /\ Arrive \/ Fault \/ Silent
    /\ UNCHANGED <<tx, pc, buf, start, limit, got, sends>>

-----------------------------------------------------------------------------
Setup == CreateSender \/ bus_create \/ bus_set_baud

Restart == RestartSender \/ RestartReceiver

Next == Setup \/ Restart \/ (\E f \in Frames : bus_send(f)) \/ Reader \/ Tick

\* The loop keeps calling bus_recv, bus_recv keeps polling, bytes keep moving.
Spec == Init /\ [][Next]_vars /\ WF_vars(Reader) /\ WF_vars(Tick)

-----------------------------------------------------------------------------
(* Properties.                                                              *)

\* However the length byte was damaged, no more bytes are read than the frame
\* the caller provides has room for: bus_recv checks payload_len first.
FrameFits == Len(buf) < MAX_FRAME

\* bus_interface.h:135 has bus_recv block "for up to timeout_ms milliseconds".  A
\* call may outlast that, as each byte has a timeout of its own, but
\* every byte read buys one timeout at most, so 13 of them bound any call, also
\* when hal_millis wraps in the middle of it.
CallIsBounded == elapsed <= Timeout * (Len(buf) + 1)

\* After a silence the parser is in step again: from then until the next
\* disturbance every frame is handed over whole, in order and exactly once,
\* whatever its bytes are and wherever the calls of bus_recv begin and end.
Channel == INSTANCE FrameChannel
WholeFramesInOrder == Channel!Safety

\* A frame sent in step does arrive, and the node's loop comes back for the next
\* one: no call waits for ever, and none ends for lack of time while bytes come.
OwedFramesArrive == Channel!Fairness
=============================================================================
