----------------------------- MODULE WireFormat -----------------------------
(***************************************************************************)
(* The bytes of a frame on the serial wire (shared/core/proto.c):          *)
(*     SOF  type  source  payload_len  payload...  checksum                *)
(* A frame is a record [type, source, payload]; its length is implied.     *)
(***************************************************************************)
EXTENDS Integers, Sequences, FiniteSets

Byte == 0 .. 255

SOF == 170

MAX_PAYLOAD_SIZE == 8

\* The bytes that precede the payload.
HEADER == 4

\* The longest frame, SOF and checksum included.
MAX_FRAME == HEADER + MAX_PAYLOAD_SIZE + 1

WireFrame == [type : Byte, source : Byte, payload : Seq(Byte)]

-----------------------------------------------------------------------------
(* 32-bit nonces travel in big-endian order.                                *)

u32_to_bytes(v) ==
    <<v \div 16777216, (v \div 65536) % 256, (v \div 256) % 256, v % 256>>

bytes_to_u32(b) ==
    16777216 * b[1] + 65536 * b[2] + 256 * b[3] + b[4]

-----------------------------------------------------------------------------
(* Checksum: the exclusive or of everything but the SOF, i.e. each bit of it *)
(* is the parity of that bit.                                               *)

Parity(bytes, weight) ==
    Cardinality({i \in DOMAIN bytes : (bytes[i] \div weight) % 2 = 1}) % 2

proto_compute_checksum(bytes) ==
    Parity(bytes, 1) + 2 * Parity(bytes, 2) + 4 * Parity(bytes, 4)
    + 8 * Parity(bytes, 8) + 16 * Parity(bytes, 16) + 32 * Parity(bytes, 32)
    + 64 * Parity(bytes, 64) + 128 * Parity(bytes, 128)

\* Everything the checksum covers, the length clamped as proto_finalize does.
Covered(f) ==
    LET data == IF Len(f.payload) > MAX_PAYLOAD_SIZE
                THEN SubSeq(f.payload, 1, MAX_PAYLOAD_SIZE) ELSE f.payload
    IN  <<f.type, f.source, Len(data)>> \o data

\* What bus_send writes: the finalized copy of the frame, byte by byte.
proto_finalize(f) ==
    <<SOF>> \o Covered(f) \o <<proto_compute_checksum(Covered(f))>>

proto_is_valid(bytes) ==
    /\ bytes[1] = SOF
    /\ bytes[HEADER] <= MAX_PAYLOAD_SIZE
    /\ proto_compute_checksum(SubSeq(bytes, 2, Len(bytes) - 1))
       = bytes[Len(bytes)]

\* The frame a complete sequence of bytes stands for.
Decoded(bytes) ==
    [type |-> bytes[2], source |-> bytes[3],
     payload |-> SubSeq(bytes, HEADER + 1, HEADER + bytes[HEADER])]
=============================================================================
