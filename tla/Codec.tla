------------------------------- MODULE Codec -------------------------------
(***************************************************************************)
(* The frames of the GAgent protocol (src/jebao_flow/protocol/codec.py):   *)
(* how one is written, how a whole one is decoded and how one is read from *)
(* a stream.  GizwitsSession takes a stream to be a sequence of frames;    *)
(* this module says why it may.                                            *)
(*                                                                         *)
(* Data is a sequence of octets.  What raises returns a failure with the   *)
(* kind of the error; the checks of Python types are left out.             *)
(***************************************************************************)
EXTENDS Integers, Sequences

Octet == 0 .. 2 ^ 8 - 1

Magic == <<0, 0, 0, 3>>

MaxVarintBytes == 4

MinBodySize == 3

(* DEFAULT_MAX_FRAME_BODY_SIZE; every caller leaves it at that.            *)
MaxBodySize == 1024 * 1024

GizwitsFrame == [flag : Octet, command : 0 .. 2 ^ 16 - 1, payload : Seq(Octet)]

(* The frames that encode_frame takes.                                     *)
Sendable(frame) == Len(frame.payload) + MinBodySize <= MaxBodySize

Failure(kind) == [error |-> kind]

Failed(result) == "error" \in DOMAIN result

-----------------------------------------------------------------------------
(* Lengths: seven bits an octet, the lowest first; an octet of 128 or more *)
(* is followed by another one.  A body is too short for a fifth octet, on  *)
(* which encode_varint would raise.                                        *)
Weight == [index \in 0 .. MaxVarintBytes |-> 128 ^ index]

VarintSize(value) ==
    CHOOSE size \in 1 .. MaxVarintBytes :
        value < Weight[size] /\ (size = 1 \/ value >= Weight[size - 1])

EncodeVarint(value) ==
    [i \in 1 .. VarintSize(value) |->
        ((value \div Weight[i - 1]) % 128)
           + (IF i < VarintSize(value) THEN 128 ELSE 0)]

(* The value and the number of octets of a length that starts after the    *)
(* first offset octets.                                                    *)
DecodeVarint(data, offset) ==
    LET EndsAt(index) ==
            /\ offset + index < Len(data)
            /\ data[offset + index + 1] < 128
            /\ \A i \in 0 .. index - 1 : data[offset + i + 1] >= 128
        Index == CHOOSE index \in 0 .. MaxVarintBytes - 1 : EndsAt(index)
        Part(i) ==
            IF i <= Index THEN (data[offset + i + 1] % 128) * Weight[i] ELSE 0
    IN  IF \E index \in 0 .. MaxVarintBytes - 1 : EndsAt(index)
        THEN [value    |-> Part(0) + Part(1) + Part(2) + Part(3),
              consumed |-> Index + 1]
        ELSE IF Len(data) < offset + MaxVarintBytes THEN Failure("incomplete")
        ELSE Failure("invalid")

-----------------------------------------------------------------------------
EncodeFrame(frame) ==
    LET body == <<frame.flag, frame.command \div 256, frame.command % 256>>
                  \o frame.payload
    IN  IF Len(body) > MaxBodySize THEN Failure("too large")
        ELSE Magic \o EncodeVarint(Len(body)) \o body

(* The checks of a length that decode_frame and read_frame share: where    *)
(* the frame ends in the data.                                             *)
FrameEnd(data) ==
    LET length == DecodeVarint(data, Len(Magic))
    IN  IF Failed(length) THEN length
        ELSE IF length.value < MinBodySize THEN Failure("invalid")
        ELSE IF length.value > MaxBodySize THEN Failure("too large")
        ELSE [start |-> Len(Magic) + length.consumed,
              end   |-> Len(Magic) + length.consumed + length.value]

StartsWithMagic(data) ==
    Len(data) >= Len(Magic) /\ SubSeq(data, 1, Len(Magic)) = Magic

DecodeFrame(data) ==
    LET body == FrameEnd(data)
    IN  IF ~StartsWithMagic(data) THEN Failure("invalid")
        ELSE IF Failed(body) THEN body
        ELSE IF Len(data) < body.end THEN Failure("incomplete")
        ELSE IF Len(data) > body.end THEN Failure("invalid")
        ELSE [flag    |-> data[body.start + 1],
              command |-> 256 * data[body.start + 2] + data[body.start + 3],
              payload |-> SubSeq(data, body.start + 4, body.end)]

(* read_frame on a stream that brings the data and is closed then: the     *)
(* frame and what it leaves in the stream.                                 *)
ReadFrame(data) ==
    LET body == FrameEnd(data)
    IN  IF Len(data) < Len(Magic) THEN Failure("closed")
        ELSE IF ~StartsWithMagic(data) THEN Failure("invalid")
        ELSE IF Failed(body)
             THEN IF body = Failure("incomplete") THEN Failure("closed") ELSE body
        ELSE IF Len(data) < body.end THEN Failure("closed")
        ELSE LET frame == DecodeFrame(SubSeq(data, 1, body.end))
             IN  IF Failed(frame) THEN frame
                 ELSE [frame |-> frame,
                       rest  |-> SubSeq(data, body.end + 1, Len(data))]

-----------------------------------------------------------------------------
(* What encode_frame and read_frame promise each other.                    *)

(* What encode_frame writes, read_frame and decode_frame give back as it   *)
(* was, whatever follows in the stream, and what follows is left for the   *)
(* next read to the octet: the length that encode_varint wrote, of one to  *)
(* three octets, ends where decode_varint stops.                           *)
FramesKeepApart(frame, rest) ==
    LET data == EncodeFrame(frame)
    IN  /\ DecodeFrame(data) = frame
        /\ ReadFrame(data \o rest) = [frame |-> frame, rest |-> rest]

(* A connection that ends anywhere within a frame gives no frame: reading  *)
(* is a lost connection, never a shorter frame or a length misread.        *)
TornIsLost(frame, size) ==
    ReadFrame(SubSeq(EncodeFrame(frame), 1, size)) = Failure("closed")

=============================================================================
