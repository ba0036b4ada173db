------------------------------- MODULE Frames -------------------------------
(***************************************************************************)
(* The frames of the sensor line (main/sensor_manager.c), byte by byte:    *)
(* [START][len][payload][crc][END].  request_poll builds one, parse_frame  *)
(* checks one; the board at the other end is external and answers with     *)
(* frames built the way the README and request_poll build them.            *)
(***************************************************************************)
EXTENDS Integers, SequencesExt, Bitwise

CONSTANTS
  Start, End,     \* HE_FRAME_START, HE_FRAME_END
  Poly,           \* the polynomial of crc8
  Readings        \* temperatures the board may answer, in hundredths, not below 0

VARIABLE answer

(* One bit of crc8: shift left, and subtract the polynomial on a carry. *)
ShiftBit(c, bit) == IF c >= 128 THEN ((2 * c) % 256) ^^ Poly ELSE 2 * c

CrcByte(c, byte) == FoldLeft(ShiftBit, c ^^ byte, [bit \in 1 .. 8 |-> bit])

(* crc8 *)
Crc8(bytes) == FoldLeft(CrcByte, 0, bytes)

(* A frame as request_poll builds one. *)
Frame(payload) == <<Start, Len(payload)>> \o payload \o <<Crc8(payload), End>>

(* The head of parse_frame: whether it goes on to the entries.  The second
   argument of crc8 is one more than the length of the payload. *)
Accepted(buf) ==
  LET len == Len(buf) IN
  /\ len >= 4
  /\ buf[1] = Start /\ buf[len] = End
  /\ len = buf[2] + 4
  /\ Crc8(SubSeq(buf, 3, buf[2] + 3)) = buf[len - 1]

(* The answer of a board with one sensor: its number of entries, its id and the
   two bytes of a temperature. *)
Answer(t) == Frame(<<1, 1, t \div 256, t % 256>>)

Init == answer = <<>>

Receive == \E t \in Readings : answer' = Answer(t)

Next == Receive

Spec == Init /\ [][Next]_answer

(* README: a sensor's timeout ends as soon as a correct frame arrives.  The
   check of parse_frame includes the received checksum in its own, which is 0
   for every correct frame, and so accepts only those whose checksum is 0. *)
CorrectFrameAccepted == answer # <<>> => Accepted(answer)
=============================================================================
