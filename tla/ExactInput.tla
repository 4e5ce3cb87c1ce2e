----------------------------- MODULE ExactInput -----------------------------
(***************************************************************************)
(* What vcdiff's DeltaInput promises: the delta read at absolute offsets,  *)
(* request by request, with no buffer between.  Bytes are the numbers      *)
(* below 2 * RADIX; those from RADIX on say that the number goes on.       *)
(***************************************************************************)
EXTENDS Integers, Sequences

CONSTANTS RADIX,       \* 128: what one byte of a number counts
          MAX_DIGITS,  \* 10: how many bytes a number may take
          MAX_NUMBER   \* u64::MAX

VARIABLES delta,    \* the contents of the delta stream
          len,      \* the length that was measured before decoding
          pos,      \* the absolute offset of the next byte
          request,  \* what the decoder has asked for
          answer,   \* what it was last given
          status    \* "open", or how decoding ended

vars == <<delta, len, pos, request, answer, status>>

Idle == [kind |-> "none", size |-> 0]

Digit(byte) == byte % RADIX
GoesOn(byte) == byte >= RADIX

(* The number that the first count of some bytes write, most significant   *)
(* first.                                                                  *)
Number(bytes, count) ==
  LET number[k \in 0..Len(bytes)] ==
        IF k = 0 THEN 0 ELSE number[k - 1] * RADIX + Digit(bytes[k])
  IN number[count]

Rest(p) == SubSeq(delta, p + 1, Len(delta))

(* The first count bytes from p on say that the number goes on.            *)
Open(p, count) == \A k \in 1..count : GoesOn(delta[p + k])

Limit == IF len <= Len(delta) THEN len ELSE Len(delta)
-----------------------------------------------------------------------------
Init == /\ pos = 0
        /\ request = Idle
        /\ answer = << >>
        /\ status = "open"

Ask == /\ status = "open" /\ request = Idle
       /\ request' # Idle
       /\ UNCHANGED <<delta, len, pos, answer, status>>

Answer(count, result) ==
  /\ pos' = pos + count
  /\ answer' = result
  /\ request' = Idle
  /\ UNCHANGED <<delta, len, status>>

Refuse(reason) ==
  /\ status' = reason
  /\ UNCHANGED <<delta, len, pos, request, answer>>

Bytes == /\ request.kind \in {"byte", "exact"}
         /\ IF pos + request.size <= Limit \/ request.size = 0
            THEN Answer(request.size,
                        SubSeq(delta, pos + 1, pos + request.size))
            ELSE Refuse("truncated")

Skip == /\ request.kind = "skip"
        /\ IF pos + request.size <= len
           THEN Answer(request.size, << >>)
           ELSE Refuse("truncated")

(* A number is answered when its last byte lies within the limit, and is   *)
(* refused for its size as soon as the bytes read prove it too large.      *)
Varint ==
  /\ request.kind = "varint"
  /\ \/ \E count \in 1..MAX_DIGITS :
          /\ pos + count <= Limit
          /\ Open(pos, count - 1) /\ ~GoesOn(delta[pos + count])
          /\ IF Number(Rest(pos), count) <= MAX_NUMBER
             THEN Answer(count, <<Number(Rest(pos), count)>>)
             ELSE Refuse("overflow")
     \/ \E count \in 1..MAX_DIGITS :
          /\ pos + count <= Limit
          /\ Open(pos, count)
          /\ count = MAX_DIGITS \/ Number(Rest(pos), count) > MAX_NUMBER
          /\ Refuse("overflow")
     \/ \E count \in 0..(MAX_DIGITS - 1) :
          /\ pos + count = Limit \/ (count = 0 /\ pos > Limit)
          /\ Open(pos, count) /\ Number(Rest(pos), count) <= MAX_NUMBER
          /\ Refuse("truncated")

Serve == /\ status = "open" /\ request # Idle
         /\ Bytes \/ Skip \/ Varint

(* The stream answers with an error or a wrong offset.                     *)
Break == /\ status = "open" /\ request # Idle
         /\ Refuse("broken")

Next == Ask \/ Serve \/ Break

Spec == Init /\ [][Next]_vars
=============================================================================
