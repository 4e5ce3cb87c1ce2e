---------------------------- MODULE DjwTokenCode ----------------------------
(***************************************************************************)
(* The encoder whose tokens DjwTokens expands, as far as its tokens say:   *)
(* it leaves out what is implied, writes a value that repeats the last as  *)
(* part of a run, any other as its place in the list, and the length of a  *)
(* run with the digits 1 and 2, the lowest first.                          *)
(***************************************************************************)
EXTENDS DjwTokens, SequencesExt

Listed == {InitialList[i] : i \in Indices}

(* No value is other than zero where the decoder would imply a zero.       *)
ImpliedIn(v, n) == skip_stride # 0 /\ n > skip_stride /\ v[n - skip_stride] = 0
Encodable == {v \in [1..OutputLen -> Listed] :
                \A n \in 1..OutputLen : ImpliedIn(v, n) => v[n] = 0}

(* The tokens of a run: the digits 1 and 2 are the tokens 0 and 1.         *)
digits[n \in Nat] ==
  IF n = 0 THEN << >> ELSE <<(n + 1) % 2>> \o digits[(n - 1) \div 2]

Start == [list |-> InitialList, run |-> 0, out |-> << >>]

PlaceIn(list, value) == CHOOSE i \in Indices : list[i] = value

EncodeValue(state, value) ==
  IF value = Head(state.list) THEN [state EXCEPT !.run = @ + 1]
  ELSE [list |-> <<value>> \o RemoveAt(state.list, PlaceIn(state.list, value)),
        run  |-> 0,
        out  |-> state.out \o digits[state.run]
                           \o <<PlaceIn(state.list, value)>>]

(* The state of the encoder after each beginning of v.                     *)
Encoder(v) ==
  LET after[n \in 0..Len(v)] == IF n = 0 THEN Start
                                ELSE IF ImpliedIn(v, n) THEN after[n - 1]
                                ELSE EncodeValue(after[n - 1], v[n])
  IN after

Encoded(state) == state.out \o digits[state.run]
Encode(v) == Encoded(Encoder(v)[Len(v)])

Encodings == {Encode(v) : v \in Encodable}

(* Tokens are accepted only as the encoding of what they were turned into: *)
(* runs, moves and implied zeros are told apart as the encoder meant them, *)
(* however a zero falls into a run or between a token and its move.        *)
AcceptedIsEncoding == pc = "done" => values \in Encodable /\ tokens = Encode(values)

(* The tokens of an encoder are never refused, nor are more asked for.     *)
NoEncodingRefused ==
  pc \in {"run_past_end", "no_token"} => tokens \notin Encodings
=============================================================================
