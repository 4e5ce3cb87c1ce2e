------------------------------ MODULE DjwTokens ------------------------------
(***************************************************************************)
(* expand_tokens of vcdiff/src/djw.rs with its TokenMachine and MtfList:   *)
(* tokens are turned into values, of which those that repeat are written   *)
(* as runs and the others as places in a move-to-front list.  Any token    *)
(* may follow any other.  Powers[n] is 2^n, which the source has as a      *)
(* shift, and Word the number of values of its type usize.                 *)
(***************************************************************************)
EXTENDS Integers, Sequences

CONSTANTS InitialList,  \* the values, each once, in their first order
          OutputLen, skip_stride, Tokens, Word, Powers

ASSUME ListAssumption ==
  /\ InitialList \in Seq(Nat) /\ Len(InitialList) > 0
  /\ \A i, j \in DOMAIN InitialList : InitialList[i] = InitialList[j] => i = j
ASSUME SizesAssumption ==
  /\ OutputLen \in Nat /\ skip_stride \in Nat /\ Word \in Nat
  /\ 2 * OutputLen < Word  \* a slice takes at most half of the addresses
ASSUME TokensAssumption == Tokens \subseteq 0..Len(InitialList)
ASSUME PowersAssumption ==
  /\ Powers \in [0..(OutputLen + 1) -> Nat \ {0}] /\ Powers[0] = 1
  /\ \A n \in 1..(OutputLen + 1) : Powers[n] = 2 * Powers[n - 1]

VARIABLES mtf, run_remaining, run_exponent,
          pending_move,   \* 0 if there is none: a move is never to place 0
          values,         \* values[..index]
          tokens,         \* the tokens read (history)
          pc

machine == <<mtf, run_remaining, run_exponent, pending_move>>
vars == <<machine, values, tokens, pc>>

index == Len(values)
Indices == 1..Len(InitialList)

Init == /\ mtf = InitialList
        /\ run_remaining = 0 /\ run_exponent = 0 /\ pending_move = 0
        /\ values = << >> /\ tokens = << >> /\ pc = "expand"
-----------------------------------------------------------------------------
(* The element skip_stride back is zero: this one is zero as well, and no  *)
(* token says so.                                                          *)
Implied(n) == /\ skip_stride # 0 /\ n >= skip_stride
              /\ values[n - skip_stride + 1] = 0

ImplicitZero ==
  /\ pc = "expand" /\ index < OutputLen /\ Implied(index)
  /\ values' = Append(values, 0)
  /\ UNCHANGED <<machine, tokens, pc>>

RepeatFront ==
  /\ pc = "expand" /\ index < OutputLen /\ ~Implied(index) /\ run_remaining # 0
  /\ values' = Append(values, mtf[1])
  /\ run_remaining' = run_remaining - 1
  /\ UNCHANGED <<mtf, run_exponent, pending_move, tokens, pc>>

(* MtfList::promote; places count from 0.  A token is less than the number *)
(* of symbols of its book, so a place is always one of the list.           *)
Swapped(place) ==  \* a fault: exchanged with the front
  [mtf EXCEPT ![1] = mtf[place + 1], ![place + 1] = mtf[1]]
Promoted(place) ==
  [i \in Indices |-> IF i = 1 THEN mtf[place + 1]
                     ELSE IF i <= place + 1 THEN mtf[i - 1] ELSE mtf[i]]

PromotePending ==
  /\ pc = "expand" /\ index < OutputLen /\ ~Implied(index)
  /\ run_remaining = 0 /\ pending_move # 0
  /\ mtf' = Promoted(pending_move)
  /\ values' = Append(values, mtf'[1])
  /\ pending_move' = 0
  /\ UNCHANGED <<run_remaining, run_exponent, tokens, pc>>

ExponentKept == run_exponent   \* a fault: the next run token counts from one
ExponentAfterMove == 0
ExponentAfterRun == run_exponent + 1
Amount(token) == ((token + 1) * Powers[run_exponent]) % Word

IdleInRun == pc = "expand" /\ index < OutputLen /\ pending_move = 0  \* a fault
Idle == /\ pc = "expand" /\ index < OutputLen /\ ~Implied(index)
        /\ run_remaining = 0 /\ pending_move = 0

QueueRun ==
  /\ Idle
  /\ \E token \in Tokens :
       /\ token <= 1
       /\ run_remaining' = run_remaining + Amount(token)
       /\ tokens' = Append(tokens, token)
  /\ run_exponent' = ExponentAfterRun
  /\ UNCHANGED <<mtf, pending_move, values, pc>>

QueueMove ==
  /\ Idle
  /\ \E token \in Tokens :
       /\ token > 1
       /\ pending_move' = token - 1
       /\ tokens' = Append(tokens, token)
  /\ run_exponent' = ExponentAfterMove
  /\ UNCHANGED <<mtf, run_remaining, values, pc>>

Ends(state) == pc' = state /\ UNCHANGED <<machine, values, tokens>>

(* read_symbol finds no token.                                             *)
NoToken == Idle /\ Ends("no_token")

FinishClean == run_remaining = 0 /\ pending_move = 0

Finish ==
  /\ pc = "expand" /\ index = OutputLen
  /\ \/ FinishClean /\ Ends("done")
     \/ ~FinishClean /\ Ends("run_past_end")

Next == \/ ImplicitZero \/ RepeatFront \/ PromotePending
        \/ QueueRun \/ QueueMove \/ NoToken \/ Finish

Spec == Init /\ [][Next]_vars
-----------------------------------------------------------------------------
(* Types, and that places stay in the list and runs near the output.       *)
TypeOK ==
  /\ mtf \in Seq(Nat) /\ Len(mtf) = Len(InitialList)
  /\ run_remaining \in 0..(2 * OutputLen) /\ run_exponent \in 0..(OutputLen + 1)
  /\ pending_move \in 0..(Len(InitialList) - 1)
  /\ values \in Seq(Nat) /\ index <= OutputLen
  /\ tokens \in Seq(Tokens)
  /\ pc \in {"expand", "done", "no_token", "run_past_end"}

(* No sequence of tokens makes a run overflow: the exponent grows only     *)
(* with what the runs before it have already written.                      *)
RunsFit == Idle => 2 * Powers[run_exponent] < Word

(* The list has each of its values once, whatever was promoted.            *)
ListIsPermutation ==
  /\ {mtf[i] : i \in Indices} = {InitialList[i] : i \in Indices}
  /\ \A i, j \in Indices : mtf[i] = mtf[j] => i = j

(* What is written is a value of the list or an implied zero: a selector   *)
(* is the number of a group, a width one that a table may have.            *)
ValuesListed ==
  \A n \in 1..index : \/ values[n] \in {InitialList[i] : i \in Indices}
                      \/ skip_stride # 0 /\ values[n] = 0
==============================================================================
