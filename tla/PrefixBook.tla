----------------------------- MODULE PrefixBook -----------------------------
(***************************************************************************)
(* PrefixBook of vcdiff/src/djw.rs: a table of prefix codes, built from    *)
(* nothing but the width of each symbol's code, and read one bit at a      *)
(* time.  Each turn of a loop is a step.  Codes[w] is the number of codes  *)
(* of w bits, which the source has as a shift.                             *)
(***************************************************************************)
EXTENDS Integers, FiniteSets

CONSTANTS Symbols,    \* lengths.len()
          WidthLimit,
          MaxWidth,   \* the widths an input may have
          Codes

ASSUME SymbolsAssumption == Symbols \in Nat \ {0}
ASSUME WidthsAssumption ==
  WidthLimit \in Nat \ {0} /\ MaxWidth \in Nat \ {0}
ASSUME CodesAssumption ==
  /\ Codes \in [0..WidthLimit -> Nat] /\ Codes[0] = 1
  /\ \A w \in 1..WidthLimit : Codes[w] = 2 * Codes[w - 1]

VARIABLES
  lengths,                                        \* the input
  counts, first_codes, starts, ordered, symbol_count, min_width, max_width,
  open_slots, next_code, next_symbol, slots, i,   \* locals of build
  spare,                 \* open_slots as it was after each width (history)
  code, width, symbol,   \* locals of read_symbol, and what it returns
  pc

widths == <<lengths, counts>>
codes == <<first_codes, starts, symbol_count, min_width, max_width>>
locals == <<open_slots, next_code, next_symbol, spare>>
reader == <<code, width, symbol>>
vars == <<widths, codes, ordered, slots, locals, i, reader, pc>>

SymbolSet == 0..(Symbols - 1)
Zero == [w \in 0..WidthLimit |-> 0]

Init == /\ lengths \in [SymbolSet -> 0..MaxWidth]
        /\ counts = Zero /\ first_codes = Zero /\ starts = Zero /\ slots = Zero
        /\ ordered = [s \in SymbolSet |-> 0] /\ symbol_count = 0
        /\ min_width = 0 /\ max_width = 0
        /\ open_slots = 1 /\ next_code = 0 /\ next_symbol = 0 /\ i = 0
        /\ spare = [w \in 0..WidthLimit |-> 1]
        /\ code = 0 /\ width = 0 /\ symbol = 0 /\ pc = "count"
-----------------------------------------------------------------------------
Refused == /\ pc' = "refused"
           /\ UNCHANGED <<widths, codes, ordered, slots, locals, i, reader>>

CountWidth ==
  /\ pc = "count"
  /\ \/ /\ lengths[i] > WidthLimit
        /\ Refused
     \/ /\ lengths[i] <= WidthLimit
        /\ counts' = IF lengths[i] = 0 THEN counts
                     ELSE [counts EXCEPT ![lengths[i]] = @ + 1]
        /\ i' = IF i = Symbols - 1 THEN 1 ELSE i + 1
        /\ pc' = IF i = Symbols - 1 THEN "slots" ELSE "count"
        /\ UNCHANGED <<lengths, codes, ordered, slots, locals, reader>>

(* A code of one width takes up two of each greater width.                 *)
FullIsTooMany(used, open) == used >= open  \* a fault: complete tables refused
TooMany(used, open) == used > open

TakeSlots ==
  /\ pc = "slots"
  /\ \/ /\ TooMany(counts[i], 2 * open_slots)
        /\ Refused
     \/ /\ ~TooMany(counts[i], 2 * open_slots)
        /\ open_slots' = 2 * open_slots - counts[i]
        /\ spare' = [spare EXCEPT ![i] = open_slots']
        /\ i' = IF i = WidthLimit THEN 1 ELSE i + 1
        /\ pc' = IF i = WidthLimit THEN "assign" ELSE "slots"
        /\ UNCHANGED <<widths, codes, ordered, slots, next_code, next_symbol,
                       reader>>

CodesAfter(used) == 2 * (next_code + used)

AssignCodes ==
  /\ pc = "assign"
  /\ next_code' = CodesAfter(counts[i - 1])
  /\ first_codes' = [first_codes EXCEPT ![i] = next_code']
  /\ starts' = [starts EXCEPT ![i] = next_symbol]
  /\ next_symbol' = next_symbol + counts[i]
  /\ min_width' = IF counts[i] # 0 /\ min_width = 0 THEN i ELSE min_width
  /\ max_width' = IF counts[i] # 0 THEN i ELSE max_width
  /\ i' = IF i = WidthLimit THEN 0 ELSE i + 1
  /\ pc' = IF i = WidthLimit THEN "order" ELSE "assign"
  /\ symbol_count' = IF i = WidthLimit THEN next_symbol' ELSE 0
  /\ slots' = IF i = WidthLimit THEN starts' ELSE slots
  /\ UNCHANGED <<widths, ordered, open_slots, spare, reader>>

SlotKept(w) == slots  \* a fault: symbols of one width share a slot
SlotTaken(w) == [slots EXCEPT ![w] = @ + 1]

PlaceSymbol ==
  /\ pc = "order"
  /\ IF lengths[i] = 0 THEN UNCHANGED <<ordered, slots>>
     ELSE /\ ordered' = [ordered EXCEPT ![slots[lengths[i]]] = i]
          /\ slots' = SlotTaken(lengths[i])
  /\ i' = IF i = Symbols - 1 THEN 0 ELSE i + 1
  /\ pc' = IF i = Symbols - 1 THEN "ready" ELSE "order"
  /\ UNCHANGED <<widths, codes, locals, reader>>

Build == CountWidth \/ TakeSlots \/ AssignCodes \/ PlaceSymbol
-----------------------------------------------------------------------------
ReadSymbol ==
  /\ pc = "ready"
  /\ code' = 0 /\ width' = 0
  /\ pc' = IF symbol_count = 0 THEN "empty" ELSE "read"
  /\ UNCHANGED <<widths, codes, ordered, slots, locals, i, symbol>>

(* The codes of a width are consecutive.                                   *)
Found(w, c) == c >= first_codes[w] /\ c - first_codes[w] < counts[w]

WiderThanMin(w) == w > min_width  \* a fault
WideEnough(w) == w >= min_width

ReadBit ==
  /\ pc = "read" /\ width < max_width
  /\ \E bit \in 0..1 : code' = 2 * code + bit
  /\ width' = width + 1
  /\ \/ /\ WideEnough(width') /\ Found(width', code')
        /\ symbol' = ordered[starts[width'] + (code' - first_codes[width'])]
        /\ pc' = "decoded"
     \/ /\ ~(WideEnough(width') /\ Found(width', code'))
        /\ UNCHANGED <<symbol, pc>>
  /\ UNCHANGED <<widths, codes, ordered, slots, locals, i>>

(* A code as wide as the widest that no symbol has.                        *)
NoSymbol ==
  /\ pc = "read" /\ width = max_width
  /\ pc' = "invalid_code"
  /\ UNCHANGED <<widths, codes, ordered, slots, locals, i, reader>>

(* The section ends, or its delta fails, before the code does.             *)
NoBit ==
  /\ pc = "read" /\ width < max_width
  /\ pc' = "truncated"
  /\ UNCHANGED <<widths, codes, ordered, slots, locals, i, reader>>

NextSymbol ==
  /\ pc = "decoded"
  /\ pc' = "ready"
  /\ UNCHANGED <<widths, codes, ordered, slots, locals, i, reader>>

Next == Build \/ ReadSymbol \/ ReadBit \/ NoSymbol \/ NoBit \/ NextSymbol

Spec == Init /\ [][Next]_vars
-----------------------------------------------------------------------------
(* Types, and that every index stays inside its table.                     *)
TypeOK ==
  /\ lengths \in [SymbolSet -> 0..MaxWidth]
  /\ counts \in [0..WidthLimit -> Nat] /\ first_codes \in [0..WidthLimit -> Nat]
  /\ starts \in [0..WidthLimit -> Nat] /\ slots \in [0..WidthLimit -> Nat]
  /\ ordered \in [SymbolSet -> SymbolSet] /\ symbol_count \in Nat
  /\ min_width \in 0..WidthLimit /\ max_width \in 0..WidthLimit
  /\ open_slots \in Nat /\ next_code \in Nat /\ next_symbol \in Nat
  /\ spare \in [0..WidthLimit -> Nat]
  /\ i \in Int
  /\ pc \in {"count", "order"} => i \in SymbolSet
  /\ pc \in {"slots", "assign"} => i \in 1..WidthLimit
  /\ code \in Nat /\ width \in 0..WidthLimit /\ symbol \in SymbolSet
  /\ pc \in {"count", "slots", "assign", "order", "ready", "read", "decoded",
             "refused", "empty", "invalid_code", "truncated"}

built == pc \notin {"count", "slots", "assign", "order", "refused"}

(* The codes that build hands out, width by width, and the slots its other *)
(* loop found to be open are together all the codes there are: a code      *)
(* never needs more bits than its width, so the shifts stay in range.      *)
CodesFit ==
  built => \A w \in 1..WidthLimit :
             first_codes[w] + counts[w] + spare[w] = Codes[w]

(* The place of a symbol is inside the part of the table that is in use,   *)
(* so the test that would refuse the table there never does.               *)
SlotInUse ==
  pc = "order" /\ lengths[i] # 0 => slots[lengths[i]] < symbol_count

(* A symbol is found at its own width, whatever the order of the input.    *)
SymbolHasItsWidth == pc = "decoded" => lengths[symbol] = width

(* Bits that lead to no symbol are those of a table with codes to spare.   *)
OnlySparseTableInvalid == pc = "invalid_code" => spare[max_width] > 0
=============================================================================
