---------------------------- MODULE CanonicalCode ----------------------------
(***************************************************************************)
(* What a table of prefix codes promises, without a table: the canonical   *)
(* code of each symbol, by which PrefixBook is judged.                     *)
(***************************************************************************)
EXTENDS PrefixBook, FiniteSetsExt

(* The symbols, in the order of their widths and of their numbers where    *)
(* those agree, each take as many of the codes of a width as follow from   *)
(* their own code, and start where the one before ended.                   *)
Used == {s \in SymbolSet : lengths[s] # 0}
Share(set, w) == MapThenSumSet(LAMBDA s : Codes[w - lengths[s]], set)
Before(s) == {t \in Used : \/ lengths[t] < lengths[s]
                           \/ lengths[t] = lengths[s] /\ t < s}
Canonical(s) == Share(Before(s), lengths[s])

(* The first bits of what was read are the code of s.                      *)
StartsWith(s) == /\ lengths[s] <= width
                 /\ code \div Codes[width - lengths[s]] = Canonical(s)

(* build refuses a table if and only if a width is too large or the codes  *)
(* do not suffice; a table that leaves codes unused is none of them.       *)
BuildVerdict ==
  LET sound == /\ \A s \in SymbolSet : lengths[s] <= WidthLimit
               /\ Share(Used, WidthLimit) <= Codes[WidthLimit]
  IN (pc = "refused" => ~sound) /\ (built => sound)

(* What is returned is the symbol whose code was read, bit for bit.        *)
SymbolIsCanonical ==
  pc = "decoded" => lengths[symbol] = width /\ code = Canonical(symbol)

(* No bit is read beyond the end of a code, and none is given up: a symbol *)
(* whose code was read is returned with its last bit.                      *)
NoCodePassed ==
  pc \in {"read", "invalid_code", "truncated"} =>
    \A s \in Used : ~StartsWith(s)
=============================================================================
