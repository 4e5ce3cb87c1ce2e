----------------------------- MODULE DjwSection -----------------------------
(***************************************************************************)
(* decode_observed and decode_body of vcdiff/src/djw.rs, and the check of  *)
(* secondary.rs that follows them: the fields of a compressed section in   *)
(* their order, the selectors that give each sector of the output its      *)
(* group of codes, and the bits all of it is read from.  A token or symbol *)
(* is known by its width; that a selector names a group is what DjwTokens  *)
(* shows.  BYTE is the number of bits of a byte.                           *)
(***************************************************************************)
EXTENDS Integers, Sequences

CONSTANTS BYTE, SECTOR_STEP,
          GroupField, SectorField,  \* the widths of the fields: 3 and 5
          GroupValues, SectorValues,  \* how many values they may have
          TableField,   \* what is sent of a table whatever it is: 4 + 7 * 4
          MaxCode,      \* the widest code
          OutputLens, SectionLens, Budgets  \* sizes that are tried

ASSUME WidthsAssumption ==
  /\ BYTE \in Nat \ {0} /\ SECTOR_STEP \in Nat \ {0} /\ GroupField \in Nat \ {0}
  /\ SectorField \in Nat \ {0} /\ TableField \in Nat
  /\ GroupValues \in Nat \ {0} /\ GroupValues = 2 ^ GroupField
  /\ SectorValues \in Nat \ {0} /\ SectorValues = 2 ^ SectorField
  /\ MaxCode \in Nat \ {0}
ASSUME SectionSizes ==
  /\ OutputLens \subseteq Nat \ {0} /\ SectionLens \subseteq Nat
  /\ Budgets \subseteq Nat

VARIABLES
  output_len, section_end,  \* arguments; the section starts at 0
  budget,                   \* what is left of max_window_memory
  position, used, total_bits,               \* BitStream and its input
  group_count, sector_size, sector_count,
  reserved,                                 \* bytes allocated for selectors
  selectors, output,   \* written so far; a byte is the group it was read with
  want,                \* bits missing of what is being read
  stage

bits == <<position, used, total_bits>>
layout == <<group_count, sector_size, sector_count>>
arguments == <<output_len, section_end, budget>>
section_vars == <<arguments, bits, layout, reserved, selectors, output, want, stage>>

SectionInit ==
  /\ output_len \in OutputLens /\ section_end \in SectionLens
  /\ budget \in Budgets
  /\ position = 0 /\ used = BYTE /\ total_bits = 0
  /\ group_count = 0 /\ sector_size = 0 /\ sector_count = 0
  /\ reserved = 0 /\ selectors = << >> /\ output = << >>
  /\ want = GroupField /\ stage = "groups"
-----------------------------------------------------------------------------
Ended == stage \in {"done", "trailing", "truncated", "refused", "memory", "io"}

AtEnd == position >= section_end
UsedUp == used = BYTE

(* A byte is read when the one before it is used up, which may fail.       *)
ReadBit ==
  /\ want > 0 /\ ~Ended
  /\ \/ /\ UsedUp /\ AtEnd
        /\ stage' = "truncated"
        /\ UNCHANGED <<bits, want>>
     \/ /\ UsedUp /\ ~AtEnd
        /\ stage' = "io"
        /\ UNCHANGED <<bits, want>>
     \/ /\ ~(UsedUp /\ AtEnd)
        /\ position' = IF UsedUp THEN position + 1 ELSE position
        /\ used' = IF UsedUp THEN 1 ELSE used + 1
        /\ total_bits' = total_bits + 1
        /\ want' = want - 1
        /\ stage' = stage
  /\ UNCHANGED <<arguments, layout, reserved, selectors, output>>

DivCeil(len, size) == (len + size - 1) \div size

(* The field of the groups is there; one group needs no selectors.         *)
ReadGroups ==
  /\ stage = "groups" /\ want = 0
  /\ \E field \in 0..(GroupValues - 1) : group_count' = field + 1
  /\ IF group_count' = 1
     THEN /\ sector_size' = output_len
          /\ sector_count' = DivCeil(output_len, sector_size')
          /\ stage' = "tables" /\ want' = TableField
     ELSE /\ stage' = "sectors" /\ want' = SectorField
          /\ UNCHANGED <<sector_size, sector_count>>
  /\ UNCHANGED <<arguments, bits, reserved, selectors, output>>

Fits(count) == count <= budget

ReadSectors ==
  /\ stage = "sectors" /\ want = 0
  /\ \E field \in 0..(SectorValues - 1) :
       sector_size' = (field + 1) * SECTOR_STEP
  /\ sector_count' = DivCeil(output_len, sector_size')
  /\ \/ /\ Fits(sector_count')
        /\ reserved' = sector_count' /\ stage' = "tables" /\ want' = TableField
     \/ /\ ~Fits(sector_count')
        /\ stage' = "memory"
        /\ UNCHANGED <<reserved, want>>
  /\ UNCHANGED <<arguments, bits, group_count, selectors, output>>

(* The tables of tokens, of widths, and of selectors are read and built:   *)
(* any number of codes, of which any may be refused.                       *)
Refuse ==
  /\ stage \in {"tables", "selectors", "body"} /\ want = 0
  /\ stage' = "refused"
  /\ UNCHANGED <<arguments, bits, layout, reserved, selectors, output, want>>

ReadCode ==
  /\ stage = "tables" /\ want = 0
  /\ want' \in 1..MaxCode
  /\ UNCHANGED <<arguments, bits, layout, reserved, selectors, output, stage>>

TablesBuilt ==
  /\ stage = "tables" /\ want = 0
  /\ stage' = IF group_count = 1 THEN "body" ELSE "selectors"
  /\ want' \in 1..MaxCode
  /\ UNCHANGED <<arguments, bits, layout, reserved, selectors, output>>

(* A token stands for one selector or for several; the last one is         *)
(* followed by the first symbol of the body.                               *)
ReadSelector ==
  /\ stage = "selectors" /\ want = 0 /\ Len(selectors) < sector_count
  /\ \E group \in 0..(group_count - 1) : selectors' = Append(selectors, group)
  /\ want' \in 0..MaxCode
  /\ UNCHANGED <<arguments, bits, layout, reserved, output, stage>>

SelectorsRead ==
  /\ stage = "selectors" /\ want = 0 /\ Len(selectors) = sector_count
  /\ stage' = "body" /\ want' \in 1..MaxCode
  /\ UNCHANGED <<arguments, bits, layout, reserved, selectors, output>>

(* The sector of the next byte, and what it is read with.                  *)
SectorOfNext == Len(output) \div sector_size
FirstSelector == IF group_count = 1 THEN 0 ELSE selectors[1]  \* a fault: the first sector's group
GroupOfNext == IF group_count = 1 THEN 0 ELSE selectors[SectorOfNext + 1]

DecodeByte ==
  /\ stage = "body" /\ want = 0 /\ Len(output) < output_len
  /\ output' = Append(output, GroupOfNext)
  /\ want' \in IF Len(output') = output_len THEN {0} ELSE 1..MaxCode
  /\ UNCHANGED <<arguments, bits, layout, reserved, selectors, stage>>

(* The section must be used up, but for bits of its last byte.             *)
AnyRest == TRUE  \* a fault: what is left over is not looked at
WholeSection == position = section_end

FinishSection ==
  /\ stage = "body" /\ want = 0 /\ Len(output) = output_len
  /\ stage' = IF WholeSection THEN "done" ELSE "trailing"
  /\ UNCHANGED <<arguments, bits, layout, reserved, selectors, output, want>>

SectionNext ==
  \/ ReadBit \/ ReadGroups \/ ReadSectors \/ Refuse \/ ReadCode
  \/ TablesBuilt \/ ReadSelector \/ SelectorsRead \/ DecodeByte
  \/ FinishSection

SectionSpec == SectionInit /\ [][SectionNext]_section_vars
-----------------------------------------------------------------------------
(* Types, and that nothing is read or allocated beyond what there is: the  *)
(* section's bytes, the budget for selectors, one selector a sector.       *)
SectionTypeOK ==
  /\ output_len \in OutputLens /\ section_end \in SectionLens /\ budget \in Budgets
  /\ position \in 0..section_end /\ used \in 1..BYTE /\ total_bits \in Nat
  /\ group_count \in 0..GroupValues /\ sector_size \in Nat
  /\ sector_count \in 0..output_len
  /\ reserved \in 0..budget /\ want \in Nat
  /\ selectors \in Seq(0..(group_count - 1)) /\ Len(selectors) <= sector_count
  /\ output \in Seq(0..(group_count - 1)) /\ Len(output) <= output_len
  /\ Ended \/ stage \in {"groups", "sectors", "tables", "selectors", "body"}

(* Every byte is read with the codes of its own sector, the last one,      *)
(* which may be short, included; and every byte still to be read has a     *)
(* selector.                                                               *)
SectorsCover ==
  /\ \A n \in 1..Len(output) :
       IF group_count = 1 THEN output[n] = 0
       ELSE \E s \in 1..Len(selectors) : /\ output[n] = selectors[s]
                                         /\ n > (s - 1) * sector_size
                                         /\ n <= s * sector_size
  /\ stage = "body" /\ group_count > 1 /\ Len(output) < output_len =>
       SectorOfNext < Len(selectors)

(* A section is accepted only if its bits end in its last byte.            *)
AcceptedIsWhole ==
  stage = "done" => /\ Len(output) = output_len
                 /\ section_end = DivCeil(total_bits, BYTE)
=============================================================================
