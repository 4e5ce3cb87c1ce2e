---------------------------- MODULE AddressCache ----------------------------
(***************************************************************************)
(* vcdiff/src/cache.rs: the SAME/NEAR cache a COPY's address is read       *)
(* through.  near is a ring of the latest addresses, same keeps the latest *)
(* address of each residue.                                                *)
(***************************************************************************)
EXTENDS Integers

CONSTANTS NEAR_COUNT,  \* slots of the ring: 4
          SAME_COUNT,  \* blocks of the same cache: 3
          BLOCK,       \* addresses a byte tells apart: 256
          MAX_NUMBER   \* u64::MAX

ASSUME NearAssumption == NEAR_COUNT \in Nat \ {0}
ASSUME SameAssumption == SAME_COUNT \in Nat \ {0}
ASSUME BlockAssumption == BLOCK \in Nat \ {0}
ASSUME NumberAssumption == MAX_NUMBER \in Nat

SAME_SIZE == SAME_COUNT * BLOCK
SAME_START == 2 + NEAR_COUNT
Mode == 0..(SAME_START + SAME_COUNT)  \* the last one is past the table

NewCache == [near |-> [slot \in 0..(NEAR_COUNT - 1) |-> 0],
             same |-> [slot \in 0..(SAME_SIZE - 1) |-> 0],
             next_near |-> 0]

NextNear(cache) == (cache.next_near + 1) % NEAR_COUNT

ResidueOfBlock(address) == address % BLOCK  \* a fault: one block for all
Residue(address) == address % SAME_SIZE

Update(cache, address) ==
  [near |-> [cache.near EXCEPT ![cache.next_near] = address],
   same |-> [cache.same EXCEPT ![Residue(address)] = address],
   next_near |-> NextNear(cache)]

Self(mode) == mode = 0
Here(mode) == mode = 1
Near(mode) == mode \in 2..(SAME_START - 1)
Same(mode) == mode \in SAME_START..(SAME_START + SAME_COUNT - 1)

(* Why decode refuses a number in this mode, in the order of its checks.   *)
InvalidMode(mode) == mode >= SAME_START + SAME_COUNT
BeforeOrAtStart(mode, here, number) ==  \* a fault: address 0 is refused
  Here(mode) /\ number >= here
BeforeStart(mode, here, number) == Here(mode) /\ number > here
TooFar(cache, mode, number) ==
  Near(mode) /\ cache.near[mode - 2] + number > MAX_NUMBER

(* The address a number stands for: a byte in the SAME modes.              *)
Address(cache, mode, here, number) ==
  CASE Self(mode) -> number
    [] Here(mode) -> here - number
    [] Near(mode) -> cache.near[mode - 2] + number
    [] Same(mode) -> cache.same[(mode - SAME_START) * BLOCK + (number % BLOCK)]
    [] OTHER      -> 0
=============================================================================
