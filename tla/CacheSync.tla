----------------------------- MODULE CacheSync -----------------------------
(***************************************************************************)
(* The decoder's address cache and an encoder's.  The encoder of RFC 3284  *)
(* may write an address in any mode that can express it; what its cache    *)
(* holds is told here by the addresses it has written in the window, not   *)
(* by arrays.  The decoder follows at its own pace, with the cache of      *)
(* cache.rs and a fresh one in every window.                               *)
(***************************************************************************)
EXTENDS AddressCache, Sequences

(* The opcodes that say in which mode an address was written.              *)
Code == INSTANCE CodeTable

CONSTANTS MaxAddress,  \* the combined window of a COPY is no longer
          MaxCopies,   \* the copies of a window
          MaxAhead     \* how far the decoder may be behind

ASSUME AddressAssumption == MaxAddress \in Nat /\ MaxAddress <= MAX_NUMBER
ASSUME CopiesAssumption == MaxCopies \in Nat
ASSUME AheadAssumption == MaxAhead \in Nat \ {0}

VARIABLES written,  \* the addresses the encoder wrote in its window
          pending,  \* what it wrote and the decoder has not read
          slots,    \* the decoder's cache
          decoded   \* the addresses it resolved in its window

sync_vars == <<written, pending, slots, decoded>>

(* RFC 3284, 5.1: the n-th address of a window goes to slot n mod          *)
(* NEAR_COUNT, and to the slot of its residue in the same cache.  A slot   *)
(* holds the latest of the addresses that went there.                      *)
Latest(addresses, I, held) ==
  IF I = {} THEN held = 0
  ELSE \E i \in I : (\A j \in I : j <= i) /\ held = addresses[i]

NearSlot(addresses, slot, held) ==
  Latest(addresses,
         {i \in 1..Len(addresses) : (i - 1) % NEAR_COUNT = slot}, held)
SameSlot(addresses, slot, held) ==
  Latest(addresses,
         {i \in 1..Len(addresses) : addresses[i] % SAME_SIZE = slot}, held)

(* A number stands for an address after these addresses were written.      *)
Expresses(addresses, mode, here, number, address) ==
  CASE Self(mode) -> address = number
    [] Here(mode) -> address = here - number
    [] Near(mode) ->
         \E held \in 0..MaxAddress :
           NearSlot(addresses, mode - 2, held) /\ address = held + number
    [] Same(mode) ->
         /\ number < BLOCK
         /\ SameSlot(addresses, (mode - SAME_START) * BLOCK + number, address)
    [] OTHER      -> FALSE
-----------------------------------------------------------------------------
SyncInit == /\ written = << >> /\ pending = << >>
            /\ slots = NewCache /\ decoded = << >>

Message == [mode: Mode \cup {-1}, here: 0..MaxAddress, number: 0..MaxAddress,
            address: 0..MaxAddress]

(* Only the HERE mode looks at the position of the COPY.                   *)
Positions(mode) == IF Here(mode) THEN 1..MaxAddress ELSE {MaxAddress}

WriteCopy ==
  /\ Len(pending) < MaxAhead /\ Len(written) < MaxCopies
  /\ \E mode \in Mode, number \in 0..MaxAddress :
       \E here \in Positions(mode) : \E address \in 0..(here - 1) :
         /\ Expresses(written, mode, here, number, address)
         /\ written' = Append(written, address)
         /\ pending' = Append(pending, [mode |-> mode, here |-> here,
                                       number |-> number, address |-> address])
  /\ UNCHANGED <<slots, decoded>>

NewWindow == [mode |-> -1, here |-> 0, number |-> 0, address |-> 0]

WriteWindow ==
  /\ Len(pending) < MaxAhead
  /\ written' = << >>
  /\ pending' = Append(pending, NewWindow)
  /\ UNCHANGED <<slots, decoded>>

message == Head(pending)

ReadCopy ==
  /\ pending # << >> /\ message # NewWindow
  /\ ~InvalidMode(message.mode)
  /\ ~BeforeStart(message.mode, message.here, message.number)
  /\ ~TooFar(slots, message.mode, message.number)
  /\ LET address == Address(slots, message.mode, message.here, message.number)
     IN /\ slots' = Update(slots, address)
        /\ decoded' = Append(decoded, address)
  /\ pending' = Tail(pending)
  /\ UNCHANGED written

ReadWindow ==
  /\ pending # << >> /\ message = NewWindow
  /\ slots' = NewCache
  /\ decoded' = << >>
  /\ pending' = Tail(pending)
  /\ UNCHANGED written

SyncNext == WriteCopy \/ WriteWindow \/ ReadCopy \/ ReadWindow

SyncSpec == SyncInit /\ [][SyncNext]_sync_vars
-----------------------------------------------------------------------------
(* Types: slots hold addresses, and the ring position is one of the ring.  *)
SyncTypeOK ==
  /\ written \in Seq(0..MaxAddress)
  /\ decoded \in Seq(0..MaxAddress)
  /\ pending \in Seq(Message)
  /\ slots.near \in [0..(NEAR_COUNT - 1) -> 0..MaxAddress]
  /\ slots.same \in [0..(SAME_SIZE - 1) -> 0..MaxAddress]
  /\ slots.next_near \in 0..(NEAR_COUNT - 1)

(* AddressCache::decode resolves each address to the one the encoder       *)
(* meant, in whichever mode it was written and however far behind the      *)
(* decoder is.                                                             *)
AddressesAgree ==
  [][ReadCopy => decoded' = Append(decoded, message.address)]_sync_vars

(* AddressCache::update keeps in each slot the address RFC 3284 says it    *)
(* holds after the copies of this window.                                  *)
CacheMatchesHistory ==
  /\ \A slot \in DOMAIN slots.near : NearSlot(decoded, slot, slots.near[slot])
  /\ \A slot \in DOMAIN slots.same : SameSlot(decoded, slot, slots.same[slot])

(* No address an encoder may write is refused.                             *)
NothingRefused ==
  pending # << >> /\ message # NewWindow =>
    /\ ~InvalidMode(message.mode)
    /\ ~BeforeStart(message.mode, message.here, message.number)
    /\ ~TooFar(slots, message.mode, message.number)

(* A message in flight names its instruction by an opcode: default_table   *)
(* gives every opcode one entry, that which RFC 3284 counts there.         *)
TableMatchesRfc == pending # << >> => Code!MatchesRfc
=============================================================================
