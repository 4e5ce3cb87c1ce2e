------------------------ MODULE VcdiffDecoderProofs ------------------------
(***************************************************************************)
(* For every limit, source, delta, code table and choice of numbers, what  *)
(* the decoder has checked before it acts stays true while it acts; and    *)
(* its cache never leaves the encoder's, whatever the sizes of the near    *)
(* and same caches and whatever modes the encoder chooses.  default_table  *)
(* gives every opcode the instructions RFC 3284 counts there.              *)
(***************************************************************************)
EXTENDS VcdiffDecoder, CacheSync, DataLemmas, SequenceTheorems, TLAPS

Windowed == {"compression", "lengths", "begin"} \cup Section
Running == {"run", "call"}

(* The segment lies in the source, or in what finished windows have left.  *)
SegmentInv ==
  /\ segment.kind = "none" => segment.len = 0
  /\ segment.kind = "source" => segment.start + segment.len <= SourceLen
  /\ segment.kind = "target" => segment.start + segment.len <= persisted

(* A window has room for what it announces from the moment its target size *)
(* was read, and never produces more.                                      *)
OutputInv ==
  /\ persisted <= output_len /\ output_len <= MaxTarget
  /\ pc \notin Running \cup Errors => output_len = persisted
  /\ pc \in Windowed => output_len + target_size <= MaxTarget
  /\ pc \in Running => /\ window_start = persisted
                       /\ output_len <= window_start + target_size
                       /\ window_start + target_size <= MaxTarget

(* While a call runs it is one the target writer allows.                   *)
CallInv ==
  /\ pc \notin Errors \cup {"call"} => op = NoCall
  /\ pc = "call" =>
       /\ todo # << >>
       /\ op.kind # "none"
       /\ op.base <= output_len /\ output_len <= op.base + op.size
       /\ window_start <= op.base
       /\ op.base + op.size <= window_start + target_size
       /\ op.kind = "source" => op.start + op.size <= SourceLen
       /\ op.kind = "target" => op.start + op.size <= window_start
       /\ op.kind = "current" => window_start <= op.start /\ op.start < op.base

(* active_memory counts what is resident; later sections are not yet.      *)
MemoryInv ==
  /\ Total(resident) <= MaxWindowMemory
  /\ pc \in Section => active_memory = Total(resident)
  /\ pc = "data" => resident = None
  /\ pc = "instructions" => resident["instructions"] = 0 /\ resident["addresses"] = 0
  /\ pc = "addresses" => resident["addresses"] = 0

(* What is left of the window's sections ends at its encoded end.          *)
PositionInv ==
  /\ pc = "data" => input_pos + Total(lengths) = encoding_end
  /\ pc = "instructions" =>
       input_pos + lengths["instructions"] + lengths["addresses"] = encoding_end
  /\ pc = "addresses" => input_pos + lengths["addresses"] = encoding_end
  /\ pc \in Running \cup {"begin"} => input_pos = encoding_end

CacheInv ==
  pc \in Running =>
    /\ \A slot \in 0..(NEAR_COUNT - 1) : cache.near[slot] = 0 \/ cache.near[slot] < here
    /\ \A slot \in 0..(SAME_SIZE - 1) : cache.same[slot] = 0 \/ cache.same[slot] < here

IInv == TypeOK /\ SegmentInv /\ OutputInv /\ CallInv /\ MemoryInv
        /\ PositionInv /\ CacheInv

USE LimitAssumption, NumbersAssumption, DeltaAssumption, NumberAssumption,
    NearAssumption
-----------------------------------------------------------------------------
(* The cache: what decode and update return, for every size of its parts.  *)
LEMMA SameSizePositive == SAME_SIZE \in Nat \ {0}
  BY SameAssumption, BlockAssumption, SMTT(30) DEF SAME_SIZE

(* The index of a byte of a block lies in the same cache.                  *)
LEMMA SameIndex ==
  ASSUME NEW k \in 0..(SAME_COUNT - 1), NEW n \in 0..(BLOCK - 1)
  PROVE  k * BLOCK + n \in 0..(SAME_SIZE - 1)
  BY SameAssumption, BlockAssumption, BlockIndex DEF SAME_SIZE

(* A cache whose slots hold numbers.                                       *)
CacheOfNumbers(held) ==
  /\ held.near \in [0..(NEAR_COUNT - 1) -> 0..MAX_NUMBER]
  /\ held.same \in [0..(SAME_SIZE - 1) -> 0..MAX_NUMBER]
  /\ held.next_near \in 0..(NEAR_COUNT - 1)

LEMMA NewCacheOfNumbers == CacheOfNumbers(NewCache)
  <1>1. SAME_SIZE \in Nat
    BY SameSizePositive
  <1> QED
    BY <1>1 DEF CacheOfNumbers, NewCache

(* What decode does not refuse is an address.                              *)
LEMMA AddressIsNumber ==
  ASSUME NEW held, CacheOfNumbers(held), NEW mode \in Mode,
         NEW position \in 0..MAX_NUMBER, NEW number \in 0..MAX_NUMBER,
         ~InvalidMode(mode), ~BeforeStart(mode, position, number),
         ~TooFar(held, mode, number)
  PROVE  Address(held, mode, position, number) \in 0..MAX_NUMBER
  <1>1. mode \in Int /\ mode >= 0 /\ mode < SAME_START + SAME_COUNT
    BY SameAssumption DEF Mode, InvalidMode, SAME_START
  <1>2. CASE Self(mode)
    BY <1>1, <1>2 DEF Address, Self, Here, Near, Same, SAME_START
  <1>3. CASE Here(mode)
    BY <1>1, <1>3 DEF Address, Self, Here, Near, Same, SAME_START, BeforeStart
  <1>4. CASE Near(mode)
    <2>1. mode - 2 \in 0..(NEAR_COUNT - 1) /\ ~Self(mode) /\ ~Here(mode) /\ ~Same(mode)
      BY <1>1, <1>4 DEF Near, Same, Self, Here, SAME_START
    <2>2. held.near[mode - 2] \in 0..MAX_NUMBER
      BY <2>1 DEF CacheOfNumbers
    <2>3. Address(held, mode, position, number) = held.near[mode - 2] + number
      BY <1>4, <2>1 DEF Address
    <2> QED
      BY <1>4, <2>2, <2>3 DEF TooFar
  <1>5. CASE Same(mode)
    <2> DEFINE k == mode - SAME_START
               n == number % BLOCK
    <2>1. k \in 0..(SAME_COUNT - 1) /\ ~Self(mode) /\ ~Here(mode) /\ ~Near(mode)
      BY SameAssumption, <1>1, <1>5 DEF Near, Same, Self, Here, SAME_START
    <2>2. n \in 0..(BLOCK - 1)
      BY BlockAssumption, ModRange
    <2>3. k * BLOCK + n \in 0..(SAME_SIZE - 1)
      BY <2>1, <2>2, SameIndex
    <2>4. Address(held, mode, position, number) = held.same[k * BLOCK + n]
      BY <1>5, <2>1 DEF Address
    <2> QED
      BY <2>3, <2>4 DEF CacheOfNumbers
  <1>6. Self(mode) \/ Here(mode) \/ Near(mode) \/ Same(mode)
    BY SameAssumption, <1>1 DEF Self, Here, Near, Same, SAME_START
  <1> QED
    BY <1>2, <1>3, <1>4, <1>5, <1>6

(* update puts the address in one slot of each part and leaves the others. *)
LEMMA UpdatePuts ==
  ASSUME NEW held, CacheOfNumbers(held), NEW address \in 0..MAX_NUMBER
  PROVE  /\ CacheOfNumbers(Update(held, address))
         /\ \A slot \in 0..(NEAR_COUNT - 1) :
              Update(held, address).near[slot] \in {held.near[slot], address}
         /\ \A slot \in 0..(SAME_SIZE - 1) :
              Update(held, address).same[slot] \in {held.same[slot], address}
  <1> DEFINE updated == Update(held, address)
  <1>1. /\ updated.near = [held.near EXCEPT ![held.next_near] = address]
        /\ updated.same = [held.same EXCEPT ![Residue(address)] = address]
        /\ updated.next_near = NextNear(held)
    BY DEF Update
  <1>2. Residue(address) \in 0..(SAME_SIZE - 1)
    BY SameSizePositive, ModRange DEF Residue
  <1>3. held.next_near + 1 \in Nat
    BY DEF CacheOfNumbers
  <1>4. NextNear(held) \in 0..(NEAR_COUNT - 1)
    BY <1>3, ModRange DEF NextNear
  <1> HIDE DEF updated
  <1>5. CacheOfNumbers(updated)
    BY <1>1, <1>2, <1>4, SMTT(20) DEF CacheOfNumbers
  <1>6. /\ \A slot \in 0..(NEAR_COUNT - 1) :
              updated.near[slot] \in {held.near[slot], address}
        /\ \A slot \in 0..(SAME_SIZE - 1) :
              updated.same[slot] \in {held.same[slot], address}
    BY <1>1, <1>2 DEF CacheOfNumbers
  <1> QED
    BY <1>5, <1>6 DEF updated
-----------------------------------------------------------------------------
(* No check of a list that is accepted is true.                            *)
LEMMA Accept1 ==
  ASSUME NEW a,
         Accept(<<a>>)
  PROVE  ~a[1]
  <1> DEFINE checks == <<a>>
  <1>1. DOMAIN checks = {1}
    OBVIOUS
  <1>2. /\ checks[1] = a
    OBVIOUS
  <1> QED
    BY <1>1, <1>2, Zenon DEF Accept

LEMMA Accept2 ==
  ASSUME NEW a, NEW b,
         Accept(<<a, b>>)
  PROVE  ~a[1] /\ ~b[1]
  <1> DEFINE checks == <<a, b>>
  <1>1. DOMAIN checks = {1, 2}
    OBVIOUS
  <1>2. /\ checks[1] = a /\ checks[2] = b
    OBVIOUS
  <1> QED
    BY <1>1, <1>2, Zenon DEF Accept

LEMMA Accept3 ==
  ASSUME NEW a, NEW b, NEW c,
         Accept(<<a, b, c>>)
  PROVE  ~a[1] /\ ~b[1] /\ ~c[1]
  <1> DEFINE checks == <<a, b, c>>
  <1>1. DOMAIN checks = {1, 2, 3}
    OBVIOUS
  <1>2. /\ checks[1] = a /\ checks[2] = b /\ checks[3] = c
    OBVIOUS
  <1> QED
    BY <1>1, <1>2, Zenon DEF Accept

LEMMA Accept4 ==
  ASSUME NEW a, NEW b, NEW c, NEW d,
         Accept(<<a, b, c, d>>)
  PROVE  ~a[1] /\ ~b[1] /\ ~c[1] /\ ~d[1]
  <1> DEFINE checks == <<a, b, c, d>>
  <1>1. DOMAIN checks = {1, 2, 3, 4}
    OBVIOUS
  <1>2. /\ checks[1] = a /\ checks[2] = b /\ checks[3] = c /\ checks[4] = d
    OBVIOUS
  <1> QED
    BY <1>1, <1>2, Zenon DEF Accept

LEMMA Accept5 ==
  ASSUME NEW a, NEW b, NEW c, NEW d, NEW e,
         Accept(<<a, b, c, d, e>>)
  PROVE  ~a[1] /\ ~b[1] /\ ~c[1] /\ ~d[1] /\ ~e[1]
  <1> DEFINE checks == <<a, b, c, d, e>>
  <1>1. DOMAIN checks = {1, 2, 3, 4, 5}
    OBVIOUS
  <1>2. /\ checks[1] = a /\ checks[2] = b /\ checks[3] = c /\ checks[4] = d
        /\ checks[5] = e
    OBVIOUS
  <1> QED
    BY <1>1, <1>2, Zenon DEF Accept

LEMMA Accept6 ==
  ASSUME NEW a, NEW b, NEW c, NEW d, NEW e, NEW f,
         Accept(<<a, b, c, d, e, f>>)
  PROVE  ~a[1] /\ ~b[1] /\ ~c[1] /\ ~d[1] /\ ~e[1] /\ ~f[1]
  <1> DEFINE checks == <<a, b, c, d, e, f>>
  <1>1. DOMAIN checks = {1, 2, 3, 4, 5, 6}
    OBVIOUS
  <1>2. /\ checks[1] = a /\ checks[2] = b /\ checks[3] = c /\ checks[4] = d
        /\ checks[5] = e /\ checks[6] = f
    OBVIOUS
  <1> QED
    BY <1>1, <1>2, Zenon DEF Accept

LEMMA Accept8 ==
  ASSUME NEW a, NEW b, NEW c, NEW d, NEW e, NEW f, NEW g, NEW h,
         Accept(<<a, b, c, d, e, f, g, h>>)
  PROVE  ~a[1] /\ ~b[1] /\ ~c[1] /\ ~d[1] /\ ~e[1] /\ ~f[1] /\ ~g[1] /\ ~h[1]
  <1> DEFINE checks == <<a, b, c, d, e, f, g, h>>
  <1>1. DOMAIN checks = {1, 2, 3, 4, 5, 6, 7, 8}
    OBVIOUS
  <1>2. /\ checks[1] = a /\ checks[2] = b /\ checks[3] = c /\ checks[4] = d
        /\ checks[5] = e /\ checks[6] = f /\ checks[7] = g /\ checks[8] = h
    OBVIOUS
  <1> QED
    BY <1>1, <1>2, Zenon DEF Accept

LEMMA AcceptAt ==
  ASSUME NEW checks, Accept(checks), NEW i \in DOMAIN checks
  PROVE  ~checks[i][1]
  BY Zenon DEF Accept

LEMMA Places ==
  /\ Ends = Errors \cup {"done"}
  /\ Section = {"data", "instructions", "addresses"}
  /\ Windowed = {"compression", "lengths", "begin", "data", "instructions",
                 "addresses"}
  /\ Running = {"run", "call"}
  /\ \A place \in Errors :
       place \notin {"header", "window", "size", "compression", "lengths",
                     "begin", "run", "call", "done", "data", "instructions",
                     "addresses"}
  BY DEF Ends, Section, Windowed, Running, Errors

(* A section's record holds numbers.                                       *)
LEMMA SectionNumbers ==
  ASSUME NEW bytes \in [Section -> Nat]
  PROVE  /\ bytes["data"] \in Nat /\ bytes["instructions"] \in Nat
         /\ bytes["addresses"] \in Nat /\ Total(bytes) \in Nat
  BY DEF Section, Total

LEMMA NothingHeld == None \in [Section -> Nat] /\ Total(None) = 0
  BY DEF None, Section, Total

LEMMA CacheBoxed ==
  /\ TypeOK => CacheOfNumbers(cache)
  /\ CacheOfNumbers(NewCache)
  BY NewCacheOfNumbers DEF TypeOK, CacheOfNumbers

(* A decode that fails drops its window: nothing is left to be wrong.      *)
LEMMA StopKeepsInv ==
  ASSUME IInv, NEW error \in Errors, Stop(error)
  PROVE  IInv'
  <1>1. /\ pc' = error /\ input_pos' = 0 /\ segment' = NoSegment
        /\ encoding_end' = 0 /\ target_size' = 0 /\ adler32' = FALSE
        /\ compressed' = {} /\ lengths' = None /\ active_memory' = 0
        /\ resident' = None /\ left' = None /\ cache' = NewCache
        /\ todo' = << >> /\ input_len' = input_len /\ compressor' = compressor
        /\ output_len' = output_len /\ window_start' = window_start
        /\ persisted' = persisted /\ op' = op
    BY DEF Stop, DropWindow, delta, output
  <1>2. pc' \in Errors
    BY <1>1
  <1>3. TypeOK'
    <2>1. CacheOfNumbers(cache')
      BY <1>1, CacheBoxed
    <2>2. segment' \in [kind: {"none", "source", "target"}, start: Nat, len: Nat]
      BY <1>1 DEF NoSegment
    <2>3. todo' \in Seq(Instruction) /\ Len(todo') <= 2
      BY <1>1
    <2>4. /\ input_len' \in DeltaLens /\ compressor' \in {"none", "djw", "lzma"}
          /\ output_len' \in Nat /\ window_start' \in Nat /\ persisted' \in Nat
          /\ op' \in [kind: {"none", "add", "run", "source", "target", "current"},
                     start: Nat, size: Nat, base: Nat]
      BY <1>1, Zenon DEF IInv, TypeOK
    <2>7. input_pos' \in 0..input_len'
      <3>1. input_len' \in 0..MAX_NUMBER
        BY <2>4
      <3> QED
        BY <1>1, <3>1
    <2>5. /\ encoding_end' \in Nat /\ target_size' \in Nat /\ adler32' \in BOOLEAN
          /\ compressed' \subseteq Section /\ lengths' \in [Section -> Nat]
          /\ active_memory' \in Nat /\ resident' \in [Section -> Nat]
          /\ left' \in [Section -> Nat]
      BY <1>1, NothingHeld
    <2>6. pc' \in Ends
      BY <1>2 DEF Ends
    <2> QED
      BY <2>1, <2>2, <2>3, <2>4, <2>5, <2>6, <2>7 DEF TypeOK, CacheOfNumbers
  <1>4. SegmentInv'
    BY <1>1 DEF SegmentInv, NoSegment
  <1>5. OutputInv' /\ CallInv'
    BY <1>1, <1>2, Places DEF IInv, OutputInv, CallInv
  <1>6. MemoryInv' /\ PositionInv' /\ CacheInv'
    BY <1>1, <1>2, Places, NothingHeld DEF MemoryInv, PositionInv, CacheInv
  <1> QED
    BY <1>3, <1>4, <1>5, <1>6 DEF IInv

LEMMA InitInv == Init => IInv
  <1> SUFFICES ASSUME Init PROVE IInv
    OBVIOUS
  <1>1. TypeOK
    <2>1. CacheOfNumbers(cache)
      BY CacheBoxed DEF Init
    <2>2. segment \in [kind: {"none", "source", "target"}, start: Nat, len: Nat]
      BY DEF Init, NoSegment
    <2>3. input_len \in Nat /\ input_pos \in 0..input_len
      BY DEF Init
    <2>4. op \in [kind: {"none", "add", "run", "source", "target", "current"},
                  start: Nat, size: Nat, base: Nat]
      BY DEF Init, NoCall
    <2>5. todo \in Seq(Instruction) /\ Len(todo) <= 2
      BY DEF Init
    <2> QED
      BY <2>1, <2>2, <2>3, <2>4, <2>5, NothingHeld DEF Init, TypeOK, CacheOfNumbers
  <1>2. SegmentInv /\ OutputInv /\ CallInv
    BY Places DEF Init, SegmentInv, OutputInv, CallInv, NoSegment
  <1>3. MemoryInv /\ PositionInv /\ CacheInv
    BY Places, NothingHeld DEF Init, MemoryInv, PositionInv, CacheInv
  <1> QED
    BY <1>1, <1>2, <1>3 DEF IInv
-----------------------------------------------------------------------------
(* The cursors and the output are as they were, and no window is running.  *)
LEMMA HeaderStepKeepsTypes ==
  ASSUME TypeOK, UNCHANGED <<input_len, cursors, output>>,
         input_pos' <= input_len, input_pos' \in Nat,
         compressor' \in {"none", "djw", "lzma"},
         segment' \in [kind: {"none", "source", "target"}, start: Nat, len: Nat],
         encoding_end' \in Nat, target_size' \in Nat, adler32' \in BOOLEAN,
         compressed' \subseteq Section, lengths' \in [Section -> Nat],
         active_memory' \in Nat, resident' \in [Section -> Nat],
         pc' \in Ends \cup Section \cup
             {"header", "window", "size", "compression", "lengths", "begin"}
  PROVE  TypeOK'
  <1>1. /\ input_len' = input_len /\ left' = left /\ cache' = cache /\ todo' = todo
        /\ output_len' = output_len /\ window_start' = window_start
        /\ persisted' = persisted /\ op' = op
    BY DEF cursors, output
  <1>2. input_len \in Nat /\ input_pos' \in 0..input_len
    BY DEF TypeOK
  <1> QED
    BY <1>1, <1>2 DEF TypeOK

LEMMA HeaderStepKeepsInv ==
  ASSUME IInv, UNCHANGED <<input_len, cursors, output>>,
         pc \notin Running \cup Errors, pc' \notin Running \cup Errors, TypeOK',
         SegmentInv', MemoryInv', PositionInv',
         pc' \in Windowed => output_len + target_size' <= MaxTarget
  PROVE  IInv'
  <1>1. /\ output_len' = output_len /\ persisted' = persisted /\ op' = op
    BY DEF output
  <1>2. OutputInv'
    BY <1>1 DEF IInv, OutputInv
  <1>3. CallInv'
    BY <1>1 DEF IInv, CallInv, Running
  <1>4. CacheInv'
    BY DEF CacheInv
  <1> QED
    BY <1>2, <1>3, <1>4 DEF IInv

LEMMA ParseHeaderKeepsInv == IInv /\ ParseHeader => IInv'
  <1> SUFFICES ASSUME IInv, ParseHeader PROVE IInv'
    OBVIOUS
  <1>1. pc = "header"
    BY DEF ParseHeader
  <1> DEFINE Ending(codec) == IF codec = "none" THEN 5 ELSE 6
             End(codec, armored, skipped) ==
               IF armored THEN Ending(codec) + 1 + skipped ELSE Ending(codec)
             Checks(codec, armored, malformed, skipped) ==
               <<Truncated(3), <<malformed = 3, "BadHeader">>,
                 Truncated(4), <<malformed = 4, "BadHeader">>,
                 Truncated(5), <<malformed = 5, "BadHeader">>,
                 Truncated(Ending(codec)), <<malformed = 6, "BadHeader">>,
                 <<armored /\ Ending(codec) + 1 > input_len, "TruncatedDelta">>,
                 Overflow(End(codec, armored, skipped)),
                 Truncated(End(codec, armored, skipped))>>
  <1>2. PICK codec \in {"none", "djw", "lzma"}, armored \in BOOLEAN,
             malformed \in {0, 3, 4, 5, 6}, skipped \in HeaderLens :
          \/ Refuse(Checks(codec, armored, malformed, skipped))
          \/ /\ Accept(Checks(codec, armored, malformed, skipped))
             /\ compressor' = codec
             /\ input_pos' = End(codec, armored, skipped)
             /\ pc' = "window"
             /\ UNCHANGED <<input_len, header, memory, cursors, output>>
    BY Zenon DEF ParseHeader
  <1> DEFINE checks == Checks(codec, armored, malformed, skipped)
             end == End(codec, armored, skipped)
  <1>3. ASSUME Refuse(checks) PROVE IInv'
    <2>1. \E error \in Errors : Stop(error)
      BY <1>3 DEF Refuse, Errors, Truncated, Overflow
    <2> QED
      BY <2>1, StopKeepsInv
  <1>4. ASSUME Accept(checks), compressor' = codec, input_pos' = end,
               pc' = "window", UNCHANGED <<input_len, header, memory, cursors, output>>
        PROVE  IInv'
    <2>1. DOMAIN checks = 1..11 /\ checks[11] = Truncated(end)
      OBVIOUS
    <2>2. ~Truncated(end)[1]
      BY <1>4, <2>1, AcceptAt
    <2>3. ~(end > input_len)
      BY <2>2, Zenon DEF Truncated
    <2>4. end \in Nat /\ input_len \in Nat
      BY DEF IInv, TypeOK
    <2>5. /\ segment' = segment /\ encoding_end' = encoding_end
          /\ target_size' = target_size /\ adler32' = adler32
          /\ compressed' = compressed /\ lengths' = lengths
          /\ active_memory' = active_memory /\ resident' = resident
          /\ persisted' = persisted
      BY <1>4 DEF header, memory, output
    <2>6. TypeOK'
      <3>1. input_pos' <= input_len /\ input_pos' \in Nat
        BY <1>4, <2>3, <2>4
      <3>2. /\ segment' \in [kind: {"none", "source", "target"}, start: Nat, len: Nat]
            /\ encoding_end' \in Nat /\ target_size' \in Nat /\ adler32' \in BOOLEAN
            /\ compressed' \subseteq Section /\ lengths' \in [Section -> Nat]
            /\ active_memory' \in Nat /\ resident' \in [Section -> Nat]
        BY <2>5, Zenon DEF IInv, TypeOK
      <3> HIDE DEF checks, end
      <3> QED
        BY <1>4, <3>1, <3>2, HeaderStepKeepsTypes DEF IInv
    <2>7. SegmentInv' /\ MemoryInv' /\ PositionInv'
      BY <1>4, <2>5, Places DEF IInv, SegmentInv, MemoryInv, PositionInv
    <2> QED
      BY <1>1, <1>4, <2>6, <2>7, Places, HeaderStepKeepsInv
  <1> QED
    BY <1>2, <1>3, <1>4

LEMMA FinishKeepsInv == IInv /\ Finish => IInv'
  <1> SUFFICES ASSUME IInv, Finish PROVE IInv'
    OBVIOUS
  <1>1. /\ pc = "window" /\ pc' = "done" /\ input_pos' = input_pos
        /\ UNCHANGED <<input_len, compressor, header, memory, cursors, output>>
    BY DEF Finish, delta
  <1>2. /\ segment' = segment /\ encoding_end' = encoding_end
        /\ target_size' = target_size /\ adler32' = adler32
        /\ compressed' = compressed /\ lengths' = lengths
        /\ active_memory' = active_memory /\ resident' = resident
        /\ persisted' = persisted
    BY <1>1 DEF header, memory, output
  <1>3. TypeOK'
    <2>1. input_pos' <= input_len /\ input_pos' \in Nat
      BY <1>1 DEF IInv, TypeOK
    <2>2. /\ segment' \in [kind: {"none", "source", "target"}, start: Nat, len: Nat]
          /\ encoding_end' \in Nat /\ target_size' \in Nat /\ adler32' \in BOOLEAN
          /\ compressed' \subseteq Section /\ lengths' \in [Section -> Nat]
          /\ active_memory' \in Nat /\ resident' \in [Section -> Nat]
          /\ compressor' \in {"none", "djw", "lzma"}
      BY <1>1, <1>2, Zenon DEF IInv, TypeOK
    <2> QED
      BY <1>1, <2>1, <2>2, HeaderStepKeepsTypes, Places DEF IInv
  <1>4. SegmentInv' /\ MemoryInv' /\ PositionInv'
    BY <1>1, <1>2, Places DEF IInv, SegmentInv, MemoryInv, PositionInv
  <1> QED
    BY <1>1, <1>3, <1>4, Places, HeaderStepKeepsInv

LEMMA ReadIndicatorKeepsInv == IInv /\ ReadIndicator => IInv'
  <1> SUFFICES ASSUME IInv, ReadIndicator PROVE IInv'
    OBVIOUS
  <1> DEFINE Segmented(kind) == kind \in {"source", "target"}
             End(kind) == input_pos + IF Segmented(kind) THEN 3 ELSE 1
             Checks(kind, reserved, start, len) ==
               <<<<reserved \/ kind = "both", "InvalidWindowIndicator">>,
                 Truncated(End(kind)),
                 <<Segmented(kind) /\ start + len > MAX_NUMBER,
                   "ArithmeticOverflow">>,
                 <<Segmented(kind) /\ start + len > Available(kind),
                   "SegmentOutOfBounds">>>>
             Chosen(kind, start, len) ==
               IF Segmented(kind) THEN [kind |-> kind, start |-> start, len |-> len]
               ELSE NoSegment
  <1>1. PICK kind \in {"none", "source", "target", "both"},
             reserved \in BOOLEAN, checksum \in BOOLEAN :
          \E start, len \in IF kind \in {"source", "target"} THEN Numbers ELSE {0} :
            \/ Refuse(Checks(kind, reserved, start, len))
            \/ /\ Accept(Checks(kind, reserved, start, len))
               /\ segment' = Chosen(kind, start, len)
               /\ adler32' = checksum
               /\ input_pos' = End(kind)
               /\ pc' = "size"
               /\ UNCHANGED <<delta, encoding_end, target_size, compressed,
                              lengths, memory, cursors, output>>
    BY Zenon DEF ReadIndicator
  <1>2. PICK start \in IF kind \in {"source", "target"} THEN Numbers ELSE {0},
             len \in IF kind \in {"source", "target"} THEN Numbers ELSE {0} :
          \/ Refuse(Checks(kind, reserved, start, len))
          \/ /\ Accept(Checks(kind, reserved, start, len))
             /\ segment' = Chosen(kind, start, len)
             /\ adler32' = checksum
             /\ input_pos' = End(kind)
             /\ pc' = "size"
             /\ UNCHANGED <<delta, encoding_end, target_size, compressed,
                            lengths, memory, cursors, output>>
    BY <1>1, Zenon
  <1>3. start \in Nat /\ len \in Nat
    OBVIOUS
  <1>4. ASSUME Refuse(Checks(kind, reserved, start, len)) PROVE IInv'
    <2>1. \E error \in Errors : Stop(error)
      BY <1>4 DEF Refuse, Errors, Truncated, Overflow
    <2> QED
      BY <2>1, StopKeepsInv
  <1>5. ASSUME Accept(Checks(kind, reserved, start, len)),
               segment' = Chosen(kind, start, len), adler32' = checksum,
               input_pos' = End(kind), pc' = "size",
               UNCHANGED <<delta, encoding_end, target_size, compressed,
                           lengths, memory, cursors, output>>
        PROVE  IInv'
    <2>1. /\ ~(reserved \/ kind = "both")
          /\ ~(End(kind) > input_len)
          /\ ~(Segmented(kind) /\ start + len > Available(kind))
      <3>1. /\ ~<<reserved \/ kind = "both", "InvalidWindowIndicator">>[1]
            /\ ~Truncated(End(kind))[1]
            /\ ~<<Segmented(kind) /\ start + len > Available(kind),
                  "SegmentOutOfBounds">>[1]
        BY <1>5, Accept4, Zenon
      <3> QED
        BY <3>1, Zenon DEF Truncated
    <2>2. /\ input_len' = input_len /\ compressor' = compressor
          /\ encoding_end' = encoding_end /\ target_size' = target_size
          /\ compressed' = compressed /\ lengths' = lengths
          /\ active_memory' = active_memory /\ resident' = resident
          /\ persisted' = persisted
      BY <1>5 DEF delta, memory, output
    <2>3. segment' \in [kind: {"none", "source", "target"}, start: Nat, len: Nat]
      BY <1>3, <1>5, <2>1 DEF NoSegment
    <2>4. input_pos' <= input_len /\ input_pos' \in Nat
      BY <1>5, <2>1 DEF IInv, TypeOK
    <2>5. /\ encoding_end' \in Nat /\ target_size' \in Nat /\ adler32' \in BOOLEAN
          /\ compressed' \subseteq Section /\ lengths' \in [Section -> Nat]
          /\ active_memory' \in Nat /\ resident' \in [Section -> Nat]
          /\ compressor' \in {"none", "djw", "lzma"}
      BY <1>5, <2>2, Zenon DEF IInv, TypeOK
    <2>6. pc = "window"
      BY DEF ReadIndicator
    <2>7. output_len = persisted
      BY <2>6, Places DEF IInv, OutputInv
    <2>8. SegmentInv'
      <3>1. CASE Segmented(kind)
        <4>1. ~(start + len > Available(kind))
          BY <2>1, <3>1
        <4>2. Available(kind) = IF kind = "source" THEN SourceLen ELSE persisted
          BY <2>7 DEF Available
        <4>3. start + len <= IF kind = "source" THEN SourceLen ELSE persisted
          <5>1. persisted \in Nat
            BY DEF IInv, TypeOK
          <5> QED
            BY <1>3, <4>1, <4>2, <5>1
        <4>4. segment' = [kind |-> kind, start |-> start, len |-> len]
          BY <1>5, <3>1
        <4> QED
          BY <2>2, <3>1, <4>3, <4>4 DEF SegmentInv
      <3>2. CASE ~Segmented(kind)
        BY <1>5, <3>2 DEF SegmentInv, NoSegment
      <3> QED
        BY <3>1, <3>2
    <2>9. MemoryInv' /\ PositionInv'
      BY <1>5, <2>2, Places DEF IInv, MemoryInv, PositionInv
    <2>10. TypeOK'
      BY <1>5, <2>2, <2>3, <2>4, <2>5, HeaderStepKeepsTypes DEF IInv
    <2> QED
      BY <1>5, <2>2, <2>6, <2>8, <2>9, <2>10, Places, HeaderStepKeepsInv
  <1> QED
    BY <1>2, <1>4, <1>5

LEMMA ReadTargetSizeKeepsInv == IInv /\ ReadTargetSize => IInv'
  <1> SUFFICES ASSUME IInv, ReadTargetSize PROVE IInv'
    OBVIOUS
  <1> DEFINE Checks(encoding_len, size) ==
               <<Truncated(input_pos + 1), Overflow(input_pos + 1 + encoding_len),
                 Truncated(input_pos + 2), Overflow(output_len + size),
                 <<output_len + size > MaxTarget, "TargetSizeLimit">>>>
  <1>1. PICK encoding_len \in EncodingLens, size \in Numbers :
          \/ Refuse(Checks(encoding_len, size))
          \/ /\ Accept(Checks(encoding_len, size))
             /\ encoding_end' = input_pos + 1 + encoding_len
             /\ target_size' = size
             /\ input_pos' = input_pos + 2
             /\ pc' = "compression"
             /\ UNCHANGED <<delta, segment, adler32, compressed, lengths,
                            memory, cursors, output>>
    BY Zenon DEF ReadTargetSize
  <1>2. encoding_len \in Nat /\ size \in Nat
    OBVIOUS
  <1>3. ASSUME Refuse(Checks(encoding_len, size)) PROVE IInv'
    <2>1. \E error \in Errors : Stop(error)
      BY <1>3 DEF Refuse, Errors, Truncated, Overflow
    <2> QED
      BY <2>1, StopKeepsInv
  <1>4. ASSUME Accept(Checks(encoding_len, size)),
               encoding_end' = input_pos + 1 + encoding_len,
               target_size' = size, input_pos' = input_pos + 2,
               pc' = "compression",
               UNCHANGED <<delta, segment, adler32, compressed, lengths,
                           memory, cursors, output>>
        PROVE  IInv'
    <2>1. ~(input_pos + 2 > input_len) /\ ~(output_len + size > MaxTarget)
      <3>1. /\ ~Truncated(input_pos + 2)[1]
            /\ ~<<output_len + size > MaxTarget, "TargetSizeLimit">>[1]
        BY <1>4, Accept5, Zenon
      <3> QED
        BY <3>1, Zenon DEF Truncated
    <2>2. /\ input_len' = input_len /\ compressor' = compressor
          /\ segment' = segment /\ adler32' = adler32
          /\ compressed' = compressed /\ lengths' = lengths
          /\ active_memory' = active_memory /\ resident' = resident
          /\ persisted' = persisted /\ output_len' = output_len
      BY <1>4 DEF delta, memory, output
    <2>3. /\ input_pos \in Nat /\ input_len \in Nat /\ output_len \in Nat
      BY DEF IInv, TypeOK
    <2>4. /\ input_pos' <= input_len /\ input_pos' \in Nat
          /\ encoding_end' \in Nat /\ target_size' \in Nat
          /\ output_len + target_size' <= MaxTarget
      BY <1>2, <1>4, <2>1, <2>3
    <2>5. /\ segment' \in [kind: {"none", "source", "target"}, start: Nat, len: Nat]
          /\ adler32' \in BOOLEAN /\ compressed' \subseteq Section
          /\ lengths' \in [Section -> Nat]
          /\ active_memory' \in Nat /\ resident' \in [Section -> Nat]
          /\ compressor' \in {"none", "djw", "lzma"}
      BY <2>2, Zenon DEF IInv, TypeOK
    <2>6. pc = "size"
      BY DEF ReadTargetSize
    <2>7. SegmentInv' /\ MemoryInv' /\ PositionInv'
      BY <1>4, <2>2, Places DEF IInv, SegmentInv, MemoryInv, PositionInv
    <2>8. TypeOK'
      BY <1>4, <2>2, <2>4, <2>5, HeaderStepKeepsTypes DEF IInv
    <2> QED
      BY <1>4, <2>2, <2>4, <2>6, <2>7, <2>8, Places, HeaderStepKeepsInv
  <1> QED
    BY <1>1, <1>3, <1>4

LEMMA ReadDeltaIndicatorKeepsInv == IInv /\ ReadDeltaIndicator => IInv'
  <1> SUFFICES ASSUME IInv, ReadDeltaIndicator PROVE IInv'
    OBVIOUS
  <1> DEFINE Checks(sections, reserved) ==
               <<Truncated(input_pos + 1), <<reserved, "InvalidDeltaIndicator">>,
                 <<sections # {} /\ compressor = "none",
                   "CompressedSectionWithoutCompressor">>>>
  <1>1. PICK sections \in SUBSET Section, reserved \in BOOLEAN :
          \/ Refuse(Checks(sections, reserved))
          \/ /\ Accept(Checks(sections, reserved))
             /\ compressed' = sections
             /\ input_pos' = input_pos + 1
             /\ pc' = "lengths"
             /\ UNCHANGED <<delta, segment, encoding_end, target_size, adler32,
                            lengths, memory, cursors, output>>
    BY Zenon DEF ReadDeltaIndicator
  <1>2. ASSUME Refuse(Checks(sections, reserved)) PROVE IInv'
    <2>1. \E error \in Errors : Stop(error)
      BY <1>2 DEF Refuse, Errors, Truncated
    <2> QED
      BY <2>1, StopKeepsInv
  <1>3. ASSUME Accept(Checks(sections, reserved)), compressed' = sections,
               input_pos' = input_pos + 1, pc' = "lengths",
               UNCHANGED <<delta, segment, encoding_end, target_size, adler32,
                           lengths, memory, cursors, output>>
        PROVE  IInv'
    <2>1. ~(input_pos + 1 > input_len)
      <3>1. ~Truncated(input_pos + 1)[1]
        BY <1>3, Accept3, Zenon
      <3> QED
        BY <3>1, Zenon DEF Truncated
    <2>2. /\ input_len' = input_len /\ compressor' = compressor
          /\ segment' = segment /\ adler32' = adler32
          /\ encoding_end' = encoding_end /\ target_size' = target_size
          /\ lengths' = lengths
          /\ active_memory' = active_memory /\ resident' = resident
          /\ persisted' = persisted /\ output_len' = output_len
      BY <1>3 DEF delta, memory, output
    <2>3. input_pos \in Nat /\ input_len \in Nat
      BY DEF IInv, TypeOK
    <2>4. input_pos' <= input_len /\ input_pos' \in Nat
      BY <1>3, <2>1, <2>3
    <2>5. /\ segment' \in [kind: {"none", "source", "target"}, start: Nat, len: Nat]
          /\ encoding_end' \in Nat /\ target_size' \in Nat
          /\ adler32' \in BOOLEAN /\ compressed' \subseteq Section
          /\ lengths' \in [Section -> Nat]
          /\ active_memory' \in Nat /\ resident' \in [Section -> Nat]
          /\ compressor' \in {"none", "djw", "lzma"}
      BY <1>3, <2>2, Zenon DEF IInv, TypeOK
    <2>6. pc = "compression"
      BY DEF ReadDeltaIndicator
    <2>7. SegmentInv' /\ MemoryInv' /\ PositionInv'
      BY <1>3, <2>2, Places DEF IInv, SegmentInv, MemoryInv, PositionInv
    <2>8. TypeOK'
      BY <1>3, <2>2, <2>4, <2>5, HeaderStepKeepsTypes DEF IInv
    <2>9. output_len + target_size' <= MaxTarget
      BY <2>2, <2>6, Places DEF IInv, OutputInv
    <2> QED
      BY <1>3, <2>2, <2>6, <2>7, <2>8, <2>9, Places, HeaderStepKeepsInv
  <1> QED
    BY <1>1, <1>2, <1>3

LEMMA ReadLengthsKeepsInv == IInv /\ ReadLengths => IInv'
  <1> SUFFICES ASSUME IInv, ReadLengths PROVE IInv'
    OBVIOUS
  <1> DEFINE start == input_pos + 3 + IF adler32 THEN 4 ELSE 0
             Checks(read) ==
               <<Truncated(start), Overflow(start + Total(read)),
                 <<Misfits(start + Total(read)), "DeltaLengthMismatch">>,
                 Truncated(start + Total(read))>>
  <1>1. PICK read \in [Section -> Numbers] :
          \/ Refuse(Checks(read))
          \/ /\ Accept(Checks(read))
             /\ lengths' = read
             /\ input_pos' = start
             /\ active_memory' = 0 /\ resident' = None
             /\ pc' = "data"
             /\ UNCHANGED <<delta, segment, encoding_end, target_size, adler32,
                            compressed, cursors, output>>
    BY Zenon DEF ReadLengths
  <1>2. read \in [Section -> Nat] /\ Total(read) \in Nat
    <2>1. read \in [Section -> Nat]
      <3>1. Numbers \subseteq Nat
        OBVIOUS
      <3> QED
        BY ONLY <3>1, read \in [Section -> Numbers]
    <2> QED
      BY <2>1, SectionNumbers
  <1>3. input_pos \in Nat /\ input_len \in Nat /\ start \in Nat
    BY DEF IInv, TypeOK
  <1>4. ASSUME Refuse(Checks(read)) PROVE IInv'
    <2>1. \E error \in Errors : Stop(error)
      BY <1>4 DEF Refuse, Errors, Truncated, Overflow
    <2> QED
      BY <2>1, StopKeepsInv
  <1>5. ASSUME Accept(Checks(read)), lengths' = read, input_pos' = start,
               active_memory' = 0, resident' = None, pc' = "data",
               UNCHANGED <<delta, segment, encoding_end, target_size, adler32,
                           compressed, cursors, output>>
        PROVE  IInv'
    <2> HIDE DEF start
    <2>1. ~(start > input_len) /\ start + Total(read) = encoding_end
      <3>1. ~Truncated(start)[1]
            /\ ~<<Misfits(start + Total(read)), "DeltaLengthMismatch">>[1]
        BY <1>5, Accept4, Zenon
      <3> QED
        BY <3>1, Zenon DEF Truncated, Misfits
    <2>2. /\ input_len' = input_len /\ compressor' = compressor
          /\ segment' = segment /\ adler32' = adler32
          /\ encoding_end' = encoding_end /\ target_size' = target_size
          /\ compressed' = compressed
          /\ persisted' = persisted /\ output_len' = output_len
      BY <1>5 DEF delta, output
    <2>3. input_pos' <= input_len /\ input_pos' \in Nat
      BY <1>3, <1>5, <2>1
    <2>4. /\ segment' \in [kind: {"none", "source", "target"}, start: Nat, len: Nat]
          /\ encoding_end' \in Nat /\ target_size' \in Nat
          /\ adler32' \in BOOLEAN /\ compressed' \subseteq Section
          /\ compressor' \in {"none", "djw", "lzma"}
      BY <2>2, Zenon DEF IInv, TypeOK
    <2>5. /\ lengths' \in [Section -> Nat]
          /\ active_memory' \in Nat /\ resident' \in [Section -> Nat]
      BY <1>2, <1>5, NothingHeld
    <2>6. pc = "lengths"
      BY DEF ReadLengths
    <2>7. SegmentInv'
      BY <2>2 DEF IInv, SegmentInv
    <2>8. MemoryInv'
      BY <1>5, NothingHeld DEF MemoryInv
    <2>9. PositionInv'
      BY <1>5, <2>1, <2>2, Places DEF PositionInv
    <2>10. TypeOK'
      BY <1>5, <2>2, <2>3, <2>4, <2>5, HeaderStepKeepsTypes, Places DEF IInv
    <2>11. output_len + target_size' <= MaxTarget
      BY <2>2, <2>6, Places DEF IInv, OutputInv
    <2> QED
      BY <1>5, <2>2, <2>6, <2>7, <2>8, <2>9, <2>10, <2>11, Places,
         HeaderStepKeepsInv
  <1> QED
    BY <1>1, <1>4, <1>5
-----------------------------------------------------------------------------
(* A section that fits the budget becomes resident.                        *)
LEMMA PreparedKeepsInv ==
  ASSUME IInv, NEW section \in Section, pc = section, NEW bytes \in Nat,
         Held(section, bytes) <= MaxWindowMemory,
         input_pos + lengths[section] <= input_len,
         Prepared(section, bytes)
  PROVE  IInv'
  <1>1. /\ active_memory' = active_memory + bytes
        /\ resident' = [resident EXCEPT ![section] = bytes]
        /\ input_pos' = input_pos + lengths[section]
        /\ pc' = After[section]
        /\ UNCHANGED <<input_len, cursors, output>>
        /\ compressor' = compressor /\ segment' = segment /\ adler32' = adler32
        /\ encoding_end' = encoding_end /\ target_size' = target_size
        /\ compressed' = compressed /\ lengths' = lengths
        /\ persisted' = persisted /\ output_len' = output_len
    BY DEF Prepared, Held, delta, header, output
  <1>2. /\ input_pos \in Nat /\ active_memory \in Nat
        /\ lengths \in [Section -> Nat] /\ resident \in [Section -> Nat]
    <2>1. /\ active_memory \in Nat /\ lengths \in [Section -> Nat]
          /\ resident \in [Section -> Nat]
      BY Zenon DEF IInv, TypeOK
    <2>2. input_pos \in Nat
      BY DEF IInv, TypeOK
    <2> QED
      BY <2>1, <2>2
  <1>3. active_memory + bytes <= MaxWindowMemory
    BY DEF Held
  <1>4. /\ section = "data" => pc' = "instructions"
        /\ section = "instructions" => pc' = "addresses"
        /\ section = "addresses" => pc' = "begin"
    BY <1>1 DEF After
  <1>5. /\ active_memory = Total(resident)
        /\ section = "data" => resident = None
        /\ section = "instructions" => resident["instructions"] = 0 /\ resident["addresses"] = 0
        /\ section = "addresses" => resident["addresses"] = 0
    BY DEF IInv, MemoryInv
  <1>6. /\ resident' \in [Section -> Nat]
        /\ Total(resident') = Total(resident) + bytes
        /\ \A s \in Section \ {section} : resident'[s] = resident[s]
    <2>1. /\ resident' \in [Section -> Nat] /\ resident'[section] = bytes
          /\ \A s \in Section \ {section} : resident'[s] = resident[s]
      BY <1>1, <1>2
    <2>2. resident[section] = 0
      BY <1>5, Places DEF None
    <2> QED
      BY <1>2, <2>1, <2>2, SectionNumbers, Places DEF Total
  <1>7. MemoryInv'
    <2>1. Total(resident') <= MaxWindowMemory /\ active_memory' = Total(resident')
      BY <1>1, <1>3, <1>5, <1>6
    <2>2. pc' # "data"
      BY <1>4, Places
    <2>3. pc' = "instructions" => section = "data"
      BY <1>4, Places
    <2>4. pc' = "addresses" => section = "instructions"
      BY <1>4, Places
    <2>5. pc' = "instructions" =>
            resident'["instructions"] = 0 /\ resident'["addresses"] = 0
      BY <1>5, <1>6, <2>3, Places DEF None
    <2>6. pc' = "addresses" => resident'["addresses"] = 0
      BY <1>5, <1>6, <2>4, Places
    <2> QED
      BY <2>1, <2>2, <2>5, <2>6 DEF MemoryInv
  <1>8. PositionInv'
    <2>1. /\ lengths["data"] \in Nat /\ lengths["instructions"] \in Nat
          /\ lengths["addresses"] \in Nat
      BY <1>2, SectionNumbers
    <2>2. CASE section = "data"
      BY <1>1, <1>2, <1>4, <2>1, <2>2, Places DEF IInv, PositionInv, Total
    <2>3. CASE section = "instructions"
      BY <1>1, <1>2, <1>4, <2>1, <2>3, Places DEF IInv, PositionInv
    <2>4. CASE section = "addresses"
      BY <1>1, <1>2, <1>4, <2>1, <2>4, Places DEF IInv, PositionInv
    <2> QED
      BY <2>2, <2>3, <2>4, Places
  <1>9. SegmentInv'
    BY <1>1 DEF IInv, SegmentInv
  <1>10. pc' \in {"instructions", "addresses", "begin"}
    BY <1>4, Places
  <1>11. TypeOK'
    <2>1. /\ segment' \in [kind: {"none", "source", "target"}, start: Nat, len: Nat]
          /\ encoding_end' \in Nat /\ target_size' \in Nat
          /\ adler32' \in BOOLEAN /\ compressed' \subseteq Section
          /\ lengths' \in [Section -> Nat]
          /\ compressor' \in {"none", "djw", "lzma"}
      BY <1>1, Zenon DEF IInv, TypeOK
    <2>2. /\ input_pos' <= input_len /\ input_pos' \in Nat /\ active_memory' \in Nat
      BY <1>1, <1>2
    <2> QED
      BY <1>1, <1>6, <1>10, <2>1, <2>2, HeaderStepKeepsTypes, Places DEF IInv
  <1>12. output_len + target_size' <= MaxTarget
    BY <1>1, Places DEF IInv, OutputInv
  <1> QED
    BY <1>1, <1>7, <1>8, <1>9, <1>10, <1>11, <1>12, Places, HeaderStepKeepsInv

LEMMA PrepareRawKeepsInv ==
  ASSUME IInv, NEW section \in Section, PrepareRaw(section)
  PROVE  IInv'
  <1> DEFINE held == Held(section, lengths[section])
             checks == <<Overflow(held), OverBudget(held),
                         Truncated(input_pos + lengths[section])>>
  <1>1. /\ pc = section
        /\ \/ Refuse(checks)
           \/ Accept(checks) /\ Prepared(section, lengths[section])
    BY Zenon DEF PrepareRaw
  <1>2. ASSUME Refuse(checks) PROVE IInv'
    <2>1. \E error \in Errors : Stop(error)
      BY <1>2 DEF Refuse, Errors, Truncated, Overflow, OverBudget
    <2> QED
      BY <2>1, StopKeepsInv
  <1>3. ASSUME Accept(checks), Prepared(section, lengths[section]) PROVE IInv'
    <2>1. ~(held > MaxWindowMemory) /\ ~(input_pos + lengths[section] > input_len)
      <3>1. ~OverBudget(held)[1] /\ ~Truncated(input_pos + lengths[section])[1]
        BY <1>3, Accept3, Zenon
      <3> QED
        BY <3>1, Zenon DEF OverBudget, Truncated
    <2>2. /\ lengths[section] \in Nat /\ active_memory \in Nat
          /\ input_pos \in Nat /\ input_len \in Nat
      BY DEF IInv, TypeOK
    <2>3. held <= MaxWindowMemory /\ input_pos + lengths[section] <= input_len
      BY <2>1, <2>2 DEF Held
    <2> QED
      BY <1>1, <1>3, <2>2, <2>3, PreparedKeepsInv
  <1> QED
    BY <1>1, <1>2, <1>3

LEMMA PrepareCompressedKeepsInv ==
  ASSUME IInv, NEW section \in Section, PrepareCompressed(section)
  PROVE  IInv'
  <1> DEFINE end == input_pos + lengths[section]
             Checks(size) ==
               <<Overflow(end), Truncated(end),
                 <<lengths[section] = 0, "MalformedSection">>,
                 <<size = 0, "InvalidSecondarySize">>,
                 Overflow(Held(section, size)), OverBudget(Held(section, size))>>
  <1>1. pc = section
    BY DEF PrepareCompressed
  <1>2. PICK size \in Numbers :
          \/ Refuse(Checks(size))
          \/ /\ Accept(Checks(size))
             /\ \/ Prepared(section, size)
                \/ Stop("MalformedSection")
                \/ compressor = "djw" /\ Stop("WindowMemoryLimit")
    BY Zenon DEF PrepareCompressed
  <1>3. ASSUME Refuse(Checks(size)) PROVE IInv'
    <2>1. \E error \in Errors : Stop(error)
      BY <1>3 DEF Refuse, Errors, Truncated, Overflow, OverBudget
    <2> QED
      BY <2>1, StopKeepsInv
  <1>4. ASSUME Accept(Checks(size)), Prepared(section, size) PROVE IInv'
    <2>1. ~(Held(section, size) > MaxWindowMemory) /\ ~(end > input_len)
      <3>1. ~OverBudget(Held(section, size))[1] /\ ~Truncated(end)[1]
        BY <1>4, Accept6, ZenonT(30)
      <3> QED
        BY <3>1, Zenon DEF OverBudget, Truncated
    <2>2. /\ lengths[section] \in Nat /\ active_memory \in Nat
          /\ input_pos \in Nat /\ input_len \in Nat /\ size \in Nat
      BY DEF IInv, TypeOK
    <2>3. Held(section, size) <= MaxWindowMemory /\ end <= input_len
      BY <2>1, <2>2 DEF Held
    <2> QED
      BY <1>1, <1>4, <2>2, <2>3, PreparedKeepsInv
  <1>5. ASSUME Stop("MalformedSection") \/ Stop("WindowMemoryLimit") PROVE IInv'
    <2>1. "MalformedSection" \in Errors /\ "WindowMemoryLimit" \in Errors
      BY DEF Errors
    <2> QED
      BY <1>5, <2>1, StopKeepsInv
  <1> QED
    BY <1>2, <1>3, <1>4, <1>5

LEMMA BeginWindowKeepsInv == IInv /\ BeginWindow => IInv'
  <1> SUFFICES ASSUME IInv, BeginWindow PROVE IInv'
    OBVIOUS
  <1>1. /\ pc = "begin" /\ pc' = "run"
        /\ window_start' = output_len /\ output_len' = output_len
        /\ persisted' = persisted /\ op' = op
        /\ left' = resident /\ cache' = NewCache /\ todo' = << >>
        /\ input_len' = input_len /\ compressor' = compressor
        /\ input_pos' = input_pos
        /\ segment' = segment /\ encoding_end' = encoding_end
        /\ target_size' = target_size /\ adler32' = adler32
        /\ compressed' = compressed /\ lengths' = lengths
        /\ active_memory' = active_memory /\ resident' = resident
    BY DEF BeginWindow, delta, header, memory
  <1>2. TypeOK'
    <2>1. CacheOfNumbers(cache')
      BY <1>1, CacheBoxed
    <2>2. todo' \in Seq(Instruction) /\ Len(todo') <= 2
      BY <1>1
    <2>3. left' \in [Section -> Nat] /\ window_start' \in Nat
      BY <1>1, Zenon DEF IInv, TypeOK
    <2> QED
      BY <1>1, <2>1, <2>2, <2>3 DEF IInv, TypeOK, CacheOfNumbers
  <1>3. SegmentInv'
    BY <1>1 DEF IInv, SegmentInv
  <1>4. OutputInv'
    <2>1. /\ output_len \in Nat /\ target_size \in Nat /\ persisted \in Nat
      BY DEF IInv, TypeOK
    <2>2. /\ output_len = persisted /\ output_len + target_size <= MaxTarget
      BY <1>1, Places DEF IInv, OutputInv
    <2> QED
      BY <1>1, <2>1, <2>2, Places DEF OutputInv
  <1>5. CallInv'
    BY <1>1, Places DEF IInv, CallInv
  <1>6. MemoryInv' /\ PositionInv'
    BY <1>1, Places DEF IInv, MemoryInv, PositionInv
  <1>7. CacheInv'
    BY <1>1 DEF CacheInv, NewCache
  <1> QED
    BY <1>2, <1>3, <1>4, <1>5, <1>6, <1>7 DEF IInv
-----------------------------------------------------------------------------
(* While a window runs its header, its sections and the place it started   *)
(* stay; what may change is named.                                         *)
LEMMA RunningStepKeepsInv ==
  ASSUME IInv, pc \in Running, pc' \in Running,
         UNCHANGED <<delta, input_pos, header, memory, window_start, persisted>>,
         left' \in [Section -> Nat], CacheOfNumbers(cache'),
         todo' \in Seq(Instruction), Len(todo') <= 2,
         output_len' \in Nat, output_len <= output_len',
         output_len' <= window_start + target_size,
         op' \in [kind: {"none", "add", "run", "source", "target", "current"},
                  start: Nat, size: Nat, base: Nat],
         CallInv', CacheInv'
  PROVE  IInv'
  <1>1. /\ input_len' = input_len /\ compressor' = compressor
        /\ input_pos' = input_pos
        /\ segment' = segment /\ encoding_end' = encoding_end
        /\ target_size' = target_size /\ adler32' = adler32
        /\ compressed' = compressed /\ lengths' = lengths
        /\ active_memory' = active_memory /\ resident' = resident
        /\ window_start' = window_start /\ persisted' = persisted
    BY DEF delta, header, memory
  <1>2. TypeOK'
    BY <1>1 DEF IInv, TypeOK, CacheOfNumbers, Running
  <1>3. SegmentInv'
    BY <1>1 DEF IInv, SegmentInv
  <1>4. OutputInv'
    <2>1. /\ output_len \in Nat /\ target_size \in Nat /\ persisted \in Nat
          /\ window_start \in Nat
      BY DEF IInv, TypeOK
    <2>2. /\ window_start = persisted /\ persisted <= output_len
          /\ window_start + target_size <= MaxTarget
      BY DEF IInv, OutputInv
    <2>3. /\ persisted' <= output_len' /\ output_len' <= MaxTarget
          /\ window_start' = persisted' /\ output_len' <= window_start' + target_size'
          /\ window_start' + target_size' <= MaxTarget
      BY <1>1, <2>1, <2>2
    <2>4. pc' \notin Windowed
      BY Places
    <2> QED
      BY <2>3, <2>4 DEF OutputInv
  <1>5. MemoryInv' /\ PositionInv'
    BY <1>1, Places DEF IInv, MemoryInv, PositionInv
  <1> QED
    BY <1>2, <1>3, <1>4, <1>5 DEF IInv

(* The cache stays behind the position if it is kept and the position does *)
(* not go back.                                                            *)
LEMMA CacheStaysBehind ==
  ASSUME IInv, pc \in Running, output_len' \in Nat, output_len <= output_len',
         UNCHANGED <<cache, segment, window_start>>
  PROVE  CacheInv'
  <1>1. here \in Int /\ here' \in Int /\ here <= here'
    <2>1. output_len \in Nat /\ window_start \in Nat /\ segment.len \in Nat
      BY DEF IInv, TypeOK
    <2> QED
      BY <2>1 DEF here, produced
  <1>2. /\ \A slot \in 0..(NEAR_COUNT - 1) : cache.near[slot] \in Nat
        /\ \A slot \in 0..(SAME_SIZE - 1) : cache.same[slot] \in Nat
    <2>1. CacheOfNumbers(cache)
      BY CacheBoxed DEF IInv
    <2>2. /\ cache.near \in [0..(NEAR_COUNT - 1) -> 0..MAX_NUMBER]
          /\ cache.same \in [0..(SAME_SIZE - 1) -> 0..MAX_NUMBER]
      BY <2>1, Zenon DEF CacheOfNumbers
    <2>3. \A S, f : f \in [S -> 0..MAX_NUMBER] => \A slot \in S : f[slot] \in Nat
      OBVIOUS
    <2> QED
      BY <2>2, <2>3, Zenon
  <1>3. /\ \A slot \in 0..(NEAR_COUNT - 1) : cache.near[slot] = 0 \/ cache.near[slot] < here
        /\ \A slot \in 0..(SAME_SIZE - 1) : cache.same[slot] = 0 \/ cache.same[slot] < here
    BY DEF IInv, CacheInv
  <1>4. /\ \A slot \in 0..(NEAR_COUNT - 1) : cache.near[slot] = 0 \/ cache.near[slot] < here'
        /\ \A slot \in 0..(SAME_SIZE - 1) : cache.same[slot] = 0 \/ cache.same[slot] < here'
    BY <1>1, <1>2, <1>3
  <1> QED
    BY <1>4 DEF CacheInv

LEMMA TodoTyped ==
  ASSUME TypeOK, todo # << >>
  PROVE  /\ next \in Instruction /\ next.size \in Nat /\ next.mode \in Mode
         /\ Tail(todo) \in Seq(Instruction) /\ Len(Tail(todo)) <= 2
  <1>1. todo \in Seq(Instruction) /\ Len(todo) <= 2
    BY Zenon DEF TypeOK
  <1>2. /\ Head(todo) \in Instruction /\ Tail(todo) \in Seq(Instruction)
        /\ Len(Tail(todo)) <= 2
    BY ONLY <1>1, todo # << >>
  <1> QED
    BY <1>2 DEF next, Instruction

LEMMA ReadOpcodeKeepsInv == IInv /\ ReadOpcode => IInv'
  <1> SUFFICES ASSUME IInv, ReadOpcode PROVE IInv'
    OBVIOUS
  <1> DEFINE Bytes(entry) == 1 + SizeBytes(entry[1]) + SizeBytes(entry[2])
             Checks(entry) ==
               <<<<Bytes(entry) > left["instructions"], "SectionOutOfBounds">>>>
  <1>1. PICK entry \in Table :
          \E size1 \in Sizes(entry[1]), size2 \in Sizes(entry[2]) :
            \/ Refuse(Checks(entry))
            \/ /\ Accept(Checks(entry))
               /\ left' = [left EXCEPT !["instructions"] = @ - Bytes(entry)]
               /\ todo' = <<[entry[1] EXCEPT !.size = size1],
                            [entry[2] EXCEPT !.size = size2]>>
               /\ UNCHANGED <<delta, input_pos, header, memory, cache, output, pc>>
    BY Zenon DEF ReadOpcode
  <1>2. PICK size1 \in Sizes(entry[1]), size2 \in Sizes(entry[2]) :
          \/ Refuse(Checks(entry))
          \/ /\ Accept(Checks(entry))
             /\ left' = [left EXCEPT !["instructions"] = @ - Bytes(entry)]
             /\ todo' = <<[entry[1] EXCEPT !.size = size1],
                          [entry[2] EXCEPT !.size = size2]>>
             /\ UNCHANGED <<delta, input_pos, header, memory, cache, output, pc>>
    BY <1>1, Zenon
  <1>3. entry[1] \in Instruction /\ entry[2] \in Instruction
    BY TableAssumption
  <1>4. size1 \in Nat /\ size2 \in Nat
    BY <1>3 DEF Sizes, Instruction
  <1>5. ASSUME Refuse(Checks(entry)) PROVE IInv'
    <2>1. \E error \in Errors : Stop(error)
      BY <1>5 DEF Refuse, Errors
    <2> QED
      BY <2>1, StopKeepsInv
  <1>6. ASSUME Accept(Checks(entry)),
               left' = [left EXCEPT !["instructions"] = @ - Bytes(entry)],
               todo' = <<[entry[1] EXCEPT !.size = size1],
                         [entry[2] EXCEPT !.size = size2]>>,
               UNCHANGED <<delta, input_pos, header, memory, cache, output, pc>>
        PROVE  IInv'
    <2>1. ~(Bytes(entry) > left["instructions"])
      <3>1. ~<<Bytes(entry) > left["instructions"], "SectionOutOfBounds">>[1]
        BY <1>6, Accept1, Zenon
      <3> QED
        BY <3>1, Zenon
    <2>2. left \in [Section -> Nat]
      BY Zenon DEF IInv, TypeOK
    <2>3. Bytes(entry) \in Nat
      BY DEF SizeBytes
    <2>4. left' \in [Section -> Nat]
      <3>1. left["instructions"] \in Nat
        BY <2>2, SectionNumbers
      <3>2. left["instructions"] - Bytes(entry) \in Nat
        BY <2>1, <2>3, <3>1
      <3> HIDE DEF Bytes
      <3> QED
        BY <1>6, <2>2, <3>2
    <2>5. todo' \in Seq(Instruction) /\ Len(todo') <= 2
      <3>1. /\ [entry[1] EXCEPT !.size = size1] \in Instruction
            /\ [entry[2] EXCEPT !.size = size2] \in Instruction
        BY <1>3, <1>4 DEF Instruction
      <3> QED
        BY <1>6, <3>1
    <2>6. /\ pc = "run" /\ pc' = "run" /\ output_len' = output_len /\ op' = op
          /\ window_start' = window_start /\ persisted' = persisted
          /\ cache' = cache /\ segment' = segment
      BY <1>6 DEF ReadOpcode, output, header
    <2>7. /\ output_len \in Nat /\ output_len <= window_start + target_size
          /\ op' \in [kind: {"none", "add", "run", "source", "target", "current"},
                      start: Nat, size: Nat, base: Nat]
      BY <2>6, Places DEF IInv, TypeOK, OutputInv
    <2>8. CacheInv'
      BY <2>6, <2>7, CacheStaysBehind, Places
    <2>9. CallInv'
      BY <2>6, Places DEF IInv, CallInv
    <2>10. CacheOfNumbers(cache')
      BY <2>6, CacheBoxed DEF IInv
    <2> QED
      BY <1>6, <2>4, <2>5, <2>6, <2>7, <2>8, <2>9, <2>10, RunningStepKeepsInv,
         Places
  <1> QED
    BY <1>2, <1>5, <1>6

LEMMA NoOperationKeepsInv == IInv /\ NoOperation => IInv'
  <1> SUFFICES ASSUME IInv, NoOperation PROVE IInv'
    OBVIOUS
  <1>1. /\ pc = "run" /\ todo # << >> /\ todo' = Tail(todo)
        /\ UNCHANGED <<delta, input_pos, header, memory, left, cache, output, pc>>
    BY DEF NoOperation, Executing
  <1>2. /\ pc' = "run" /\ output_len' = output_len /\ op' = op
        /\ window_start' = window_start /\ persisted' = persisted
        /\ cache' = cache /\ segment' = segment /\ left' = left
    BY <1>1 DEF output, header
  <1>3. /\ output_len \in Nat /\ output_len <= window_start + target_size
        /\ op' \in [kind: {"none", "add", "run", "source", "target", "current"},
                    start: Nat, size: Nat, base: Nat]
    BY <1>1, <1>2, Places DEF IInv, TypeOK, OutputInv
  <1>4. left' \in [Section -> Nat]
    BY <1>2, Zenon DEF IInv, TypeOK
  <1>5. todo' \in Seq(Instruction) /\ Len(todo') <= 2
    BY <1>1, TodoTyped DEF IInv
  <1>6. CacheInv' /\ CacheOfNumbers(cache')
    BY <1>1, <1>2, <1>3, CacheStaysBehind, CacheBoxed, Places DEF IInv
  <1>7. CallInv'
    BY <1>1, <1>2, Places DEF IInv, CallInv
  <1> QED
    BY <1>1, <1>2, <1>3, <1>4, <1>5, <1>6, <1>7, RunningStepKeepsInv, Places

(* A call that has room in the window, and reads where it may.             *)
LEMMA CallKeepsInv ==
  ASSUME IInv, pc = "run", todo # << >>,
         NEW kind \in {"add", "run", "source", "target", "current"},
         NEW start \in Nat, Call(kind, start),
         left' \in [Section -> Nat], CacheOfNumbers(cache'), CacheInv',
         produced + next.size <= target_size,
         kind = "source" => start + next.size <= SourceLen,
         kind = "target" => start + next.size <= window_start,
         kind = "current" => window_start <= start /\ start < output_len
  PROVE  IInv'
  <1>1. /\ op' = [kind |-> kind, start |-> start, size |-> next.size,
                  base |-> output_len]
        /\ pc' = "call" /\ todo' = todo /\ output_len' = output_len
        /\ window_start' = window_start /\ persisted' = persisted
        /\ UNCHANGED <<delta, input_pos, header, memory>>
    BY DEF Call
  <1>2. next.size \in Nat
    BY TodoTyped DEF IInv
  <1>3. /\ output_len \in Nat /\ window_start \in Nat /\ target_size \in Nat
        /\ window_start <= output_len
    BY Places DEF IInv, TypeOK, OutputInv
  <1>4. op' \in [kind: {"none", "add", "run", "source", "target", "current"},
                 start: Nat, size: Nat, base: Nat]
    BY <1>1, <1>2, <1>3
  <1>5. target_size' = target_size
    BY <1>1 DEF header
  <1>6. CallInv'
    <2>1. op'.kind = kind /\ op'.start = start /\ op'.size = next.size
          /\ op'.base = output_len
      BY <1>1
    <2>2. output_len + next.size <= window_start + target_size
      BY <1>2, <1>3 DEF produced
    <2> QED
      BY <1>1, <1>2, <1>3, <1>5, <2>1, <2>2, Places DEF CallInv
  <1>7. todo' \in Seq(Instruction) /\ Len(todo') <= 2
    BY <1>1, Zenon DEF IInv, TypeOK
  <1>8. output_len <= window_start + target_size
    BY Places DEF IInv, OutputInv
  <1> QED
    BY <1>1, <1>3, <1>4, <1>6, <1>7, <1>8, RunningStepKeepsInv, Places

(* check_room leaves room.                                                 *)
LEMMA RoomIsThere ==
  ASSUME IInv, todo # << >>, Accept(CheckRoom)
  PROVE  produced + next.size <= target_size
  <1>1. ~(produced + next.size > target_size)
    <2> DEFINE sum == Overflow(produced + next.size)
               room == <<produced + next.size > target_size, "TargetSizeMismatch">>
    <2>1. CheckRoom = <<sum, room>>
      BY Zenon DEF CheckRoom
    <2>2. ~room[1]
      <3> HIDE DEF sum, room
      <3> QED
        BY <2>1, Accept2, Zenon
    <2> QED
      BY <2>2, Zenon
  <1>2. /\ target_size \in Nat /\ output_len \in Nat /\ window_start \in Nat
        /\ TypeOK
    BY Zenon DEF IInv, TypeOK
  <1>3. next.size \in Nat
    BY <1>2, TodoTyped, Zenon
  <1>4. produced \in Int
    BY <1>2 DEF produced
  <1> QED
    BY <1>1, <1>2, <1>3, <1>4

LEMMA RefuseRoom ==
  ASSUME IInv, Refuse(CheckRoom)
  PROVE  IInv'
  <1>1. \E error \in Errors : Stop(error)
    BY DEF Refuse, CheckRoom, Errors, Overflow
  <1> QED
    BY <1>1, StopKeepsInv

LEMMA LiteralKeepsInv ==
  ASSUME IInv, pc = "run", todo # << >>, NEW kind \in {"add", "run"},
         NEW bytes \in Nat, Literal(kind, bytes)
  PROVE  IInv'
  <1> DEFINE checks == <<<<bytes > left["data"], "SectionOutOfBounds">>>>
  <1>1. \/ Refuse(CheckRoom)
        \/ Accept(CheckRoom) /\ Refuse(checks)
        \/ /\ Accept(CheckRoom) /\ Accept(checks)
           /\ left' = [left EXCEPT !["data"] = @ - bytes]
           /\ Call(kind, 0)
           /\ UNCHANGED cache
    BY Zenon DEF Literal
  <1>2. ASSUME Refuse(checks) PROVE IInv'
    <2>1. \E error \in Errors : Stop(error)
      BY <1>2 DEF Refuse, Errors
    <2> QED
      BY <2>1, StopKeepsInv
  <1>3. ASSUME Accept(CheckRoom), Accept(checks),
               left' = [left EXCEPT !["data"] = @ - bytes],
               Call(kind, 0), UNCHANGED cache
        PROVE  IInv'
    <2>1. ~(bytes > left["data"])
      <3>1. ~<<bytes > left["data"], "SectionOutOfBounds">>[1]
        BY <1>3, Accept1, Zenon
      <3> QED
        BY <3>1, Zenon
    <2>2. left' \in [Section -> Nat]
      <3>1. left \in [Section -> Nat]
        BY Zenon DEF IInv, TypeOK
      <3>2. left["data"] - bytes \in Nat
        BY <2>1, <3>1, SectionNumbers
      <3> QED
        BY <1>3, <3>1, <3>2
    <2>3. /\ output_len' = output_len /\ window_start' = window_start
          /\ segment' = segment
      BY <1>3 DEF Call, header
    <2>4. output_len \in Nat
      BY DEF IInv, TypeOK
    <2>5. CacheInv' /\ CacheOfNumbers(cache')
      BY <1>3, <2>3, <2>4, CacheStaysBehind, CacheBoxed, Places DEF IInv
    <2> QED
      BY <1>3, <2>2, <2>5, CallKeepsInv, RoomIsThere
  <1> QED
    BY <1>1, <1>2, <1>3, RefuseRoom

LEMMA AddKeepsInv == IInv /\ Add => IInv'
  <1> SUFFICES ASSUME IInv, Add PROVE IInv'
    OBVIOUS
  <1>1. pc = "run" /\ todo # << >> /\ Literal("add", next.size)
    BY DEF Add, Executing
  <1>2. next.size \in Nat
    BY <1>1, TodoTyped DEF IInv
  <1> QED
    BY <1>1, <1>2, LiteralKeepsInv

LEMMA RunKeepsInv == IInv /\ Run => IInv'
  <1> SUFFICES ASSUME IInv, Run PROVE IInv'
    OBVIOUS
  <1>1. pc = "run" /\ todo # << >> /\ Literal("run", 1)
    BY DEF Run, Executing
  <1> QED
    BY <1>1, LiteralKeepsInv

(* An address that passed its checks is in the segment, with all it names, *)
(* or in what the window has produced.                                     *)
LEMMA CopyCallKeepsInv ==
  ASSUME IInv, pc = "run", todo # << >>, NEW address \in 0..MAX_NUMBER,
         address < here, ~Crosses(address), produced + next.size <= target_size,
         left["addresses"] # 0,
         left' = [left EXCEPT !["addresses"] = @ - 1],
         cache' = Update(cache, address),
         IF address < segment.len
         THEN Call(segment.kind, segment.start + address)
         ELSE Call("current", window_start + (address - segment.len))
  PROVE  IInv'
  <1>1. /\ segment.kind \in {"none", "source", "target"}
        /\ segment.start \in Nat /\ segment.len \in Nat
        /\ output_len \in Nat /\ window_start \in Nat
    BY DEF IInv, TypeOK
  <1>2. next.size \in Nat
    BY TodoTyped DEF IInv
  <1>3. left' \in [Section -> Nat]
    <2>1. left \in [Section -> Nat]
      BY Zenon DEF IInv, TypeOK
    <2>2. left["addresses"] - 1 \in Nat
      BY <2>1, SectionNumbers
    <2> QED
      BY <2>1, <2>2
  <1>4. /\ output_len' = output_len /\ window_start' = window_start
        /\ segment' = segment
    BY DEF Call, header
  <1>5. here' = here
    BY <1>4 DEF here, produced
  <1>6. CacheOfNumbers(cache)
    BY CacheBoxed DEF IInv
  <1>7. CacheOfNumbers(cache')
    BY <1>6, UpdatePuts
  <1>8. CacheInv'
    <2>1. /\ \A slot \in 0..(NEAR_COUNT - 1) : cache'.near[slot] \in {cache.near[slot], address}
          /\ \A slot \in 0..(SAME_SIZE - 1) : cache'.same[slot] \in {cache.same[slot], address}
      BY <1>6, UpdatePuts
    <2>2. /\ \A slot \in 0..(NEAR_COUNT - 1) : cache.near[slot] = 0 \/ cache.near[slot] < here
          /\ \A slot \in 0..(SAME_SIZE - 1) : cache.same[slot] = 0 \/ cache.same[slot] < here
      BY Places DEF IInv, CacheInv
    <2>3. /\ \A slot \in 0..(NEAR_COUNT - 1) : cache'.near[slot] = 0 \/ cache'.near[slot] < here
          /\ \A slot \in 0..(SAME_SIZE - 1) : cache'.same[slot] = 0 \/ cache'.same[slot] < here
      BY <2>1, <2>2
    <2> QED
      BY <1>5, <2>3 DEF CacheInv
  <1>9. CASE address < segment.len
    <2>1. Call(segment.kind, segment.start + address)
      BY <1>9
    <2>2. address + next.size <= segment.len
      BY <1>1, <1>2, <1>9 DEF Crosses
    <2>3. segment.kind # "none"
      BY <1>1, <1>9 DEF IInv, SegmentInv
    <2>4. segment.start + address + next.size <= segment.start + segment.len
      BY <1>1, <1>2, <2>2
    <2>5. segment.kind = "source" => segment.start + address + next.size <= SourceLen
      BY <1>1, <1>2, <2>4 DEF IInv, SegmentInv
    <2>6. segment.kind = "target" => segment.start + address + next.size <= window_start
      <3>1. window_start = persisted
        BY Places DEF IInv, OutputInv
      <3> QED
        BY <1>1, <1>2, <2>4, <3>1 DEF IInv, SegmentInv
    <2>7. segment.kind \in {"add", "run", "source", "target", "current"}
          /\ segment.start + address \in Nat
      BY <1>1, <2>3
    <2> QED
      BY <1>1, <1>3, <1>7, <1>8, <2>1, <2>3, <2>5, <2>6, <2>7, CallKeepsInv
  <1>10. CASE ~(address < segment.len)
    <2> DEFINE start == window_start + (address - segment.len)
    <2>1. Call("current", start)
      BY <1>10
    <2>2. start \in Nat /\ window_start <= start /\ start < output_len
      BY <1>1, <1>10 DEF here, produced
    <2> HIDE DEF start
    <2> QED
      BY <1>3, <1>7, <1>8, <2>1, <2>2, CallKeepsInv
  <1> QED
    BY <1>9, <1>10

LEMMA CopyKeepsInv == IInv /\ Copy => IInv'
  <1> SUFFICES ASSUME IInv, Copy PROVE IInv'
    OBVIOUS
  <1>1. pc = "run" /\ todo # << >>
    BY DEF Copy, Executing
  <1> DEFINE Place(number) == Address(cache, next.mode, here, number)
             Checks(number) == CheckAddress(number, Place(number))
  <1>2. PICK number \in Numbers :
          \/ Refuse(CheckRoom)
          \/ Accept(CheckRoom) /\ Refuse(Checks(number))
          \/ /\ Accept(CheckRoom) /\ Accept(Checks(number))
             /\ left' = [left EXCEPT !["addresses"] = @ - 1]
             /\ cache' = Update(cache, Place(number))
             /\ IF Place(number) < segment.len
                THEN Call(segment.kind, segment.start + Place(number))
                ELSE Call("current", window_start + (Place(number) - segment.len))
    BY Zenon DEF Copy
  <1>3. ASSUME Refuse(Checks(number)) PROVE IInv'
    <2>1. \E error \in Errors : Stop(error)
      BY <1>3 DEF Refuse, CheckAddress, Errors, Overflow
    <2> QED
      BY <2>1, StopKeepsInv
  <1>4. ASSUME Accept(CheckRoom), Accept(Checks(number)),
               left' = [left EXCEPT !["addresses"] = @ - 1],
               cache' = Update(cache, Place(number)),
               IF Place(number) < segment.len
               THEN Call(segment.kind, segment.start + Place(number))
               ELSE Call("current", window_start + (Place(number) - segment.len))
        PROVE  IInv'
    <2> DEFINE address == Place(number)
    <2>1. /\ ~Overflow(here)[1]
          /\ ~<<InvalidMode(next.mode), "InvalidAddressMode">>[1]
          /\ ~<<left["addresses"] = 0, "SectionOutOfBounds">>[1]
          /\ ~<<BeforeStart(next.mode, here, number), "AddressOutOfBounds">>[1]
          /\ ~<<TooFar(cache, next.mode, number), "ArithmeticOverflow">>[1]
          /\ ~<<NotBeforeHere(address), "AddressOutOfBounds">>[1]
          /\ ~<<Crosses(address), "CopyCrossesSourceTarget">>[1]
      <3> DEFINE a == Overflow(here)
                 b == <<InvalidMode(next.mode), "InvalidAddressMode">>
                 c == <<left["addresses"] = 0, "SectionOutOfBounds">>
                 d == <<BeforeStart(next.mode, here, number), "AddressOutOfBounds">>
                 e == <<TooFar(cache, next.mode, number), "ArithmeticOverflow">>
                 f == <<NotBeforeHere(address), "AddressOutOfBounds">>
                 g == <<address < segment.len /\ address + next.size > MAX_NUMBER,
                        "ArithmeticOverflow">>
                 h == <<Crosses(address), "CopyCrossesSourceTarget">>
      <3>1. Accept(<<a, b, c, d, e, f, g, h>>)
        BY <1>4, Zenon DEF CheckAddress
      <3> HIDE DEF a, b, c, d, e, f, g, h
      <3>2. ~a[1] /\ ~b[1] /\ ~c[1] /\ ~d[1] /\ ~e[1] /\ ~f[1] /\ ~h[1]
        BY <3>1, Accept8
      <3> QED
        BY <3>2, Zenon DEF a, b, c, d, e, f, h
    <2>2. /\ ~(here > MAX_NUMBER)
          /\ ~InvalidMode(next.mode) /\ left["addresses"] # 0
          /\ ~BeforeStart(next.mode, here, number)
          /\ ~TooFar(cache, next.mode, number)
          /\ ~(address >= here) /\ ~Crosses(address)
      BY <2>1, Zenon DEF Overflow, NotBeforeHere
    <2>3. here \in 0..MAX_NUMBER
      <3>1. /\ segment.len \in Nat /\ output_len \in Nat /\ window_start \in Nat
            /\ window_start <= output_len
        BY <1>1, Places DEF IInv, TypeOK, OutputInv
      <3> QED
        BY <2>2, <3>1 DEF here, produced
    <2>4. address \in 0..MAX_NUMBER
      <3>1. next.mode \in Mode /\ CacheOfNumbers(cache)
        BY <1>1, TodoTyped, CacheBoxed DEF IInv
      <3>2. number \in 0..MAX_NUMBER
        OBVIOUS
      <3> QED
        BY <2>2, <2>3, <3>1, <3>2, AddressIsNumber
    <2>5. address < here
      BY <2>2, <2>3, <2>4
    <2>6. produced + next.size <= target_size
      BY <1>1, <1>4, RoomIsThere
    <2>7. /\ cache' = Update(cache, address)
          /\ IF address < segment.len
             THEN Call(segment.kind, segment.start + address)
             ELSE Call("current", window_start + (address - segment.len))
      BY <1>4
    <2> HIDE DEF address
    <2> QED
      BY <1>1, <1>4, <2>2, <2>4, <2>5, <2>6, <2>7, CopyCallKeepsInv
  <1> QED
    BY <1>2, <1>3, <1>4, RefuseRoom

LEMMA ProduceKeepsInv == IInv /\ Produce => IInv'
  <1> SUFFICES ASSUME IInv, Produce PROVE IInv'
    OBVIOUS
  <1>1. /\ pc = "call" /\ pc' = "call" /\ output_len < op.base + op.size
        /\ output_len' = op.base + op.size /\ op' = op
        /\ window_start' = window_start /\ persisted' = persisted
        /\ left' = left /\ cache' = cache /\ todo' = todo
        /\ segment' = segment /\ target_size' = target_size
        /\ UNCHANGED <<delta, input_pos, header, memory>>
    BY DEF Produce, cursors, header
  <1>2. /\ output_len \in Nat /\ op.base \in Nat /\ op.size \in Nat
        /\ op \in [kind: {"none", "add", "run", "source", "target", "current"},
                   start: Nat, size: Nat, base: Nat]
    BY DEF IInv, TypeOK
  <1>3. left' \in [Section -> Nat] /\ todo' \in Seq(Instruction) /\ Len(todo') <= 2
    BY <1>1, Zenon DEF IInv, TypeOK
  <1>4. CallInv'
    BY <1>1, <1>2, Places DEF IInv, CallInv
  <1>5. output_len <= output_len' /\ output_len' \in Nat
        /\ output_len' <= window_start + target_size
    BY <1>1, <1>2 DEF IInv, CallInv
  <1>6. CacheInv' /\ CacheOfNumbers(cache')
    BY <1>1, <1>5, CacheStaysBehind, CacheBoxed, Places DEF IInv
  <1> QED
    BY <1>1, <1>2, <1>3, <1>4, <1>5, <1>6, RunningStepKeepsInv, Places

LEMMA ReturnKeepsInv == IInv /\ Return => IInv'
  <1> SUFFICES ASSUME IInv, Return PROVE IInv'
    OBVIOUS
  <1>1. /\ pc = "call" /\ pc' = "run" /\ output_len' = output_len
        /\ op' = NoCall /\ todo' = Tail(todo)
        /\ window_start' = window_start /\ persisted' = persisted
        /\ left' = left /\ cache' = cache /\ segment' = segment
        /\ UNCHANGED <<delta, input_pos, header, memory>>
    BY DEF Return, header
  <1>2. /\ output_len \in Nat /\ output_len <= window_start + target_size
        /\ todo # << >>
    BY <1>1, Places DEF IInv, TypeOK, OutputInv, CallInv
  <1>3. todo' \in Seq(Instruction) /\ Len(todo') <= 2
    BY <1>1, <1>2, TodoTyped DEF IInv
  <1>4. left' \in [Section -> Nat]
    BY <1>1, Zenon DEF IInv, TypeOK
  <1>5. CallInv'
    BY <1>1, Places DEF CallInv
  <1>6. op' \in [kind: {"none", "add", "run", "source", "target", "current"},
                 start: Nat, size: Nat, base: Nat]
    BY <1>1 DEF NoCall
  <1>7. CacheInv' /\ CacheOfNumbers(cache')
    BY <1>1, <1>2, CacheStaysBehind, CacheBoxed, Places DEF IInv
  <1> QED
    BY <1>1, <1>2, <1>3, <1>4, <1>5, <1>6, <1>7, RunningStepKeepsInv, Places

LEMMA FinishWindowKeepsInv == IInv /\ FinishWindow => IInv'
  <1> SUFFICES ASSUME IInv, FinishWindow PROVE IInv'
    OBVIOUS
  <1> DEFINE Checks(differs) ==
               <<<<left["data"] > 0, "TrailingSectionData">>,
                 <<left["addresses"] > 0, "TrailingSectionData">>,
                 <<produced # target_size, "TargetSizeMismatch">>,
                 <<adler32 /\ differs, "ChecksumMismatch">>>>
  <1>1. pc = "run"
    BY DEF FinishWindow
  <1>2. PICK differs \in BOOLEAN :
          \/ Refuse(Checks(differs))
          \/ /\ Accept(Checks(differs))
             /\ persisted' = output_len
             /\ pc' = "window"
             /\ DropWindow
             /\ UNCHANGED <<delta, input_pos, output_len, window_start, op>>
    BY Zenon DEF FinishWindow
  <1>3. ASSUME Refuse(Checks(differs)) PROVE IInv'
    <2>1. \E error \in Errors : Stop(error)
      BY <1>3 DEF Refuse, Errors
    <2> QED
      BY <2>1, StopKeepsInv
  <1>4. ASSUME persisted' = output_len, pc' = "window", DropWindow,
               UNCHANGED <<delta, input_pos, output_len, window_start, op>>
        PROVE  IInv'
    <2>1. /\ segment' = NoSegment /\ encoding_end' = 0 /\ target_size' = 0
          /\ adler32' = FALSE /\ compressed' = {} /\ lengths' = None
          /\ active_memory' = 0 /\ resident' = None /\ left' = None
          /\ cache' = NewCache /\ todo' = << >>
          /\ input_len' = input_len /\ compressor' = compressor
          /\ input_pos' = input_pos
          /\ output_len' = output_len /\ window_start' = window_start /\ op' = op
      BY <1>4 DEF DropWindow, delta
    <2>2. TypeOK'
      <3>1. CacheOfNumbers(cache')
        BY <2>1, CacheBoxed
      <3>2. segment' \in [kind: {"none", "source", "target"}, start: Nat, len: Nat]
        BY <2>1 DEF NoSegment
      <3>3. todo' \in Seq(Instruction) /\ Len(todo') <= 2
        BY <2>1
      <3>4. /\ input_len' \in DeltaLens /\ input_pos' \in 0..input_len'
            /\ compressor' \in {"none", "djw", "lzma"}
            /\ output_len' \in Nat /\ window_start' \in Nat /\ persisted' \in Nat
            /\ op' \in [kind: {"none", "add", "run", "source", "target", "current"},
                       start: Nat, size: Nat, base: Nat]
        BY <1>4, <2>1, Zenon DEF IInv, TypeOK
      <3>5. /\ encoding_end' \in Nat /\ target_size' \in Nat /\ adler32' \in BOOLEAN
            /\ compressed' \subseteq Section /\ lengths' \in [Section -> Nat]
            /\ active_memory' \in Nat /\ resident' \in [Section -> Nat]
            /\ left' \in [Section -> Nat]
        BY <2>1, NothingHeld
      <3> QED
        BY <1>4, <3>1, <3>2, <3>3, <3>4, <3>5 DEF TypeOK, CacheOfNumbers
    <2>3. SegmentInv'
      BY <2>1 DEF SegmentInv, NoSegment
    <2>4. OutputInv'
      <3>1. output_len \in Nat /\ output_len <= MaxTarget
        BY DEF IInv, TypeOK, OutputInv
      <3> QED
        BY <1>4, <2>1, <3>1, Places DEF OutputInv
    <2>5. CallInv'
      BY <1>1, <1>4, <2>1, Places DEF IInv, CallInv
    <2>6. MemoryInv' /\ PositionInv' /\ CacheInv'
      BY <1>4, <2>1, Places, NothingHeld DEF MemoryInv, PositionInv, CacheInv
    <2> QED
      BY <2>2, <2>3, <2>4, <2>5, <2>6 DEF IInv
  <1> QED
    BY <1>2, <1>3, <1>4

LEMMA StreamFailsKeepsInv == IInv /\ StreamFails => IInv'
  <1>1. "Io" \in Errors
    BY DEF Errors
  <1> QED
    BY <1>1, StopKeepsInv DEF StreamFails

LEMMA NextKeepsInv == IInv /\ [Next]_vars => IInv'
  <1> SUFFICES ASSUME IInv, [Next]_vars PROVE IInv'
    OBVIOUS
  <1>1. ASSUME UNCHANGED vars PROVE IInv'
    <2>1. /\ input_len' = input_len /\ compressor' = compressor
          /\ input_pos' = input_pos /\ segment' = segment
          /\ encoding_end' = encoding_end /\ target_size' = target_size
          /\ adler32' = adler32 /\ compressed' = compressed
          /\ lengths' = lengths /\ active_memory' = active_memory
          /\ resident' = resident /\ left' = left /\ cache' = cache
          /\ todo' = todo /\ output_len' = output_len
          /\ window_start' = window_start /\ persisted' = persisted
          /\ op' = op /\ pc' = pc
      BY <1>1 DEF vars, delta, header, memory, cursors, output
    <2>2. TypeOK' = TypeOK
      BY <2>1 DEF TypeOK
    <2>3. SegmentInv' = SegmentInv /\ OutputInv' = OutputInv
      BY <2>1 DEF SegmentInv, OutputInv
    <2>4. CallInv' = CallInv /\ MemoryInv' = MemoryInv
      BY <2>1 DEF CallInv, MemoryInv
    <2>5. PositionInv' = PositionInv
      BY <2>1 DEF PositionInv
    <2>6. CacheInv' = CacheInv
      BY <2>1 DEF CacheInv, here, produced
    <2> QED
      BY <2>2, <2>3, <2>4, <2>5, <2>6 DEF IInv
  <1>2. ASSUME Prepare PROVE IInv'
    BY <1>2, PrepareRawKeepsInv, PrepareCompressedKeepsInv DEF Prepare
  <1> QED
    BY <1>1, <1>2, ParseHeaderKeepsInv, FinishKeepsInv, ReadIndicatorKeepsInv,
       ReadTargetSizeKeepsInv, ReadDeltaIndicatorKeepsInv, ReadLengthsKeepsInv,
       BeginWindowKeepsInv, ReadOpcodeKeepsInv, NoOperationKeepsInv,
       AddKeepsInv, RunKeepsInv, CopyKeepsInv, ProduceKeepsInv, ReturnKeepsInv,
       FinishWindowKeepsInv, StreamFailsKeepsInv
    DEF Next, Step

LEMMA Invariance == Spec => []IInv
  BY InitInv, NextKeepsInv, PTL DEF Spec
-----------------------------------------------------------------------------
(* DeltaInput never stands past the measured end, and what is read has its *)
(* type, whatever the delta holds.                                         *)
THEOREM TypeCorrect == Spec => []TypeOK
  <1>1. IInv => TypeOK
    BY DEF IInv
  <1> QED
    BY <1>1, Invariance, PTL

(* allocate_section keeps the three sections of a window within            *)
(* max_window_memory, for every limit and every split among them.          *)
THEOREM MemoryIsBounded == Spec => []MemoryBounded
  <1>1. IInv => MemoryBounded
    BY DEF IInv, MemoryInv, MemoryBounded
  <1> QED
    BY <1>1, Invariance, PTL

(* decode_window lets a target segment reach only into finished windows.   *)
THEOREM SegmentsArePersisted == Spec => []SegmentIsPersisted
  <1>1. IInv => SegmentIsPersisted
    BY DEF IInv, SegmentInv, SegmentIsPersisted
  <1> QED
    BY <1>1, Invariance, PTL

(* The address cache holds only addresses a later COPY may use.            *)
THEOREM CacheStaysBehindHere == Spec => []CacheBehindHere
  <1>1. ASSUME IInv PROVE CacheBehindHere
    <2>1. /\ DOMAIN cache.near = 0..(NEAR_COUNT - 1)
          /\ DOMAIN cache.same = 0..(SAME_SIZE - 1)
      BY <1>1 DEF IInv, TypeOK
    <2> QED
      BY <1>1, <2>1, Places DEF IInv, CacheInv, CacheBehindHere
  <1> QED
    BY <1>1, Invariance, PTL

(* run_instructions accepts no window of which something is left unread,   *)
(* or whose instructions emitted less or more than its target size.        *)
THEOREM WindowsUseAll == Spec => WindowsAbut
  <1>1. ASSUME IInv, FinishWindow, pc' = "window"
        PROVE  /\ input_pos = encoding_end /\ left = None
               /\ persisted' = persisted + target_size
    <2> DEFINE Checks(differs) ==
                 <<<<left["data"] > 0, "TrailingSectionData">>,
                   <<left["addresses"] > 0, "TrailingSectionData">>,
                   <<produced # target_size, "TargetSizeMismatch">>,
                   <<adler32 /\ differs, "ChecksumMismatch">>>>
    <2>1. pc = "run" /\ left["instructions"] = 0
      BY <1>1 DEF FinishWindow
    <2>2. PICK differs \in BOOLEAN :
            \/ Refuse(Checks(differs))
            \/ Accept(Checks(differs)) /\ persisted' = output_len
      BY <1>1, Zenon DEF FinishWindow
    <2>3. ~Refuse(Checks(differs))
      <3>1. ASSUME Refuse(Checks(differs)) PROVE pc' \in Errors
        BY <3>1 DEF Refuse, Errors, Stop
      <3> QED
        BY <1>1, <3>1, Places
    <2>4. ~(left["data"] > 0) /\ ~(left["addresses"] > 0) /\ ~(produced # target_size)
      <3>1. /\ ~<<left["data"] > 0, "TrailingSectionData">>[1]
            /\ ~<<left["addresses"] > 0, "TrailingSectionData">>[1]
            /\ ~<<produced # target_size, "TargetSizeMismatch">>[1]
        BY <2>2, <2>3, Accept4, Zenon
      <3> QED
        BY <3>1, Zenon
    <2>5. left \in [Section -> Nat]
      BY <1>1, Zenon DEF IInv, TypeOK
    <2>6. left["data"] = 0 /\ left["addresses"] = 0
      BY <2>4, <2>5, SectionNumbers
    <2>7. left = None
      BY <2>1, <2>5, <2>6, Places DEF None
    <2>8. persisted' = persisted + target_size
      <3>1. persisted' = output_len
        BY <2>2, <2>3
      <3>2. window_start = persisted
        BY <1>1, <2>1, Places DEF IInv, OutputInv
      <3>3. output_len \in Nat /\ persisted \in Nat
        BY <1>1 DEF IInv, TypeOK
      <3> QED
        BY <2>4, <3>1, <3>2, <3>3 DEF produced
    <2> QED
      BY <1>1, <2>1, <2>7, <2>8, Places DEF IInv, PositionInv
  <1>2. IInv /\ [Next]_vars =>
          [FinishWindow /\ pc' = "window" =>
             /\ input_pos = encoding_end /\ left = None
             /\ persisted' = persisted + target_size]_vars
    BY <1>1
  <1> QED
    BY <1>2, Invariance, PTL DEF Spec, WindowsAbut
-----------------------------------------------------------------------------
(***************************************************************************)
(* The calls on the target writer: every step is one DecodedOutput allows, *)
(* or leaves the output as it is.                                          *)
(***************************************************************************)
LEMMA ZerosAre ==
  ASSUME NEW n \in Nat
  PROVE  /\ Len(Zeros(n)) = n /\ DOMAIN Zeros(n) = 1..n
         /\ \A i \in 1..n : Zeros(n)[i] = 0
  BY DEF Zeros

LEMMA InitRefines == Init => Output!Init
  <1> SUFFICES ASSUME Init PROVE Output!Init
    OBVIOUS
  <1>1. output_len = 0 /\ window_start = 0 /\ op = NoCall /\ pc = "header"
    BY DEF Init
  <1>2. Zeros(output_len) = << >>
    BY <1>1 DEF Zeros
  <1>3. Called = [kind |-> "none", data |-> << >>, start |-> 0, size |-> 0, base |-> 0]
    BY <1>1 DEF Called, NoCall
  <1>4. pc \notin Errors /\ pc # "done"
    BY <1>1, Places
  <1> QED
    BY <1>1, <1>2, <1>3, <1>4 DEF Output!Init, Output!NoOp

LEMMA Idle ==
  ASSUME op = NoCall
  PROVE  Called = Output!NoOp
  BY DEF Called, NoCall, Output!NoOp

LEMMA StopRefines ==
  ASSUME pc \notin Ends, NEW error \in Errors, Stop(error)
  PROVE  Output!Next
  <1>1. /\ pc' = error /\ output_len' = output_len
        /\ window_start' = window_start /\ op' = op
    BY DEF Stop, output
  <1>2. Zeros(output_len') = Zeros(output_len) /\ Called' = Called
    BY <1>1 DEF Zeros, Called
  <1>3. pc \notin Errors /\ pc # "done" /\ pc' \in Errors
    BY <1>1, Places
  <1> QED
    BY <1>1, <1>2, <1>3 DEF Output!Next, Output!Stop

(* The output is untouched and the decode goes on.                         *)
LEMMA QuietRefines ==
  ASSUME pc \notin Ends, pc' \notin Ends,
         output_len' = output_len, window_start' = window_start, op' = op
  PROVE  UNCHANGED Output!vars
  <1>1. Zeros(output_len') = Zeros(output_len) /\ Called' = Called
    BY DEF Zeros, Called
  <1> QED
    BY <1>1, Places DEF Output!vars

LEMMA CallRefines ==
  ASSUME IInv, IInv', pc = "run", NEW kind, NEW start, Call(kind, start)
  PROVE  Output!Next
  <1>1. /\ op = NoCall /\ pc' = "call"
        /\ op' = [kind |-> kind, start |-> start, size |-> next.size,
                  base |-> output_len]
        /\ output_len' = output_len /\ window_start' = window_start
    BY Places DEF IInv, CallInv, Call
  <1>2. /\ op' \in [kind: {"none", "add", "run", "source", "target", "current"},
                    start: Nat, size: Nat, base: Nat]
        /\ output_len \in Nat /\ window_start \in Nat
    BY Zenon DEF IInv, TypeOK
  <1>3. /\ op'.kind # "none"
        /\ op'.base + op'.size <= MaxTarget
        /\ op'.kind = "source" => op'.start + op'.size <= SourceLen
        /\ op'.kind = "target" => op'.start + op'.size <= window_start
        /\ op'.kind = "current" => window_start <= op'.start /\ op'.start < op'.base
    <2>1. /\ op'.kind # "none"
          /\ op'.base + op'.size <= window_start' + target_size'
          /\ op'.kind = "source" => op'.start + op'.size <= SourceLen
          /\ op'.kind = "target" => op'.start + op'.size <= window_start'
          /\ op'.kind = "current" => window_start' <= op'.start /\ op'.start < op'.base
      BY <1>1 DEF IInv, CallInv
    <2>2. window_start' + target_size' <= MaxTarget
      BY <1>1, Places DEF IInv, OutputInv
    <2>3. target_size' \in Nat
      BY DEF IInv, TypeOK
    <2> QED
      BY <1>1, <1>2, <2>1, <2>2, <2>3
  <1> DEFINE o == Called'
  <1>4. /\ o.kind = op'.kind /\ o.start = op'.start /\ o.size = op'.size
        /\ o.base = op'.base
        /\ o.data = IF op'.kind = "add" THEN Zeros(op'.size)
                    ELSE IF op'.kind = "run" THEN <<0>> ELSE << >>
    BY DEF Called
  <1> HIDE DEF o
  <1>5. /\ Len(Zeros(output_len)) = output_len
        /\ Len(Zeros(SourceLen)) = SourceLen
        /\ Len(Zeros(op'.size)) = op'.size
    BY <1>2, ZerosAre
  <1>6. Output!Valid(o, Len(Zeros(output_len)))
    <2>1. o.base = output_len
      BY <1>1, <1>4
    <2>2. o.kind = "add" => o.size = Len(o.data)
      BY <1>4, <1>5
    <2>3. o.kind = "run" => Len(o.data) = 1
      BY <1>4
    <2> QED
      BY <1>2, <1>3, <1>4, <1>5, <2>1, <2>2, <2>3 DEF Output!Valid
  <1>7. Zeros(output_len') = Zeros(output_len)
    BY <1>1 DEF Zeros
  <1>8. Called = Output!NoOp
    BY <1>1, Idle
  <1>9. pc \notin Errors /\ pc # "done" /\ pc' \notin Errors /\ pc' # "done"
    BY <1>1, Places
  <1> QED
    BY <1>1, <1>6, <1>7, <1>8, <1>9 DEF Output!Next, Output!Start, o

LEMMA ProduceRefines ==
  ASSUME IInv, Produce
  PROVE  Output!Next
  <1>1. /\ pc = "call" /\ pc' = "call" /\ op' = op
        /\ output_len < op.base + op.size /\ output_len' = op.base + op.size
        /\ window_start' = window_start
    BY DEF Produce
  <1>2. /\ op \in [kind: {"none", "add", "run", "source", "target", "current"},
                   start: Nat, size: Nat, base: Nat]
        /\ output_len \in Nat /\ window_start \in Nat
    BY Zenon DEF IInv, TypeOK
  <1>3. /\ op.kind # "none" /\ op.base <= output_len
        /\ op.kind = "source" => op.start + op.size <= SourceLen
        /\ op.kind = "target" => op.start + op.size <= window_start
        /\ op.kind = "current" => op.start < op.base
        /\ window_start <= op.base
    BY <1>1 DEF IInv, CallInv
  <1>4. /\ Called.kind = op.kind /\ Called.start = op.start
        /\ Called.size = op.size /\ Called.base = op.base
        /\ Called.data = IF op.kind = "add" THEN Zeros(op.size)
                         ELSE IF op.kind = "run" THEN <<0>> ELSE << >>
    BY DEF Called
  <1> DEFINE whole == Zeros(output_len')
  <1>5. output_len' \in Nat
    BY <1>1, <1>2
  <1>6. /\ Len(whole) = output_len' /\ Len(Zeros(output_len)) = output_len
        /\ \A i \in 1..output_len' : whole[i] = 0
        /\ \A i \in 1..output_len : Zeros(output_len)[i] = 0
        /\ \A i \in 1..SourceLen : Zeros(SourceLen)[i] = 0
        /\ \A i \in 1..op.size : Zeros(op.size)[i] = 0
    BY <1>2, <1>5, ZerosAre
  <1> HIDE DEF whole
  <1>7. ASSUME NEW i \in (output_len + 1)..output_len'
        PROVE  Output!Produced(Called, i, whole) = 0
    <2>1. i - op.base \in 1..op.size /\ i \in Nat
      BY <1>1, <1>2, <1>3
    <2>2. CASE op.kind = "add"
      BY <1>4, <1>6, <2>1, <2>2 DEF Output!Produced
    <2>3. CASE op.kind = "run"
      BY <1>4, <2>3 DEF Output!Produced
    <2>4. CASE op.kind = "source"
      <3>1. op.start + (i - op.base) \in 1..SourceLen
        BY <1>2, <1>3, <2>1, <2>4
      <3> QED
        BY <1>4, <1>6, <2>4, <3>1 DEF Output!Produced
    <2>5. CASE op.kind \in {"target", "current"}
      <3>1. op.start + (i - op.base) \in 1..output_len'
        BY <1>1, <1>2, <1>3, <2>1, <2>5
      <3>2. whole[op.start + (i - op.base)] = 0
        BY <1>6, <3>1
      <3> QED
        BY <1>4, <2>5, <3>2 DEF Output!Produced
    <2> QED
      BY <1>2, <1>3, <2>2, <2>3, <2>4, <2>5
  <1>8. /\ Len(whole) > Len(Zeros(output_len))
        /\ Len(whole) <= Called.base + Called.size
        /\ \A i \in 1..Len(whole) :
             whole[i] = IF i <= Len(Zeros(output_len)) THEN Zeros(output_len)[i]
                        ELSE Output!Produced(Called, i, whole)
    <2>1. ASSUME NEW i \in 1..output_len'
          PROVE  whole[i] = IF i <= output_len THEN Zeros(output_len)[i]
                            ELSE Output!Produced(Called, i, whole)
      <3>1. CASE i <= output_len
        BY <1>2, <1>6, <2>1, <3>1
      <3>2. CASE ~(i <= output_len)
        <4>1. i \in (output_len + 1)..output_len'
          BY <1>2, <1>5, <2>1, <3>2
        <4> QED
          BY <1>6, <1>7, <2>1, <3>2, <4>1
      <3> QED
        BY <3>1, <3>2
    <2> QED
      BY <1>1, <1>2, <1>4, <1>5, <1>6, <2>1
  <1>9. Called' = Called
    BY <1>1 DEF Called
  <1>10. Called # Output!NoOp
    BY <1>3, <1>4 DEF Output!NoOp
  <1>11. pc \notin Errors /\ pc # "done" /\ pc' \notin Errors /\ pc' # "done"
    BY <1>1, Places
  <1>12. Output!Emit
    BY <1>1, <1>8, <1>9, <1>10, <1>11 DEF Output!Emit, whole
  <1> QED
    BY <1>12 DEF Output!Next

LEMMA ReturnRefines ==
  ASSUME IInv, Return
  PROVE  Output!Next
  <1>1. /\ pc = "call" /\ pc' = "run" /\ op' = NoCall
        /\ output_len = op.base + op.size /\ output_len' = output_len
        /\ window_start' = window_start
    BY DEF Return
  <1>2. Called.kind = op.kind /\ Called.base = op.base /\ Called.size = op.size
    BY DEF Called
  <1>3. Called # Output!NoOp
    <2>1. op.kind # "none"
      BY <1>1 DEF IInv, CallInv
    <2> QED
      BY <1>2, <2>1 DEF Output!NoOp
  <1>4. Called' = Output!NoOp
    BY <1>1 DEF Called, NoCall, Output!NoOp
  <1>5. /\ Zeros(output_len') = Zeros(output_len)
        /\ Len(Zeros(output_len)) = output_len
    <2>1. output_len \in Nat
      BY DEF IInv, TypeOK
    <2> QED
      BY <1>1, <2>1, ZerosAre DEF Zeros
  <1>6. pc \notin Errors /\ pc # "done" /\ pc' \notin Errors /\ pc' # "done"
    BY <1>1, Places
  <1> QED
    BY <1>1, <1>2, <1>3, <1>4, <1>5, <1>6 DEF Output!Next, Output!Return

LEMMA FinishRefines ==
  ASSUME IInv, Finish
  PROVE  Output!Next
  <1>1. /\ pc = "window" /\ pc' = "done" /\ op' = op /\ output_len' = output_len
        /\ window_start' = window_start
    BY DEF Finish, output
  <1>2. op = NoCall
    BY <1>1, Places DEF IInv, CallInv
  <1>3. Called = Output!NoOp /\ Called' = Called
    BY <1>1, <1>2, Idle DEF Called
  <1>4. Zeros(output_len') = Zeros(output_len)
    BY <1>1 DEF Zeros
  <1>5. pc \notin Errors /\ pc # "done" /\ pc' \notin Errors
    BY <1>1, Places DEF Errors
  <1> QED
    BY <1>1, <1>3, <1>4, <1>5 DEF Output!Next, Output!Stop

LEMMA BeginWindowRefines ==
  ASSUME IInv, BeginWindow
  PROVE  Output!Next
  <1>1. /\ pc = "begin" /\ pc' = "run" /\ op' = op /\ output_len' = output_len
        /\ window_start' = output_len
    BY DEF BeginWindow
  <1>2. op = NoCall
    BY <1>1, Places DEF IInv, CallInv
  <1>3. Called = Output!NoOp /\ Called' = Called
    BY <1>1, <1>2, Idle DEF Called
  <1>4. /\ Zeros(output_len') = Zeros(output_len)
        /\ Len(Zeros(output_len)) = output_len
    <2>1. output_len \in Nat
      BY DEF IInv, TypeOK
    <2> QED
      BY <1>1, <2>1, ZerosAre DEF Zeros
  <1>5. pc \notin Errors /\ pc # "done" /\ pc' \notin Errors /\ pc' # "done"
    BY <1>1, Places
  <1> QED
    BY <1>1, <1>3, <1>4, <1>5 DEF Output!Next, Output!BeginWindow

(* What an action does that makes no call: it fails, or goes on quietly.   *)
Fails == \E error \in Errors : Stop(error)
Quiet == pc' \notin Ends /\ UNCHANGED <<output_len, window_start, op>>

(* parse_header ends at the first window or refuses the delta, and touches no
   output *)
LEMMA HeaderReadOrRefused ==
  ASSUME ParseHeader
  PROVE  \/ \E error \in Errors : Stop(error)
         \/ pc' = "window" /\ UNCHANGED output
  <1> DEFINE Ending(codec) == IF codec = "none" THEN 5 ELSE 6
             End(codec, armored, skipped) ==
               IF armored THEN Ending(codec) + 1 + skipped ELSE Ending(codec)
             Checks(codec, armored, malformed, skipped) ==
               <<Truncated(3), <<malformed = 3, "BadHeader">>,
                 Truncated(4), <<malformed = 4, "BadHeader">>,
                 Truncated(5), <<malformed = 5, "BadHeader">>,
                 Truncated(Ending(codec)), <<malformed = 6, "BadHeader">>,
                 <<armored /\ Ending(codec) + 1 > input_len, "TruncatedDelta">>,
                 Overflow(End(codec, armored, skipped)),
                 Truncated(End(codec, armored, skipped))>>
  <1>1. PICK codec \in {"none", "djw", "lzma"}, armored \in BOOLEAN,
             malformed \in {0, 3, 4, 5, 6}, skipped \in HeaderLens :
          \/ Refuse(Checks(codec, armored, malformed, skipped))
          \/ /\ Accept(Checks(codec, armored, malformed, skipped))
             /\ compressor' = codec
             /\ input_pos' = End(codec, armored, skipped)
             /\ pc' = "window"
             /\ UNCHANGED <<input_len, header, memory, cursors, output>>
    BY Zenon DEF ParseHeader
  <1>2. CASE Refuse(Checks(codec, armored, malformed, skipped))
    BY <1>2 DEF Refuse, Errors, Truncated, Overflow
  <1>3. CASE pc' = "window" /\ UNCHANGED output
    BY <1>3
  <1>4. QED
    BY <1>1, <1>2, <1>3, Zenon

LEMMA HeaderOutcome ==
  ASSUME ParseHeader \/ ReadIndicator \/ ReadTargetSize \/ ReadDeltaIndicator
         \/ ReadLengths
  PROVE  pc \notin Ends /\ (Fails \/ Quiet)
  <1>1. ASSUME ParseHeader PROVE pc \notin Ends /\ (Fails \/ Quiet)
    <2>1. pc \notin Ends
      BY <1>1, Places DEF ParseHeader
    <2> QED
      BY <1>1, <2>1, HeaderReadOrRefused, Places DEF Quiet, Fails, output
  <1>2. ASSUME ReadIndicator PROVE pc \notin Ends /\ (Fails \/ Quiet)
    BY <1>2 DEF ReadIndicator, Fails, Quiet, Refuse, Errors, Ends, Truncated,
                Overflow, output
  <1>3. ASSUME ReadTargetSize PROVE pc \notin Ends /\ (Fails \/ Quiet)
    BY <1>3 DEF ReadTargetSize, Fails, Quiet, Refuse, Errors, Ends, Truncated,
                Overflow, output
  <1>4. ASSUME ReadDeltaIndicator PROVE pc \notin Ends /\ (Fails \/ Quiet)
    BY <1>4 DEF ReadDeltaIndicator, Fails, Quiet, Refuse, Errors, Ends,
                Truncated, Overflow, output
  <1>5. ASSUME ReadLengths PROVE pc \notin Ends /\ (Fails \/ Quiet)
    BY <1>5 DEF ReadLengths, Fails, Quiet, Refuse, Errors, Ends, Truncated,
                Overflow, output
  <1> QED
    BY <1>1, <1>2, <1>3, <1>4, <1>5

LEMMA PreparedOutcome ==
  ASSUME NEW section \in Section,
         PrepareRaw(section) \/ PrepareCompressed(section)
  PROVE  pc \notin Ends /\ (Fails \/ Quiet)
  <1>1. pc \notin Ends
    BY Places DEF PrepareRaw, PrepareCompressed
  <1>2. ASSUME NEW bytes, Prepared(section, bytes) PROVE Quiet
    <2>1. pc' \in {"instructions", "addresses", "begin"}
      BY <1>2, Places DEF Prepared, After
    <2> QED
      BY <1>2, <2>1, Places DEF Prepared, Quiet, output
  <1>3. ASSUME PrepareRaw(section) PROVE Fails \/ Quiet
    BY <1>2, <1>3 DEF PrepareRaw, Fails, Refuse, Errors, Truncated, Overflow,
                      OverBudget
  <1>4. ASSUME PrepareCompressed(section) PROVE Fails \/ Quiet
    BY <1>2, <1>4 DEF PrepareCompressed, Fails, Refuse, Errors, Truncated,
                      Overflow, OverBudget
  <1> QED
    BY <1>1, <1>3, <1>4

LEMMA RunningOutcome ==
  ASSUME ReadOpcode \/ NoOperation \/ FinishWindow
  PROVE  pc \notin Ends /\ (Fails \/ Quiet)
  <1>1. ASSUME ReadOpcode PROVE pc \notin Ends /\ (Fails \/ Quiet)
    BY <1>1 DEF ReadOpcode, Fails, Quiet, Refuse, Errors, Ends, output
  <1>2. ASSUME NoOperation PROVE pc \notin Ends /\ (Fails \/ Quiet)
    BY <1>2 DEF NoOperation, Executing, Quiet, Errors, Ends, output
  <1>3. ASSUME FinishWindow PROVE pc \notin Ends /\ (Fails \/ Quiet)
    BY <1>3 DEF FinishWindow, Fails, Quiet, Refuse, Errors, Ends
  <1> QED
    BY <1>1, <1>2, <1>3

LEMMA InstructionOutcome ==
  ASSUME Add \/ Run \/ Copy
  PROVE  pc = "run" /\ (Fails \/ \E kind, start : Call(kind, start))
  <1>1. ASSUME NEW kind, NEW bytes, Literal(kind, bytes)
        PROVE  Fails \/ \E k, start : Call(k, start)
    BY <1>1 DEF Literal, Fails, Refuse, CheckRoom, Errors, Overflow
  <1>2. ASSUME Copy PROVE Fails \/ \E k, start : Call(k, start)
    <2>1. PICK number \in Numbers :
            LET address == Address(cache, next.mode, here, number)
            IN \/ Refuse(CheckRoom) \/ Refuse(CheckAddress(number, address))
               \/ Call(segment.kind, segment.start + address)
               \/ Call("current", window_start + (address - segment.len))
      BY <1>2, Zenon DEF Copy
    <2> DEFINE address == Address(cache, next.mode, here, number)
    <2>2. CASE Refuse(CheckRoom)
      BY <2>2 DEF Refuse, CheckRoom, Fails, Errors, Overflow
    <2>3. CASE Refuse(CheckAddress(number, address))
      <3> HIDE DEF address
      <3> QED
        BY <2>3 DEF Refuse, CheckAddress, Fails, Errors, Overflow
    <2> QED
      BY <2>1, <2>2, <2>3, Zenon
  <1> QED
    BY <1>1, <1>2 DEF Add, Run, Copy, Executing

LEMMA StepRefines ==
  ASSUME IInv, IInv', [Next]_vars
  PROVE  Output!Next \/ UNCHANGED Output!vars
  <1>1. ASSUME UNCHANGED vars PROVE UNCHANGED Output!vars
    <2>1. output_len' = output_len /\ window_start' = window_start /\ op' = op
          /\ pc' = pc
      BY <1>1 DEF vars, output
    <2> QED
      BY <2>1 DEF Output!vars, Called, Zeros
  <1>2. ASSUME pc \notin Ends, Fails PROVE Output!Next
    BY <1>2, StopRefines DEF Fails
  <1>3. ASSUME pc \notin Ends, Quiet PROVE UNCHANGED Output!vars
    BY <1>3, QuietRefines DEF Quiet
  <1>4. ASSUME Prepare PROVE pc \notin Ends /\ (Fails \/ Quiet)
    BY <1>4, PreparedOutcome DEF Prepare
  <1>5. ASSUME Add \/ Run \/ Copy PROVE Output!Next
    <2>1. pc = "run" /\ (Fails \/ \E kind, start : Call(kind, start))
      BY <1>5, InstructionOutcome
    <2>2. pc \notin Ends
      BY <2>1, Places
    <2> QED
      BY <1>2, <2>1, <2>2, CallRefines
  <1>6. ASSUME StreamFails PROVE Output!Next
    <2>1. pc \notin Ends /\ Fails
      BY <1>6 DEF StreamFails, Fails, Errors
    <2> QED
      BY <1>2, <2>1
  <1> QED
    BY <1>1, <1>2, <1>3, <1>4, <1>5, <1>6, HeaderOutcome, RunningOutcome,
       FinishRefines, BeginWindowRefines, ProduceRefines, ReturnRefines
    DEF Next, Step

(* decode_window validates every instruction before it calls the target    *)
(* writer: whatever the delta holds, the calls are those DecodedOutput     *)
(* allows, and the writer's own guarantees apply.                          *)
THEOREM CallsAreValid == Spec => CallsFitWriter
  <1>1. IInv /\ IInv' /\ [Next]_vars => [Output!Next]_(Output!vars)
    BY StepRefines
  <1> QED
    BY <1>1, InitRefines, Invariance, PTL DEF Spec, CallsFitWriter, Output!Spec
-----------------------------------------------------------------------------
(* What the encoder had written when it wrote each pending message: the    *)
(* decoder replays it.                                                     *)
Replays(hist) ==
  /\ hist \in [0..Len(pending) -> Seq(0..MaxAddress)]
  /\ hist[0] = decoded
  /\ hist[Len(pending)] = written
  /\ \A i \in 1..Len(pending) :
       \/ pending[i] = NewWindow /\ hist[i] = << >>
       \/ /\ pending[i] # NewWindow
          /\ pending[i].mode \in Mode
          /\ pending[i].address < pending[i].here
          /\ Expresses(hist[i - 1], pending[i].mode, pending[i].here,
                       pending[i].number, pending[i].address)
          /\ hist[i] = Append(hist[i - 1], pending[i].address)

InStep == \E hist : Replays(hist)

RingPosition == slots.next_near = Len(decoded) % NEAR_COUNT

SyncCacheType ==
  slots = [near |-> slots.near, same |-> slots.same,
           next_near |-> slots.next_near]

SyncInv == SyncTypeOK /\ SyncCacheType /\ CacheMatchesHistory
           /\ RingPosition /\ InStep

USE NearAssumption, SameAssumption, BlockAssumption, NumberAssumption,
    AddressAssumption, CopiesAssumption, AheadAssumption
-----------------------------------------------------------------------------
(* What a slot holds is determined, and only the slot an address goes to   *)
(* changes.                                                                *)
LEMMA LatestUnique ==
  ASSUME NEW addresses, NEW I \in SUBSET Nat, NEW a, NEW b,
         Latest(addresses, I, a), Latest(addresses, I, b)
  PROVE  a = b
  <1>1. CASE I = {}
    BY <1>1 DEF Latest
  <1>2. CASE I # {}
    <2>1. PICK i \in I : (\A j \in I : j <= i) /\ a = addresses[i]
      BY <1>2 DEF Latest
    <2>2. PICK k \in I : (\A j \in I : j <= k) /\ b = addresses[k]
      BY <1>2 DEF Latest
    <2>3. i = k
      BY <2>1, <2>2
    <2> QED
      BY <2>1, <2>2, <2>3
  <1> QED
    BY <1>1, <1>2

LEMMA LatestTaken ==
  ASSUME NEW S, NEW addresses \in Seq(S), NEW a \in S,
         NEW I \in SUBSET (1..Len(addresses))
  PROVE  Latest(Append(addresses, a), I \cup {Len(addresses) + 1}, a)
  <1>1. \A j \in I \cup {Len(addresses) + 1} : j <= Len(addresses) + 1
    OBVIOUS
  <1>2. Append(addresses, a)[Len(addresses) + 1] = a
    OBVIOUS
  <1> QED
    BY <1>1, <1>2 DEF Latest

LEMMA LatestKept ==
  ASSUME NEW S, NEW addresses \in Seq(S), NEW a \in S, NEW held,
         NEW I \in SUBSET (1..Len(addresses)),
         Latest(addresses, I, held)
  PROVE  Latest(Append(addresses, a), I, held)
  <1>1. \A i \in I : Append(addresses, a)[i] = addresses[i]
    OBVIOUS
  <1> QED
    BY <1>1 DEF Latest

LEMMA NearAppend ==
  ASSUME NEW addresses \in Seq(0..MaxAddress), NEW a \in 0..MaxAddress,
         NEW slot, NEW held
  PROVE  /\ Len(addresses) % NEAR_COUNT = slot
               => NearSlot(Append(addresses, a), slot, a)
         /\ Len(addresses) % NEAR_COUNT # slot /\ NearSlot(addresses, slot, held)
               => NearSlot(Append(addresses, a), slot, held)
  <1> DEFINE n == Len(addresses)
             I(m) == {i \in 1..m : (i - 1) % NEAR_COUNT = slot}
  <1>1. n \in Nat /\ Len(Append(addresses, a)) = n + 1
    OBVIOUS
  <1>2. I(n) \in SUBSET (1..n)
    OBVIOUS
  <1>3. CASE n % NEAR_COUNT = slot
    <2>1. I(n + 1) = I(n) \cup {n + 1}
      BY <1>1, <1>3
    <2> HIDE DEF I
    <2>2. Latest(Append(addresses, a), I(n + 1), a)
      BY <1>2, <2>1, LatestTaken
    <2> QED
      BY <1>1, <1>3, <2>2 DEF NearSlot, I
  <1>4. CASE n % NEAR_COUNT # slot
    <2>1. I(n + 1) = I(n)
      BY <1>1, <1>4
    <2> HIDE DEF I
    <2>2. Latest(addresses, I(n), held) =>
            Latest(Append(addresses, a), I(n + 1), held)
      BY <1>2, <2>1, LatestKept
    <2> QED
      BY <1>1, <1>4, <2>2 DEF NearSlot, I
  <1> QED
    BY <1>3, <1>4

LEMMA SameAppend ==
  ASSUME NEW addresses \in Seq(0..MaxAddress), NEW a \in 0..MaxAddress,
         NEW slot, NEW held
  PROVE  /\ a % SAME_SIZE = slot => SameSlot(Append(addresses, a), slot, a)
         /\ a % SAME_SIZE # slot /\ SameSlot(addresses, slot, held)
               => SameSlot(Append(addresses, a), slot, held)
  <1> DEFINE n == Len(addresses)
             I(h) == {i \in 1..Len(h) : h[i] % SAME_SIZE = slot}
             longer == Append(addresses, a)
  <1>1. /\ n \in Nat /\ Len(longer) = n + 1
        /\ \A i \in 1..n : longer[i] = addresses[i]
        /\ longer[n + 1] = a
    OBVIOUS
  <1>2. I(addresses) \in SUBSET (1..n)
    OBVIOUS
  <1> HIDE DEF longer
  <1>3. CASE a % SAME_SIZE = slot
    <2>1. I(longer) = I(addresses) \cup {n + 1}
      BY <1>1, <1>3
    <2> HIDE DEF I
    <2>2. Latest(longer, I(longer), a)
      BY <1>2, <2>1, LatestTaken DEF longer
    <2> QED
      BY <1>3, <2>2 DEF SameSlot, I, longer
  <1>4. CASE a % SAME_SIZE # slot
    <2>1. I(longer) = I(addresses)
      BY <1>1, <1>4
    <2> HIDE DEF I
    <2>2. Latest(addresses, I(addresses), held) => Latest(longer, I(longer), held)
      BY <1>2, <2>1, LatestKept DEF longer
    <2> QED
      BY <1>4, <2>2 DEF SameSlot, I, longer
  <1> QED
    BY <1>3, <1>4
-----------------------------------------------------------------------------
(* A cache that matches a history takes a number for the address it was    *)
(* written for.                                                            *)
LEMMA DecodeExpressed ==
  ASSUME SyncTypeOK, CacheMatchesHistory,
         NEW m \in Message, m.mode \in Mode, m.address < m.here,
         Expresses(decoded, m.mode, m.here, m.number, m.address)
  PROVE  /\ ~InvalidMode(m.mode)
         /\ ~BeforeStart(m.mode, m.here, m.number)
         /\ ~TooFar(slots, m.mode, m.number)
         /\ Address(slots, m.mode, m.here, m.number) = m.address
  <1>1. /\ m.mode \in Int /\ m.here \in Nat
        /\ m.number \in Nat /\ m.address \in Nat /\ m.address <= MaxAddress
    BY DEF Message, Mode, SAME_START
  <1>2. \/ Self(m.mode) \/ Here(m.mode) \/ Near(m.mode) \/ Same(m.mode)
    BY DEF Expresses
  <1>3. CASE Self(m.mode)
    BY <1>1, <1>3 DEF Self, Here, Near, Same, SAME_START, InvalidMode,
                      BeforeStart, TooFar, Address, Expresses
  <1>4. CASE Here(m.mode)
    BY <1>1, <1>4 DEF Self, Here, Near, Same, SAME_START, InvalidMode,
                      BeforeStart, TooFar, Address, Expresses
  <1>5. CASE Near(m.mode)
    <2> DEFINE slot == m.mode - 2
    <2>1. /\ slot \in 0..(NEAR_COUNT - 1)
          /\ ~Self(m.mode) /\ ~Here(m.mode) /\ ~Same(m.mode)
          /\ ~InvalidMode(m.mode)
      BY <1>1, <1>5 DEF Self, Here, Near, Same, SAME_START, InvalidMode
    <2>2. PICK held \in 0..MaxAddress :
            NearSlot(decoded, slot, held) /\ m.address = held + m.number
      BY <1>5, <2>1 DEF Expresses
    <2>3. NearSlot(decoded, slot, slots.near[slot])
      BY <2>1 DEF CacheMatchesHistory, SyncTypeOK
    <2>4. slots.near[slot] = held
      BY <2>2, <2>3, LatestUnique DEF NearSlot
    <2> QED
      BY <1>1, <1>5, <2>1, <2>2, <2>4 DEF BeforeStart, TooFar, Address
  <1>6. CASE Same(m.mode)
    <2> DEFINE k == m.mode - SAME_START
               slot == k * BLOCK + m.number
    <2>1. /\ k \in 0..(SAME_COUNT - 1)
          /\ ~Self(m.mode) /\ ~Here(m.mode) /\ ~Near(m.mode)
          /\ ~InvalidMode(m.mode)
      BY <1>1, <1>6 DEF Self, Here, Near, Same, SAME_START, InvalidMode
    <2>2. m.number < BLOCK /\ SameSlot(decoded, slot, m.address)
      BY <1>6, <2>1 DEF Expresses
    <2>3. m.number \in 0..(BLOCK - 1) /\ m.number % BLOCK = m.number
      BY <1>1, <2>2, ModSmall
    <2>4. slot \in 0..(SAME_SIZE - 1)
      BY <2>1, <2>3, SameIndex
    <2>5. SameSlot(decoded, slot, slots.same[slot])
      BY <2>4 DEF CacheMatchesHistory, SyncTypeOK
    <2>6. slots.same[slot] = m.address
      BY <2>2, <2>5, LatestUnique DEF SameSlot
    <2> QED
      BY <1>6, <2>1, <2>3, <2>6 DEF BeforeStart, TooFar, Address
  <1> QED
    BY <1>2, <1>3, <1>4, <1>5, <1>6

(* update keeps the cache at the history.                                  *)
LEMMA UpdateMatches ==
  ASSUME SyncTypeOK, CacheMatchesHistory, RingPosition,
         NEW a \in 0..MaxAddress,
         slots' = Update(slots, a), decoded' = Append(decoded, a)
  PROVE  /\ decoded' \in Seq(0..MaxAddress)
         /\ slots'.near \in [0..(NEAR_COUNT - 1) -> 0..MaxAddress]
         /\ slots'.same \in [0..(SAME_SIZE - 1) -> 0..MaxAddress]
         /\ slots'.next_near \in 0..(NEAR_COUNT - 1)
         /\ SyncCacheType' /\ CacheMatchesHistory' /\ RingPosition'
  <1> DEFINE n == Len(decoded)
  <1>1. /\ decoded \in Seq(0..MaxAddress) /\ n \in Nat
        /\ slots.near \in [0..(NEAR_COUNT - 1) -> 0..MaxAddress]
        /\ slots.same \in [0..(SAME_SIZE - 1) -> 0..MaxAddress]
        /\ slots.next_near = n % NEAR_COUNT
        /\ slots.next_near \in 0..(NEAR_COUNT - 1)
    BY DEF SyncTypeOK, RingPosition
  <1>2. /\ slots'.near = [slots.near EXCEPT ![n % NEAR_COUNT] = a]
        /\ slots'.same = [slots.same EXCEPT ![a % SAME_SIZE] = a]
        /\ slots'.next_near = ((n % NEAR_COUNT) + 1) % NEAR_COUNT
    BY <1>1 DEF Update, NextNear, Residue
  <1>3. decoded' \in Seq(0..MaxAddress) /\ Len(decoded') = n + 1
    BY <1>1
  <1>4. SyncCacheType'
    BY DEF SyncCacheType, Update
  <1>5. RingPosition' /\ slots'.next_near \in 0..(NEAR_COUNT - 1)
    <2>1. slots'.next_near = (n + 1) % NEAR_COUNT
      BY <1>1, <1>2, ModSuccessor
    <2>2. (n + 1) % NEAR_COUNT \in 0..(NEAR_COUNT - 1)
      <3>1. n + 1 \in Nat
        BY <1>1
      <3> QED
        BY <3>1, ModRange
    <2> QED
      BY <1>3, <2>1, <2>2 DEF RingPosition
  <1>6. /\ slots'.near \in [0..(NEAR_COUNT - 1) -> 0..MaxAddress]
        /\ slots'.same \in [0..(SAME_SIZE - 1) -> 0..MaxAddress]
    <2>1. \A S, T, f, i : f \in [S -> T] /\ a \in T => [f EXCEPT ![i] = a] \in [S -> T]
      OBVIOUS
    <2>2. a \in 0..MaxAddress
      OBVIOUS
    <2>3. slots'.near \in [0..(NEAR_COUNT - 1) -> 0..MaxAddress]
      <3>1. slots.near \in [0..(NEAR_COUNT - 1) -> 0..MaxAddress]
        BY ONLY <1>1
      <3>2. slots'.near = [slots.near EXCEPT ![n % NEAR_COUNT] = a]
        BY ONLY <1>2
      <3> QED
        BY ONLY <2>1, <2>2, <3>1, <3>2, Zenon
    <2>4. slots'.same \in [0..(SAME_SIZE - 1) -> 0..MaxAddress]
      <3>1. slots.same \in [0..(SAME_SIZE - 1) -> 0..MaxAddress]
        BY ONLY <1>1
      <3>2. slots'.same = [slots.same EXCEPT ![a % SAME_SIZE] = a]
        BY ONLY <1>2
      <3> QED
        BY ONLY <2>1, <2>2, <3>1, <3>2, Zenon
    <2> QED
      BY <2>3, <2>4, Zenon
  <1>7. ASSUME NEW slot \in 0..(NEAR_COUNT - 1)
        PROVE  NearSlot(decoded', slot, slots'.near[slot])
    <2>1. NearSlot(decoded, slot, slots.near[slot])
      BY <1>1 DEF CacheMatchesHistory
    <2>2. CASE n % NEAR_COUNT = slot
      <3>1. slots'.near[slot] = a
        BY <1>1, <1>2, <2>2
      <3> QED
        BY <1>1, <2>2, <3>1, NearAppend
    <2>3. CASE n % NEAR_COUNT # slot
      <3>1. slots'.near[slot] = slots.near[slot]
        BY <1>1, <1>2, <2>3
      <3> QED
        BY <1>1, <2>1, <2>3, <3>1, NearAppend
    <2> QED
      BY <2>2, <2>3
  <1>8. ASSUME NEW slot \in 0..(SAME_SIZE - 1)
        PROVE  SameSlot(decoded', slot, slots'.same[slot])
    <2>1. SameSlot(decoded, slot, slots.same[slot])
      BY <1>1 DEF CacheMatchesHistory
    <2>2. CASE a % SAME_SIZE = slot
      <3>1. slots'.same[slot] = a
        BY <1>1, <1>2, <2>2
      <3> QED
        BY <1>1, <2>2, <3>1, SameAppend
    <2>3. CASE a % SAME_SIZE # slot
      <3>1. slots'.same[slot] = slots.same[slot]
        BY <1>1, <1>2, <2>3
      <3> QED
        BY <1>1, <2>1, <2>3, <3>1, SameAppend
    <2> QED
      BY <2>2, <2>3
  <1>9. CacheMatchesHistory'
    <2>1. /\ DOMAIN slots'.near = 0..(NEAR_COUNT - 1)
          /\ DOMAIN slots'.same = 0..(SAME_SIZE - 1)
      BY <1>6
    <2> QED
      BY <1>7, <1>8, <2>1 DEF CacheMatchesHistory
  <1> QED
    BY <1>3, <1>4, <1>5, <1>6, <1>9
-----------------------------------------------------------------------------
LEMMA SyncInitInv == SyncInit => SyncInv
  <1> SUFFICES ASSUME SyncInit PROVE SyncInv
    OBVIOUS
  <1>1. /\ 0 \in 0..MaxAddress /\ 0 \in 0..(NEAR_COUNT - 1)
        /\ 0 % NEAR_COUNT = 0
    <2>1. 0 \in 0..(NEAR_COUNT - 1)
      OBVIOUS
    <2> QED
      BY <2>1, ModSmall
  <1>2. SyncTypeOK /\ SyncCacheType
    BY <1>1 DEF SyncInit, NewCache, SyncTypeOK, SyncCacheType
  <1>3. CacheMatchesHistory
    BY DEF SyncInit, NewCache, CacheMatchesHistory, NearSlot, SameSlot, Latest
  <1>4. RingPosition
    BY <1>1 DEF SyncInit, NewCache, RingPosition
  <1>5. Replays([i \in {0} |-> << >>])
    BY DEF SyncInit, Replays
  <1> QED
    BY <1>2, <1>3, <1>4, <1>5 DEF SyncInv, InStep

(* The encoder writes one message more: the replay gets one entry more.    *)
LEMMA WriteKeepsReplay ==
  ASSUME SyncTypeOK, InStep, NEW m \in Message,
         written' \in Seq(0..MaxAddress),
         pending' = Append(pending, m), decoded' = decoded,
         \/ m = NewWindow /\ written' = << >>
         \/ /\ m # NewWindow /\ m.mode \in Mode /\ m.address < m.here
            /\ Expresses(written, m.mode, m.here, m.number, m.address)
            /\ written' = Append(written, m.address)
  PROVE  InStep'
  <1> DEFINE n == Len(pending)
  <1>1. PICK hist : Replays(hist)
    BY DEF InStep
  <1> DEFINE longer == [i \in 0..(n + 1) |-> IF i <= n THEN hist[i] ELSE written']
  <1>2. /\ n \in Nat /\ Len(pending') = n + 1
        /\ \A i \in 1..n : pending'[i] = pending[i]
        /\ pending'[n + 1] = m
    BY SMTT(20) DEF SyncTypeOK
  <1>3. /\ hist \in [0..n -> Seq(0..MaxAddress)]
        /\ hist[0] = decoded /\ hist[n] = written
    BY <1>1 DEF Replays
  <1>4. /\ longer \in [0..(n + 1) -> Seq(0..MaxAddress)]
        /\ longer[0] = decoded'
        /\ longer[n + 1] = written'
        /\ \A i \in 0..n : longer[i] = hist[i]
    BY <1>2, <1>3
  <1> HIDE DEF longer
  <1>5. ASSUME NEW i \in 1..(n + 1)
        PROVE  \/ pending'[i] = NewWindow /\ longer[i] = << >>
               \/ /\ pending'[i] # NewWindow
                  /\ pending'[i].mode \in Mode
                  /\ pending'[i].address < pending'[i].here
                  /\ Expresses(longer[i - 1], pending'[i].mode,
                               pending'[i].here, pending'[i].number,
                               pending'[i].address)
                  /\ longer[i] = Append(longer[i - 1], pending'[i].address)
    <2>1. CASE i \in 1..n
      <3>1. i - 1 \in 0..n /\ i \in 0..n
        BY <1>2, <2>1
      <3>2. /\ longer[i] = hist[i] /\ longer[i - 1] = hist[i - 1]
            /\ pending'[i] = pending[i]
        BY <1>2, <1>4, <2>1, <3>1
      <3> QED
        BY <1>1, <2>1, <3>2 DEF Replays
    <2>2. CASE i = n + 1
      <3>1. /\ longer[i] = written' /\ longer[i - 1] = written
            /\ pending'[i] = m
        BY <1>2, <1>3, <1>4, <2>2
      <3> QED
        BY <3>1
    <2>3. i \in 1..n \/ i = n + 1
      BY <1>2
    <2> QED
      BY <2>1, <2>2, <2>3
  <1>6. /\ longer \in [0..Len(pending') -> Seq(0..MaxAddress)]
        /\ longer[Len(pending')] = written'
    BY <1>2, <1>4
  <1>7. PICK h : h = longer
    OBVIOUS
  <1>8. Replays(h)'
    BY <1>2, <1>4, <1>5, <1>6, <1>7 DEF Replays
  <1> QED
    BY <1>8 DEF InStep

(* The decoder reads one: the replay loses its first entry.                *)
LEMMA ReadKeepsReplay ==
  ASSUME SyncTypeOK, NEW hist, Replays(hist), pending # << >>,
         pending' = Tail(pending), written' = written, decoded' = hist[1]
  PROVE  InStep'
  <1> DEFINE n == Len(pending)
             rest == [i \in 0..(n - 1) |-> hist[i + 1]]
  <1>1. /\ n \in Nat \ {0} /\ Len(pending') = n - 1
        /\ \A i \in 1..(n - 1) : pending'[i] = pending[i + 1]
    BY DEF SyncTypeOK
  <1>2. hist \in [0..n -> Seq(0..MaxAddress)] /\ hist[n] = written
    BY DEF Replays
  <1>3. /\ rest \in [0..(n - 1) -> Seq(0..MaxAddress)]
        /\ rest[0] = decoded' /\ rest[n - 1] = written'
        /\ \A i \in 0..(n - 1) : rest[i] = hist[i + 1]
    BY <1>1, <1>2
  <1> HIDE DEF rest
  <1>4. ASSUME NEW i \in 1..(n - 1)
        PROVE  \/ pending'[i] = NewWindow /\ rest[i] = << >>
               \/ /\ pending'[i] # NewWindow
                  /\ pending'[i].mode \in Mode
                  /\ pending'[i].address < pending'[i].here
                  /\ Expresses(rest[i - 1], pending'[i].mode,
                               pending'[i].here, pending'[i].number,
                               pending'[i].address)
                  /\ rest[i] = Append(rest[i - 1], pending'[i].address)
    <2>1. /\ i \in 0..(n - 1) /\ i - 1 \in 0..(n - 1) /\ i + 1 \in 1..n
          /\ (i + 1) - 1 = i /\ (i - 1) + 1 = i
      BY <1>1
    <2>2. /\ rest[i] = hist[i + 1] /\ rest[i - 1] = hist[(i + 1) - 1]
          /\ pending'[i] = pending[i + 1]
      BY <1>1, <1>3, <2>1
    <2> QED
      BY <2>1, <2>2 DEF Replays
  <1>5. PICK h : h = rest
    OBVIOUS
  <1>6. Replays(h)'
    BY <1>1, <1>3, <1>4, <1>5 DEF Replays
  <1> QED
    BY <1>6 DEF InStep
-----------------------------------------------------------------------------
LEMMA WriteCopyKeepsInv == SyncInv /\ WriteCopy => SyncInv'
  <1> SUFFICES ASSUME SyncInv, WriteCopy PROVE SyncInv'
    OBVIOUS
  <1>1. PICK mode \in Mode, number \in 0..MaxAddress, there \in 0..MaxAddress,
             address \in 0..MaxAddress :
          /\ address < there
          /\ Expresses(written, mode, there, number, address)
          /\ written' = Append(written, address)
          /\ pending' = Append(pending, [mode |-> mode, here |-> there,
                                       number |-> number, address |-> address])
    <2>1. PICK mode \in Mode, number \in 0..MaxAddress :
            \E there \in Positions(mode) : \E address \in 0..(there - 1) :
              /\ Expresses(written, mode, there, number, address)
              /\ written' = Append(written, address)
              /\ pending' = Append(pending, [mode |-> mode, here |-> there,
                                       number |-> number, address |-> address])
      BY DEF WriteCopy
    <2>2. Positions(mode) \subseteq 0..MaxAddress
      BY DEF Positions
    <2>3. PICK there \in Positions(mode) : \E address \in 0..(there - 1) :
              /\ Expresses(written, mode, there, number, address)
              /\ written' = Append(written, address)
              /\ pending' = Append(pending, [mode |-> mode, here |-> there,
                                       number |-> number, address |-> address])
      BY <2>1
    <2>4. there \in 0..MaxAddress
      BY <2>2
    <2>5. 0..(there - 1) \subseteq 0..MaxAddress
      BY <2>4
    <2>6. \A address \in 0..(there - 1) : address < there
      BY <2>4
    <2> QED
      BY <2>3, <2>4, <2>5, <2>6
  <1> DEFINE m == [mode |-> mode, here |-> there, number |-> number,
                   address |-> address]
  <1>2. UNCHANGED <<slots, decoded>>
    BY DEF WriteCopy
  <1>3. /\ m \in Message /\ m # NewWindow /\ m.mode \in Mode
        /\ m.address < m.here
    <2>1. mode # -1
      BY DEF Mode, SAME_START
    <2> QED
      BY <1>1, <2>1 DEF Message, NewWindow
  <1>4. SyncTypeOK' /\ SyncCacheType' /\ CacheMatchesHistory' /\ RingPosition'
    <2>1. written' \in Seq(0..MaxAddress) /\ pending' \in Seq(Message)
      BY <1>1, <1>3 DEF SyncInv, SyncTypeOK
    <2> QED
      BY <1>2, <2>1 DEF SyncInv, SyncTypeOK, SyncCacheType, CacheMatchesHistory,
                        RingPosition
  <1>5. InStep'
    <2>1. SyncTypeOK /\ InStep /\ written' \in Seq(0..MaxAddress)
      BY <1>4 DEF SyncInv, SyncTypeOK
    <2>2. /\ Expresses(written, m.mode, m.here, m.number, m.address)
          /\ written' = Append(written, m.address)
          /\ pending' = Append(pending, m)
      BY <1>1
    <2> HIDE DEF m
    <2> QED
      BY <1>2, <1>3, <2>1, <2>2, WriteKeepsReplay
  <1> QED
    BY <1>4, <1>5 DEF SyncInv

LEMMA WriteWindowKeepsInv == SyncInv /\ WriteWindow => SyncInv'
  <1> SUFFICES ASSUME SyncInv, WriteWindow PROVE SyncInv'
    OBVIOUS
  <1>1. /\ written' = << >> /\ pending' = Append(pending, NewWindow)
        /\ UNCHANGED <<slots, decoded>>
    BY DEF WriteWindow
  <1>2. NewWindow \in Message
    BY DEF Message, NewWindow
  <1>3. SyncTypeOK' /\ SyncCacheType' /\ CacheMatchesHistory' /\ RingPosition'
    BY <1>1, <1>2, SMTT(20) DEF SyncInv, SyncTypeOK, SyncCacheType, CacheMatchesHistory, RingPosition
  <1>4. InStep'
    <2>1. SyncTypeOK /\ InStep /\ written' \in Seq(0..MaxAddress)
      BY <1>3 DEF SyncInv, SyncTypeOK
    <2> QED
      BY <1>1, <1>2, <2>1, WriteKeepsReplay
  <1> QED
    BY <1>3, <1>4 DEF SyncInv

(* What the decoder finds at the head of pending.                          *)
LEMMA NextExpressed ==
  ASSUME SyncInv, pending # << >>, message # NewWindow, NEW hist, Replays(hist)
  PROVE  /\ message \in Message /\ message.mode \in Mode /\ message.address < message.here
         /\ Expresses(decoded, message.mode, message.here, message.number, message.address)
         /\ hist[1] = Append(decoded, message.address)
  <1>1. /\ 1 \in 1..Len(pending) /\ message = pending[1] /\ message \in Message
    BY DEF SyncInv, SyncTypeOK, message
  <1>2. hist[0] = decoded
    BY DEF Replays
  <1>3. /\ pending[1].mode \in Mode
        /\ pending[1].address < pending[1].here
        /\ Expresses(hist[1 - 1], pending[1].mode, pending[1].here,
                     pending[1].number, pending[1].address)
        /\ hist[1] = Append(hist[1 - 1], pending[1].address)
    BY <1>1 DEF Replays
  <1>4. 1 - 1 = 0
    OBVIOUS
  <1> QED
    BY <1>1, <1>2, <1>3, <1>4

LEMMA ReadCopyKeepsInv ==
  SyncInv /\ ReadCopy => SyncInv' /\ decoded' = Append(decoded, message.address)
  <1> SUFFICES ASSUME SyncInv, ReadCopy
               PROVE  SyncInv' /\ decoded' = Append(decoded, message.address)
    OBVIOUS
  <1> DEFINE address == Address(slots, message.mode, message.here, message.number)
  <1>1. /\ pending # << >> /\ message # NewWindow
        /\ slots' = Update(slots, address)
        /\ decoded' = Append(decoded, address)
        /\ pending' = Tail(pending) /\ written' = written
    BY DEF ReadCopy
  <1>2. PICK hist : Replays(hist)
    BY DEF SyncInv, InStep
  <1>3. /\ message \in Message /\ message.mode \in Mode /\ message.address < message.here
        /\ Expresses(decoded, message.mode, message.here, message.number, message.address)
        /\ hist[1] = Append(decoded, message.address)
    BY <1>1, <1>2, NextExpressed
  <1>4. address = message.address
    BY <1>3, DecodeExpressed DEF SyncInv
  <1>5. address \in 0..MaxAddress
    BY <1>3, <1>4 DEF Message
  <1> HIDE DEF address
  <1>6. /\ decoded' \in Seq(0..MaxAddress)
        /\ slots'.near \in [0..(NEAR_COUNT - 1) -> 0..MaxAddress]
        /\ slots'.same \in [0..(SAME_SIZE - 1) -> 0..MaxAddress]
        /\ slots'.next_near \in 0..(NEAR_COUNT - 1)
        /\ SyncCacheType' /\ CacheMatchesHistory' /\ RingPosition'
    BY <1>1, <1>5, UpdateMatches DEF SyncInv
  <1>7. SyncTypeOK'
    <2>1. pending' \in Seq(Message) /\ written' \in Seq(0..MaxAddress)
      BY <1>1 DEF SyncInv, SyncTypeOK
    <2> QED
      BY <1>6, <2>1 DEF SyncTypeOK
  <1>8. InStep'
    BY <1>1, <1>2, <1>3, <1>4, ReadKeepsReplay DEF SyncInv
  <1> QED
    BY <1>1, <1>4, <1>6, <1>7, <1>8 DEF SyncInv

LEMMA ReadWindowKeepsInv == SyncInv /\ ReadWindow => SyncInv'
  <1> SUFFICES ASSUME SyncInv, ReadWindow PROVE SyncInv'
    OBVIOUS
  <1>1. /\ pending # << >> /\ message = NewWindow
        /\ slots' = NewCache /\ decoded' = << >>
        /\ pending' = Tail(pending) /\ written' = written
    BY DEF ReadWindow
  <1>2. PICK hist : Replays(hist)
    BY DEF SyncInv, InStep
  <1>3. hist[1] = << >>
    <2>1. 1 \in 1..Len(pending) /\ message = pending[1]
      BY <1>1 DEF SyncInv, SyncTypeOK, message
    <2> QED
      BY <1>1, <1>2, <2>1 DEF Replays
  <1>4. /\ 0 \in 0..MaxAddress /\ 0 \in 0..(NEAR_COUNT - 1)
        /\ 0 % NEAR_COUNT = 0
    <2>1. 0 \in 0..(NEAR_COUNT - 1)
      OBVIOUS
    <2> QED
      BY <2>1, ModSmall
  <1>5. SyncTypeOK' /\ SyncCacheType'
    <2>1. pending' \in Seq(Message) /\ written' \in Seq(0..MaxAddress)
      BY <1>1 DEF SyncInv, SyncTypeOK
    <2> QED
      BY <1>1, <1>4, <2>1 DEF SyncTypeOK, SyncCacheType, NewCache
  <1>6. CacheMatchesHistory'
    BY <1>1 DEF NewCache, CacheMatchesHistory, NearSlot, SameSlot, Latest
  <1>7. RingPosition'
    BY <1>1, <1>4 DEF NewCache, RingPosition
  <1>8. InStep'
    BY <1>1, <1>2, <1>3, ReadKeepsReplay DEF SyncInv
  <1> QED
    BY <1>5, <1>6, <1>7, <1>8 DEF SyncInv
-----------------------------------------------------------------------------
LEMMA SyncNextKeepsInv == SyncInv /\ [SyncNext]_sync_vars => SyncInv'
  <1> SUFFICES ASSUME SyncInv, [SyncNext]_sync_vars PROVE SyncInv'
    OBVIOUS
  <1>1. CASE UNCHANGED sync_vars
    BY <1>1 DEF sync_vars, SyncInv, SyncTypeOK, SyncCacheType, CacheMatchesHistory,
                RingPosition, InStep, Replays
  <1> QED
    BY <1>1, WriteCopyKeepsInv, WriteWindowKeepsInv, ReadCopyKeepsInv,
       ReadWindowKeepsInv DEF SyncNext

LEMMA SyncInvariance == SyncSpec => []SyncInv
  BY SyncInitInv, SyncNextKeepsInv, PTL DEF SyncSpec

(* AddressCache::update keeps in every slot the address RFC 3284 puts      *)
(* there, in every window.                                                 *)
THEOREM CacheCorrect == SyncSpec => []CacheMatchesHistory
  BY SyncInvariance, PTL DEF SyncInv

(* AddressCache::decode refuses no address an encoder can write.           *)
THEOREM EncodedIsAccepted == SyncSpec => []NothingRefused
  <1>1. SyncInv => NothingRefused
    <2> SUFFICES ASSUME SyncInv, pending # << >>, message # NewWindow
                 PROVE  /\ ~InvalidMode(message.mode)
                        /\ ~BeforeStart(message.mode, message.here, message.number)
                        /\ ~TooFar(slots, message.mode, message.number)
      BY DEF NothingRefused
    <2>1. PICK hist : Replays(hist)
      BY DEF SyncInv, InStep
    <2> QED
      BY <2>1, NextExpressed, DecodeExpressed DEF SyncInv
  <1> QED
    BY <1>1, SyncInvariance, PTL

(* AddressCache::decode resolves each number to the address the encoder    *)
(* wrote it for.                                                           *)
THEOREM DecoderAgrees == SyncSpec => AddressesAgree
  <1>1. SyncInv /\ [SyncNext]_sync_vars =>
          [ReadCopy => decoded' = Append(decoded, message.address)]_sync_vars
    BY ReadCopyKeepsInv
  <1> QED
    BY <1>1, SyncInvariance, PTL DEF SyncSpec, AddressesAgree
-----------------------------------------------------------------------------
(* The opcodes: the rows of RFC 3284, told by their place in its table.    *)

(* The beginning of a list of rows that are known by their place.          *)
Begins(s, rows, n) ==
  /\ s \in Seq({rows[o] : o \in 0..255}) /\ Len(s) = n
  /\ \A i \in 1..n : s[i] = rows[i - 1]

(* A list of n rows, the first of them the one at place m.                 *)
Follows(t, rows, m, n) ==
  /\ t = [i \in 1..n |-> t[i]]
  /\ \A i \in 1..n : t[i] = rows[m + i - 1]

Together(both, s, t, V) ==
  /\ both \in Seq(V) /\ Len(both) = Len(s) + Len(t)
  /\ \A i \in 1..Len(s) : both[i] = s[i]
  /\ \A i \in 1..Len(t) : both[Len(s) + i] = t[i]

LEMMA PutTogether ==
  ASSUME NEW V, NEW s \in Seq(V), NEW t \in Seq(V)
  PROVE  Together(s \o t, s, t, V)
  BY DEF Together

LEMMA OneRow ==
  ASSUME NEW rows, NEW x, x = rows[0]
  PROVE  Begins(<<x>>, rows, 1)
  <1> DEFINE V == {rows[o] : o \in 0..255}
  <1>1. x \in V
    OBVIOUS
  <1> HIDE DEF V
  <1>2. /\ <<x>> \in Seq(V) /\ Len(<<x>>) = 1 /\ 1 - 1 = 0
        /\ \A i \in 1..1 : i = 1 /\ <<x>>[i] = x
    BY <1>1
  <1> QED
    BY <1>2 DEF Begins, V

LEMMA BeginsLonger ==
  ASSUME NEW rows, NEW m \in Nat, NEW n \in Nat, NEW s, Begins(s, rows, m),
         NEW t, Follows(t, rows, m, n), NEW whole, whole = m + n, whole <= 256
  PROVE  Begins(s \o t, rows, whole)
  <1> DEFINE V == {rows[o] : o \in 0..255}
  <1>1. s \in Seq(V) /\ Len(s) = m /\ \A i \in 1..m : s[i] = rows[i - 1]
    BY DEF Begins
  <1>2. t \in Seq(V) /\ Len(t) = n /\ \A i \in 1..n : t[i] = rows[m + i - 1]
    <2>1. \A i \in 1..n : m + i - 1 \in 0..255
      OBVIOUS
    <2>2. \A i \in 1..n : t[i] = rows[m + i - 1] /\ t[i] \in V
      BY <2>1 DEF Follows
    <2>3. t = [i \in 1..n |-> t[i]]
      BY DEF Follows
    <2> HIDE DEF V
    <2>4. t \in [1..n -> V]
      BY <2>2, <2>3
    <2> QED
      BY <2>2, <2>4
  <1> HIDE DEF V
  <1>3. /\ s \o t \in Seq(V) /\ Len(s \o t) = m + n
        /\ \A i \in 1..m : (s \o t)[i] = s[i]
        /\ \A i \in 1..n : (s \o t)[m + i] = t[i]
    <2>1. Together(s \o t, s, t, V)
      BY <1>1, <1>2, PutTogether
    <2> QED
      BY <1>1, <1>2, <2>1 DEF Together
  <1> DEFINE both == s \o t
  <1> HIDE DEF both
  <1>4. ASSUME NEW i \in 1..whole
        PROVE  both[i] = rows[i - 1]
    <2>1. CASE i <= m
      BY <1>1, <1>3, <2>1 DEF both
    <2>2. CASE ~(i <= m)
      <3>1. i - m \in 1..n /\ m + (i - m) = i /\ m + (i - m) - 1 = i - 1
        BY <2>2
      <3>2. both[m + (i - m)] = t[i - m] /\ t[i - m] = rows[m + (i - m) - 1]
        BY <1>2, <1>3, <3>1 DEF both
      <3> QED
        BY <3>1, <3>2
    <2> QED
      BY <2>1, <2>2
  <1> QED
    BY <1>3, <1>4 DEF Begins, V, both

(* What RFC 3284 counts at an opcode, by the list the opcode is in.        *)
AddAt(k) == <<Code!Add(k), Code!NoOp>>
CopyAt(k) ==
  <<Code!Copy(IF k % 16 = 0 THEN 0 ELSE (k % 16) + 3, k \div 16), Code!NoOp>>
WideAt(k) ==
  <<Code!Add(((k \div 3) % 4) + 1), Code!Copy((k % 3) + 4, k \div 12)>>
NarrowAt(k) == <<Code!Add((k % 4) + 1), Code!Copy(4, 6 + (k \div 4))>>
TailAt(k) == <<Code!Copy(4, k), Code!Add(1)>>

RowAt ==
  [o \in 0..255 |->
     IF o = 0 THEN <<Code!Run, Code!NoOp>>
     ELSE IF o <= 18 THEN AddAt(o - 1)
     ELSE IF o <= 162 THEN CopyAt(o - 19)
     ELSE IF o <= 234 THEN WideAt(o - 163)
     ELSE IF o <= 246 THEN NarrowAt(o - 235)
     ELSE TailAt(o - 247)]

LEMMA RowsAreCounted ==
  /\ Len(Code!Rows) = 256
  /\ \A o \in 0..255 : Code!Rows[o + 1] = RowAt[o]
  <1> DEFINE a == <<<<Code!Run, Code!NoOp>>>>
             b == [i \in 1..18 |-> AddAt(i - 1)]
             c == [i \in 1..144 |-> CopyAt(i - 1)]
             d == [i \in 1..72 |-> WideAt(i - 1)]
             e == [i \in 1..12 |-> NarrowAt(i - 1)]
             f == [i \in 1..9 |-> TailAt(i - 1)]
  <1>1. Code!Rows = a \o b \o c \o d \o e \o f
    <2>1. 16 * Code!Modes = 144 /\ 12 * (2 + Code!s_near) = 72
          /\ 4 * Code!s_same = 12 /\ Code!Modes = 9 /\ 2 + Code!s_near = 6
      BY DEF Code!Modes, Code!s_near, Code!s_same
    <2> QED
      BY <2>1 DEF Code!Rows, AddAt, CopyAt, WideAt, NarrowAt, TailAt
  <1>4. /\ a[1] = RowAt[0]
        /\ \A i \in 1..18 : b[i] = RowAt[1 + i - 1]
        /\ \A i \in 1..144 : c[i] = RowAt[19 + i - 1]
        /\ \A i \in 1..72 : d[i] = RowAt[163 + i - 1]
        /\ \A i \in 1..12 : e[i] = RowAt[235 + i - 1]
        /\ \A i \in 1..9 : f[i] = RowAt[247 + i - 1]
    <2>1. a[1] = RowAt[0]
      BY DEF RowAt
    <2>2. ASSUME NEW i \in 1..18 PROVE b[i] = RowAt[1 + i - 1]
      <3>1. 1 + i - 1 \in 1..18 /\ (1 + i - 1) - 1 = i - 1
        OBVIOUS
      <3> QED
        BY <3>1 DEF RowAt
    <2>3. ASSUME NEW i \in 1..144 PROVE c[i] = RowAt[19 + i - 1]
      <3>1. 19 + i - 1 \in 19..162 /\ (19 + i - 1) - 19 = i - 1
        OBVIOUS
      <3> QED
        BY <3>1 DEF RowAt
    <2>4. ASSUME NEW i \in 1..72 PROVE d[i] = RowAt[163 + i - 1]
      <3>1. 163 + i - 1 \in 163..234 /\ (163 + i - 1) - 163 = i - 1
        OBVIOUS
      <3> QED
        BY <3>1 DEF RowAt
    <2>5. ASSUME NEW i \in 1..12 PROVE e[i] = RowAt[235 + i - 1]
      <3>1. 235 + i - 1 \in 235..246 /\ (235 + i - 1) - 235 = i - 1
        OBVIOUS
      <3> QED
        BY <3>1 DEF RowAt
    <2>6. ASSUME NEW i \in 1..9 PROVE f[i] = RowAt[247 + i - 1]
      <3>1. 247 + i - 1 \in 247..255 /\ (247 + i - 1) - 247 = i - 1
        OBVIOUS
      <3> QED
        BY <3>1 DEF RowAt
    <2> QED
      BY <2>1, <2>2, <2>3, <2>4, <2>5, <2>6
  <1>5. Begins(a, RowAt, 1)
    BY <1>4, OneRow
  <1>6. /\ Follows(b, RowAt, 1, 18) /\ Follows(c, RowAt, 19, 144)
        /\ Follows(d, RowAt, 163, 72) /\ Follows(e, RowAt, 235, 12)
        /\ Follows(f, RowAt, 247, 9)
    <2>1. /\ b = [i \in 1..18 |-> b[i]] /\ c = [i \in 1..144 |-> c[i]]
          /\ d = [i \in 1..72 |-> d[i]] /\ e = [i \in 1..12 |-> e[i]]
          /\ f = [i \in 1..9 |-> f[i]]
      OBVIOUS
    <2> HIDE DEF b, c, d, e, f
    <2> QED
      BY <1>4, <2>1 DEF Follows
  <1> HIDE DEF a, b, c, d, e, f
  <1>7. Begins(a \o b, RowAt, 19)
    <2> DEFINE m == 1
               n == 18
               whole == 19
    <2>1. whole = m + n /\ m \in Nat /\ n \in Nat /\ whole <= 256
      OBVIOUS
    <2>2. Begins(a, RowAt, m) /\ Follows(b, RowAt, m, n)
      BY <1>5, <1>6
    <2> HIDE DEF m, n, whole
    <2>3. Begins((a) \o b, RowAt, whole)
      BY <2>1, <2>2, BeginsLonger
    <2> QED
      BY <2>3 DEF whole
  <1>8. Begins(a \o b \o c, RowAt, 163)
    <2> DEFINE m == 19
               n == 144
               whole == 163
    <2>1. whole = m + n /\ m \in Nat /\ n \in Nat /\ whole <= 256
      OBVIOUS
    <2>2. Begins(a \o b, RowAt, m) /\ Follows(c, RowAt, m, n)
      BY <1>7, <1>6
    <2> HIDE DEF m, n, whole
    <2>3. Begins((a \o b) \o c, RowAt, whole)
      BY <2>1, <2>2, BeginsLonger
    <2> QED
      BY <2>3 DEF whole
  <1>9. Begins(a \o b \o c \o d, RowAt, 235)
    <2> DEFINE m == 163
               n == 72
               whole == 235
    <2>1. whole = m + n /\ m \in Nat /\ n \in Nat /\ whole <= 256
      OBVIOUS
    <2>2. Begins(a \o b \o c, RowAt, m) /\ Follows(d, RowAt, m, n)
      BY <1>8, <1>6
    <2> HIDE DEF m, n, whole
    <2>3. Begins((a \o b \o c) \o d, RowAt, whole)
      BY <2>1, <2>2, BeginsLonger
    <2> QED
      BY <2>3 DEF whole
  <1>10. Begins(a \o b \o c \o d \o e, RowAt, 247)
    <2> DEFINE m == 235
               n == 12
               whole == 247
    <2>1. whole = m + n /\ m \in Nat /\ n \in Nat /\ whole <= 256
      OBVIOUS
    <2>2. Begins(a \o b \o c \o d, RowAt, m) /\ Follows(e, RowAt, m, n)
      BY <1>9, <1>6
    <2> HIDE DEF m, n, whole
    <2>3. Begins((a \o b \o c \o d) \o e, RowAt, whole)
      BY <2>1, <2>2, BeginsLonger
    <2> QED
      BY <2>3 DEF whole
  <1>11. Begins(a \o b \o c \o d \o e \o f, RowAt, 256)
    <2> DEFINE m == 247
               n == 9
               whole == 256
    <2>1. whole = m + n /\ m \in Nat /\ n \in Nat /\ whole <= 256
      OBVIOUS
    <2>2. Begins(a \o b \o c \o d \o e, RowAt, m) /\ Follows(f, RowAt, m, n)
      BY <1>10, <1>6
    <2> HIDE DEF m, n, whole
    <2>3. Begins((a \o b \o c \o d \o e) \o f, RowAt, whole)
      BY <2>1, <2>2, BeginsLonger
    <2> QED
      BY <2>3 DEF whole
  <1>12. Begins(Code!Rows, RowAt, 256)
    BY <1>1, <1>11
  <1>13. \A o \in 0..255 : o + 1 \in 1..256 /\ (o + 1) - 1 = o
    OBVIOUS
  <1> QED
    BY <1>12, <1>13 DEF Begins

(* An assignment of default_table is the one RFC 3284 counts at its index. *)
Right(a) == a.index \in 0..255 /\ a.entry = RowAt[a.index]

LEMMA AddsAreRight ==
  /\ \A a \in Code!Adds : Right(a)
  /\ \A o \in 1..18 : \E a \in Code!Adds : a.index = o
  <1>1. ASSUME NEW size \in 0..17
        PROVE  Right(Code!At(1 + size, Code!Add(size), Code!NoOp))
    <2> DEFINE o == 1 + size
    <2>1. o \in 1..18 /\ o - 1 = size /\ o \in 0..255
      OBVIOUS
    <2> HIDE DEF o
    <2>2. RowAt[o] = AddAt(size)
      BY <2>1 DEF RowAt
    <2>3. Right(Code!At(o, Code!Add(size), Code!NoOp))
      BY <2>1, <2>2 DEF Right, AddAt, Code!At
    <2> QED
      BY <2>3 DEF o
  <1>2. Code!Adds = {Code!At(1 + size, Code!Add(size), Code!NoOp) :
                     size \in 0..17}
    BY DEF Code!Adds
  <1>3. \A a \in Code!Adds : Right(a)
    BY <1>1, <1>2, Zenon
  <1>4. ASSUME NEW o \in 1..18
        PROVE  \E a \in Code!Adds : a.index = o
    <2> DEFINE a == Code!At(1 + (o - 1), Code!Add(o - 1), Code!NoOp)
    <2>1. o - 1 \in 0..17 /\ 1 + (o - 1) = o
      OBVIOUS
    <2>2. a \in Code!Adds /\ a.index = o
      BY <1>2, <2>1 DEF Code!At
    <2> QED
      BY <2>2
  <1> QED
    BY <1>3, <1>4

CopyOf(mode, k) ==
  Code!At(19 + 16 * mode + k,
          Code!Copy(IF k = 0 THEN 0 ELSE k + 3, mode), Code!NoOp)

LEMMA CopiesAreRight ==
  /\ \A a \in Code!Copies : Right(a)
  /\ \A o \in 19..162 : \E a \in Code!Copies : a.index = o
  <1>1. ASSUME NEW mode \in 0..8, NEW k \in 0..15
        PROVE  Right(CopyOf(mode, k))
    <2> DEFINE o == 19 + 16 * mode + k
    <2>1. o \in 19..162 /\ o \in 0..255 /\ o - 19 = 16 * mode + k
      OBVIOUS
    <2>2. (16 * mode + k) % 16 = k /\ (16 * mode + k) \div 16 = mode
      OBVIOUS
    <2>3. RowAt[o] = CopyAt(16 * mode + k)
      <3> HIDE DEF o
      <3> QED
        BY <2>1 DEF RowAt
    <2>4. RowAt[o] = <<Code!Copy(IF k = 0 THEN 0 ELSE k + 3, mode), Code!NoOp>>
      BY <2>2, <2>3 DEF CopyAt
    <2> QED
      BY <2>1, <2>4 DEF Right, CopyOf, Code!At
  <1>2. ASSUME NEW mode \in 0..8
        PROVE  /\ CopyOf(mode, 0)
                    = Code!At(Code!CopyBase(mode), Code!Copy(0, mode), Code!NoOp)
               /\ \A k \in 1..15 :
                    CopyOf(mode, k) = Code!At(Code!CopyBase(mode) + k,
                                              Code!Copy(k + 3, mode), Code!NoOp)
    BY DEF CopyOf, Code!CopyBase
  <1>3. ASSUME NEW a \in Code!Copies
        PROVE  Right(a)
    <2>1. PICK mode \in 0..8 :
            \/ a = Code!At(Code!CopyBase(mode), Code!Copy(0, mode), Code!NoOp)
            \/ \E k \in 1..15 : a = Code!At(Code!CopyBase(mode) + k,
                                            Code!Copy(k + 3, mode), Code!NoOp)
      BY Zenon DEF Code!Copies
    <2>2. \E k \in 0..15 : a = CopyOf(mode, k)
      <3>1. 0 \in 0..15 /\ \A k \in 1..15 : k \in 0..15
        OBVIOUS
      <3> QED
        BY <1>2, <2>1, <3>1, Zenon
    <2> QED
      BY <1>1, <2>2, Zenon
  <1>4. ASSUME NEW o \in 19..162
        PROVE  \E a \in Code!Copies : a.index = o
    <2> DEFINE mode == (o - 19) \div 16
               k == (o - 19) % 16
    <2>1. mode \in 0..8 /\ k \in 0..15 /\ 19 + 16 * mode + k = o
      OBVIOUS
    <2> HIDE DEF mode, k
    <2>2. CopyOf(mode, k) \in Code!Copies
      <3> DEFINE Of(m) ==
                   {Code!At(Code!CopyBase(m), Code!Copy(0, m), Code!NoOp)} \cup
                   {Code!At(Code!CopyBase(m) + j, Code!Copy(j + 3, m), Code!NoOp) :
                    j \in 1..15}
      <3>1. Code!Copies = UNION {Of(m) : m \in 0..8}
        BY Zenon DEF Code!Copies
      <3>2. k = 0 \/ k \in 1..15
        BY <2>1
      <3>3. CopyOf(mode, k) \in Of(mode)
        BY <1>2, <2>1, <3>2, Zenon
      <3> HIDE DEF Of
      <3> QED
        BY <2>1, <3>1, <3>3, Zenon
    <2>3. CopyOf(mode, k).index = o
      BY <2>1 DEF CopyOf, Code!At
    <2> QED
      BY <2>2, <2>3
  <1> QED
    BY <1>3, <1>4

WideOf(mode, add, copy) ==
  Code!At(163 + 12 * mode + 3 * (add - 1) + (copy - 4),
          Code!Add(add), Code!Copy(copy, mode))

LEMMA WidePairsAreRight ==
  /\ \A a \in Code!WidePairs : Right(a)
  /\ \A o \in 163..234 : \E a \in Code!WidePairs : a.index = o
  <1>1. ASSUME NEW mode \in 0..5, NEW add \in 1..4, NEW copy \in 4..6
        PROVE  Right(WideOf(mode, add, copy))
    <2> DEFINE k == 12 * mode + 3 * (add - 1) + (copy - 4)
               o == 163 + 12 * mode + 3 * (add - 1) + (copy - 4)
    <2>1. o \in 163..234 /\ o \in 0..255 /\ o - 163 = k
      OBVIOUS
    <2>2. k % 3 = copy - 4 /\ k \div 3 = 4 * mode + (add - 1)
          /\ k \div 12 = mode
      OBVIOUS
    <2>3. (4 * mode + (add - 1)) % 4 = add - 1 /\ (add - 1) + 1 = add
          /\ (copy - 4) + 4 = copy
      OBVIOUS
    <2>4. RowAt[o] = WideAt(k)
      <3> HIDE DEF o, k
      <3> QED
        BY <2>1 DEF RowAt
    <2>5. RowAt[o] = <<Code!Add(add), Code!Copy(copy, mode)>>
      <3> HIDE DEF o, k
      <3> QED
        BY <2>2, <2>3, <2>4 DEF WideAt
    <2> QED
      BY <2>1, <2>5 DEF Right, WideOf, Code!At
  <1>2. ASSUME NEW mode \in 0..5, NEW add \in 1..4, NEW copy \in 4..6
        PROVE  WideOf(mode, add, copy) \in Code!WidePairs
    BY DEF Code!WidePairs, Code!WidePairBase, WideOf
  <1>3. ASSUME NEW a \in Code!WidePairs
        PROVE  Right(a)
    <2>1. \E mode \in 0..5, add \in 1..4, copy \in 4..6 : a = WideOf(mode, add, copy)
      BY DEF Code!WidePairs, Code!WidePairBase, WideOf
    <2> QED
      BY <1>1, <2>1
  <1>4. ASSUME NEW o \in 163..234
        PROVE  \E a \in Code!WidePairs : a.index = o
    <2> DEFINE mode == (o - 163) \div 12
               add == (((o - 163) % 12) \div 3) + 1
               copy == ((o - 163) % 3) + 4
    <2>1. /\ mode \in 0..5 /\ add \in 1..4 /\ copy \in 4..6
          /\ 163 + 12 * mode + 3 * (add - 1) + (copy - 4) = o
      OBVIOUS
    <2> HIDE DEF mode, add, copy
    <2>2. WideOf(mode, add, copy) \in Code!WidePairs
      BY <1>2, <2>1
    <2>3. WideOf(mode, add, copy).index = o
      BY <2>1 DEF WideOf, Code!At
    <2> QED
      BY <2>2, <2>3
  <1> QED
    BY <1>3, <1>4

NarrowOf(mode, add) ==
  Code!At(235 + 4 * (mode - 6) + (add - 1), Code!Add(add), Code!Copy(4, mode))

LEMMA NarrowPairsAreRight ==
  /\ \A a \in Code!NarrowPairs : Right(a)
  /\ \A o \in 235..246 : \E a \in Code!NarrowPairs : a.index = o
  <1>1. ASSUME NEW mode \in 6..8, NEW add \in 1..4
        PROVE  Right(NarrowOf(mode, add))
    <2> DEFINE k == 4 * (mode - 6) + (add - 1)
               o == 235 + 4 * (mode - 6) + (add - 1)
    <2>1. o \in 235..246 /\ o \in 0..255 /\ o - 235 = k
      OBVIOUS
    <2>2. k % 4 = add - 1 /\ k \div 4 = mode - 6 /\ (add - 1) + 1 = add
          /\ 6 + (mode - 6) = mode
      OBVIOUS
    <2>3. RowAt[o] = NarrowAt(k)
      <3> HIDE DEF o, k
      <3> QED
        BY <2>1 DEF RowAt
    <2>4. RowAt[o] = <<Code!Add(add), Code!Copy(4, mode)>>
      <3> HIDE DEF o, k
      <3> QED
        BY <2>2, <2>3 DEF NarrowAt
    <2> QED
      BY <2>1, <2>4 DEF Right, NarrowOf, Code!At
  <1>2. ASSUME NEW mode \in 6..8, NEW add \in 1..4
        PROVE  NarrowOf(mode, add) \in Code!NarrowPairs
    BY DEF Code!NarrowPairs, NarrowOf
  <1>3. ASSUME NEW a \in Code!NarrowPairs
        PROVE  Right(a)
    <2>1. \E mode \in 6..8, add \in 1..4 : a = NarrowOf(mode, add)
      BY DEF Code!NarrowPairs, NarrowOf
    <2> QED
      BY <1>1, <2>1
  <1>4. ASSUME NEW o \in 235..246
        PROVE  \E a \in Code!NarrowPairs : a.index = o
    <2> DEFINE mode == ((o - 235) \div 4) + 6
               add == ((o - 235) % 4) + 1
    <2>1. mode \in 6..8 /\ add \in 1..4 /\ 235 + 4 * (mode - 6) + (add - 1) = o
      OBVIOUS
    <2> HIDE DEF mode, add
    <2>2. NarrowOf(mode, add) \in Code!NarrowPairs
      BY <1>2, <2>1
    <2>3. NarrowOf(mode, add).index = o
      BY <2>1 DEF NarrowOf, Code!At
    <2> QED
      BY <2>2, <2>3
  <1> QED
    BY <1>3, <1>4

LEMMA TailsAreRight ==
  /\ \A a \in Code!Tails : Right(a)
  /\ \A o \in 247..255 : \E a \in Code!Tails : a.index = o
  <1>1. ASSUME NEW mode \in 0..8
        PROVE  Right(Code!At(247 + mode, Code!Copy(4, mode), Code!Add(1)))
    <2> DEFINE o == 247 + mode
    <2>1. o \in 247..255 /\ o - 247 = mode /\ o \in 0..255
      OBVIOUS
    <2> HIDE DEF o
    <2>2. RowAt[o] = TailAt(mode)
      BY <2>1 DEF RowAt
    <2>3. Right(Code!At(o, Code!Copy(4, mode), Code!Add(1)))
      BY <2>1, <2>2 DEF Right, TailAt, Code!At
    <2> QED
      BY <2>3 DEF o
  <1>2. \A a \in Code!Tails : Right(a)
    BY <1>1, Zenon DEF Code!Tails
  <1>3. ASSUME NEW o \in 247..255
        PROVE  \E a \in Code!Tails : a.index = o
    <2> DEFINE mode == o - 247
               a == Code!At(247 + mode, Code!Copy(4, mode), Code!Add(1))
    <2>1. mode \in 0..8 /\ 247 + mode = o
      OBVIOUS
    <2> HIDE DEF mode
    <2>2. a \in Code!Tails
      BY <2>1, Zenon DEF Code!Tails
    <2>3. a.index = o
      BY <2>1 DEF Code!At
    <2> QED
      BY <2>2, <2>3
  <1> QED
    BY <1>2, <1>3

LEMMA EveryOpcodeIsRight == Code!MatchesRfc
  <1>1. ASSUME NEW a \in Code!default_table
        PROVE  Right(a)
    <2>1. Right(Code!At(0, Code!Run, Code!NoOp))
      <3>1. RowAt[0] = <<Code!Run, Code!NoOp>>
        BY DEF RowAt
      <3> QED
        BY <3>1 DEF Right, Code!At
    <2> QED
      BY <2>1, AddsAreRight, CopiesAreRight, WidePairsAreRight,
         NarrowPairsAreRight, TailsAreRight, Zenon DEF Code!default_table
  <1>2. ASSUME NEW o \in 0..255
        PROVE  \E a \in Code!default_table : a.index = o
    <2> DEFINE run == Code!At(0, Code!Run, Code!NoOp)
    <2>1. /\ run \in Code!default_table
          /\ Code!Adds \subseteq Code!default_table
          /\ Code!Copies \subseteq Code!default_table
          /\ Code!WidePairs \subseteq Code!default_table
          /\ Code!NarrowPairs \subseteq Code!default_table
          /\ Code!Tails \subseteq Code!default_table
      BY Zenon DEF Code!default_table
    <2>2. run.index = 0
      BY DEF Code!At
    <2>3. \/ o = 0 \/ o \in 1..18 \/ o \in 19..162
          \/ o \in 163..234 \/ o \in 235..246 \/ o \in 247..255
      OBVIOUS
    <2> HIDE DEF run
    <2>4. CASE o = 0
      BY <2>1, <2>2, <2>4
    <2>5. CASE o \in 1..18
      BY <2>1, <2>5, AddsAreRight
    <2>6. CASE o \in 19..162
      BY <2>1, <2>6, CopiesAreRight
    <2>7. CASE o \in 163..234
      BY <2>1, <2>7, WidePairsAreRight
    <2>8. CASE o \in 235..246
      BY <2>1, <2>8, NarrowPairsAreRight
    <2>9. CASE o \in 247..255
      BY <2>1, <2>9, TailsAreRight
    <2> QED
      BY <2>3, <2>4, <2>5, <2>6, <2>7, <2>8, <2>9
  <1>3. ASSUME NEW o \in 0..255
        PROVE  {a.entry : a \in {b \in Code!default_table : b.index = o}}
                 = {Code!Rows[o + 1]}
    <2>1. Code!Rows[o + 1] = RowAt[o]
      BY RowsAreCounted
    <2>2. \A b \in Code!default_table : b.index = o => b.entry = RowAt[o]
      BY <1>1 DEF Right
    <2>3. \E b \in Code!default_table : b.index = o
      BY <1>2
    <2> QED
      BY <2>1, <2>2, <2>3, Zenon
  <1> QED
    BY <1>3, RowsAreCounted DEF Code!MatchesRfc

(* default_table assigns every opcode the entry RFC 3284 counts there, and *)
(* no other.                                                               *)
THEOREM OpcodesAreCounted == SyncSpec => []TableMatchesRfc
  <1>1. TableMatchesRfc
    BY EveryOpcodeIsRight DEF TableMatchesRfc
  <1> QED
    BY <1>1, PTL
=============================================================================
