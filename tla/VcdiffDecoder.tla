--------------------------- MODULE VcdiffDecoder ---------------------------
(***************************************************************************)
(* vcdiff/src/decoder.rs: decode_to and the pipeline of a window.  The     *)
(* delta's contents are chosen as they are read: every number, indicator   *)
(* and opcode a delta may hold, at the offsets where the code reads them.  *)
(* Section bytes are counted, not kept; the codecs either fill their       *)
(* section and stop at its end or fail; the target writer is known by the  *)
(* length it has reached.  A decode that fails names its DecodeError.      *)
(***************************************************************************)
EXTENDS AddressCache, Sequences

CONSTANTS MaxTarget,        \* options.max_target_size
          MaxWindowMemory,  \* options.max_window_memory
          SourceLen,        \* the measured length of the source
          DeltaLens,        \* the lengths the delta may have been measured at
          Numbers,          \* the values a number may have
          HeaderLens,       \* those of the application header's length
          EncodingLens,     \* those of a window's encoded length
          Table             \* the pairs of instructions an opcode may stand for

Kind == {"noop", "add", "run", "copy"}
Instruction == [kind: Kind, size: Nat, mode: Mode]

ASSUME LimitAssumption ==
  MaxTarget \in Nat /\ MaxWindowMemory \in Nat /\ SourceLen \in Nat
ASSUME NumbersAssumption ==
  /\ Numbers \subseteq 0..MAX_NUMBER /\ HeaderLens \subseteq 0..MAX_NUMBER
  /\ EncodingLens \subseteq 0..MAX_NUMBER
ASSUME DeltaAssumption == DeltaLens \subseteq 0..MAX_NUMBER
ASSUME TableAssumption == Table \subseteq Instruction \X Instruction

VARIABLES
  input_len, input_pos,  \* the delta: its measured length, the next byte
  compressor,            \* the header's codec
  \* the window
  segment, encoding_end, target_size, adler32, compressed, lengths,
  active_memory, resident,  \* what its sections hold in memory
  left,          \* bytes of each section the instructions have not read
  cache,
  todo,          \* the instructions of the opcode that was read
  \* the target writer
  output_len,    \* TargetWriter::len
  window_start,  \* its value when the window began
  persisted,     \* its value when a window was last finished
  op,            \* the call that is running
  pc             \* the place in the code, or how the decode ended

delta == <<input_len, compressor>>
header == <<segment, encoding_end, target_size, adler32, compressed, lengths>>
memory == <<active_memory, resident>>
cursors == <<left, cache, todo>>
output == <<output_len, window_start, persisted, op>>
vars == <<delta, input_pos, header, memory, cursors, output, pc>>
-----------------------------------------------------------------------------
Section == {"data", "instructions", "addresses"}
None == [section \in Section |-> 0]
Total(bytes) == bytes["data"] + bytes["instructions"] + bytes["addresses"]

NoSegment == [kind |-> "none", start |-> 0, len |-> 0]
NoCall == [kind |-> "none", start |-> 0, size |-> 0, base |-> 0]

Errors == {"BadHeader", "TruncatedDelta", "InvalidWindowIndicator",
           "ArithmeticOverflow", "SegmentOutOfBounds", "TargetSizeLimit",
           "InvalidDeltaIndicator", "CompressedSectionWithoutCompressor",
           "DeltaLengthMismatch", "WindowMemoryLimit", "MalformedSection",
           "InvalidSecondarySize", "SectionOutOfBounds", "TargetSizeMismatch",
           "InvalidAddressMode", "AddressOutOfBounds", "CopyCrossesSourceTarget",
           "TrailingSectionData", "ChecksumMismatch", "Io"}
Ends == Errors \cup {"done"}

(* decode_window returns, and its locals and those of run_instructions are *)
(* gone.                                                                   *)
DropWindow ==
  /\ segment' = NoSegment /\ encoding_end' = 0 /\ target_size' = 0
  /\ adler32' = FALSE /\ compressed' = {} /\ lengths' = None
  /\ active_memory' = 0 /\ resident' = None
  /\ left' = None /\ cache' = NewCache /\ todo' = << >>

Stop(error) == /\ pc' = error
               /\ input_pos' = 0
               /\ DropWindow
               /\ UNCHANGED <<delta, output>>

(* Checks are made in order; the first that is true is the error.          *)
Refuse(checks) ==
  \E i \in DOMAIN checks : /\ checks[i][1]
                           /\ \A j \in 1..(i - 1) : ~checks[j][1]
                           /\ Stop(checks[i][2])
Accept(checks) == \A i \in DOMAIN checks : ~checks[i][1]

Truncated(end) == <<end > input_len, "TruncatedDelta">>
Overflow(sum) == <<sum > MAX_NUMBER, "ArithmeticOverflow">>
OverBudget(attempted) == <<attempted > MaxWindowMemory, "WindowMemoryLimit">>
-----------------------------------------------------------------------------
Init == /\ input_len \in DeltaLens /\ input_pos = 0 /\ compressor = "none"
        /\ segment = NoSegment /\ encoding_end = 0 /\ target_size = 0
        /\ adler32 = FALSE /\ compressed = {} /\ lengths = None
        /\ active_memory = 0 /\ resident = None
        /\ left = None /\ cache = NewCache /\ todo = << >>
        /\ output_len = 0 /\ window_start = 0 /\ persisted = 0 /\ op = NoCall
        /\ pc = "header"

(* Three bytes of magic, the version and the indicator; then the codec's   *)
(* identity and the application header, if the indicator says so.  What    *)
(* cannot be accepted is found after 3, 4, 5 or 6 bytes.                   *)
ParseHeader ==
  /\ pc = "header"
  /\ \E codec \in {"none", "djw", "lzma"}, armored \in BOOLEAN,
        malformed \in {0, 3, 4, 5, 6}, skipped \in HeaderLens :
       LET codec_end == IF codec = "none" THEN 5 ELSE 6
           end == IF armored THEN codec_end + 1 + skipped ELSE codec_end
           checks == <<Truncated(3), <<malformed = 3, "BadHeader">>,
                       Truncated(4), <<malformed = 4, "BadHeader">>,
                       Truncated(5), <<malformed = 5, "BadHeader">>,
                       Truncated(codec_end), <<malformed = 6, "BadHeader">>,
                       <<armored /\ codec_end + 1 > input_len, "TruncatedDelta">>,
                       Overflow(end), Truncated(end)>>
       IN \/ Refuse(checks)
          \/ /\ Accept(checks)
             /\ compressor' = codec
             /\ input_pos' = end
             /\ pc' = "window"
             /\ UNCHANGED <<input_len, header, memory, cursors, output>>

(* The loop of decode_to.                                                  *)
Finish == /\ pc = "window" /\ input_pos = input_len
          /\ pc' = "done"
          /\ UNCHANGED <<delta, input_pos, header, memory, cursors, output>>

(* A target segment may reach up to what has been decoded.                 *)
AvailableUnlimited(kind) ==  \* a fault: only the source's length is looked at
  IF kind = "source" THEN SourceLen ELSE MAX_NUMBER
Available(kind) == IF kind = "source" THEN SourceLen ELSE output_len

ReadIndicator ==
  /\ pc = "window" /\ input_pos # input_len
  /\ \E kind \in {"none", "source", "target", "both"},
        reserved, checksum \in BOOLEAN :
     \E start, len \in IF kind \in {"source", "target"} THEN Numbers ELSE {0} :
       LET segmented == kind \in {"source", "target"}
           end == input_pos + IF segmented THEN 3 ELSE 1
           checks == <<<<reserved \/ kind = "both", "InvalidWindowIndicator">>,
                       Truncated(end),
                       <<segmented /\ start + len > MAX_NUMBER,
                         "ArithmeticOverflow">>,
                       <<segmented /\ start + len > Available(kind),
                         "SegmentOutOfBounds">>>>
       IN \/ Refuse(checks)
          \/ /\ Accept(checks)
             /\ segment' = IF segmented
                           THEN [kind |-> kind, start |-> start, len |-> len]
                           ELSE NoSegment
             /\ adler32' = checksum
             /\ input_pos' = end
             /\ pc' = "size"
             /\ UNCHANGED <<delta, encoding_end, target_size, compressed,
                            lengths, memory, cursors, output>>

ReadTargetSize ==
  /\ pc = "size"
  /\ \E encoding_len \in EncodingLens, size \in Numbers :
       LET end == input_pos + 1 + encoding_len
           checks == <<Truncated(input_pos + 1), Overflow(end),
                       Truncated(input_pos + 2),
                       Overflow(output_len + size),
                       <<output_len + size > MaxTarget, "TargetSizeLimit">>>>
       IN \/ Refuse(checks)
          \/ /\ Accept(checks)
             /\ encoding_end' = end
             /\ target_size' = size
             /\ input_pos' = input_pos + 2
             /\ pc' = "compression"
             /\ UNCHANGED <<delta, segment, adler32, compressed, lengths,
                            memory, cursors, output>>

ReadDeltaIndicator ==
  /\ pc = "compression"
  /\ \E sections \in SUBSET Section, reserved \in BOOLEAN :
       LET checks == <<Truncated(input_pos + 1),
                       <<reserved, "InvalidDeltaIndicator">>,
                       <<sections # {} /\ compressor = "none",
                         "CompressedSectionWithoutCompressor">>>>
       IN \/ Refuse(checks)
          \/ /\ Accept(checks)
             /\ compressed' = sections
             /\ input_pos' = input_pos + 1
             /\ pc' = "lengths"
             /\ UNCHANGED <<delta, segment, encoding_end, target_size, adler32,
                            lengths, memory, cursors, output>>

Overlong(sections_end) == sections_end > encoding_end  \* a fault: a gap is let through
Misfits(sections_end) == sections_end # encoding_end

(* The three lengths and the checksum; the window must end where its       *)
(* encoded length says.                                                    *)
ReadLengths ==
  /\ pc = "lengths"
  /\ \E read \in [Section -> Numbers] :
       LET sections_start == input_pos + 3 + IF adler32 THEN 4 ELSE 0
           sections_end == sections_start + Total(read)
           checks == <<Truncated(sections_start), Overflow(sections_end),
                       <<Misfits(sections_end), "DeltaLengthMismatch">>,
                       Truncated(sections_end)>>
       IN \/ Refuse(checks)
          \/ /\ Accept(checks)
             /\ lengths' = read
             /\ input_pos' = sections_start
             /\ active_memory' = 0 /\ resident' = None
             /\ pc' = "data"
             /\ UNCHANGED <<delta, segment, encoding_end, target_size, adler32,
                            compressed, cursors, output>>
-----------------------------------------------------------------------------
(***************************************************************************)
(* The sections become resident one after another, DATA first, against one *)
(* budget for the three.                                                   *)
(***************************************************************************)
After == [data |-> "instructions", instructions |-> "addresses",
          addresses |-> "begin"]

HeldForgetful(section, bytes) == bytes  \* a fault: each section has the budget
Held(section, bytes) == active_memory + bytes

Prepared(section, bytes) ==
  /\ active_memory' = Held(section, bytes)
  /\ resident' = [resident EXCEPT ![section] = bytes]
  /\ input_pos' = input_pos + lengths[section]
  /\ pc' = After[section]
  /\ UNCHANGED <<delta, header, cursors, output>>

PrepareRaw(section) ==
  /\ pc = section /\ section \notin compressed
  /\ LET held == Held(section, lengths[section])
         checks == <<Overflow(held), OverBudget(held),
                     Truncated(input_pos + lengths[section])>>
     IN \/ Refuse(checks)
        \/ Accept(checks) /\ Prepared(section, lengths[section])

(* A compressed section begins with its decoded size.  A DJW section also  *)
(* counts its selectors against the budget while it is decoded.            *)
PrepareCompressed(section) ==
  /\ pc = section /\ section \in compressed
  /\ \E decoded_size \in Numbers :
       LET held == Held(section, decoded_size)
           section_end == input_pos + lengths[section]
           checks == <<Overflow(section_end), Truncated(section_end),
                       <<lengths[section] = 0, "MalformedSection">>,
                       <<decoded_size = 0, "InvalidSecondarySize">>,
                       Overflow(held), OverBudget(held)>>
       IN \/ Refuse(checks)
          \/ /\ Accept(checks)
             /\ \/ Prepared(section, decoded_size)
                \/ Stop("MalformedSection")
                \/ compressor = "djw" /\ Stop("WindowMemoryLimit")

BeginWindow ==
  /\ pc = "begin"
  /\ window_start' = output_len
  /\ left' = resident /\ cache' = NewCache /\ todo' = << >>
  /\ pc' = "run"
  /\ UNCHANGED <<delta, input_pos, header, memory, output_len, persisted, op>>
-----------------------------------------------------------------------------
(***************************************************************************)
(* run_instructions: both sizes of an opcode are read before its first     *)
(* instruction runs.                                                       *)
(***************************************************************************)
ReadsSize(half) == half.kind # "noop" /\ half.size = 0
SizeBytes(half) == IF ReadsSize(half) THEN 1 ELSE 0
Sizes(half) == IF ReadsSize(half) THEN Numbers ELSE {half.size}

ReadOpcode ==
  /\ pc = "run" /\ todo = << >> /\ left["instructions"] > 0
  /\ \E entry \in Table : \E size1 \in Sizes(entry[1]), size2 \in Sizes(entry[2]) :
       LET bytes == 1 + SizeBytes(entry[1]) + SizeBytes(entry[2])
           checks == <<<<bytes > left["instructions"], "SectionOutOfBounds">>>>
       IN \/ Refuse(checks)
          \/ /\ Accept(checks)
             /\ left' = [left EXCEPT !["instructions"] = @ - bytes]
             /\ todo' = <<[entry[1] EXCEPT !.size = size1],
                          [entry[2] EXCEPT !.size = size2]>>
             /\ UNCHANGED <<delta, input_pos, header, memory, cache, output, pc>>

next == Head(todo)
Executing(kind) == pc = "run" /\ todo # << >> /\ next.kind = kind

NoOperation ==
  /\ Executing("noop")
  /\ todo' = Tail(todo)
  /\ UNCHANGED <<delta, input_pos, header, memory, left, cache, output, pc>>

Call(kind, start) ==
  /\ op' = [kind |-> kind, start |-> start, size |-> next.size,
            base |-> output_len]
  /\ pc' = "call"
  /\ UNCHANGED <<delta, input_pos, header, memory, todo,
                 output_len, window_start, persisted>>

(* check_room, with which add, run and copy begin.                         *)
produced == output_len - window_start
CheckRoom == <<Overflow(produced + next.size),
               <<produced + next.size > target_size, "TargetSizeMismatch">>>>

Literal(kind, bytes) ==
  LET checks == <<<<bytes > left["data"], "SectionOutOfBounds">>>>
  IN \/ Refuse(CheckRoom)
     \/ Accept(CheckRoom) /\ Refuse(checks)
     \/ /\ Accept(CheckRoom) /\ Accept(checks)
        /\ left' = [left EXCEPT !["data"] = @ - bytes]
        /\ Call(kind, 0)
        /\ UNCHANGED cache

Add == Executing("add") /\ Literal("add", next.size)
Run == Executing("run") /\ Literal("run", 1)

(* The address must lie before the position of the COPY, and a COPY that   *)
(* begins in the segment must end there.                                   *)
here == segment.len + produced

AfterHere(address) == address > here  \* a fault: the byte to be decoded next
NotBeforeHere(address) == address >= here

CrossesLate(address) ==  \* a fault: one byte of the target is let through
  address < segment.len /\ address + next.size > segment.len + 1
Crosses(address) == address < segment.len /\ address + next.size > segment.len

CheckAddress(number, address) ==
  <<Overflow(here),
    <<InvalidMode(next.mode), "InvalidAddressMode">>,
    <<left["addresses"] = 0, "SectionOutOfBounds">>,
    <<BeforeStart(next.mode, here, number), "AddressOutOfBounds">>,
    <<TooFar(cache, next.mode, number), "ArithmeticOverflow">>,
    <<NotBeforeHere(address), "AddressOutOfBounds">>,
    <<address < segment.len /\ address + next.size > MAX_NUMBER,
      "ArithmeticOverflow">>,
    <<Crosses(address), "CopyCrossesSourceTarget">>>>

Copy ==
  /\ Executing("copy")
  /\ \E number \in Numbers :
       LET address == Address(cache, next.mode, here, number)
           checks == CheckAddress(number, address)
       IN \/ Refuse(CheckRoom)
          \/ Accept(CheckRoom) /\ Refuse(checks)
          \/ /\ Accept(CheckRoom) /\ Accept(checks)
             /\ left' = [left EXCEPT !["addresses"] = @ - 1]
             /\ cache' = Update(cache, address)
             /\ IF address < segment.len
                THEN Call(segment.kind, segment.start + address)
                ELSE Call("current", window_start + (address - segment.len))

(* The target writer's side of a call: see TargetWriter.                   *)
Produce ==
  /\ pc = "call" /\ output_len < op.base + op.size
  /\ output_len' = op.base + op.size
  /\ UNCHANGED <<delta, input_pos, header, memory, cursors, window_start,
                 persisted, op, pc>>

ReturnKeepingTodo ==  \* a fault: the instruction is run again
  /\ pc = "call" /\ output_len = op.base + op.size
  /\ op' = NoCall
  /\ pc' = "run"
  /\ UNCHANGED <<delta, input_pos, header, memory, cursors, output_len,
                 window_start, persisted>>
Return ==
  /\ pc = "call" /\ output_len = op.base + op.size
  /\ op' = NoCall
  /\ todo' = Tail(todo)
  /\ pc' = "run"
  /\ UNCHANGED <<delta, input_pos, header, memory, left, cache, output_len,
                 window_start, persisted>>

FinishWindow ==
  /\ pc = "run" /\ todo = << >> /\ left["instructions"] = 0
  /\ \E differs \in BOOLEAN :
       LET checks == <<<<left["data"] > 0, "TrailingSectionData">>,
                       <<left["addresses"] > 0, "TrailingSectionData">>,
                       <<produced # target_size, "TargetSizeMismatch">>,
                       <<adler32 /\ differs, "ChecksumMismatch">>>>
       IN \/ Refuse(checks)
          \/ /\ Accept(checks)
             /\ persisted' = output_len
             /\ pc' = "window"
             /\ DropWindow
             /\ UNCHANGED <<delta, input_pos, output_len, window_start, op>>

(* A stream answers with an error, or with fewer bytes than it was         *)
(* measured to have.                                                       *)
StreamFails == pc \notin Ends \cup {"begin"} /\ Stop("Io")
-----------------------------------------------------------------------------
Prepare == \E section \in Section : PrepareRaw(section) \/ PrepareCompressed(section)

Step == \/ ParseHeader \/ Finish \/ ReadIndicator \/ ReadTargetSize
        \/ ReadDeltaIndicator \/ ReadLengths \/ Prepare \/ BeginWindow
        \/ ReadOpcode \/ NoOperation \/ Add \/ Run \/ Copy \/ Produce \/ Return
        \/ FinishWindow

Next == Step \/ StreamFails

Spec == Init /\ [][Next]_vars
FairSpec == Spec /\ WF_vars(Step)
-----------------------------------------------------------------------------
(* Types, and that no cursor passes the end of what it reads.              *)
TypeOK ==
  /\ input_len \in DeltaLens /\ input_pos \in 0..input_len
  /\ compressor \in {"none", "djw", "lzma"}
  /\ segment \in [kind: {"none", "source", "target"}, start: Nat, len: Nat]
  /\ encoding_end \in Nat /\ target_size \in Nat /\ adler32 \in BOOLEAN
  /\ compressed \subseteq Section /\ lengths \in [Section -> Nat]
  /\ active_memory \in Nat /\ resident \in [Section -> Nat]
  /\ left \in [Section -> Nat]
  /\ cache.near \in [0..(NEAR_COUNT - 1) -> 0..MAX_NUMBER]
  /\ cache.same \in [0..(SAME_SIZE - 1) -> 0..MAX_NUMBER]
  /\ cache.next_near \in 0..(NEAR_COUNT - 1)
  /\ todo \in Seq(Instruction) /\ Len(todo) <= 2
  /\ output_len \in Nat /\ window_start \in Nat /\ persisted \in Nat
  /\ op \in [kind: {"none", "add", "run", "source", "target", "current"},
             start: Nat, size: Nat, base: Nat]
  /\ pc \in Ends \cup Section \cup
             {"header", "window", "size", "compression", "lengths", "begin",
              "run", "call"}

(* The sections resident at any time fit the budget of one window, however *)
(* it is split among them.                                                 *)
MemoryBounded == Total(resident) <= MaxWindowMemory

(* A window is accepted only when its three parts agree: the delta stands  *)
(* at the window's encoded end, each section is used up, and the bytes     *)
(* its instructions emitted, some of which the target was given before     *)
(* this was known, fill the target size it announced exactly.              *)
WindowsAbut ==
  [][FinishWindow /\ pc' = "window" =>
       /\ input_pos = encoding_end /\ left = None
       /\ persisted' = persisted + target_size]_vars

(* A target segment lies in what finished windows have left in the target, *)
(* never in bytes of the running window, which may still be rejected.      *)
SegmentIsPersisted ==
  segment.kind = "target" /\ pc \notin Ends =>
    segment.start + segment.len <= persisted

(* Every address in the cache was before the COPY it was read for, so it   *)
(* is before the position now.                                             *)
CacheBehindHere ==
  pc \in {"run", "call"} /\ here > 0 =>
    /\ \A slot \in DOMAIN cache.near : cache.near[slot] < here
    /\ \A slot \in DOMAIN cache.same : cache.same[slot] < here

(* The calls on the target writer are those DecodedOutput allows: within   *)
(* the source, within finished windows or behind the position, never past  *)
(* max_target_size.  Bytes are not told apart here.                        *)
Zeros(n) == [i \in 1..n |-> 0]
Called == [kind |-> op.kind, start |-> op.start, size |-> op.size,
           base |-> op.base,
           data |-> IF op.kind = "add" THEN Zeros(op.size)
                    ELSE IF op.kind = "run" THEN <<0>> ELSE << >>]
Output == INSTANCE DecodedOutput WITH
            Byte <- {0}, Source <- Zeros(SourceLen), out <- Zeros(output_len),
            op <- Called,
            status <- IF pc \in Errors THEN "failed"
                      ELSE IF pc = "done" THEN "delivered" ELSE "running"
CallsFitWriter == Output!Spec

(* Every delta is decoded or refused, provided the streams answer: each    *)
(* turn of a loop uses up some of the delta.                               *)
Terminates == <>(pc \in Ends)
=============================================================================
