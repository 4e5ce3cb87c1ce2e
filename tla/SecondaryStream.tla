-------------------------- MODULE SecondaryStream --------------------------
(***************************************************************************)
(* vcdiff/src/secondary.rs: the LZMA sections of a delta.  Each kind of    *)
(* section is one xz stream that goes on from window to window; a section  *)
(* carries the next fragment of it, which decode_fragment passes to the    *)
(* codec through the staging buffer.  A byte of the delta is known by its  *)
(* offset, and a stream by the units it is made of: the stream header and  *)
(* LZMA2 chunks, each a head the codec must see whole and a body that      *)
(* yields output on the way.  The codec is that of the crate xz4rust: a    *)
(* call of it runs through as many units as it likes and into what lies    *)
(* behind the fragment, and returns wherever it has moved on.              *)
(***************************************************************************)
EXTENDS Integers, Sequences, Functions

CONSTANTS STAGING_SIZE,
          VARINT_BYTES,  \* the bytes a number may take
          CHECK_BYTE,    \* where a stream header has the type of its check
          HEADER_SIZE,   \* the length of a stream header
          Kinds,         \* the kinds of sections, in the order of a window
          Chunks,        \* the chunks a stream may have
          MaxChunks, MaxRaw, MaxEncoded, MaxDecoded, MaxSections  \* bounds

Unit == [head: Nat, body: Nat, out: Nat, kind: {"sound", "end", "broken"}]

ASSUME StagingAssumption ==
  STAGING_SIZE \in Nat /\ HEADER_SIZE \in Nat /\ CHECK_BYTE \in Nat
  /\ CHECK_BYTE < HEADER_SIZE /\ HEADER_SIZE <= STAGING_SIZE
ASSUME KindsAssumption == Kinds \in Seq(STRING) /\ Len(Kinds) > 0
ASSUME ChunksAssumption ==
  /\ Chunks \subseteq Unit
  /\ \A chunk \in Chunks : /\ chunk.head \in 1..STAGING_SIZE
                           /\ chunk.kind = "sound" => chunk.out > 0
ASSUME BoundsAssumption ==
  /\ VARINT_BYTES \in Nat /\ MaxChunks \in Nat /\ MaxRaw \in Nat
  /\ MaxEncoded \in Nat /\ MaxDecoded \in Nat /\ MaxSections \in Nat

VARIABLES
  position, section_end,   \* the delta: the next byte, the end of the section
  sections,                \* how many were prepared
  decoders,  \* LzmaStates::decoders: the fragments each has seen, -1 if none
  \* decode_fragment
  staging, staging_start, staging_end,
  fragment_start, decoded_size, consumed, produced, header_checked,
  \* the encoder: fragments written of each stream; the units of this one that
  \* the codec has not finished, whether it is inside the first of them, whether
  \* the running call has moved on; whether the check byte is not zero and
  \* whether the section is as it should be
  written, units, inside, advanced, bad_check, sound,
  pc

input == <<position, section_end, sections>>
buffer == <<staging, staging_start, staging_end>>
progress == <<consumed, produced>>
section == <<fragment_start, decoded_size, bad_check, sound, written>>
codec == <<units, inside, advanced>>
vars == <<input, decoders, buffer, progress, header_checked, section, codec, pc>>
-----------------------------------------------------------------------------
Header == [head |-> HEADER_SIZE, body |-> 0, out |-> 0, kind |-> "sound"]
Scripts == UNION {[1..n -> Chunks] : n \in 1..MaxChunks}

In(script) == FoldFunction(LAMBDA unit, sum : unit.head + unit.body + sum, 0, script)
Out(script) == FoldFunction(LAMBDA unit, sum : unit.out + sum, 0, script)

(* The bytes are whole units of the stream, and yield so much.             *)
WholeUnits(script, bytes, size) ==
  \E n \in DOMAIN script :
    LET begun == SubSeq(script, 1, n)
    IN /\ bytes = In(begun) /\ size = Out(begun)
       /\ \A i \in 1..n : script[i].kind = "sound"

KindSet == {Kinds[i] : i \in DOMAIN Kinds}
kind == Kinds[(sections % Len(Kinds)) + 1]
fragment_len == section_end - fragment_start
staged == staging_end - staging_start
current == Head(units)

Refused == /\ pc' = "refused"
           /\ UNCHANGED <<input, decoders, buffer, progress, header_checked,
                          section, codec>>
-----------------------------------------------------------------------------
Init == /\ position = 0 /\ section_end = 0 /\ sections = 0
        /\ decoders = [k \in KindSet |-> -1] /\ written = [k \in KindSet |-> 0]
        /\ staging = [i \in 0..(STAGING_SIZE - 1) |-> 0]
        /\ staging_start = 0 /\ staging_end = 0
        /\ fragment_start = 0 /\ decoded_size = 0 /\ consumed = 0 /\ produced = 0
        /\ header_checked = FALSE /\ units = << >> /\ inside = FALSE
        /\ advanced = FALSE
        /\ bad_check = FALSE /\ sound = TRUE /\ pc = "idle"

(* A section that is not compressed is read past the codecs.               *)
RawSection ==
  /\ pc = "idle" /\ sections < MaxSections
  /\ \E encoded_len \in 0..MaxRaw :
       position' = position + encoded_len
  /\ section_end' = position' /\ sections' = sections + 1
  /\ UNCHANGED <<decoders, buffer, progress, header_checked, section, codec, pc>>

EveryFragment == TRUE  \* a fault: each fragment gets a new codec
FirstFragment == decoders[kind] = -1

(* prepare reads the decoded size, which must end within the section, and  *)
(* enters decode_fragment.  The encoder wrote whatever it wrote.           *)
CompressedSection ==
  /\ pc = "idle" /\ sections < MaxSections
  /\ \E script \in Scripts, encoded_len \in 0..MaxEncoded,
        size_bytes \in 1..(VARINT_BYTES + 1), size \in 0..MaxDecoded,
        bad \in BOOLEAN :
       LET fragment == IF written[kind] = 0 THEN <<Header>> \o script ELSE script
       IN /\ sound' = (/\ size_bytes <= VARINT_BYTES
                       /\ WholeUnits(fragment, encoded_len - size_bytes, size)
                       /\ size > 0
                       /\ ~(bad /\ written[kind] = 0))
          /\ written' = [written EXCEPT ![kind] = @ + 1]
          /\ bad_check' = bad
          /\ section_end' = position + encoded_len
          /\ UNCHANGED <<sections, staging>>
          /\ \/ /\ \/ size_bytes > VARINT_BYTES \/ size_bytes > encoded_len
                   \/ size = 0
                /\ pc' = "refused"
                /\ UNCHANGED <<position, decoders, staging_start, staging_end,
                               fragment_start, decoded_size, progress,
                               header_checked, codec>>
             \/ /\ size_bytes <= VARINT_BYTES /\ size_bytes <= encoded_len
                /\ size > 0
                /\ position' = position + size_bytes
                /\ fragment_start' = position'
                /\ decoded_size' = size
                /\ header_checked' = ~FirstFragment
                /\ decoders' = IF FirstFragment THEN [decoders EXCEPT ![kind] = 0]
                                                ELSE decoders
                /\ staging_start' = 0 /\ staging_end' = 0
                /\ consumed' = 0 /\ produced' = 0
                /\ units' = fragment /\ inside' = FALSE /\ advanced' = FALSE
                /\ pc' = "loop"
-----------------------------------------------------------------------------
(* refill_staging moves what is left to the front and reads as much as the *)
(* section has and the buffer takes.                                       *)
Unmoved(from) == staging  \* a fault: the bytes stay where they were
Moved(from) == [i \in 0..(STAGING_SIZE - 1) |->
                  IF i + from <= staging_end - 1 THEN staging[i + from]
                                                 ELSE staging[i]]
Room(end) == STAGING_SIZE - end
RefillStaging(start, end) ==
  LET remaining == section_end - position
      kept == end - start
      count == IF remaining < Room(kept) THEN remaining ELSE Room(kept)
  IN /\ count # 0
     /\ staging' = [i \in 0..(STAGING_SIZE - 1) |->
                      IF i \in kept..(kept + count - 1)
                      THEN position + (i - kept) ELSE Moved(start)[i]]
     /\ staging_start' = 0
     /\ staging_end' = kept + count
     /\ position' = position + count

Refill ==
  /\ pc = "loop" /\ staged = 0 /\ position # section_end
  /\ RefillStaging(0, 0)
  /\ UNCHANGED <<section_end, sections, decoders, progress, header_checked,
                 section, codec, pc>>

(* The byte that has the stream's type of check; of the other bytes of a   *)
(* header none is known to be zero.                                        *)
IsZero(offset) == offset = fragment_start + CHECK_BYTE /\ ~bad_check

CheckHeader ==
  /\ pc = "loop" /\ staged > 0
  /\ IF header_checked \/ staged <= CHECK_BYTE
     THEN /\ pc' = "decode"
          /\ UNCHANGED <<input, decoders, buffer, progress, header_checked,
                         section, codec>>
     ELSE \/ /\ ~IsZero(staging[staging_start + CHECK_BYTE])
             /\ Refused
          \/ /\ IsZero(staging[staging_start + CHECK_BYTE])
             /\ header_checked' = TRUE
             /\ pc' = "decode"
             /\ UNCHANGED <<input, decoders, buffer, progress, section, codec>>

(* The bytes are the fragment of the stream that the codec is to see next. *)
Follows == /\ units # << >> /\ current.kind = "sound"
           /\ decoders[kind] = written[kind] - 1

(* A head that is not wholly there may be asked for at once, not by a call *)
(* that has moved on: the error has no counters.                           *)
NeedsLarger ==
  /\ pc = "decode" /\ ~advanced /\ Follows /\ staged < current.head
  /\ \/ /\ staged = STAGING_SIZE \/ position = section_end
        /\ Refused
     \/ /\ staged # STAGING_SIZE /\ position # section_end
        /\ RefillStaging(staging_start, staging_end)
        /\ pc' = "loop"
        /\ UNCHANGED <<section_end, sections, decoders, progress,
                       header_checked, section, codec>>

(* The call takes bytes from the front of what is staged and yields output *)
(* into what is left of its place.  decode_fragment moves its cursors and  *)
(* counters only when the call returns, and by the same amounts.           *)
Moves(bytes, out) ==
  /\ bytes > 0 \/ out > 0
  /\ staging_start' = staging_start + bytes
  /\ consumed' = consumed + bytes
  /\ produced' = produced + out
  /\ advanced' = TRUE
  /\ UNCHANGED <<input, decoders, staging, staging_end, header_checked, section,
                 pc>>

(* Within a unit, the codec stops short of bytes and output only where the *)
(* output is full, and has yielded all of a chunk's output that fits when  *)
(* it has taken its last byte.                                             *)
CodecAdvances ==
  /\ pc = "decode" /\ Follows
  /\ \E bytes \in 0..staged, out \in 0..(decoded_size - produced) :
       LET unread == current.head + current.body - bytes
           head == IF bytes < current.head THEN current.head - bytes ELSE 0
           rest == [current EXCEPT !.head = head, !.body = unread - head,
                                   !.out = @ - out]
           whole == unread = 0 /\ out = current.out
       IN /\ unread >= 0 /\ out <= current.out
          /\ bytes = 0 => current.head + current.body = 0
          /\ out > 0 => head = 0
          /\ unread = 0 => out = current.out \/ out = decoded_size - produced
          /\ units' = IF whole THEN Tail(units) ELSE <<rest>> \o Tail(units)
          /\ inside' = ~whole
          /\ Moves(bytes, out)

(* Bytes that are no fragment of this stream at this place, and the end of *)
(* the stream, which a delta never writes, may be swallowed for a while:   *)
(* the codec is then between no chunks, whatever the counters say.         *)
Astray == pc = "decode" /\ ~Follows /\ (inside \/ staged > 0)
CodecSwallows ==
  /\ Astray
  /\ \E bytes \in 0..staged, out \in 0..(decoded_size - produced) :
       Moves(bytes, out)
  /\ inside' = TRUE
  /\ UNCHANGED units

CodecRefuses ==
  /\ Astray
  /\ Refused

NeverStalled == FALSE  \* a fault: no progress is not noticed
Stalled == ~advanced
InputMismatch == /\ ~inside /\ produced = decoded_size
                 /\ staging_start # staging_end \/ position # section_end

(* The call returns when it has moved on, or cannot: the output is full    *)
(* and more of the chunk's is due.                                         *)
CodecReturns ==
  /\ pc = "decode"
  /\ \/ advanced
     \/ Follows /\ current.head + current.body = 0 /\ produced = decoded_size
  /\ IF Stalled \/ InputMismatch
     THEN Refused
     ELSE /\ pc' = "loop"
          /\ advanced' = FALSE
          /\ UNCHANGED <<input, decoders, buffer, progress, header_checked,
                         section, units, inside>>

CompleteByCounters ==  \* a fault: the middle of a chunk will do
  produced = decoded_size /\ consumed = fragment_len
Complete == /\ produced = decoded_size /\ consumed = fragment_len
            /\ ~inside

FinishFragment ==
  /\ pc = "loop" /\ staged = 0 /\ position = section_end
  /\ IF Complete
     THEN /\ pc' = "idle"
          /\ sections' = sections + 1
          /\ decoders' = [decoders EXCEPT ![kind] = @ + 1]
          /\ UNCHANGED <<position, section_end, buffer, progress, header_checked,
                         section, codec>>
     ELSE Refused

(* Any read of the delta may fail.                                         *)
Reads == \/ pc = "idle" /\ sections < MaxSections
         \/ pc = "loop" /\ staged = 0 /\ position # section_end
         \/ pc = "decode" /\ ~advanced /\ Follows /\ staged < current.head
            /\ staged # STAGING_SIZE /\ position # section_end
DeltaFails ==
  /\ Reads
  /\ pc' = "io"
  /\ UNCHANGED <<input, decoders, buffer, progress, header_checked, section,
                 codec>>

Step == \/ Refill \/ CheckHeader
        \/ NeedsLarger \/ CodecAdvances \/ CodecSwallows \/ CodecRefuses
        \/ CodecReturns \/ FinishFragment
Next == RawSection \/ CompressedSection \/ Step \/ DeltaFails

Spec == Init /\ [][Next]_vars
FairSpec == Spec /\ WF_vars(Step)
-----------------------------------------------------------------------------
(* Types, and that the staging cursors stay inside the buffer.             *)
TypeOK ==
  /\ position \in Nat /\ section_end \in Nat /\ sections \in Nat
  /\ decoders \in [KindSet -> Int] /\ written \in [KindSet -> Nat]
  /\ staging \in [0..(STAGING_SIZE - 1) -> Nat]
  /\ staging_end \in 0..STAGING_SIZE /\ staging_start \in 0..staging_end
  /\ fragment_start \in Nat /\ decoded_size \in Nat /\ consumed \in Nat
  /\ produced \in 0..decoded_size
  /\ header_checked \in BOOLEAN /\ inside \in BOOLEAN /\ advanced \in BOOLEAN
  /\ bad_check \in BOOLEAN /\ sound \in BOOLEAN
  /\ pc \in {"idle", "loop", "decode", "refused", "io"}

(* Whatever was staged, moved to the front and read on, the codec is       *)
(* offered the bytes of the section that follow those it has taken: none   *)
(* twice, none left out, none of the next section.                         *)
StagedInOrder ==
  pc \in {"loop", "decode"} =>
    /\ position = fragment_start + consumed + staged
    /\ position <= section_end
    /\ \A i \in staging_start..(staging_end - 1) :
         staging[i] = fragment_start + consumed + (i - staging_start)

(* A section as an encoder writes it is never refused, wherever its chunks *)
(* fall in the staging buffer, however little the codec takes at a time,   *)
(* and however many fragments of its stream came before.                   *)
NoSoundSectionRefused == pc = "refused" => ~sound

(* Nothing else is accepted: not a fragment cut in a chunk, nor bytes left *)
(* over, nor a size that is not the output's, though the counters may      *)
(* agree, nor a stream whose header asks for a check.                      *)
OnlySoundAccepted == pc = "idle" => sound

(* A section that was begun is decoded or refused.                         *)
SectionReturns ==
  pc \in {"loop", "decode"} ~> pc \in {"idle", "refused", "io"}
=============================================================================
