# TLA+ verification of rust-crates

The workspace holds four libraries for the files of Bethesda games: `vcdiff`
(a decoder for VCDIFF deltas), `btdx` (BA2 archives), `esl-writer` (plugins) and
`bsa`, still a scaffold. None of them starts a thread. What is hard in them is
sequential: state that must stay in step with streams that answer partially,
late or wrongly, limits enforced across several buffers, and byte layouts whose
offsets are computed before the bytes they point at are written.

## Inventory

### vcdiff

| part | state | operations |
| --- | --- | --- |
| `decoder.rs` | header, window index, the cursors of a window | `decode_to`, `decode_window`, `run_instructions`, `copy`, `check_room` |
| `target.rs` | `pending`, `scratch`, `logical_len`, `physical_pos`, `adler` | `begin_window`, `emit`, `emit_run`, the three copies, `finish_window`, `finish` |
| `input.rs` | `pos`, `buffer`, `buffer_pos`, `buffer_len` | `read_u8`, `read_varint`, `read_exact`, `skip`; `SliceCursor` over a section |
| `cache.rs` | `near`, `same`, `next_near` | `decode` |
| `code_table.rs` | none | the 256 opcodes |
| `secondary.rs` | one lazily created LZMA decoder per section kind, `staging` | `prepare`, `decode_fragment` |
| `djw.rs` | none between sections | `decode_section` |

`decode_to` measures source and delta, requires an empty target, parses the
header and decodes one window after another until the delta is consumed. A
window is read in full first (its three sections become resident, within
`max_window_memory`), then its instructions run against the target writer, then
its size and checksum are compared, and only then is it drained to the target.
Source, delta and target are streams of the caller: each of their calls may
transfer fewer bytes than asked, answer `Interrupted`, fail, or report a wrong
position.

What makes these parts correct:

- the target receives exactly the bytes the instructions produce, in order, each
  once, whatever the buffering does; a COPY sees bytes that were only just
  produced, its own included;
- buffers, section memory and target length stay within their limits;
- the buffered delta reader is indistinguishable from reading the delta at
  absolute offsets;
- the address cache and the LZMA streams go through the same states as those of
  the encoder that wrote the delta, the cache afresh in each window, the streams
  across windows;
- a malformed delta ends in an error, and so does a stream that fails; a sound
  delta over sound streams never does.

### btdx

| part | state | operations |
| --- | --- | --- |
| `write/gnrl.rs`, `write/dx10.rs` | `entries`, `seen` (path hash to name), `write_names`, `format` | `add_file`, `add_file_stored`, `add_texture`, `names`, `format`, `to_vec`, `write` |
| `write/mod.rs` | none | header and codec of a format |
| `read.rs` | none once read | `Archive::read`, `extract`, `extract_texture` |
| `dds.rs` | none | `parse`, `header`, `mip_size` |
| `hashing.rs` | none | `normalize_path`, `hash_file` |

`add_file` and `add_texture` reject empty, overlong, duplicate and colliding
paths, and textures `parse` does not know; `to_vec` computes every record's offset
and the name table's before it writes any data, and `write` hands the bytes to a
sink that may fail part way. `Archive::read` parses the records back, `extract` and
`extract_texture` return the data. `split_chunks` partitions a texture's mips.
Correct means: whatever was added is extracted again, offsets and sizes point at
the data, chunks partition the mips, a rejected entry leaves no trace, and the
beginning of an archive is never taken for a whole one.

### esl-writer

`Plugin` is a builder: a game's settings, texts, masters and groups of records.
`Plugin::to_bytes` serialises a header record and the groups; a group's size is
written back over a placeholder, payloads beyond 65,535 bytes get an `XXXX`
prefix, and what does not fit its field is an error. Correct means:
every size field delimits what follows it, and a reader that trusts them finds
each record and field.

## Modules

| module | models |
| --- | --- |
| `DecodedOutput` | what the target side promises: a growing byte sequence (abstract specification) |
| `TargetWriter` | `target.rs` with the target and source streams it drives |
| `TargetWriterInv` | the inductive invariant of `TargetWriter` |
| `ExactInput` | what the delta side promises: bytes at absolute offsets (abstract specification) |
| `DeltaInput` | `DeltaInput` of `input.rs` with the delta stream |
| `AddressCache` | `cache.rs`, as operators on a cache |
| `CacheSync` | `AddressCache` against an encoder that follows RFC 3284 |
| `CodeTable` | `default_table` against the rows of RFC 3284, 5.6 |
| `VcdiffDecoder` | `decoder.rs`; uses `AddressCache`, and is a client of `DecodedOutput` |
| `SecondaryStream` | the LZMA sections of `secondary.rs` and the codec they feed |
| `PrefixBook` | `PrefixBook` of `djw.rs`: tables of prefix codes, built and read |
| `CanonicalCode` | the code such a table must be (reference definitions) |
| `DjwTokens` | `expand_tokens`, `TokenMachine` and `MtfList` of `djw.rs` |
| `DjwTokenCode` | the encoder of those tokens (reference definitions) |
| `DjwSection` | `decode_observed`, `decode_body` and the bit reader of `djw.rs` |
| `Adler32` | the checksum of `target.rs` against RFC 1950 |
| `ByteImage` | a file of fields, written in order and read by offset |
| `ArchivePaths` | `hashing.rs`: stored names and lookup keys |
| `Ba2Format` | `write/mod.rs` and what both archive writers do alike |
| `GnrlWriter` | the layout `GnrlWriter::to_vec` writes |
| `DdsTexture` | `dds.rs`: parsing a DDS file, mip sizes, the header of one |
| `Dx10Writer` | `split_chunks` and the layout `Dx10Writer::to_vec` writes |
| `Ba2Reader` | `read.rs` |
| `Utf8Text` | `String::from_utf8_lossy`, by which `read.rs` lists names |
| `Ba2Archive` | both writers call by call, a sink that may fail, and the reader on what it kept |
| `PluginFormat` | the bytes `write.rs`, `record.rs` and `plugin.rs` write, with every error |
| `PluginParser` | the parser in `esl-writer/tests/common/mod.rs` |
| `PluginFile` | `Plugin` call by call, serialized and parsed |

`X` has its theorems in `XProofs` and its constants for TLC in `MCX`; those of
`CanonicalCode` are in `PrefixBookProofs`, those of `DjwTokens` and `DjwSection` in
`DjwProofs` (so that both can be extended there, `DjwSection` calls its formulas
`SectionInit` and so on). `DataLemmas` has what the proofs need about numbers,
finite sets, recursion and sums. The parts
meet at their promises: `VcdiffDecoder` knows the target writer as
`DecodedOutput` and may make only calls that one allows, `TargetWriter`
implements `DecodedOutput`; `DeltaInput` implements `ExactInput`, which is how
`VcdiffDecoder` and the codecs read. `Ba2Archive` composes the two archive writers
with the reader, `PluginFile` the writer with a parser that shares no code with it.

### TargetWriter

The fields of `TargetWriter` are variables under their own names. `pc` says where
in the running operation the code stands, `ret` which caller `drain_pending`
returns to; `op`, `copied`, `sent` and `written` are the locals of the loops. The
target stream is `file` (what was written), `synced` (what was flushed, the only
thing a read sees, which is the least the crate's README asks of a target) and
`file_pos`. The three places where the code seeks only if `physical_pos` differs
share `SeekUnlessAt`. Each call on a stream is one action with one disjunct per
answer: part of the bytes, an error or zero (`Fail`), a wrong offset. The
decoder's calls carry the arguments `decoder.rs` has validated: a size within the
window's target size (bounded by `MaxTarget`), a source range inside the
segment, a start before the current position. `Reject` is the decoder giving up
between two instructions.

Errors end the decode: the writer is consumed by value and the caller is told the
target's content is unspecified, so a failed state has no successor.

Abstracted: the `DecodeContext` that errors carry; allocation failures at
construction; the arithmetic-overflow errors on lengths, which `MaxTarget` keeps
out of reach. Of the checksum `adler` keeps the bytes absorbed; `Adler32` has its
arithmetic, and `ChecksumIsAdler` puts the two together: for the bytes of every
window reached, cut in two at every place, the sums carried and reduced chunk by
chunk are those RFC 1950 defines. `Value` says which number a byte is; `MODULUS` and
`REDUCTION_CHUNK` are 65,521 and 5,552 in the code. The sums of a chunk are of 64 bits
and far from their limit.

### DeltaInput

`len` and `pos` are the code's fields, `buffered` is the unread part of its buffer;
`request` is the decoder's call that is running, and the stream has a length of its own, for
`len` was only measured before the first read. A fill, and each call on the
stream, is one action with one disjunct per answer. The abstract `ExactInput`
answers each request in one step from the delta itself; the mapping leaves out
the buffer. Bytes are the numbers below `2 * RADIX`, so a number's digits, its
overflow and its tenth byte are all there.

### AddressCache and CacheSync

`Address`, with the checks that refuse one (`InvalidMode`, `BeforeStart`, `TooFar`), and
`Update` are the code's two functions. `CacheSync` puts an
encoder beside them that knows no arrays: an address may be written in NEAR mode
`m` if RFC 3284's description of the history says so. The decoder runs up to
`MaxAhead` messages behind it.

### CodeTable

The indices that `default_table` computes with loops, against the RFC's rows
counted one after another. `cache_sync` checks the real table.

### VcdiffDecoder

A delta is chosen as it is read: every number, indicator, opcode at the offset
where the code reads it. `input_pos` is the reader's position, `left` what is
unread of each section, `active_memory` the budget's use, `output_len`,
`window_start` and `persisted` the writer. `pc` is the place in the code; a
decode that ends names its error. Checks in a row are `Refuse`d in the order of
the source, so the error reported is the code's. Numbers take one byte each
(their digits are in `DeltaInput`), the bytes of a section are counted and not
kept, and a secondary codec either fills its section and stops at its end or
fails (which is what `SecondaryStream` and `DjwSection` are about). Allocation
failures and platform limits are folded into the failures of their place.

### SecondaryStream

`decoders` has one stream per section kind, created when its first compressed
section comes and counting the fragments it has seen.
`staging`, its two cursors and the two counters are those of `decode_fragment`;
each turn of its loop is one refill and one call of the codec. A byte is known by
its offset, so that offering the codec a wrong byte is visible.

A call of the codec is a series of steps. Each `CodecAdvances` takes bytes of a unit
and yields output, any part of it or the whole unit, and stays in the call;
`CodecReturns` ends a call that has moved on (`advanced`), anywhere, and then come the
checks of the code. So one call may run through several units, and where the
fragment is at its end or is none of this stream, `CodecSwallows` takes any of the
bytes that follow, in the same call: the test
`chunk_boundary_rejects_cases_that_public_counters_accept` has such a call, after
which both counters agree and only the boundary (`inside`) tells. The codec may as well
refuse what does not belong there, at any moment (`CodecRefuses`). Of `xz4rust` the
model assumes what the code's error handling assumes too: it takes no more than
it is offered, it yields output as soon as it can, it asks for a larger input
only when a head is not there as a whole, and bytes that do not belong to the
stream leave it between no chunks. The dictionary limit is not modelled.

### PrefixBook, DjwTokens, DjwSection

`build` is four loops, each turn a step; `read_symbol` reads any bits. The checks
of `build` that cannot fail (a count beyond `u16`, a slot beyond the symbols, a
shift out of the code) have no disjunct; `SlotInUse`, `CodesFit` and `TypeOK`
say why. `lookup` also compares a code with the first of its width.

`DjwTokens` reads any token where the code asks for one. `InvalidMtf`,
`RunOverflow` and the two faults of `queue` and of the selectors are unreachable
and left out: that is `TypeOK`, `RunsFit` and `ValuesListed`. `checked_shl` refuses
a shift by the word's width, not bits that are shifted out, so `Amount` is taken
modulo the word. The assumption `2 * OutputLen < Word` holds of every slice in
Rust.

`DjwSection` has the order of the fields, the selectors' memory and the bit
reader; a symbol is known by its width. What a table is and which tokens follow
is the business of the other two.

### ByteImage, Ba2Archive and its parts

A file is a length and the fields in it, each whole at the offset of its first
byte; whoever reads at another offset, or another number of bytes, finds `Noise`.
So an offset or a size that is off by one is found, and no integer is put
together byte by byte. `Offsets` are the running sums the writers keep, of blocks and
of mips. The data of a file is a slice `[of, from, size]` of what the
caller gave; a codec is a name and the size it packs to (`PackedSize`), and it
gives back what it packed, to that codec and that size only.

`kind` says which writer `Ba2Archive` is; `entries`, `seen`, `write_names` and `format`
are the fields of both, whose two `push` functions check in different orders:
`AddFile` looks at the size of the data before it counts files, `AddTexture` parses
the texture last. `result` is what the last call returned and `sink` what it
wrote. `WriteFails` keeps any beginning of the image that ends between two fields
or after the first byte of one. A path is a sequence of bytes, because where
its separators and dots stand is what `normalize_path` and `split` are about; the CRC
is a parameter, so that two names may collide. Nothing asks for UTF-8: a path is stored
as it is (a test of `hashing.rs` has one in Latin-1), and only `read_names` makes text of
it, by `from_utf8_lossy`, which `Utf8Text` defines for any set of characters `Utf8`.
`SameEntries` says what that comes to: a name in UTF-8 is listed as it was stored, of any
other the bytes that are no character are replaced, so that two files may be listed
alike.

A DDS file is the record of header fields `parse` reads, with its length and its
data. Its checks are in the order of the code; the `pitch_or_linear_size` of a
header is left out, for `parse` ignores it.

### PluginFormat, PluginParser, PluginFile

`to_bytes` is the sequence of fields, headers and payloads of a plugin; a group's
size is put over its header's `0` once the records follow it. An operator `XError`
is the first error of function `X`, in the code's order, since a plugin that
fails returns no bytes. `FieldHead` takes a size modulo sixteen bits, as the
code's cast does. `PluginParser` walks what it finds by its sizes. `MAX_CHANGED`
bounds how many settings of a plugin differ from a new one's.

## Runs

| run | bounds | shows |
| --- | --- | --- |
| `target_writer` | buffers of 3, target of 6, source of 3, two literals, two byte values | refinement of `DecodedOutput`, single write of each byte, the safety invariants |
| `target_writer_short` | buffers of 1, target of 5, one `Interrupted` answer | the same refinement when a COPY's distance exceeds the buffer; every operation returns |
| `delta_input` | buffers of 2, all deltas of 4 bytes in radix 2, measured as 3, 4 or 5, one `Interrupted` answer | refinement of `ExactInput`; bytes read are those at the offset; every request is answered |
| `cache_sync` | two NEAR slots, two blocks of two, four copies a window, two behind; the real code table | every address is resolved to the one meant; the opcodes are those of the RFC |
| `vcdiff_decoder` | deltas of 5 or 25 bytes (a header, and two windows), target and memory of 3, source of 2 | limits, segments, window boundaries; only valid calls of the writer |
| `vcdiff_decoder_live` | deltas of 16 bytes | every decode ends |
| `secondary_stream` | staging of 3, three sections of two kinds, streams of two chunks, 9 bytes a section, raw ones of 1 | exactly the sound fragments are accepted; every section is decoded or refused |
| `prefix_book` | five symbols, widths to 4 where 3 are allowed | refused are exactly the impossible tables; symbols are read by their canonical codes |
| `djw_tokens` | nine values of three, zeros implied three back, words of 32 | accepted are exactly the encodings |
| `djw_section` | outputs of 1, 4, 5, sections of up to 7 bytes of 3 bits, sectors of 2 or 4 | each byte with the codes of its sector; acceptance only at the section's end |
| `ba2_archive` | two files, paths shorter than 10, sizes to 2^26, chunks read to 2^23 | what is written whole reads back; what is cut off is never misread; the key finds the file; a refused call leaves no trace; chunks partition the mips |
| `esl_plugin` | sizes of 20 for sixteen bits and 120 for thirty-two, two masters, two groups, three settings changed | what is serialized parses to what was built |

The bounds are chosen for the cases that differ. A writer's buffer of 3 is filled
exactly, overfilled and partly filled; a target of 6 lets pending fill twice, a
COPY overlap itself at distances 1 to 3 across a drain, and two windows follow
each other. With a buffer of 1 the overlap at a distance larger than the buffer
needs only five bytes. A delta of 4 bytes is read across three fills of a buffer
of 2, and its numbers of up to three digits overflow a limit of 5 at each of
their digits. In `cache_sync` four copies wrap a ring of two and overwrite a
same slot. 25 bytes of delta are a header of 5, a window of 9 and one of 11, the
least at which a window has the target of another for its segment; 5 bytes are a
header alone, or one cut off in its last fields. In
`secondary_stream` a staging of 3 holds one chunk's head, so it is refilled in
the middle of a chunk, with and without bytes left over; three sections are two
of one kind with one of the other between. The 9 bytes of a section are a size,
the longest fragment and one byte behind it; a raw section has any length, of
which one byte shows that the codecs are passed by. Five symbols of three bits are enough
for sparse, complete and over-subscribed tables of several widths. A run of nine
takes three digits. Outputs of 5 in sectors of 2 have a last sector that is
short.

Two files are the least with a duplicate, a collision, an offset that depends on
another's size and a name table entry after another; a third is one too many.
Their data is empty, a few bytes, at the reader's limit and beyond it, stored and
compressed; their paths differ in case and separators, by what a key cuts off, in
a directory with a dot, or collide; one has characters of two and three bytes, one
is that Latin-1 name, and two are cut-off characters listed alike. The textures have one chunk (a cubemap, a
small one), two, three and four with mips left over, one too large to read and
one too large to write, in block formats and others, legacy headers and DX10
ones; each check of `parse` refuses one. With size fields of 20 and 120 a text, a
field, a record and a group just fit or just do not; `TooManyRecords` is out of
reach. The bounds of `write` are those of its model: writing twice what has not
changed writes the same and is not taken.

Deadlock is not checked in the `vcdiff` runs: a decode, a section or a request
ends in a result, and the model stops there. The builders of `btdx` and
`esl-writer` can always be called again, and there it is checked.

Fairness: each `FairSpec` is weakly fair in the steps of its own component, and
in nothing else. The code is sequential and never waits, so a started operation
goes on; a caller's choice to call again is not forced. Streams answer
`Interrupted` at most `MaxInterrupts` times: with a stream that answers it for
ever the code loops for ever, as the contract of `std::io` allows.

## Proofs

All theorems hold for every value of the constants under the named assumptions
of the modules (sizes of buffers and caches are positive, inputs are sequences
of bytes, and so on).

**DataLemmas.** What the other proofs need about data: remainders and quotients;
induction and recursion over the natural numbers and over finite sets; sums. The
library's induction theorems take a predicate and cannot be used here, so
`Induction` and `SetInduction` take the set of numbers, or of sets, a statement
holds for. That a recursive function or a fold of the community modules is what
its equations say is `Recursion`, `SetRecursion` and `SumExists`: the partial
solutions agree wherever two of them are defined.

**TargetWriter.** `TypeCorrect` (buffers never exceed `IO_BUFFER_SIZE`, the output
never `max_target_size`), `FailureNeedsFault` (no read ends early unless a stream
broke its contract), `PositionCorrect` (the remembered position is the real one),
`WindowsArePersisted` (between windows nothing waits in `pending`, and what finished
windows wrote stays in the target when a later one fails), `DeliveryIsWhole`,
`TargetWrittenOnce`. `IInv` adds what holds
at each place of the code: the arguments stay validated and `logical_len` grows
by exactly what was emitted (`Arguments`), each loop's position relates `scratch`,
`copied` and the source position (`Loops`), the streams stand where the next step
expects them (`Positions`), and the target holds the drained bytes and nothing
else (`Contents`). What holds during `drain_pending` is what holds at the place it
returns to, which `Stage` expresses.

`WriterImplementsOutput` is the refinement of `DecodedOutput`: a step that puts
bytes into `pending` is an `Emit` of as many bytes, which `Loops` and `Contents`
show to be those of the source, of the target read back, or of a period repeated;
a drain moves bytes from `pending` to the target and changes nothing of `Output`.
`ChecksumCorrect` needs no more than that `adler` absorbs what `Emit` appends.

`ChecksumDefined` is about the arithmetic, for every modulus but 0 and 1, every chunk and
every sequence of bytes. The folds of `Adler32` climb from each beginning to the next
(`FoldClimbs`); the sums of a beginning that were never reduced (`Absorbs`) are what the
code's agree with but for multiples of `MODULUS` (`Agree`), byte by byte, chunk by
chunk (`ChunksCut`) and slice by slice (`UpdateStands`). Reduced sums that agree with
others are their remainders, and RFC 1950's weighted sum is the sum of the sums of all
beginnings (`DefinedIsReduced`).

**DeltaInput.** `TypeCorrect`, `BufferCorrect`, `BytesAreExact`, and the refinement
of `ExactInput`, `InputIsExact`. `IInv` adds, to the agreement of buffer, offset and
stream, where a request stands (`Places`), that what is buffered is of the delta
(`WithinDelta`) and that what was gathered so far is the delta from the request's
start (`Gathered`). The refinement maps the step that answers a request to the one
step of `ExactInput`; for a number it needs `Counted`, that `value` is what the
digits read so far write, one more digit at a time by the recursion of `Number`.

**CacheSync**, in `VcdiffDecoderProofs` too. `CacheCorrect`, `EncodedIsAccepted`,
`DecoderAgrees`, from `SyncInv`. The cache is a
replay of the history (`CacheMatchesHistory`, `RingPosition`), and the decoder's
addresses are a prefix of the encoder's (`InStep`). That an address and its block
and byte lead to the same slot is arithmetic of remainders. `OpcodesAreCounted`: the six
lists of rows, put one behind the other, have at each place what the formula of
their list gives there (`RowsAreCounted`); each loop of `default_table` assigns that
row to the index it computes, and reaches every index of its range.

**VcdiffDecoder.** `TypeCorrect`, `MemoryIsBounded`, `SegmentsArePersisted`,
`CacheStaysBehindHere`, `WindowsUseAll` (a finished window has used up its sections
and added its target size to what is persisted), and `CallsAreValid`: every step of the
decoder maps to a step of `DecodedOutput` or to none, so its calls are always
ones the writer was verified for. `IInv` has a part for each group of variables: segment,
output, running call, memory, positions, cache. A check that refuses ends the
decode and changes nothing else, so each part is disturbed by few actions.

**SecondaryStream.** `TypeCorrect` and `FragmentsInOrder`: for every staging size the
codec is offered the bytes of a section once and in order. `SoundSectionsPass` and
`OnlySoundPass`: it is accepted if and only if the encoder wrote it for this window.
The invariant behind them says, at every turn of the loop, that the section is
sound exactly if what is left of it, in bytes and in output, is the sum of some
beginning of what is left of its stream (`RestSound`); each step of the codec takes
from both (`CodecAdvances`), and one that takes bytes from behind the fragment makes
the section unsound whatever it counts (`AstrayUnsound`, `CodecSwallowsSound`). `HeaderUnread` keeps the header's check byte staged until it was looked
at, and `StreamsInStep` counts the fragments each codec has seen. The proof uses of
a chunk that it has a head that fits the staging buffer and, if it is sound, some
output: an LZMA2 chunk has a control byte and at least one byte uncompressed.

**PrefixBook.** `TypeCorrect`, `CodesFitWidths`, `SlotsInUse`, `CompleteTableDecodes`,
`SymbolsAtTheirWidth`. The invariant says that counts are cardinalities, that
`first_codes[w] + counts[w] + spare[w]` is the number of codes of w bits (the two
loops of `build` count the same thing from two ends), that the slots of the
widths are disjoint and filled in order, and that bits which have not led to a
symbol are beyond every code of their width. With the last, `code < first` in
`lookup` never happens.

`BuildDecides`, `SymbolsAreCanonical` and `CodesNotPassed` compare that with
`CanonicalCode`, which knows no tables. `Kraft(w)` is the share of all codes of w
bits that the symbols of at most w bits take; it doubles with each width and
grows by the symbols of that width, as `first_codes` and `spare` do, so
`first_codes[w]` is `2 * Kraft(w - 1)`, and a width is refused as soon as the shares
exceed the codes. `Place` says where in `ordered` a symbol lies: behind those of its
width with smaller numbers, which is also the place of its canonical code behind
the first of its width.

**DjwTokens.** `TypeCorrect`, `RunsNeverOverflow`, `MovesPermute`, `SelectorsNameGroups`.
A run's exponent grows only when its last digit has been written out, so
`Powers[run_exponent] <= index + run_remaining + 1`: the exponent is paid for by
the output, and the output is bounded.

`AcceptedAreEncodings` and `EncodingsPass` compare it with the encoder of
`DjwTokenCode`. `Held` relates the machine to the encoder that has been given what is
written so far: the lists are the same, and the tokens read are those the encoder
has put out and then the digits of its run and of what remains of the machine's,
or those digits and the move that is pending. That the next digit is worth
`(token + 1) * Powers[run_exponent]` is `DigitsGrow`. `Agrees` says that whatever
encoding begins with the tokens read is of values that begin with those written:
an encoding goes on from each state of its encoder with a longer run or with a
move (`NextOn`), and the digits of a run followed by a move are the beginning of
neither a longer run (`MoveBeforeRun`, by `DigitsOrdered`) nor another move
(`SameMove`).

**DjwSection.** `SectorsCoverWindow` and `AcceptedSectionsWhole`, for every width of
field and code and every size. `SectorsSuffice` is the arithmetic: the sectors
rounded up cover the output and each byte is in the sector its division names.
`BitsCounted` says that the bits read are those of the bytes passed and those used
of the byte at hand.

**Ba2Archive.** `SeenAreEntries`: a call that is refused at whichever of its checks
(`FirstError`) changes neither `seen` nor `entries`, and one that is not has a key that
`seen` does not hold, so the two grow in step; the size of `seen` is what makes the
keys of the entries distinct. `TexturesArePartitioned` is about the arithmetic of
`split_chunks`, for textures of any dimensions, number of mips and format. `IInv` keeps
of every texture what `parse` made sure of (`Whole`: it is not empty, its format has
sizes, its data is as long as its mips), and that its chunks are those of
`split_chunks`. Then every mip has bytes (`SizesArePositive`), so `size == 0` in the loop
means that no mip was counted yet and the offsets grow strictly (`ReachesGrow`).
`SplitAfter` is the loop's invariant: after m rounds the closed ranges are contiguous,
each ends where its next mip would have reached the threshold (`Closed`), and `size`
is what the open one holds; the loop ends with it after the last mip (`AllRounds`,
by induction on the rounds), or the third range was closed and the rest is the
fourth's. `MipsArePartitioned` reads the chunks' bytes off the ranges, which also
shows that the slices `split_chunks` takes are within the data.

`FilesAreFound` is about the image. `IInv` keeps of every entry where it came from
(`Given`: its key is that of its normalized path, its data or texture one of those the
archive was given), that no two have one key, and that a sink that took everything
holds `to_vec`. `Image` puts every field that has bytes at an offset of its own
(`ImageHolds`: what two fields have before them differs by the first of them). A list
of fields is `Keyed` by a list of hashes if its fields that have a hash are one for
each of them: the header is keyed by none, the records by those of the entries, the
blocks and the names add none (`KeyedThenRecords`, `KeyedThenPlain`; for textures,
whose records are a header and its chunks, by induction over `FlattenSeq`). A list
keyed by hashes that are distinct has an image in which each is found once
(`KeysFound`, by counting).

`WholeIsReadBack` and `PartIsNeverMisread` are about writer and reader together. `IInv`
keeps for them that the format is one of the three (`SettingsInv`) and that what the
sink holds is `to_vec`, nothing, or `to_vec` cut at a byte (`SinkInv`): every call that
changes what `to_vec` would give empties the sink. The argument has four parts.

- Where fields lie. A list of fields `Lies` at a place if each is found there at the
  sum of the sizes before it; an image is such a list from 0 on, and a list put
  together of two lies at the place of the first and behind it (`ConcatLies`). The
  lengths of header, records, blocks and table are what the writers compute beforehand
  (`GnrlDataStart`, `GnrlNamesOffset` and those of textures), so each part lies where
  the offsets written into records and header say.
- What is asked for. `Shows` is what `Get` gives for a field that lies somewhere in
  an image that may have been cut: the field if it ends within the image, otherwise
  `Noise`. Cutting does not move fields, so `GnrlShown` and `Dx10Shown` hold of an
  archive and of its every beginning; all that follows is proved once for both.
- Tables. `read_names`, `read_gnrl` and `read_dx10` are recursive functions of the number
  of entries read. By induction on it, the state after i entries is the one with the
  first i of them, or an error because the image ends before (`PathsAreRead`,
  `FilesTaken`, `TexturesShown`); a name that is UTF-8 throughout is listed byte for
  byte (`Utf8IsKept`, by induction over `FlattenSeq`); `ArchiveIsRead` puts them together with the header.
  If the image is whole, every check finds what it needs.
- Data. A block is given back if it is stored, or packed by the codec the header
  names, for its size (`BlockRead`). The chunks of a texture are numbered through the whole
  archive (`FirstChunk`), and `RecordsReachData` follows the numbers. Put one behind the
  other, chunks are the data of the texture again, for each is a slice that begins
  where the one before it ends (`SlicesJoin`, and `MipsArePartitioned` above); and the
  header the reader makes is that of a texture which is the same as the one
  given (`TextureIsSame`), under the legacy names of formats too (`LegacyAreDxgi`).

The assumptions say of what types the arguments are. `TexturesAssumption` and
`FilesAssumption`: a path is a sequence of bytes, data a slice whose place and size
are natural numbers (there is only one empty slice), the mip count in a header
a natural number, for all are unsigned in the code. `PackedSizeAssumption`: what is
compressed has a length, which is not 0, for `read_chunk` takes 0 for stored.
`NoiseAssumption`: `Noise` is a value of its own, neither a length nor a slice nor packed
nor a name. `Utf8Assumption`: a character has bytes, and U+FFFD is one.

The type invariants, `BufferAtPosition`, `CacheMatchesHistory`, `CodesFit`,
`SlotInUse`, `OnlySparseTableInvalid`, `ListIsPermutation`, `ValuesListed` and
`SymbolHasItsWidth` are proved for all constants where no run lists them.

Only model-checked: liveness and `ENABLED`, which the proof system does not reach; and
that a plugin that was written reads back (`ReadsBack`), which compares what two folds
over nested groups compute.

## Plan

Everything that keeps state is modelled but for `FallibleMemoryTarget`. What is left is
to prove `ReadsBack` of plugins, along the lines of `WholeReadsBack`: where the fields of
records and groups lie, then what the parser asks for. The parser finds the end of
a group by its size alone, so the induction is on what is left of a group.

## Observations

Met while modelling, and checked as they are:

- A compressed file of more than 1 GiB is written (`write/gnrl.rs` allows 4 GiB, as
  `btdx/README.md` says of file and chunk sizes) and refused by the reader, whose
  `MAX_CHUNK_UNPACKED` is 1 GiB. `WholeReadsBack` says exactly these are refused.
- A dot in a directory's name and none in the file's gives an empty stem and an
  extension with a separator in it (`hashing.rs` `split`); the same file is found
  again, because the key is computed in the same way.
- A group whose label is `GRUP` is not refused by `write_group`; the parser of the
  tests reads its records as records, others might not.

## Not modelled

- Error wording and contexts; allocation failure, but for where the code turns it
  into an error of its own; overflow of 64-bit offsets, which no input reaches.
- `SliceCursor` of `input.rs`, a pure bounds-checked cursor: `VcdiffDecoder` counts
  the bytes it takes. `FallibleMemoryTarget` of `target.rs`, one of the targets the
  target stream of `TargetWriter` stands for.
- Data: the CRC table of `hashing.rs`, the character table of `win1252.rs`; the
  pitch field of a DDS header.
- The codecs of `flate2`, `lz4_flex` and `xz4rust`, whose answers are choices of the
  components that call them.
- `bsa`, a scaffold; examples, scripts and test code but for the plugin parser.
