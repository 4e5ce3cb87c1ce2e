----------------------------- MODULE Ba2Format -----------------------------
(***************************************************************************)
(* btdx/src/write/mod.rs: what the two archive writers share.              *)
(***************************************************************************)
EXTENDS ByteImage

CONSTANTS PackedSize(_, _),  \* how long a codec makes so many bytes, never 0
          U32_MAX            \* the largest size a record has room for

Formats == {"Fo4", "StarfieldV2", "StarfieldV3Lz4"}
version == [Fo4 |-> 1, StarfieldV2 |-> 2, StarfieldV3Lz4 |-> 3]

SizeOfFo4(format) == 24  \* a fault: the header of Fallout 4 for every format
HeaderSize(format) == [Fo4 |-> 24, StarfieldV2 |-> 32, StarfieldV3Lz4 |-> 36][format]

codec(format) == IF format = "StarfieldV3Lz4" THEN "lz4" ELSE "zlib"

write_header(format, tag, file_count, names_offset) ==
  <<Field(24, [version |-> version[format], kind |-> tag,
               file_count |-> file_count, name_table_offset |-> names_offset])>>
  \o (IF format = "Fo4" THEN << >> ELSE <<Field(8, [tail |-> 1])>>)
  \o (IF format = "StarfieldV3Lz4" THEN <<Field(4, [method |-> 3])>> ELSE << >>)

(* Data on its way into an archive, with the sizes its record will hold.   *)
CompressedBlock(format, data) ==
  [packed |-> PackedSize(codec(format), data.size), unpacked |-> data.size,
   bytes |-> Field(PackedSize(codec(format), data.size),
                   [codec |-> codec(format), data |-> data])]

StoredBlock(data) ==
  [packed |-> 0, unpacked |-> data.size, bytes |-> Field(data.size, data)]

FitsU32(block) == block.packed <= U32_MAX /\ block.unpacked <= U32_MAX

Bytes(blocks) == [i \in DOMAIN blocks |-> blocks[i].bytes]
Sizes(blocks) == [i \in DOMAIN blocks |-> blocks[i].bytes.size]

(* The table of names follows the data, if there is one.                   *)
HasNames(write_names, entries) == write_names /\ entries # << >>

NameTable(entries) ==
  FlattenSeq([i \in DOMAIN entries |->
                <<Field(2, [name_len |-> Len(entries[i].name)]),
                  Field(Len(entries[i].name), [name |-> entries[i].name])>>])
=============================================================================
