----------------------------- MODULE GnrlWriter -----------------------------
(***************************************************************************)
(* btdx/src/write/gnrl.rs: the layout of a general archive.                *)
(***************************************************************************)
EXTENDS Ba2Format

GNRL_RECORD_SIZE == 36

Block(format, entry) ==
  IF entry.compress THEN CompressedBlock(format, entry.data)
  ELSE StoredBlock(entry.data)

GnrlBlocks(format, entries) ==
  [i \in DOMAIN entries |-> Block(format, entries[i])]

GnrlDataStart(format, entries) ==
  HeaderSize(format) + GNRL_RECORD_SIZE * Len(entries)

GnrlNamesOffset(format, write_names, entries) ==
  IF HasNames(write_names, entries)
  THEN GnrlDataStart(format, entries)
         + Total(Sizes(GnrlBlocks(format, entries)))
  ELSE 0

GnrlRecords(format, entries) ==
  LET blocks == GnrlBlocks(format, entries)
  IN [i \in DOMAIN entries |->
        Field(GNRL_RECORD_SIZE,
              [hash |-> entries[i].hash,
               offset |-> BlockStart(GnrlDataStart(format, entries),
                                     Sizes(blocks), i),
               packed |-> blocks[i].packed, unpacked |-> blocks[i].unpacked])]

(* to_vec, if every size fits its field.                                   *)
GnrlFits(format, entries) ==
  \A i \in DOMAIN entries : FitsU32(Block(format, entries[i]))

GnrlImage(format, write_names, entries) ==
  Image(write_header(format, "GNRL", Len(entries),
                     GnrlNamesOffset(format, write_names, entries))
        \o GnrlRecords(format, entries)
        \o Bytes(GnrlBlocks(format, entries))
        \o (IF HasNames(write_names, entries) THEN NameTable(entries)
            ELSE << >>))
=============================================================================
