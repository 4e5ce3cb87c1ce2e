----------------------------- MODULE Ba2Reader -----------------------------
(***************************************************************************)
(* btdx/src/read.rs: an archive read back from the bytes of a file.        *)
(* Whatever the reader answers is a record whose error is "none" or names  *)
(* the error.                                                              *)
(***************************************************************************)
EXTENDS ByteImage, DdsTexture, Utf8Text

CONSTANT MAX_CHUNK_UNPACKED  \* the reader expands no chunk beyond this

Refused(error) == [error |-> error]

RecordsStart(ver) == CASE ver = 2 -> 32 [] ver = 3 -> 36 [] OTHER -> 24

HeaderError(image) ==
  LET ver == Get(image, 0, 24).version
  IN CASE image.len < 24                              -> "TooShort"
       [] ver = 2 /\ image.len < 32                   -> "TooShort"
       [] ver = 3 /\ image.len < 36                   -> "TooShort"
       [] ver = 3 /\ Get(image, 32, 4).method \notin {0, 3}
                                             -> "UnsupportedCompression"
       [] ver \notin {1, 2, 3, 7, 8}         -> "UnsupportedVersion"
       [] OTHER                              -> "none"

Compression(image) ==
  IF Get(image, 0, 24).version = 3 /\ Get(image, 32, 4).method = 3
  THEN "lz4" ELSE "zlib"

MinRecord(kind) == IF kind = "DX10" THEN 24 ELSE 36
-----------------------------------------------------------------------------
(* Tables are read entry by entry; at is where the next one begins.  Each  *)
(* check is made only if none before it has failed.                        *)
Reading(at) == [error |-> "none", at |-> at, entries |-> << >>]

Took(reading, size, entry) ==
  [error |-> "none", at |-> reading.at + size,
   entries |-> Append(reading.entries, entry)]

(* An archive without names still has paths, all of them unknown.          *)
Unnamed == [name |-> << >>]

(* A name is listed as text: what is no UTF-8 of it is replaced.           *)
Text(held) ==
  IF held # Noise /\ "name" \in DOMAIN held
  THEN [name |-> from_utf8_lossy(held.name)] ELSE Noise

ReadName(image, reading) ==
  LET len == Get(image, reading.at, 2)
  IN IF reading.error # "none" THEN reading
     ELSE IF reading.at + 2 > image.len THEN Refused("TooShort")
     ELSE IF len = Noise THEN Took(reading, 2, Noise)
     ELSE IF reading.at + 2 + len.name_len > image.len THEN Refused("TooShort")
     ELSE Took(reading, 2 + len.name_len,
               Text(Get(image, reading.at + 2, len.name_len)))

read_names(image, offset, count) ==
  IF offset = 0
  THEN [Reading(0) EXCEPT !.entries = [i \in 1..count |-> Unnamed]]
  ELSE LET reading[i \in 0..count] ==
             IF i = 0 THEN Reading(offset) ELSE ReadName(image, reading[i - 1])
       IN reading[count]

ReadFile(image, reading, name) ==
  LET record == Get(image, reading.at, 36)
  IN IF reading.error # "none" THEN reading
     ELSE IF reading.at + 36 > image.len THEN Refused("TooShort")
     ELSE Took(reading, 36,
               [path |-> name, offset |-> record.offset,
                packed |-> record.packed, unpacked |-> record.unpacked])

read_gnrl(image, start, names) ==
  LET reading[i \in 0..Len(names)] ==
        IF i = 0 THEN Reading(start)
        ELSE ReadFile(image, reading[i - 1], names[i])
  IN reading[Len(names)]

ReadTexture(image, reading, name) ==
  LET record == Get(image, reading.at, 24)
      first == reading.at + 24
      chunks == [j \in 1..record.num_chunks |->
                   Get(image, first + 24 * (j - 1), 24)]
  IN IF reading.error # "none" THEN reading
     ELSE IF first > image.len THEN Refused("TooShort")
     ELSE IF record.chunk_record_size # 24 THEN Refused("Malformed")
     ELSE IF first + 24 * record.num_chunks > image.len THEN Refused("TooShort")
     ELSE Took(reading, 24 * (1 + record.num_chunks),
               [path |-> name, width |-> record.width,
                height |-> record.height, num_mips |-> record.num_mips,
                format |-> record.format, cubemap |-> record.cubemap,
                tile_mode |-> record.tile_mode, chunks |-> chunks])

read_dx10(image, start, names) ==
  LET reading[i \in 0..Len(names)] ==
        IF i = 0 THEN Reading(start)
        ELSE ReadTexture(image, reading[i - 1], names[i])
  IN reading[Len(names)]
-----------------------------------------------------------------------------
(* Archive::read.                                                          *)
ReadArchive(image) ==
  LET head == Get(image, 0, 24)
      start == RecordsStart(head.version)
      names == read_names(image, head.name_table_offset, head.file_count)
      entries == IF head.kind = "GNRL"
                 THEN read_gnrl(image, start, names.entries)
                 ELSE read_dx10(image, start, names.entries)
  IN CASE HeaderError(image) # "none" -> Refused(HeaderError(image))
       [] head.file_count * MinRecord(head.kind) > image.len
                                      -> Refused("Malformed")
       [] names.error # "none"        -> Refused(names.error)
       [] head.kind \notin {"GNRL", "DX10"}
                                      -> Refused("UnsupportedType")
       [] entries.error # "none"      -> Refused(entries.error)
       [] OTHER -> [error |-> "none", image |-> image, kind |-> head.kind,
                    compression |-> Compression(image),
                    entries |-> entries.entries]
-----------------------------------------------------------------------------
Got(bytes) == [error |-> "none", bytes |-> bytes]

StoredSize(chunk) == IF chunk.packed = 0 THEN chunk.unpacked ELSE chunk.packed

StartInBounds(image, chunk) == chunk.offset <= image.len  \* a fault: the end is not looked at
InBounds(image, chunk) == chunk.offset + StoredSize(chunk) <= image.len

(* inflate and lz4_block: another codec's data, or data of another size,   *)
(* is an error.                                                            *)
Decodes(compression, held, unpacked) ==
  /\ held # Noise /\ "codec" \in DOMAIN held
  /\ held.codec = compression
  /\ held.data.size = unpacked

read_chunk(archive, chunk) ==
  LET held == Get(archive.image, chunk.offset, StoredSize(chunk))
  IN IF ~InBounds(archive.image, chunk) THEN Refused("Malformed")
     ELSE IF chunk.packed = 0 THEN Got(held)
     ELSE IF chunk.unpacked > MAX_CHUNK_UNPACKED THEN Refused("TooLarge")
     ELSE IF ~Decodes(archive.compression, held, chunk.unpacked)
     THEN Refused("Malformed") ELSE Got(held.data)

(* Slices of one file that follow each other are one slice.                *)
Extended(bytes, slice) ==
  IF bytes = Nothing THEN slice
  ELSE IF /\ bytes # Noise /\ slice # Noise
          /\ bytes.of = slice.of /\ bytes.from + bytes.size = slice.from
  THEN [bytes EXCEPT !.size = @ + slice.size]
  ELSE Noise

(* One behind the other.                                                   *)
Joined(read) ==
  LET bytes[j \in 0..Len(read)] ==
        IF j = 0 THEN Nothing ELSE Extended(bytes[j - 1], read[j].bytes)
  IN bytes[Len(read)]

extract(archive, entry) == read_chunk(archive, entry)

extract_texture(archive, entry) ==
  LET read == [j \in DOMAIN entry.chunks |->
                 read_chunk(archive, entry.chunks[j])]
      failed == {j \in DOMAIN read : read[j].error # "none"}
  IN CASE entry.width = 0 \/ entry.height = 0   -> Refused("Malformed")
       [] entry.chunks = << >>                  -> Refused("Malformed")
       [] entry.tile_mode # 8                   -> Refused("Unsupported")
       [] failed # {}                           -> Refused(read[Min(failed)].error)
       [] OTHER -> [error |-> "none",
                    header |-> header(entry.width, entry.height,
                                      entry.num_mips, entry.format,
                                      entry.cubemap),
                    bytes |-> Joined(read)]
=============================================================================
