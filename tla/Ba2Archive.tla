----------------------------- MODULE Ba2Archive -----------------------------
(***************************************************************************)
(* btdx: an archive is built file by file, written to a sink that may fail *)
(* part way, and read back by the reader of the same crate.  kind tells    *)
(* which of the two writers it is; a refused call leaves its error in      *)
(* result.                                                                 *)
(***************************************************************************)
EXTENDS ArchivePaths, GnrlWriter, Dx10Writer, Ba2Reader

CONSTANTS Files,         \* the calls of add_file and add_file_stored
          Textures,      \* the calls of add_texture
          MAX_PATH_LEN,  \* a name this long is refused
          MAX_FILES      \* as many files as an archive counts

(* Paths and data are sequences of bytes: what a call gives is a path, in  *)
(* UTF-8 or not, and a slice.  The fields of a header are unsigned.        *)
Slices(of) == [of : {of}, from : Nat, size : Nat]

ASSUME FilesAssumption ==
  \A f \in Files :
    /\ f.path \in Seq(STRING)
    /\ f.data \in Slices(f.data.of) /\ (f.data.size = 0 => f.data = Nothing)

ASSUME TexturesAssumption ==
  \A t \in Textures :
    /\ t.path \in Seq(STRING)
    /\ t.dds.mips \in Nat /\ t.dds.data.from \in Nat

(* What an archive may have to compress has a size when it is packed.      *)
ASSUME PackedSizeAssumption ==
  \A by \in {"zlib", "lz4"} :
    /\ \A f \in Files : PackedSize(by, f.data.size) \in Nat \ {0}
    /\ \A t \in Textures :
         ParseError(t.dds) = "none" =>
           LET chunks == split_chunks(ParsedTexture(t.dds))
           IN \A j \in DOMAIN chunks :
                PackedSize(by, chunks[j].data.size) \in Nat \ {0}

(* Noise is none of the things a reader looks for.                         *)
Packings(of) == [codec : {"zlib", "lz4"}, data : Slices(of)]

ASSUME NoiseAssumption ==
  /\ Noise \notin [name_len : Nat]
  /\ \A f \in Files : Noise \notin Packings(f.data.of)
  /\ \A t \in Textures :
       Noise \notin Slices(t.dds.data.of) \cup Packings(t.dds.data.of)
  /\ \A given \in Files \cup Textures :
       Noise # [name |-> normalize_path(given.path)]

VARIABLES kind, entries, seen, write_names, format,
          result,  \* what the last call returned
          sink     \* and the bytes it had written when it returned

vars == <<kind, entries, seen, write_names, format, result, sink>>
settings == <<write_names, format>>

Unwritten == [whole |-> FALSE, image |-> NewImage]

Init ==
  /\ kind \in {"GNRL", "DX10"}
  /\ entries = << >> /\ seen = << >>
  /\ write_names = TRUE /\ format = "Fo4"
  /\ result = "none" /\ sink = Unwritten
-----------------------------------------------------------------------------
(* What both writers ask of a path; the general one looks at the size of   *)
(* the data in between.                                                    *)
NameError(name) ==
  IF name = << >> \/ Len(name) >= MAX_PATH_LEN THEN "InvalidPath" ELSE "none"

SizeError(data) == IF data.size > U32_MAX THEN "FileTooLarge" ELSE "none"

SeenError(named) ==
  CASE Len(entries) >= MAX_FILES         -> "TooManyFiles"
    [] named.hash \notin DOMAIN seen     -> "none"
    [] seen[named.hash] = named.name     -> "DuplicatePath"
    [] OTHER                             -> "HashCollision"

(* The first error of a list of checks.                                    *)
FirstError(checks) ==
  LET failed == {i \in DOMAIN checks : checks[i] # "none"}
  IN IF failed = {} THEN "none" ELSE checks[Min(failed)]

Remember(named) ==
  seen' = [hash \in DOMAIN seen \cup {named.hash} |->
             IF hash = named.hash THEN named.name ELSE seen[hash]]

Record(entry) == Remember(entry) /\ entries' = Append(entries, entry)

AddFile(path, data, compress) ==
  LET named == hash_file(path)
      error == FirstError(<<NameError(named.name), SizeError(data),
                            SeenError(named)>>)
  IN /\ kind = "GNRL"
     /\ result' = error
     /\ IF error = "none"
        THEN Record([name |-> named.name, hash |-> named.hash,
                     data |-> data, compress |-> compress])
        ELSE UNCHANGED <<entries, seen>>
     /\ sink' = Unwritten /\ UNCHANGED <<kind, settings>>

AddSplit(named, dds) ==
  LET texture == ParsedTexture(dds)
  IN Record([name |-> named.name, hash |-> named.hash,
             texture |-> texture, chunks |-> split_chunks(texture)])

AddRememberedFirst(path, dds) ==  \* a fault: the name is kept of a texture that is refused
  LET named == hash_file(path)
      error == FirstError(<<NameError(named.name), SeenError(named)>>)
  IN /\ kind = "DX10"
     /\ result' = FirstError(<<error, ParseError(dds)>>)
     /\ IF result' = "none" THEN AddSplit(named, dds)
        ELSE /\ IF error = "none" THEN Remember(named) ELSE UNCHANGED seen
             /\ UNCHANGED entries
     /\ sink' = Unwritten /\ UNCHANGED <<kind, settings>>
AddTexture(path, dds) ==
  LET named == hash_file(path)
      error == FirstError(<<NameError(named.name), SeenError(named),
                            ParseError(dds)>>)
  IN /\ kind = "DX10"
     /\ result' = error
     /\ IF error = "none" THEN AddSplit(named, dds)
        ELSE UNCHANGED <<entries, seen>>
     /\ sink' = Unwritten /\ UNCHANGED <<kind, settings>>

SetNames(enabled) ==
  /\ write_names' = enabled
  /\ result' = "none" /\ sink' = Unwritten
  /\ UNCHANGED <<kind, entries, seen, format>>

SetFormat(f) ==
  /\ format' = f
  /\ result' = "none" /\ sink' = Unwritten
  /\ UNCHANGED <<kind, entries, seen, write_names>>
-----------------------------------------------------------------------------
(* to_vec, and write: what the sink took is the image or its beginning.    *)
Fits ==
  IF kind = "GNRL" THEN GnrlFits(format, entries) ELSE Dx10Fits(format, entries)

to_vec ==
  IF kind = "GNRL" THEN GnrlImage(format, write_names, entries)
  ELSE Dx10Image(format, write_names, entries)

(* A sink stops between two fields or behind the first byte of one; what   *)
(* is left of a field nobody can read does not matter.                     *)
StopsOf(image) == DOMAIN image.at \cup {at + 1 : at \in DOMAIN image.at}

(* Writing changes no archive: a second write, or one after a call that    *)
(* was refused, writes the same.  Only the first is taken.                 *)
NotYetWritten == result = "none" /\ sink = Unwritten

WriteAll ==
  /\ NotYetWritten /\ Fits
  /\ result' = "none"
  /\ sink' = [whole |-> TRUE, image |-> to_vec]
  /\ UNCHANGED <<kind, entries, seen, settings>>

WriteFails ==
  /\ NotYetWritten /\ Fits
  /\ LET image == to_vec
     IN \E len \in StopsOf(image) :
          sink' = [whole |-> FALSE, image |-> Cut(image, len)]
  /\ result' = "Io"
  /\ UNCHANGED <<kind, entries, seen, settings>>

WriteRefused ==
  /\ ~Fits
  /\ result' = "FileTooLarge" /\ sink' = Unwritten
  /\ UNCHANGED <<kind, entries, seen, settings>>

Next ==
  \/ \E f \in Files : AddFile(f.path, f.data, f.compress)
  \/ \E t \in Textures : AddTexture(t.path, t.dds)
  \/ \E enabled \in BOOLEAN : SetNames(enabled)
  \/ \E f \in Formats : SetFormat(f)
  \/ WriteAll \/ WriteFails \/ WriteRefused

Spec == Init /\ [][Next]_vars
-----------------------------------------------------------------------------
(* The reader expands no chunk beyond its limit, whoever wrote it.         *)
TooLargeToRead(entry) ==
  IF kind = "GNRL"
  THEN entry.compress /\ entry.data.size > MAX_CHUNK_UNPACKED
  ELSE \E j \in DOMAIN entry.chunks :
         entry.chunks[j].data.size > MAX_CHUNK_UNPACKED

(* A texture read back is a DDS file again, one that parses to the texture *)
(* that was added.                                                         *)
SameTexture(texture, read) ==
  LET length == 148 + read.bytes.size
      file == [field \in DOMAIN read.header \cup {"length", "data"} |->
                 CASE field = "length" -> length
                   [] field = "data"   -> read.bytes
                   [] OTHER            -> read.header[field]]
  IN /\ read.bytes # Noise
     /\ ParseError(file) = "none"
     /\ ParsedTexture(file) = texture

Extracted(archive, i) ==
  IF kind = "GNRL" THEN extract(archive, archive.entries[i])
  ELSE extract_texture(archive, archive.entries[i])

SameData(archive, i) ==
  LET read == Extracted(archive, i)
  IN /\ read.error = "none"
     /\ IF kind = "GNRL" THEN read.bytes = entries[i].data
        ELSE SameTexture(entries[i].texture, read)

(* A name in UTF-8 is listed as it is; of any other, only what is UTF-8.   *)
SamePath(path, name) ==
  /\ path = [name |-> from_utf8_lossy(name)]
  /\ IsUtf8(name) => path.name = name

SameEntries(archive) ==
  /\ archive.kind = kind
  /\ Len(archive.entries) = Len(entries)
  /\ \A i \in DOMAIN entries :
       LET path == archive.entries[i].path
       IN IF write_names THEN SamePath(path, entries[i].name)
          ELSE path = Unnamed

(* An archive written whole is read back: the same files in the same order *)
(* under their normalized names (the reader replaces what is no UTF-8 in   *)
(* one), their data byte for byte, textures as DDS files that parse to the *)
(* same texture; only what the reader holds too large is refused.  to_vec  *)
(* computes every offset before it writes.                                 *)
WholeReadsBack ==
  sink.whole =>
    LET archive == ReadArchive(sink.image)
    IN /\ archive.error = "none"
       /\ SameEntries(archive)
       /\ \A i \in DOMAIN entries :
            IF TooLargeToRead(entries[i])
            THEN Extracted(archive, i).error = "TooLarge"
            ELSE SameData(archive, i)

(* What a failing sink keeps ("an I/O error may leave a partial write") is *)
(* never taken for something else: the reader refuses the archive, or it   *)
(* refuses the files cut off and returns the others unharmed.              *)
PartNeverMisread ==
  ~sink.whole =>
    LET archive == ReadArchive(sink.image)
    IN archive.error = "none" =>
         /\ SameEntries(archive)
         /\ \A i \in DOMAIN entries :
              Extracted(archive, i).error = "none" => SameData(archive, i)

(* The engine finds a file by the key of its path alone: in what was       *)
(* written, exactly the record of a file has the key of its path, in every *)
(* spelling its caller may have used.                                      *)
LookupFindsFile ==
  sink.whole =>
    LET hashes == {at \in DOMAIN sink.image.at :
                     "hash" \in DOMAIN sink.image.at[at].is}
        With(hash) == {at \in hashes : sink.image.at[at].is.hash = hash}
        paths == {f.path : f \in Files} \cup {t.path : t \in Textures}
    IN /\ Cardinality(hashes) = Len(entries)
       /\ \A path \in paths, i \in DOMAIN entries :
            normalize_path(path) = entries[i].name =>
              Cardinality(With(Key(normalize_path(path)))) = 1

(* The names a writer remembers are those of its entries: a call refused,  *)
(* at whichever of its checks, leaves no name behind that would refuse the *)
(* same file once it is sound.                                             *)
SeenIsEntries ==
  /\ DOMAIN seen = {entries[i].hash : i \in DOMAIN entries}
  /\ \A i \in DOMAIN entries : seen[entries[i].hash] = entries[i].name
  /\ Cardinality(DOMAIN seen) = Len(entries)
-----------------------------------------------------------------------------
(* Chunks hold every mip once and in order, at most four of them; one that *)
(* reaches the threshold is a single mip, but for the fourth, and a chunk  *)
(* ends only where its next mip would reach the threshold.                 *)
Partition(texture, chunks) ==
  LET n == Len(chunks)
      Size(j) == chunks[j].data.size
      End(j) == chunks[j].data.from + Size(j)
  IN /\ n \in 1..MAX_DX10_CHUNKS /\ (texture.cubemap => n = 1)
     /\ chunks[1].start_mip = 0 /\ chunks[n].end_mip = texture.mip_count - 1
     /\ chunks[1].data.from = texture.data.from
     /\ End(n) = texture.data.from + texture.data.size
     /\ \A j \in 1..(n - 1) :
          /\ chunks[j + 1].start_mip = chunks[j].end_mip + 1
          /\ chunks[j + 1].data.from = End(j)
          /\ Size(j) + SizesOf(texture)[chunks[j].end_mip + 2]
               >= Threshold(texture.dxgi)
     /\ \A j \in 1..n :
          /\ chunks[j].data.of = texture.data.of
          /\ chunks[j].start_mip <= chunks[j].end_mip
          /\ \/ chunks[j].start_mip = chunks[j].end_mip
             \/ Size(j) < Threshold(texture.dxgi)
             \/ j = MAX_DX10_CHUNKS \/ texture.cubemap

(* So does split_chunks split every texture an archive took: no byte of it *)
(* is lost or stored twice, and no mip is torn.                            *)
ChunksPartition ==
  kind = "DX10" =>
    \A i \in DOMAIN entries : Partition(entries[i].texture, entries[i].chunks)
=============================================================================
