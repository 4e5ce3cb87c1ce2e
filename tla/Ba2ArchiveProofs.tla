------------------------- MODULE Ba2ArchiveProofs -------------------------
(***************************************************************************)
(* For every set of files and textures, and every limit: what the writers  *)
(* remember of the files they were given, how a texture is split, where    *)
(* the engine finds a file in what was written, and what the reader makes  *)
(* of all of it and of its beginnings.                                     *)
(***************************************************************************)
EXTENDS Ba2Archive, DataLemmas, SequenceTheorems, TLAPS

(* A call goes ahead only if none of its checks failed.                    *)
LEMMA NoError ==
  ASSUME NEW a, NEW b, NEW c, FirstError(<<a, b, c>>) = "none"
  PROVE  a = "none" /\ b = "none" /\ c = "none"
  <1> DEFINE checks == <<a, b, c>>
             failed == {i \in DOMAIN checks : checks[i] # "none"}
  <1>1. failed \subseteq 1..3
    OBVIOUS
  <1>2. failed = {}
    <2> SUFFICES ASSUME failed # {} PROVE FALSE
      OBVIOUS
    <2>1. \E x \in failed : \A y \in failed : x <= y
      BY <1>1, SMT
    <2>2. Min(failed) \in failed
      BY <2>1 DEF Min
    <2>3. FirstError(checks) = checks[Min(failed)]
      BY DEF FirstError
    <2> QED
      BY <2>2, <2>3
  <1>3. \A i \in 1..3 : checks[i] = "none"
    BY <1>2
  <1> QED
    BY <1>3

(* A texture that parse has accepted: it is as long as its mips.           *)
Whole(texture) ==
  /\ texture.width \in Nat \ {0} /\ texture.height \in Nat \ {0}
  /\ texture.mip_count \in Nat \ {0}
  /\ Sized(texture.dxgi)
  /\ texture.data.from \in Nat
  /\ texture.data.size = Cubemap(texture.cubemap) * Total(SizesOf(texture))

(* A sequence, of whatever.                                                *)
Listed(s) == \E S : s \in Seq(S)

(* The entries of an archive come from the files and textures it was given. *)
Named(e) ==
  /\ e.hash = Key(e.name) /\ Listed(e.name) /\ e.name # << >>
  /\ [name |-> e.name] # Noise
FileOf(e) == \E f \in Files : e.data = f.data
TextureOf(e) ==
  /\ Whole(e.texture) /\ e.chunks = split_chunks(e.texture)
  /\ \E t \in Textures :
       ParseError(t.dds) = "none" /\ e.texture = ParsedTexture(t.dds)

Given(of, e) ==
  /\ Named(e)
  /\ of = "GNRL" => FileOf(e)
  /\ of = "DX10" => TextureOf(e)

EntriesInv ==
  /\ Listed(entries)
  /\ kind \in {"GNRL", "DX10"} /\ \A i \in 1..Len(entries) : Given(kind, entries[i])
  /\ \A i, j \in 1..Len(entries) : entries[i].hash = entries[j].hash => i = j

SettingsInv == write_names \in BOOLEAN /\ format \in Formats

(* The sink has all of what the writer would write now, or its beginning.  *)
SinkInv ==
  IF sink.whole THEN sink.image = to_vec
  ELSE \/ sink.image = NewImage
       \/ \E len \in StopsOf(to_vec) : sink.image = Cut(to_vec, len)

IInv ==
  /\ EntriesInv /\ SettingsInv
  /\ IsFiniteSet(DOMAIN seen) /\ SeenIsEntries
  /\ SinkInv
-----------------------------------------------------------------------------
(* A normalized path is a sequence again.                                  *)
LEMMA LeastExists ==
  ASSUME NEW T, T \subseteq Nat, T # {}
  PROVE  Min(T) \in T /\ \A y \in T : Min(T) <= y
  <1> DEFINE R == OpToRel(<, Nat)
  <1>1. IsWellFoundedOn(R, Nat)
    BY NatLessThanWellFounded
  <1>2. ASSUME NEW x \in Nat, NEW y \in Nat, y < x
        PROVE  <<y, x>> \in R
    BY <1>2 DEF OpToRel
  <1> HIDE DEF R
  <1>3. PICK x \in T : \A y \in T : <<y, x>> \notin R
    BY <1>1, WFMin
  <1>4. ASSUME NEW y \in T
        PROVE  x <= y
    <2>1. x \in Nat /\ y \in Nat
      OBVIOUS
    <2>2. ~(y < x)
      BY <1>2, <1>3, <2>1
    <2> QED
      BY <2>1, <2>2
  <1> QED
    BY <1>4 DEF Min

LEMMA GreatestExists ==
  ASSUME NEW n \in Nat, NEW T, T \subseteq 0..n, T # {}
  PROVE  Max(T) \in T /\ \A y \in T : Max(T) >= y
  <1> DEFINE U == {n - x : x \in T}
  <1>1. U \subseteq Nat /\ U # {}
    <2>1. ASSUME NEW x \in T
          PROVE  n - x \in Nat
      <3>1. x \in 0..n
        OBVIOUS
      <3> QED
        BY <3>1
    <2>2. \E x \in T : TRUE
      OBVIOUS
    <2> QED
      BY <2>1, <2>2
  <1>2. Min(U) \in U /\ \A y \in U : Min(U) <= y
    BY <1>1, LeastExists
  <1>3. PICK x \in T : Min(U) = n - x
    BY <1>2
  <1>4. \A y \in T : n - y \in U
    OBVIOUS
  <1> HIDE DEF U
  <1>5. \A y \in T : x >= y
    BY <1>2, <1>3, <1>4
  <1> QED
    BY <1>5 DEF Max

LEMMA NormalizedIsListed ==
  ASSUME NEW path, Listed(path)
  PROVE  Listed(normalize_path(path))
  <1> DEFINE lowered == [i \in DOMAIN path |-> Lowered(path[i])]
             kept == DOMAIN lowered \ Places(Separator, lowered)
             S == {Lowered(path[i]) : i \in DOMAIN path}
             n == Len(path)
  <1>1. /\ n \in Nat /\ DOMAIN path = 1..n
    BY DEF Listed
  <1>2. lowered \in Seq(S) /\ Len(lowered) = n /\ DOMAIN lowered = 1..n
    BY <1>1
  <1> HIDE DEF lowered, S, n
  <1>3. kept \subseteq 1..n
    BY <1>2
  <1> HIDE DEF kept
  <1>4. CASE kept = {}
    <2>1. normalize_path(path) = << >>
      BY <1>4 DEF normalize_path, kept, lowered
    <2>2. << >> \in Seq({})
      OBVIOUS
    <2> QED
      BY <2>1, <2>2 DEF Listed
  <1>5. CASE kept # {}
    <2>1. normalize_path(path) = SubSeq(lowered, Min(kept), Max(kept))
      BY <1>5, Zenon DEF normalize_path, kept, lowered
    <2>2. kept \subseteq Nat /\ kept \subseteq 0..n
      BY <1>1, <1>3
    <2>3. /\ Min(kept) \in kept /\ Max(kept) \in kept
      BY <1>1, <1>5, <2>2, LeastExists, GreatestExists
    <2>4. /\ Min(kept) \in Int /\ Max(kept) \in Int
          /\ \A i \in Min(kept)..Max(kept) : lowered[i] \in S
      <3>1. Min(kept) \in 1..n /\ Max(kept) \in 1..n
        BY <1>3, <2>3
      <3>2. \A i \in 1..n : lowered[i] \in S
        BY <1>2
      <3> QED
        BY <1>1, <3>1, <3>2
    <2>5. SubSeq(lowered, Min(kept), Max(kept)) \in Seq(S)
      BY <1>2, <2>4, SubSeqProperties
    <2> QED
      BY <2>1, <2>5 DEF Listed
  <1> QED
    BY <1>4, <1>5
-----------------------------------------------------------------------------
LEMMA HashIsNew ==
  ASSUME NEW named, SeenError(named) = "none"
  PROVE  named.hash \notin DOMAIN seen
  BY DEF SeenError

(* Taking up a file keeps the names and the entries in step.               *)
LEMMA RecordKeepsInv ==
  ASSUME IInv, NEW e, e.hash \notin DOMAIN seen, Record(e), kind' = kind,
         SettingsInv', Given(kind, e), sink' = Unwritten
  PROVE  IInv'
  <1> DEFINE n == Len(entries)
  <1>1. PICK S : entries \in Seq(S)
    BY DEF IInv, EntriesInv, Listed
  <1>2. entries' = Append(entries, e)
    BY DEF Record
  <1>3. /\ n \in Nat /\ DOMAIN entries = 1..n
        /\ entries' \in Seq(S \cup {e}) /\ Len(entries') = n + 1
        /\ DOMAIN entries' = 1..(n + 1)
        /\ \A i \in 1..n : entries'[i] = entries[i]
        /\ entries'[n + 1] = e
    BY <1>1, <1>2
  <1>4. /\ DOMAIN seen' = DOMAIN seen \cup {e.hash}
        /\ seen'[e.hash] = e.name
        /\ \A hash \in DOMAIN seen : seen'[hash] = seen[hash]
    BY DEF Record, Remember
  <1>5. /\ kind \in {"GNRL", "DX10"}
        /\ \A i \in 1..n : Given(kind, entries[i])
        /\ \A i, j \in 1..n : entries[i].hash = entries[j].hash => i = j
    BY DEF IInv, EntriesInv
  <1>6. /\ DOMAIN seen = {entries[i].hash : i \in 1..n}
        /\ \A i \in 1..n : seen[entries[i].hash] = entries[i].name
        /\ Cardinality(DOMAIN seen) = n
        /\ IsFiniteSet(DOMAIN seen)
    BY <1>3 DEF IInv, SeenIsEntries
  <1> HIDE DEF n
  <1>7. IsFiniteSet(DOMAIN seen') /\ Cardinality(DOMAIN seen') = n + 1
    <2>1. e.hash \notin DOMAIN seen
      OBVIOUS
    <2> DEFINE D == DOMAIN seen
               h == e.hash
    <2>2. /\ IsFiniteSet(D) /\ Cardinality(D) = n /\ h \notin D
          /\ DOMAIN seen' = D \cup {h}
      BY <1>4, <1>6, <2>1
    <2> HIDE DEF D, h
    <2>3. IsFiniteSet(D \cup {h}) /\ Cardinality(D \cup {h}) = Cardinality(D) + 1
      BY <2>2, FS_AddElement
    <2> QED
      BY <2>2, <2>3
  <1>8. \A i \in 1..(n + 1) : i \in 1..n \/ i = n + 1
    BY <1>3
  <1>9. SeenIsEntries'
    <2>1. DOMAIN seen' = {entries'[i].hash : i \in 1..(n + 1)}
      <3>1. 1..(n + 1) = 1..n \cup {n + 1}
        BY <1>3
      <3> QED
        BY <1>3, <1>4, <1>6, <3>1
    <2>2. ASSUME NEW i \in 1..(n + 1)
          PROVE  seen'[entries'[i].hash] = entries'[i].name
      <3>1. CASE i \in 1..n
        <4>1. entries[i].hash \in DOMAIN seen
          BY <1>6, <3>1
        <4>2. seen'[entries[i].hash] = seen[entries[i].hash]
          BY <1>4, <4>1
        <4>3. entries'[i] = entries[i]
          BY <1>3, <3>1
        <4> QED
          BY <1>6, <3>1, <4>2, <4>3
      <3>2. CASE i = n + 1
        BY <1>3, <1>4, <3>2
      <3> QED
        BY <1>8, <3>1, <3>2
    <2> QED
      BY <1>3, <1>7, <2>1, <2>2 DEF SeenIsEntries
  <1>10. EntriesInv'
    <2>1. \A i \in 1..(n + 1) : Given(kind, entries'[i])
      BY <1>3, <1>5, <1>8
    <2>2. \A i \in 1..n : entries[i].hash # e.hash
      BY <1>6
    <2>3. ASSUME NEW i \in 1..(n + 1), NEW j \in 1..(n + 1),
                 entries'[i].hash = entries'[j].hash
          PROVE  i = j
      <3>1. CASE i \in 1..n /\ j \in 1..n
        BY <1>3, <1>5, <2>3, <3>1
      <3>2. CASE ~(i \in 1..n /\ j \in 1..n)
        BY <1>3, <1>8, <2>2, <2>3, <3>2
      <3> QED
        BY <3>1, <3>2
    <2>4. Listed(entries')
      BY <1>3 DEF Listed
    <2>5. Len(entries') = n + 1 /\ kind' \in {"GNRL", "DX10"}
      BY <1>3, <1>5
    <2>6. \A i \in 1..(n + 1) : Given(kind', entries'[i])
      BY <2>1
    <2> QED
      BY <2>3, <2>4, <2>5, <2>6, Zenon DEF EntriesInv
  <1>11. SinkInv'
    BY DEF SinkInv, Unwritten
  <1> QED
    BY <1>7, <1>9, <1>10, <1>11 DEF IInv

LEMMA NothingAddedKeepsInv ==
  ASSUME IInv, UNCHANGED <<kind, entries, seen>>, SettingsInv', SinkInv'
  PROVE  IInv'
  BY DEF IInv, EntriesInv, SeenIsEntries

LEMMA UnwrittenKeepsInv ==
  ASSUME IInv, UNCHANGED <<kind, entries, seen>>, SettingsInv',
         sink' = Unwritten
  PROVE  IInv'
  <1>1. SinkInv'
    BY DEF SinkInv, Unwritten
  <1> QED
    BY <1>1, NothingAddedKeepsInv

LEMMA InitInv == Init => IInv
  <1> SUFFICES ASSUME Init PROVE IInv
    OBVIOUS
  <1>1. /\ entries = << >> /\ seen = << >> /\ sink = Unwritten
        /\ kind \in {"GNRL", "DX10"} /\ SettingsInv
    BY DEF Init, SettingsInv, Formats
  <1>2. DOMAIN seen = {} /\ DOMAIN entries = {} /\ Len(entries) = 0
        /\ entries \in Seq({})
    BY <1>1
  <1>3. EntriesInv
    BY <1>1, <1>2 DEF EntriesInv, Listed
  <1>4. SinkInv
    BY <1>1 DEF SinkInv, Unwritten
  <1> QED
    BY <1>1, <1>2, <1>3, <1>4, FS_EmptySet DEF IInv, SeenIsEntries

LEMMA AddFileKeepsInv ==
  ASSUME IInv, NEW f \in Files, AddFile(f.path, f.data, f.compress)
  PROVE  IInv'
  <1> DEFINE path == f.path
             data == f.data
             compress == f.compress
             named == hash_file(path)
             a == NameError(named.name)
             b == SizeError(data)
             c == SeenError(named)
             error == FirstError(<<a, b, c>>)
             e == [name |-> named.name, hash |-> named.hash,
                   data |-> data, compress |-> compress]
  <1>1. /\ kind = "GNRL" /\ kind' = kind /\ sink' = Unwritten /\ SettingsInv'
        /\ IF error = "none" THEN Record(e) ELSE UNCHANGED <<entries, seen>>
    BY DEF AddFile, settings, IInv, SettingsInv
  <1>2. CASE error = "none"
    <2>1. a = "none" /\ c = "none"
      <3> HIDE DEF a, b, c
      <3> QED
        BY <1>2, NoError
    <2>2. e.hash \notin DOMAIN seen
      <3>1. named.hash \notin DOMAIN seen
        BY <2>1, HashIsNew
      <3> QED
        BY <3>1
    <2>3. Record(e)
      BY <1>1, <1>2
    <2>4. Given(kind, e)
      <3>1. Named(e)
        <4>1. /\ e.name = normalize_path(path)
              /\ e.hash = Key(normalize_path(path)) /\ e.name # << >>
          BY <2>1 DEF hash_file, NameError
        <4>2. Listed(normalize_path(path))
          <5>1. Listed(path)
            BY FilesAssumption DEF Listed
          <5> QED
            BY <5>1, NormalizedIsListed
        <4>3. [name |-> normalize_path(path)] # Noise
          BY NoiseAssumption
        <4> HIDE DEF e
        <4> QED
          BY <4>1, <4>2, <4>3 DEF Named
      <3>2. FileOf(e)
        BY DEF FileOf
      <3>3. kind # "DX10"
        BY <1>1
      <3> HIDE DEF e
      <3> QED
        BY <3>1, <3>2, <3>3 DEF Given
    <2> HIDE DEF e
    <2> QED
      BY <1>1, <2>2, <2>3, <2>4, RecordKeepsInv
  <1>3. CASE error # "none"
    BY <1>1, <1>3, UnwrittenKeepsInv
  <1> QED
    BY <1>2, <1>3

(* parse accepts only textures that are whole.                             *)
LEMMA ParsedIsWhole ==
  ASSUME NEW dds, ParseError(dds) = "none",
         dds.mips \in Nat, dds.data.from \in Nat
  PROVE  Whole(ParsedTexture(dds))
  <1> DEFINE t == ParsedTexture(dds)
  <1>1. /\ dds.width \in 1..U16_MAX /\ dds.height \in 1..U16_MAX
        /\ Sized(Dxgi(dds))
        /\ dds.length - HeaderLen(dds) = ExpectedData(dds)
    <2>1. ContentError(dds) = "none"
      BY Zenon DEF ParseError
    <2>2. /\ Shaped(dds) /\ Sized(Dxgi(dds))
          /\ dds.length - HeaderLen(dds) = ExpectedData(dds)
      BY <2>1, Zenon DEF ContentError
    <2> QED
      BY <2>2, Zenon DEF Shaped
  <1>2. MipCount(dds) \in Nat \ {0}
    BY DEF MipCount
  <1>3. /\ t.width = dds.width /\ t.height = dds.height
        /\ t.mip_count = MipCount(dds) /\ t.dxgi = Dxgi(dds)
        /\ t.cubemap = dds.cube
        /\ t.data.from = dds.data.from
        /\ t.data.size = dds.length - HeaderLen(dds)
    BY DEF ParsedTexture
  <1> HIDE DEF t
  <1>4. t.data.size = Cubemap(t.cubemap) * Total(SizesOf(t))
    <2>1. SizesOf(t) = MipSizes(dds.width, dds.height, MipCount(dds), Dxgi(dds))
      BY <1>3, Zenon DEF SizesOf
    <2> QED
      BY ONLY <1>1, <1>3, <2>1, Zenon DEF ExpectedData
  <1>5. Sized(t.dxgi) /\ t.width \in Nat \ {0} /\ t.height \in Nat \ {0}
        /\ t.mip_count \in Nat \ {0} /\ t.data.from \in Nat
    <2>1. dds.width \in Nat \ {0} /\ dds.height \in Nat \ {0}
      BY <1>1
    <2> QED
      BY <1>1, <1>2, <1>3, <2>1, Zenon
  <1>6. Whole(t)
    BY <1>4, <1>5, Zenon DEF Whole
  <1> QED
    BY <1>6 DEF t

LEMMA AddTextureKeepsInv ==
  ASSUME IInv, NEW x \in Textures, AddTexture(x.path, x.dds)
  PROVE  IInv'
  <1> DEFINE path == x.path
             dds == x.dds
             named == hash_file(path)
             a == NameError(named.name)
             b == SeenError(named)
             c == ParseError(dds)
             error == FirstError(<<a, b, c>>)
             t == ParsedTexture(dds)
             e == [name |-> named.name, hash |-> named.hash,
                   texture |-> t, chunks |-> split_chunks(t)]
  <1>1. /\ kind = "DX10" /\ kind' = kind /\ sink' = Unwritten /\ SettingsInv'
        /\ IF error = "none" THEN Record(e) ELSE UNCHANGED <<entries, seen>>
    BY DEF AddTexture, AddSplit, settings, IInv, SettingsInv
  <1>2. CASE error = "none"
    <2>1. a = "none" /\ b = "none" /\ c = "none"
      <3> HIDE DEF a, b, c
      <3> QED
        BY <1>2, NoError
    <2>2. e.hash \notin DOMAIN seen
      <3>1. named.hash \notin DOMAIN seen
        BY <2>1, HashIsNew
      <3> QED
        BY <3>1
    <2>3. Record(e)
      BY <1>1, <1>2
    <2>4. Whole(t)
      BY <2>1, TexturesAssumption, ParsedIsWhole
    <2>5. e.texture = t /\ e.chunks = split_chunks(t)
      OBVIOUS
    <2>6. Named(e)
      <3>1. /\ e.name = normalize_path(path)
            /\ e.hash = Key(normalize_path(path)) /\ e.name # << >>
        BY <2>1 DEF hash_file, NameError
      <3>2. Listed(normalize_path(path))
        <4>1. Listed(path)
          BY TexturesAssumption DEF Listed
        <4> QED
          BY <4>1, NormalizedIsListed
      <3>3. [name |-> normalize_path(path)] # Noise
        BY NoiseAssumption
      <3> HIDE DEF e
      <3> QED
        BY <3>1, <3>2, <3>3 DEF Named
    <2>7. TextureOf(e)
      <3>1. ParseError(x.dds) = "none" /\ e.texture = ParsedTexture(x.dds)
        BY <2>1
      <3> HIDE DEF e, t
      <3> QED
        BY <2>4, <2>5, <3>1 DEF TextureOf
    <2> HIDE DEF e, t
    <2>8. Given(kind, e)
      BY <1>1, <2>6, <2>7 DEF Given
    <2> QED
      BY <1>1, <2>2, <2>3, <2>8, RecordKeepsInv
  <1>3. CASE error # "none"
    BY <1>1, <1>3, UnwrittenKeepsInv
  <1> QED
    BY <1>2, <1>3

LEMMA NextKeepsInv == IInv /\ [Next]_vars => IInv'
  <1> SUFFICES ASSUME IInv, [Next]_vars PROVE IInv'
    OBVIOUS
  <1>1. ASSUME NEW f \in Files, AddFile(f.path, f.data, f.compress)
        PROVE  IInv'
    BY <1>1, AddFileKeepsInv
  <1>2. ASSUME NEW t \in Textures, AddTexture(t.path, t.dds)
        PROVE  IInv'
    BY <1>2, AddTextureKeepsInv
  <1>3. ASSUME NEW enabled \in BOOLEAN, SetNames(enabled)
        PROVE  IInv'
    BY <1>3, UnwrittenKeepsInv DEF SetNames, IInv, SettingsInv
  <1>4. ASSUME NEW f \in Formats, SetFormat(f)
        PROVE  IInv'
    BY <1>4, UnwrittenKeepsInv DEF SetFormat, IInv, SettingsInv
  <1>5. ASSUME WriteAll
        PROVE  IInv'
    <2>1. /\ UNCHANGED <<kind, entries, seen, write_names, format>>
          /\ sink'.whole /\ sink'.image = to_vec
      BY <1>5 DEF WriteAll, settings
    <2>2. to_vec' = to_vec
      BY <2>1 DEF to_vec
    <2>3. SettingsInv'
      BY <2>1 DEF IInv, SettingsInv
    <2> QED
      BY <2>1, <2>2, <2>3, NothingAddedKeepsInv DEF SinkInv
  <1>6. ASSUME WriteFails
        PROVE  IInv'
    <2>1. /\ UNCHANGED <<kind, entries, seen, write_names, format>>
          /\ ~sink'.whole
          /\ \E len \in StopsOf(to_vec) : sink'.image = Cut(to_vec, len)
      BY <1>6 DEF WriteFails, settings
    <2>2. to_vec' = to_vec
      BY <2>1 DEF to_vec
    <2>3. SettingsInv'
      BY <2>1 DEF IInv, SettingsInv
    <2>4. SinkInv'
      BY <2>1, <2>2 DEF SinkInv
    <2> QED
      BY <2>1, <2>3, <2>4, NothingAddedKeepsInv
  <1>7. ASSUME WriteRefused
        PROVE  IInv'
    BY <1>7, UnwrittenKeepsInv DEF WriteRefused, settings, IInv, SettingsInv
  <1>8. ASSUME UNCHANGED vars
        PROVE  IInv'
    <2>1. UNCHANGED <<kind, entries, seen, write_names, format, sink>>
      BY <1>8 DEF vars
    <2>2. to_vec' = to_vec
      BY <2>1 DEF to_vec
    <2>3. SettingsInv' /\ SinkInv'
      BY <2>1, <2>2 DEF IInv, SettingsInv, SinkInv
    <2> QED
      BY <2>1, <2>3, NothingAddedKeepsInv
  <1> QED
    BY <1>1, <1>2, <1>3, <1>4, <1>5, <1>6, <1>7, <1>8 DEF Next

LEMMA Invariance == Spec => []IInv
  BY InitInv, NextKeepsInv, PTL DEF Spec
-----------------------------------------------------------------------------
(* Sums of a list of sizes, one size at a time.                            *)
Reaches(f, sizes) ==
  /\ f \in [0..Len(sizes) -> Nat] /\ f[0] = 0
  /\ \A k \in 1..Len(sizes) : f[k] = f[k - 1] + sizes[k]

LEMMA OffsetsReach ==
  ASSUME NEW sizes \in Seq(Nat)
  PROVE  Reaches(Offsets(sizes), sizes)
  <1> DEFINE m == Len(sizes)
             step == [x \in Nat \X Nat |->
                        IF x[1] < m THEN x[2] + sizes[x[1] + 1] ELSE 0]
  <1>1. m \in Nat /\ \A k \in 1..m : sizes[k] \in Nat
    OBVIOUS
  <1>2. step \in [Nat \X Nat -> Nat]
    <2>1. ASSUME NEW x \in Nat \X Nat, x[1] < m
          PROVE  x[2] + sizes[x[1] + 1] \in Nat
      <3>1. x[1] + 1 \in 1..m /\ x[2] \in Nat
        BY <2>1
      <3> QED
        BY <1>1, <3>1
    <2> QED
      BY <2>1
  <1>3. ASSUME NEW k \in 1..m, NEW v \in Nat
        PROVE  step[<<k - 1, v>>] = v + sizes[k]
    <2>1. k - 1 \in Nat /\ k - 1 < m /\ (k - 1) + 1 = k
      OBVIOUS
    <2> QED
      BY <2>1
  <1> HIDE DEF step, m
  <1>4. PICK f \in [0..m -> Nat] : IteratesUpTo(f, m, 0, step)
    <2>1. 0 \in Nat
      OBVIOUS
    <2> QED
      BY <1>1, <1>2, <2>1, RecursionUpTo, Zenon
  <1>5. /\ f[0] = 0
        /\ \A k \in 1..m : f[k] = f[k - 1] + sizes[k]
    <2>1. ASSUME NEW k \in 1..m
          PROVE  f[k] = f[k - 1] + sizes[k]
      <3>1. k \in 0..m /\ k # 0 /\ f[k - 1] \in Nat
        BY <1>1
      <3>2. f[k] = step[<<k - 1, f[k - 1]>>]
        BY <1>4, <3>1 DEF IteratesUpTo
      <3> QED
        BY <1>3, <3>1, <3>2
    <2>2. f[0] = 0
      BY <1>1, <1>4 DEF IteratesUpTo
    <2> QED
      BY <2>1, <2>2
  <1>6. f = [k \in 0..m |-> IF k = 0 THEN 0 ELSE f[k - 1] + sizes[k]]
    <2>1. ASSUME NEW k \in 0..m, k # 0
          PROVE  f[k] = f[k - 1] + sizes[k]
      BY <1>1, <1>5, <2>1
    <2> QED
      BY <1>5, <2>1
  <1> DEFINE g == Offsets(sizes)
  <1>7. g = [k \in 0..m |-> IF k = 0 THEN 0 ELSE g[k - 1] + sizes[k]]
    BY <1>6 DEF m, Offsets
  <1> HIDE DEF g
  <1>8. /\ g[0] = 0
        /\ \A k \in 1..m : g[k] = g[k - 1] + sizes[k]
    BY <1>1, <1>7
  <1>9. g \in [0..m -> Nat]
    <2> DEFINE S == {k \in 0..m : g[k] \in Nat}
    <2>1. 0 \in S
      BY <1>1, <1>8
    <2>2. ASSUME NEW k \in 0..(m - 1), k \in S
          PROVE  k + 1 \in S
      <3>1. k + 1 \in 1..m /\ (k + 1) - 1 = k /\ k + 1 \in 0..m
        BY <1>1
      <3>2. g[k + 1] = g[k] + sizes[k + 1]
        BY <1>8, <3>1
      <3>3. g[k] \in Nat /\ sizes[k + 1] \in Nat
        BY <1>1, <2>2, <3>1
      <3> QED
        BY <3>1, <3>2, <3>3
    <2> HIDE DEF S
    <2>3. 0..m \subseteq S
      BY <1>1, <2>1, <2>2, InductionUpTo
    <2> QED
      BY <1>7, <2>3 DEF S
  <1> QED
    BY <1>8, <1>9 DEF Reaches, m, g

(* Where every size is positive, they grow.                                *)
LEMMA ReachesGrow ==
  ASSUME NEW sizes \in Seq(Nat \ {0}), NEW f, Reaches(f, sizes),
         NEW a \in Nat, NEW b \in Nat, a < b, b <= Len(sizes)
  PROVE  f[a] < f[b]
  <1> DEFINE n == Len(sizes) - a - 1
             S == {d \in 0..n : f[a] < f[a + d + 1]}
  <1>1. /\ n \in Nat /\ \A k \in 1..Len(sizes) : sizes[k] \in Nat \ {0}
        /\ \A k \in 0..Len(sizes) : f[k] \in Nat
        /\ \A k \in 1..Len(sizes) : f[k] = f[k - 1] + sizes[k]
    <2>1. Len(sizes) \in Nat /\ \A k \in 1..Len(sizes) : sizes[k] \in Nat \ {0}
      OBVIOUS
    <2>2. n \in Nat
      BY <2>1
    <2> QED
      BY <2>1, <2>2 DEF Reaches
  <1>2. 0 \in S
    <2>1. a \in 0..Len(sizes) /\ a + 1 \in 1..Len(sizes) /\ (a + 1) - 1 = a /\ a + 0 + 1 = a + 1
      OBVIOUS
    <2>2. f[a + 1] = f[a] + sizes[a + 1]
      BY <1>1, <2>1
    <2> QED
      BY <1>1, <2>1, <2>2
  <1>3. ASSUME NEW d \in 0..(n - 1), d \in S
        PROVE  d + 1 \in S
    <2>1. /\ a + (d + 1) + 1 \in 1..Len(sizes) /\ a + d + 1 \in 0..Len(sizes)
          /\ (a + (d + 1) + 1) - 1 = a + d + 1 /\ a \in 0..Len(sizes)
      BY <1>1
    <2>2. f[a + (d + 1) + 1] = f[a + d + 1] + sizes[a + (d + 1) + 1]
      BY <1>1, <2>1
    <2>3. /\ f[a] \in Nat /\ f[a + d + 1] \in Nat
          /\ sizes[a + (d + 1) + 1] \in Nat \ {0} /\ f[a] < f[a + d + 1]
      BY <1>1, <1>3, <2>1
    <2>4. f[a] < f[a + (d + 1) + 1]
      BY <2>2, <2>3
    <2>5. d + 1 \in 0..n
      BY <1>1
    <2> QED
      BY <2>4, <2>5
  <1> HIDE DEF S
  <1>4. 0..n \subseteq S
    BY <1>1, <1>2, <1>3, InductionUpTo
  <1>5. b - a - 1 \in 0..n /\ a + (b - a - 1) + 1 = b
    OBVIOUS
  <1> QED
    BY <1>4, <1>5 DEF S
-----------------------------------------------------------------------------
(* Every mip has bytes.                                                    *)
LEMMA AtLeastOne ==
  ASSUME NEW n \in Nat
  PROVE  Max({n, 1}) \in Nat \ {0}
  <1>1. \E x \in {n, 1} : \A y \in {n, 1} : x >= y
    BY SMT
  <1>2. /\ Max({n, 1}) \in {n, 1}
        /\ \A y \in {n, 1} : Max({n, 1}) >= y
    BY <1>1 DEF Max
  <1> QED
    BY <1>2

LEMMA HalvesAre ==
  ASSUME NEW dimension \in Nat, NEW m \in Nat
  PROVE  Halved(dimension, m) \in Nat
  <1> DEFINE step == [x \in Nat \X Nat |-> x[2] \div 2]
  <1>1. step \in [Nat \X Nat -> Nat]
    <2>1. ASSUME NEW n \in Nat
          PROVE  n \div 2 \in Nat
      OBVIOUS
    <2> QED
      BY <2>1
  <1>2. ASSUME NEW k \in Nat, NEW v \in Nat
        PROVE  step[<<k, v>>] = v \div 2
    OBVIOUS
  <1> HIDE DEF step
  <1>3. PICK f \in [0..m -> Nat] : IteratesUpTo(f, m, dimension, step)
    BY <1>1, RecursionUpTo, Zenon
  <1>4. f = [k \in 0..m |-> IF k = 0 THEN dimension ELSE f[k - 1] \div 2]
    <2>1. ASSUME NEW k \in 0..m, k # 0
          PROVE  f[k] = f[k - 1] \div 2
      <3>1. k - 1 \in 0..m /\ k - 1 \in Nat
        BY <2>1
      <3>2. f[k] = step[<<k - 1, f[k - 1]>>]
        BY <1>3, <2>1 DEF IteratesUpTo
      <3> QED
        BY <1>2, <3>1, <3>2
    <2>2. f[0] = dimension
      BY <1>3 DEF IteratesUpTo
    <2> QED
      BY <2>1, <2>2
  <1> DEFINE half == CHOOSE g : g = [k \in 0..m |->
                       IF k = 0 THEN dimension ELSE g[k - 1] \div 2]
  <1>5. half = [k \in 0..m |-> IF k = 0 THEN dimension ELSE half[k - 1] \div 2]
    BY <1>4
  <1>6. Halved(dimension, m) = half[m]
    BY DEF Halved
  <1> HIDE DEF half
  <1> DEFINE S == {k \in 0..m : half[k] \in Nat}
  <1>7. 0 \in S
    BY <1>5
  <1>8. ASSUME NEW k \in 0..(m - 1), k \in S
        PROVE  k + 1 \in S
    <2>1. k + 1 \in 0..m /\ k + 1 # 0 /\ (k + 1) - 1 = k /\ half[k] \in Nat
      BY <1>8
    <2>2. half[k + 1] = half[k] \div 2
      BY <1>5, <2>1
    <2>3. half[k] \div 2 \in Nat
      BY <2>1
    <2> QED
      BY <2>1, <2>2, <2>3
  <1> HIDE DEF S
  <1>9. 0..m \subseteq S
    BY <1>7, <1>8, InductionUpTo
  <1> QED
    BY <1>6, <1>9 DEF S

LEMMA ProductPositive ==
  ASSUME NEW a \in Nat \ {0}, NEW b \in Nat \ {0}
  PROVE  a * b \in Nat \ {0}
  BY SMTT(30)

LEMMA CeilPositive ==
  ASSUME NEW n \in Nat \ {0}, NEW d \in Nat \ {0}
  PROVE  CeilDiv(n, d) \in Nat \ {0}
  <1>1. n + d - 1 \in Nat /\ d * 1 <= n + d - 1 /\ 1 \in Nat
    OBVIOUS
  <1>2. 1 <= (n + d - 1) \div d
    BY <1>1, DivAtLeast
  <1>3. (n + d - 1) \div d \in Int
    BY <1>1, ModDivision
  <1> QED
    BY <1>2, <1>3 DEF CeilDiv

LEMMA MipHasBytes ==
  ASSUME NEW width \in Nat \ {0}, NEW height \in Nat \ {0}, NEW dxgi, Sized(dxgi)
  PROVE  mip_size(width, height, dxgi) \in Nat \ {0}
  <1>1. block_bytes(dxgi) \in Nat /\ bits_per_pixel(dxgi) \in Nat
    BY DEF block_bytes, bits_per_pixel
  <1>2. CASE block_bytes(dxgi) # 0
    <2>1. AcrossBlocks(width) \in Nat \ {0} /\ AcrossBlocks(height) \in Nat \ {0}
      <3>1. 4 \in Nat \ {0}
        OBVIOUS
      <3>2. CeilDiv(width, 4) \in Nat /\ CeilDiv(height, 4) \in Nat
        BY <3>1, CeilPositive
      <3> QED
        BY <3>2, AtLeastOne DEF AcrossBlocks
    <2>2. AcrossBlocks(width) * AcrossBlocks(height) \in Nat \ {0}
      BY <2>1, ProductPositive
    <2>3. block_bytes(dxgi) \in Nat \ {0}
      BY <1>1, <1>2
    <2>4. AcrossBlocks(width) * AcrossBlocks(height) * block_bytes(dxgi)
            \in Nat \ {0}
      BY <2>2, <2>3, ProductPositive
    <2> QED
      BY <1>2, <2>4 DEF mip_size
  <1>3. CASE block_bytes(dxgi) = 0
    <2>1. bits_per_pixel(dxgi) \in Nat \ {0}
      BY <1>1, <1>3 DEF Sized
    <2>2. width * bits_per_pixel(dxgi) \in Nat \ {0} /\ 8 \in Nat \ {0}
      BY <2>1, ProductPositive
    <2>3. CeilDiv(width * bits_per_pixel(dxgi), 8) \in Nat \ {0}
      BY <2>2, CeilPositive
    <2>4. CeilDiv(width * bits_per_pixel(dxgi), 8) * height \in Nat \ {0}
      BY <2>3, ProductPositive
    <2> QED
      BY <1>3, <2>4 DEF mip_size
  <1> QED
    BY <1>2, <1>3

LEMMA SizesArePositive ==
  ASSUME NEW texture, Whole(texture)
  PROVE  /\ SizesOf(texture) \in Seq(Nat \ {0})
         /\ Len(SizesOf(texture)) = texture.mip_count
         /\ Threshold(texture.dxgi) \in Nat \ {0}
  <1> DEFINE n == texture.mip_count
             Size(m) == mip_size(MipDimension(texture.width, m - 1),
                                 MipDimension(texture.height, m - 1),
                                 texture.dxgi)
  <1>1. /\ texture.width \in Nat /\ texture.height \in Nat
        /\ n \in Nat /\ Sized(texture.dxgi)
    BY DEF Whole
  <1>2. ASSUME NEW m \in 1..n
        PROVE  Size(m) \in Nat \ {0}
    <2>1. m - 1 \in Nat
      BY <1>1
    <2>2. /\ MipDimension(texture.width, m - 1) \in Nat \ {0}
          /\ MipDimension(texture.height, m - 1) \in Nat \ {0}
      BY <1>1, <2>1, HalvesAre, AtLeastOne DEF MipDimension
    <2> QED
      BY <1>1, <2>2, MipHasBytes
  <1>3. SizesOf(texture) = [m \in 1..n |-> Size(m)]
    BY DEF SizesOf, MipSizes
  <1> HIDE DEF Size, n
  <1>4. SizesOf(texture) \in Seq(Nat \ {0}) /\ Len(SizesOf(texture)) = n
    BY <1>1, <1>2, <1>3
  <1>5. MIP_CHUNK_DIM \in Nat \ {0}
    BY DEF MIP_CHUNK_DIM
  <1>6. Threshold(texture.dxgi) \in Nat \ {0}
    BY <1>1, <1>5, MipHasBytes DEF Threshold
  <1> QED
    BY <1>4, <1>6 DEF n
-----------------------------------------------------------------------------
(* A split as split_chunks keeps it.                                       *)
IsSplit(s) ==
  s = [start |-> s.start, size |-> s.size, ranges |-> s.ranges, full |-> s.full]

(* The three ways a round ends: the chunks are all there, the mip joins    *)
(* the chunk, or it begins another.                                        *)
Grown(s, size) ==
  [start |-> s.start, size |-> s.size + size, ranges |-> s.ranges,
   full |-> s.full]
Begun(s, m, size) ==
  [start |-> m, size |-> size, ranges |-> Append(s.ranges, <<s.start, m - 1>>),
   full |-> Len(s.ranges) + 1 = 3]
Joins(s, size, threshold) == s.size = 0 \/ s.size + size < threshold

LEMMA NextMipCases ==
  ASSUME NEW s, IsSplit(s), NEW m, NEW size, NEW threshold
  PROVE  /\ s.full => NextMip(s, m, size, threshold) = s
         /\ ~s.full /\ Joins(s, size, threshold) =>
              NextMip(s, m, size, threshold) = Grown(s, size)
         /\ ~s.full /\ ~Joins(s, size, threshold) =>
              NextMip(s, m, size, threshold) = Begun(s, m, size)
  <1>1. PICK a, b, c, d : s = [start |-> a, size |-> b, ranges |-> c, full |-> d]
    BY Zenon DEF IsSplit
  <1>2. s.start = a /\ s.size = b /\ s.ranges = c /\ s.full = d
    BY <1>1
  <1>3. [s EXCEPT !.size = s.size + size] = Grown(s, size)
    BY <1>1 DEF Grown
  <1>4. MAX_DX10_CHUNKS - 1 = 3
    BY DEF MAX_DX10_CHUNKS
  <1>5. CASE s.full
    BY <1>5 DEF NextMip
  <1>6. CASE ~s.full /\ Joins(s, size, threshold)
    BY <1>3, <1>6 DEF NextMip, Joins
  <1>7. CASE ~s.full /\ ~Joins(s, size, threshold)
    BY <1>4, <1>7 DEF NextMip, Begun, Joins
  <1> QED
    BY <1>5, <1>6, <1>7

(* Ranges of mips, one behind the other, and what comes behind them.       *)
Contiguous(ranges, start) ==
  /\ ranges \in Seq(Nat \X Nat)
  /\ ranges = << >> => start = 0
  /\ ranges # << >> => /\ ranges[1][1] = 0
                       /\ start = ranges[Len(ranges)][2] + 1
  /\ \A j \in 1..(Len(ranges) - 1) : ranges[j + 1][1] = ranges[j][2] + 1

LEMMA AppendIs ==
  ASSUME NEW ranges \in Seq(Nat \X Nat), NEW last \in Nat \X Nat
  PROVE  /\ Append(ranges, last) \in Seq(Nat \X Nat)
         /\ Len(Append(ranges, last)) = Len(ranges) + 1
         /\ Append(ranges, last)[Len(ranges) + 1] = last
         /\ \A j \in 1..Len(ranges) : Append(ranges, last)[j] = ranges[j]
         /\ Append(ranges, last) # << >>
  OBVIOUS

LEMMA ContiguousGrows ==
  ASSUME NEW ranges, NEW start \in Nat, Contiguous(ranges, start),
         NEW m \in Nat \ {0}
  PROVE  Contiguous(Append(ranges, <<start, m - 1>>), m)
  <1> DEFINE n == Len(ranges)
             last == <<start, m - 1>>
             longer == Append(ranges, last)
  <1>1. last \in Nat \X Nat /\ last[1] = start /\ last[2] + 1 = m
    OBVIOUS
  <1>2. ranges \in Seq(Nat \X Nat) /\ n \in Nat
    BY DEF Contiguous
  <1> HIDE DEF last
  <1>3. /\ longer \in Seq(Nat \X Nat) /\ Len(longer) = n + 1
        /\ longer[n + 1] = last /\ longer # << >>
        /\ \A j \in 1..n : longer[j] = ranges[j]
    <2> HIDE DEF longer, n
    <2>1. /\ Append(ranges, last) \in Seq(Nat \X Nat)
          /\ Len(Append(ranges, last)) = Len(ranges) + 1
          /\ Append(ranges, last)[Len(ranges) + 1] = last
          /\ \A j \in 1..Len(ranges) : Append(ranges, last)[j] = ranges[j]
          /\ Append(ranges, last) # << >>
      BY <1>1, <1>2, AppendIs
    <2> QED
      BY <2>1, Zenon DEF longer, n
  <1>4. ranges = << >> <=> n = 0
    BY <1>2
  <1>5. /\ n = 0 => start = 0
        /\ n # 0 => ranges[1][1] = 0 /\ start = ranges[n][2] + 1
        /\ \A j \in 1..(n - 1) : ranges[j + 1][1] = ranges[j][2] + 1
    BY <1>4 DEF Contiguous
  <1> HIDE DEF longer, n
  <1>6. longer[1][1] = 0
    <2>1. CASE n = 0
      BY <1>1, <1>3, <1>5, <2>1
    <2>2. CASE n # 0
      <3>1. n \in Nat
        BY <1>2
      <3>2. 1 \in 1..n
        BY <2>2, <3>1
      <3>3. longer[1] = ranges[1]
        BY <1>3, <3>2, Zenon
      <3> QED
        BY <1>5, <2>2, <3>3, Zenon
    <2> QED
      BY <2>1, <2>2
  <1>7. m = longer[n + 1][2] + 1
    BY <1>1, <1>3
  <1>8. ASSUME NEW j \in 1..n
        PROVE  longer[j + 1][1] = longer[j][2] + 1
    <2>1. CASE j = n
      BY <1>1, <1>2, <1>3, <1>5, <2>1
    <2>2. CASE j # n
      <3>1. j \in 1..(n - 1) /\ j + 1 \in 1..n
        BY <1>2, <2>2
      <3> QED
        BY <1>3, <1>5, <3>1
    <2> QED
      BY <2>1, <2>2
  <1>9. 1..(Len(longer) - 1) = 1..n
    BY <1>2, <1>3
  <1>10. Contiguous(longer, m)
    BY <1>3, <1>6, <1>7, <1>8, <1>9 DEF Contiguous
  <1> QED
    BY <1>10 DEF longer, last

(* The rounds of split_chunks.                                             *)
LEMMA SplitsAre ==
  ASSUME NEW sizes \in Seq(Nat), NEW threshold \in Nat
  PROVE  /\ Splits(sizes, threshold)[0] = NewSplit
         /\ \A m \in 1..Len(sizes) :
              Splits(sizes, threshold)[m] =
                NextMip(Splits(sizes, threshold)[m - 1], m - 1, sizes[m], threshold)
  <1> DEFINE n == Len(sizes)
             Round(s, k) == NextMip(s, k - 1, sizes[k], threshold)
             Size == Nat
             Split == [start: Nat, size: Nat, ranges: Seq(Nat \X Int), full: BOOLEAN]
             step == [x \in Nat \X Split |->
                        IF x[1] < n THEN Round(x[2], x[1] + 1) ELSE NewSplit]
  <1>1. n \in Nat /\ \A k \in 1..n : sizes[k] \in Nat
    OBVIOUS
  <1>2. NewSplit \in Split
    BY DEF NewSplit
  <1>3. ASSUME NEW s \in Split, NEW k \in 1..n
        PROVE  Round(s, k) \in Split
    <2>1. /\ s.start \in Nat /\ s.size \in Nat /\ s.ranges \in Seq(Nat \X Int)
          /\ s.full \in BOOLEAN /\ sizes[k] \in Nat /\ k - 1 \in Nat
          /\ k - 1 - 1 \in Int
      BY <1>1
    <2>2. Append(s.ranges, <<s.start, k - 1 - 1>>) \in Seq(Nat \X Int)
      BY <2>1
    <2>3. Grown(s, sizes[k]) \in Split
      BY <2>1 DEF Grown
    <2>4. Begun(s, k - 1, sizes[k]) \in Split
      BY <2>1, <2>2 DEF Begun
    <2>5. IsSplit(s)
      BY DEF IsSplit
    <2> HIDE DEF Split
    <2> QED
      BY <2>3, <2>4, <2>5, NextMipCases
  <1>4. step \in [Nat \X Split -> Split]
    <2>1. ASSUME NEW x \in Nat \X Split, x[1] < n
          PROVE  Round(x[2], x[1] + 1) \in Split
      <3>1. x[1] + 1 \in 1..n /\ x[2] \in Split
        BY <1>1, <2>1
      <3> HIDE DEF Round, Split
      <3> QED
        BY <1>3, <3>1
    <2> HIDE DEF Round, Split
    <2> QED
      BY <1>2, <2>1
  <1>5. ASSUME NEW k \in 1..n, NEW s \in Split
        PROVE  step[<<k - 1, s>>] = Round(s, k)
    <2>1. k - 1 \in Nat /\ k - 1 < n /\ (k - 1) + 1 = k
      BY <1>1
    <2> HIDE DEF Round, Split
    <2> QED
      BY <2>1
  <1> HIDE DEF step, Round, Split, n
  <1>6. PICK f \in [0..n -> Split] : IteratesUpTo(f, n, NewSplit, step)
    BY <1>1, <1>2, <1>4, RecursionUpTo, Zenon
  <1>7. f = [m \in 0..n |-> IF m = 0 THEN NewSplit ELSE Round(f[m - 1], m)]
    <2>1. ASSUME NEW k \in 0..n, k # 0
          PROVE  f[k] = Round(f[k - 1], k)
      <3>1. k \in 1..n /\ f[k - 1] \in Split
        BY <1>1, <2>1
      <3>2. f[k] = step[<<k - 1, f[k - 1]>>]
        BY <1>6, <2>1 DEF IteratesUpTo
      <3> QED
        BY <1>5, <3>1, <3>2
    <2>2. f[0] = NewSplit
      BY <1>1, <1>6 DEF IteratesUpTo
    <2> QED
      BY <2>1, <2>2
  <1> DEFINE g == Splits(sizes, threshold)
  <1>8. g = [m \in 0..n |-> IF m = 0 THEN NewSplit ELSE Round(g[m - 1], m)]
    BY <1>7 DEF Splits, Round, n
  <1> HIDE DEF g
  <1>9. /\ g[0] = NewSplit
        /\ \A m \in 1..n : g[m] = Round(g[m - 1], m)
    BY <1>1, <1>8
  <1> QED
    BY <1>9 DEF g, Round, n

(* A chunk that was closed before the last mip: it was full.               *)
Closed(range, offsets, sizes, threshold) ==
  LET size == offsets[range[2] + 1] - offsets[range[1]]
  IN /\ range[1] <= range[2] /\ range[2] + 1 < Len(sizes)
     /\ size + sizes[range[2] + 2] >= threshold
     /\ range[1] = range[2] \/ size < threshold

(* Where split_chunks is after m rounds.                                   *)
SplitAfter(s, m, offsets, sizes, threshold) ==
  /\ IsSplit(s)
  /\ Contiguous(s.ranges, s.start) /\ s.start \in 0..(m - 1)
  /\ \A j \in 1..Len(s.ranges) : Closed(s.ranges[j], offsets, sizes, threshold)
  /\ Len(s.ranges) <= 3 /\ (s.full <=> Len(s.ranges) = 3)
  /\ ~s.full => /\ s.size = offsets[m] - offsets[s.start]
                /\ s.start = m - 1 \/ s.size < threshold

LEMMA FirstRound ==
  ASSUME NEW sizes \in Seq(Nat \ {0}), sizes # << >>, NEW threshold \in Nat,
         NEW offsets, Reaches(offsets, sizes)
  PROVE  SplitAfter(NextMip(NewSplit, 0, sizes[1], threshold), 1, offsets, sizes, threshold)
  <1> DEFINE s == NextMip(NewSplit, 0, sizes[1], threshold)
  <1>1. /\ sizes[1] \in Nat /\ 0 + sizes[1] = sizes[1]
        /\ sizes[1] = offsets[1] - offsets[0]
    <2>1. 1 \in 1..Len(sizes) /\ 1 - 1 = 0 /\ sizes[1] \in Nat
      OBVIOUS
    <2>2. offsets[1] = offsets[1 - 1] + sizes[1] /\ offsets[0] = 0
      BY <2>1 DEF Reaches
    <2> QED
      BY <2>1, <2>2
  <1>2. /\ NewSplit.start = 0 /\ NewSplit.size = 0 /\ NewSplit.ranges = << >>
        /\ NewSplit.full = FALSE /\ IsSplit(NewSplit)
    BY DEF NewSplit, IsSplit
  <1>3. s = Grown(NewSplit, sizes[1])
    BY <1>2, NextMipCases DEF Joins
  <1> HIDE DEF s
  <1>4. s = [start |-> 0, size |-> sizes[1], ranges |-> << >>, full |-> FALSE]
    BY <1>1, <1>2, <1>3, Zenon DEF Grown
  <1>5. /\ s.start = 0 /\ s.size = sizes[1] /\ s.ranges = << >> /\ s.full = FALSE
        /\ IsSplit(s)
    BY <1>4 DEF IsSplit
  <1>6. /\ Len(s.ranges) = 0 /\ 0 # 3 /\ 0 <= 3 /\ 0 \in 0..(1 - 1) /\ 0 = 1 - 1
        /\ 1..0 = {}
    BY <1>5
  <1>7. Contiguous(s.ranges, s.start)
    <2>1. s.ranges \in Seq(Nat \X Nat) /\ 1..(Len(s.ranges) - 1) = {}
      BY <1>5
    <2> QED
      BY <1>5, <2>1, Zenon DEF Contiguous
  <1>8. SplitAfter(s, 1, offsets, sizes, threshold)
    BY <1>1, <1>5, <1>6, <1>7, Zenon DEF SplitAfter
  <1> QED
    BY <1>8 DEF s

LEMMA NextRound ==
  ASSUME NEW sizes \in Seq(Nat \ {0}), NEW threshold \in Nat,
         NEW offsets, Reaches(offsets, sizes),
         NEW m \in 1..(Len(sizes) - 1), NEW s,
         SplitAfter(s, m, offsets, sizes, threshold)
  PROVE  SplitAfter(NextMip(s, m, sizes[m + 1], threshold), m + 1,
                    offsets, sizes, threshold)
  <1> DEFINE size == sizes[m + 1]
             n == Len(s.ranges)
  <1>1. /\ IsSplit(s) /\ s.ranges \in Seq(Nat \X Nat) /\ n \in Nat
        /\ Contiguous(s.ranges, s.start) /\ s.start \in 0..(m - 1)
        /\ \A j \in 1..n : Closed(s.ranges[j], offsets, sizes, threshold)
        /\ n <= 3 /\ (s.full <=> n = 3)
    BY DEF SplitAfter, Contiguous
  <1> HIDE DEF n
  <1>2. /\ Len(sizes) \in Nat /\ m \in Nat \ {0} /\ m + 1 \in 1..Len(sizes)
        /\ size \in Nat \ {0} /\ (m + 1) - 1 = m
        /\ m \in 0..Len(sizes) /\ s.start \in 0..Len(sizes) /\ s.start \in Nat
        /\ s.start < m /\ s.start \in 0..m
    <2>1. /\ Len(sizes) \in Nat /\ m \in Nat \ {0} /\ m + 1 \in 1..Len(sizes)
          /\ (m + 1) - 1 = m /\ m \in 0..Len(sizes)
      OBVIOUS
    <2>2. size \in Nat \ {0}
      BY <2>1
    <2>3. /\ s.start \in 0..Len(sizes) /\ s.start \in Nat
          /\ s.start < m /\ s.start \in 0..m
      <3>1. s.start \in 0..(m - 1)
        BY <1>1
      <3> DEFINE x == s.start
                 l == Len(sizes)
      <3>2. x \in 0..(m - 1) /\ m \in 0..l /\ l \in Nat
        BY <2>1, <3>1
      <3> HIDE DEF x, l
      <3>3. x \in 0..l /\ x \in Nat /\ x < m /\ x \in 0..m
        BY <3>2
      <3> QED
        BY <3>3 DEF x, l
    <2> HIDE DEF size
    <2> QED
      BY <2>1, <2>2, <2>3
  <1>3. /\ offsets[m + 1] = offsets[m] + size
        /\ offsets[m] \in Nat /\ offsets[s.start] \in Nat
    BY <1>2 DEF Reaches
  <1>4. offsets[s.start] < offsets[m]
    BY <1>2, ReachesGrow
  <1>5. CASE s.full
    <2>1. NextMip(s, m, size, threshold) = s
      BY <1>1, <1>5, NextMipCases
    <2>2. SplitAfter(s, m + 1, offsets, sizes, threshold)
      BY <1>1, <1>2, <1>5, Zenon DEF SplitAfter, n
    <2> QED
      BY <2>1, <2>2
  <1>6. ~s.full => /\ s.size = offsets[m] - offsets[s.start]
                   /\ s.start = m - 1 \/ s.size < threshold
    BY DEF SplitAfter
  <1> HIDE DEF size
  <1>7. CASE ~s.full /\ Joins(s, size, threshold)
    <2> DEFINE t == Grown(s, size)
    <2>1. NextMip(s, m, size, threshold) = t
      BY <1>1, <1>7, NextMipCases
    <2>2. /\ t.start = s.start /\ t.size = s.size + size
          /\ t.ranges = s.ranges /\ t.full = s.full /\ IsSplit(t)
      BY DEF Grown, IsSplit
    <2> HIDE DEF t
    <2>3. /\ t.size = offsets[m + 1] - offsets[s.start]
          /\ t.size < threshold
      <3> DEFINE a == offsets[s.start]
                 b == offsets[m]
      <3>1. /\ a \in Nat /\ b \in Nat /\ a < b /\ size \in Nat
            /\ offsets[m + 1] = b + size
        BY <1>2, <1>3, <1>4
      <3>2. /\ s.size = b - a /\ t.size = s.size + size
            /\ s.size = 0 \/ s.size + size < threshold
        BY <1>6, <1>7, <2>2, Zenon DEF Joins
      <3> HIDE DEF a, b
      <3>3. t.size = (b + size) - a
        BY <3>1, <3>2
      <3>4. s.size # 0
        BY <3>1, <3>2
      <3>5. t.size < threshold
        BY <3>2, <3>4, Zenon
      <3> QED
        BY <3>1, <3>3, <3>5, Zenon DEF a
    <2>4. SplitAfter(t, m + 1, offsets, sizes, threshold)
      BY <1>1, <1>2, <2>2, <2>3, Zenon DEF SplitAfter, n
    <2> QED
      BY <2>1, <2>4 DEF size
  <1>8. CASE ~s.full /\ ~Joins(s, size, threshold)
    <2> DEFINE t == Begun(s, m, size)
               last == <<s.start, m - 1>>
    <2>1. NextMip(s, m, size, threshold) = t
      BY <1>1, <1>8, NextMipCases
    <2>2. /\ t.start = m /\ t.size = size /\ t.ranges = Append(s.ranges, last)
          /\ (t.full <=> n + 1 = 3) /\ IsSplit(t)
      BY DEF Begun, IsSplit, n
    <2> HIDE DEF t
    <2>3. last \in Nat \X Nat /\ last[1] = s.start /\ last[2] = m - 1
      BY <1>2
    <2>4. Contiguous(t.ranges, m)
      <3>1. Contiguous(Append(s.ranges, <<s.start, m - 1>>), m)
        BY <1>1, <1>2, ContiguousGrows
      <3> QED
        BY <2>2, <3>1, Zenon
    <2> HIDE DEF last
    <2>5. Closed(last, offsets, sizes, threshold)
      <3>1. /\ (m - 1) + 1 = m /\ (m - 1) + 2 = m + 1 /\ s.start <= m - 1
            /\ m < Len(sizes)
        BY <1>2
      <3>2. s.size + size >= threshold
        <4> DEFINE a == offsets[s.start]
                   b == offsets[m]
        <4>1. ~(s.size + size < threshold) /\ s.size = b - a
          BY <1>6, <1>8, Zenon DEF Joins
        <4>2. a \in Nat /\ b \in Nat /\ size \in Nat
          BY <1>2, <1>3
        <4> HIDE DEF a, b
        <4> QED
          BY <4>1, <4>2
      <3> QED
        BY <1>6, <1>8, <2>3, <3>1, <3>2 DEF Closed, size
    <2>6. /\ Len(t.ranges) = n + 1 /\ t.ranges[n + 1] = last
          /\ \A j \in 1..n : t.ranges[j] = s.ranges[j]
      <3> DEFINE longer == Append(s.ranges, last)
      <3>1. last \in Nat \X Nat /\ s.ranges \in Seq(Nat \X Nat)
        BY <1>1, <2>3
      <3>2. /\ Len(longer) = Len(s.ranges) + 1 /\ longer[Len(s.ranges) + 1] = last
            /\ \A j \in 1..Len(s.ranges) : longer[j] = s.ranges[j]
        BY <3>1, AppendIs
      <3> QED
        BY <2>2, <3>2, Zenon DEF n
    <2>7. ASSUME NEW j \in 1..(n + 1)
          PROVE  Closed(t.ranges[j], offsets, sizes, threshold)
      <3>1. j \in 1..n \/ j = n + 1
        BY <1>1
      <3> QED
        BY <1>1, <2>5, <2>6, <3>1
    <2>8. n + 1 <= 3
      BY <1>1, <1>8
    <2>9. m \in 0..m /\ size = offsets[m + 1] - offsets[m]
      BY <1>2, <1>3
    <2>10. SplitAfter(t, m + 1, offsets, sizes, threshold)
      BY <1>2, <2>2, <2>4, <2>6, <2>7, <2>8, <2>9, Zenon DEF SplitAfter
    <2> QED
      BY <2>1, <2>10 DEF size
  <1> QED
    BY <1>5, <1>7, <1>8, Zenon

(* Where it is when there are no more mips.                                *)
LEMMA AllRounds ==
  ASSUME NEW sizes \in Seq(Nat \ {0}), sizes # << >>, NEW threshold \in Nat,
         NEW offsets, Reaches(offsets, sizes)
  PROVE  SplitAfter(Splits(sizes, threshold)[Len(sizes)], Len(sizes),
                    offsets, sizes, threshold)
  <1> DEFINE g == Splits(sizes, threshold)
             n == Len(sizes)
             Good(m) == SplitAfter(g[m], m, offsets, sizes, threshold)
             S == {d \in 0..(n - 1) : Good(d + 1)}
  <1>1. n \in Nat \ {0} /\ sizes \in Seq(Nat)
    OBVIOUS
  <1>2. /\ g[0] = NewSplit
        /\ \A m \in 1..n : g[m] = NextMip(g[m - 1], m - 1, sizes[m], threshold)
    BY <1>1, SplitsAre
  <1> HIDE DEF g, n
  <1>3. 0 \in S
    <2>1. g[1] = NextMip(NewSplit, 0, sizes[1], threshold)
      <3>1. 1 \in 1..n /\ 1 - 1 = 0
        BY <1>1
      <3> QED
        BY <1>2, <3>1
    <2>2. Good(1)
      BY <2>1, FirstRound
    <2>3. 0 + 1 = 1 /\ 0 \in 0..(n - 1)
      BY <1>1
    <2> HIDE DEF Good
    <2> QED
      BY <2>2, <2>3
  <1>4. ASSUME NEW d \in 0..((n - 1) - 1), d \in S
        PROVE  d + 1 \in S
    <2>1. /\ d + 1 \in 1..(n - 1) /\ (d + 1) + 1 \in 1..n
          /\ ((d + 1) + 1) - 1 = d + 1 /\ d + 1 \in 0..(n - 1)
      BY <1>1
    <2>2. g[(d + 1) + 1] = NextMip(g[d + 1], d + 1, sizes[(d + 1) + 1], threshold)
      BY <1>2, <2>1
    <2>3. Good(d + 1)
      BY <1>4
    <2>4. Good((d + 1) + 1)
      BY <2>1, <2>2, <2>3, NextRound DEF n
    <2> HIDE DEF Good
    <2> QED
      BY <2>1, <2>4
  <1> HIDE DEF S
  <1>5. 0..(n - 1) \subseteq S
    <2>1. n - 1 \in Nat
      BY <1>1
    <2> QED
      BY <1>3, <1>4, <2>1, InductionUpTo
  <1>6. n - 1 \in 0..(n - 1) /\ (n - 1) + 1 = n
    BY <1>1
  <1>7. Good(n)
    <2> HIDE DEF Good
    <2> QED
      BY <1>5, <1>6 DEF S
  <1> QED
    BY <1>7 DEF g, n
-----------------------------------------------------------------------------
(* What split_chunks makes of the last round.                              *)
LEMMA CubemapIsWhole ==
  ASSUME NEW texture, Whole(texture), texture.cubemap
  PROVE  Partition(texture, split_chunks(texture))
  <1> DEFINE chunk == [start_mip |-> 0, end_mip |-> texture.mip_count - 1,
                       data |-> texture.data]
             chunks == <<chunk>>
  <1>1. split_chunks(texture) = chunks
    BY DEF split_chunks
  <1>2. /\ chunk.start_mip = 0 /\ chunk.end_mip = texture.mip_count - 1
        /\ chunk.data = texture.data
        /\ Len(chunks) = 1 /\ chunks[1] = chunk
    OBVIOUS
  <1>3. /\ 0 <= texture.mip_count - 1 /\ 1 \in 1..4 /\ MAX_DX10_CHUNKS = 4
        /\ 1..(1 - 1) = {} /\ 1..1 = {1}
    BY DEF Whole, MAX_DX10_CHUNKS
  <1> HIDE DEF chunk, chunks
  <1>4. /\ Len(chunks) \in 1..MAX_DX10_CHUNKS
        /\ \A j \in 1..(Len(chunks) - 1) : FALSE
        /\ \A j \in 1..Len(chunks) : chunks[j] = chunk
    BY <1>2, <1>3
  <1>5. chunks[Len(chunks)] = chunk /\ chunk.data.of = texture.data.of
    BY <1>2
  <1>6. /\ chunks[1].data.from = texture.data.from
        /\ chunks[Len(chunks)].data.from + chunks[Len(chunks)].data.size
             = texture.data.from + texture.data.size
    BY <1>2, <1>5
  <1>7. /\ chunks[1].start_mip = 0
        /\ chunks[Len(chunks)].end_mip = texture.mip_count - 1
        /\ \A j \in 1..Len(chunks) :
             /\ chunks[j].data.of = texture.data.of
             /\ chunks[j].start_mip <= chunks[j].end_mip
    BY <1>2, <1>3, <1>4, <1>5
  <1>8. Partition(texture, chunks)
    BY <1>2, <1>4, <1>6, <1>7, Zenon DEF Partition
  <1> QED
    BY <1>1, <1>8

(* The ranges split_chunks returns.                                        *)
RangesOf(ranges, offsets, sizes, threshold) ==
  /\ Contiguous(ranges, Len(sizes))
  /\ Len(ranges) \in 1..4
  /\ \A j \in 1..Len(ranges) :
       ranges[j][1] <= ranges[j][2] /\ ranges[j][2] < Len(sizes)
  /\ \A j \in 1..(Len(ranges) - 1) :
       Closed(ranges[j], offsets, sizes, threshold)
  /\ \/ Len(ranges) = 4
     \/ LET last == ranges[Len(ranges)]
        IN \/ last[1] = last[2]
           \/ offsets[last[2] + 1] - offsets[last[1]] < threshold

LEMMA LastRound ==
  ASSUME NEW texture, Whole(texture)
  PROVE  RangesOf(MipRanges(texture), Offsets(SizesOf(texture)),
                  SizesOf(texture), Threshold(texture.dxgi))
  <1> DEFINE sizes == SizesOf(texture)
             threshold == Threshold(texture.dxgi)
             offsets == Offsets(sizes)
             k == texture.mip_count
             s == Splits(sizes, threshold)[k]
             n == Len(s.ranges)
             last == <<s.start, k - 1>>
             ranges == Append(s.ranges, last)
  <1>1. /\ sizes \in Seq(Nat \ {0}) /\ Len(sizes) = k /\ threshold \in Nat
        /\ k \in Nat \ {0} /\ sizes # << >> /\ sizes \in Seq(Nat)
    <2>1. sizes \in Seq(Nat \ {0}) /\ Len(sizes) = k /\ threshold \in Nat
          /\ k \in Nat \ {0}
      BY SizesArePositive DEF Whole
    <2> HIDE DEF sizes, k
    <2> QED
      BY <2>1
  <1>2. MipRanges(texture) = ranges
    BY DEF MipRanges
  <1> HIDE DEF sizes, threshold, k
  <1>3. Reaches(offsets, sizes)
    BY <1>1, OffsetsReach
  <1> HIDE DEF offsets
  <1>4. SplitAfter(s, k, offsets, sizes, threshold)
    BY <1>1, <1>3, AllRounds
  <1> HIDE DEF s
  <1>5. /\ Contiguous(s.ranges, s.start) /\ s.start \in 0..(k - 1)
        /\ \A j \in 1..n : Closed(s.ranges[j], offsets, sizes, threshold)
        /\ n <= 3 /\ (s.full <=> n = 3)
        /\ ~s.full => /\ s.size = offsets[k] - offsets[s.start]
                      /\ s.start = k - 1 \/ s.size < threshold
    BY <1>4 DEF SplitAfter
  <1>6. /\ s.start \in Nat /\ s.ranges \in Seq(Nat \X Nat) /\ n \in Nat
        /\ s.start <= k - 1
    BY <1>1, <1>5 DEF Contiguous
  <1>7. Contiguous(ranges, Len(sizes))
    BY <1>1, <1>5, <1>6, ContiguousGrows
  <1>8. last \in Nat \X Nat /\ last[1] = s.start /\ last[2] = k - 1
    BY <1>1, <1>6
  <1> HIDE DEF last
  <1>9. /\ Len(ranges) = n + 1 /\ ranges[n + 1] = last
        /\ \A j \in 1..n : ranges[j] = s.ranges[j]
    BY <1>6, <1>8, AppendIs
  <1> HIDE DEF ranges, n
  <1>10. ASSUME NEW j \in 1..(n + 1)
         PROVE  ranges[j][1] <= ranges[j][2] /\ ranges[j][2] < Len(sizes)
    <2>1. CASE j \in 1..n
      <3>1. /\ Closed(s.ranges[j], offsets, sizes, threshold)
            /\ ranges[j] = s.ranges[j] /\ s.ranges[j] \in Nat \X Nat
        BY <1>5, <1>6, <1>9, <2>1 DEF n
      <3>2. /\ s.ranges[j][1] <= s.ranges[j][2]
            /\ s.ranges[j][2] + 1 < Len(sizes) /\ s.ranges[j][2] \in Nat
        BY <3>1 DEF Closed
      <3> QED
        BY <1>1, <3>1, <3>2
    <2>2. CASE j = n + 1
      BY <1>1, <1>6, <1>8, <1>9, <2>2
    <2> QED
      BY <1>6, <2>1, <2>2
  <1>11. ASSUME NEW j \in 1..((n + 1) - 1)
         PROVE  Closed(ranges[j], offsets, sizes, threshold)
    BY <1>5, <1>6, <1>9
  <1>12. \/ n + 1 = 4 \/ last[1] = last[2]
         \/ offsets[last[2] + 1] - offsets[last[1]] < threshold
    <2>1. (k - 1) + 1 = k
      BY <1>1
    <2>2. CASE s.full
      BY <1>5, <2>2
    <2>3. CASE ~s.full
      BY <1>5, <1>8, <2>1, <2>3
    <2> QED
      BY <2>2, <2>3
  <1>13. n + 1 \in 1..4
    BY <1>5, <1>6
  <1>14. RangesOf(ranges, offsets, sizes, threshold)
    BY <1>7, <1>9, <1>10, <1>11, <1>12, <1>13, Zenon DEF RangesOf
  <1> QED
    BY <1>2, <1>14 DEF sizes, threshold, offsets

LEMMA MipsArePartitioned ==
  ASSUME NEW texture, Whole(texture), ~texture.cubemap
  PROVE  Partition(texture, split_chunks(texture))
  <1> DEFINE sizes == SizesOf(texture)
             threshold == Threshold(texture.dxgi)
             offsets == Offsets(sizes)
             from == texture.data.from
             ranges == MipRanges(texture)
             n == Len(ranges)
             Chunk(i) == [start_mip |-> ranges[i][1], end_mip |-> ranges[i][2],
                          data |-> MipBytes(texture, ranges[i][1], ranges[i][2])]
             chunks == [i \in DOMAIN ranges |-> Chunk(i)]
             Begin(j) == offsets[ranges[j][1]]
             End(j) == offsets[ranges[j][2] + 1]
  <1>1. split_chunks(texture) = chunks
    BY DEF split_chunks
  <1>2. RangesOf(ranges, offsets, sizes, threshold)
    BY LastRound
  <1>3. /\ Contiguous(ranges, Len(sizes)) /\ ranges \in Seq(Nat \X Nat)
        /\ n \in 1..4
        /\ \A j \in 1..n : ranges[j][1] <= ranges[j][2] /\ ranges[j][2] < Len(sizes)
        /\ \A j \in 1..(n - 1) : Closed(ranges[j], offsets, sizes, threshold)
    BY <1>2, Zenon DEF RangesOf, Contiguous
  <1>4. \/ n = 4 \/ ranges[n][1] = ranges[n][2]
        \/ End(n) - Begin(n) < threshold
    BY <1>2, Zenon DEF RangesOf
  <1>5. DOMAIN chunks = 1..n /\ Len(chunks) = n
    <2>1. DOMAIN ranges = 1..n
      BY <1>3
    <2> HIDE DEF Chunk, ranges
    <2> QED
      BY <1>3, <2>1
  <1>6. ASSUME NEW j \in 1..n
        PROVE  /\ chunks[j].start_mip = ranges[j][1]
               /\ chunks[j].end_mip = ranges[j][2]
               /\ chunks[j].data.of = texture.data.of
               /\ chunks[j].data.from = from + Begin(j)
               /\ chunks[j].data.size = End(j) - Begin(j)
    <2> HIDE DEF ranges
    <2>1. chunks[j] = Chunk(j)
      BY <1>5
    <2> HIDE DEF chunks
    <2> QED
      BY <2>1 DEF MipBytes
  <1>7. /\ Reaches(offsets, sizes) /\ Len(sizes) = texture.mip_count
        /\ from \in Nat /\ texture.mip_count \in Nat \ {0}
    <2>1. sizes \in Seq(Nat)
      <3>1. sizes \in Seq(Nat \ {0})
        BY SizesArePositive
      <3> HIDE DEF sizes
      <3> QED
        BY <3>1
    <2> QED
      BY <2>1, OffsetsReach, SizesArePositive DEF Whole
  <1>8. texture.data.size = offsets[Len(sizes)]
    <2>1. offsets[Len(sizes)] \in Nat
      BY <1>7 DEF Reaches
    <2>2. Total(sizes) = offsets[Len(sizes)]
      BY DEF Total
    <2>3. texture.data.size = 1 * Total(sizes)
      BY DEF Whole, Cubemap
    <2> HIDE DEF offsets
    <2> QED
      BY <2>1, <2>2, <2>3
  <1> HIDE DEF chunks, ranges, offsets, threshold, from, n, sizes
  <1>9. /\ \A j \in 1..n : ranges[j] \in Nat \X Nat
        /\ 1 \in 1..n /\ n \in 1..n /\ n \in Nat /\ ranges # << >>
    <2>1. ranges \in Seq(Nat \X Nat) /\ Len(ranges) \in 1..4
      BY <1>3 DEF n
    <2>2. \A j \in 1..Len(ranges) : ranges[j] \in Nat \X Nat
      BY <2>1
    <2>3. /\ 1 \in 1..Len(ranges) /\ Len(ranges) \in 1..Len(ranges)
          /\ Len(ranges) \in Nat /\ Len(ranges) # 0
      BY <2>1
    <2>4. ranges # << >>
      BY <2>1, <2>3
    <2> QED
      BY <2>2, <2>3, <2>4 DEF n
  <1>10. /\ ranges[1][1] = 0 /\ Len(sizes) = ranges[n][2] + 1
         /\ \A j \in 1..(n - 1) : ranges[j + 1][1] = ranges[j][2] + 1
    BY <1>3, <1>9 DEF Contiguous, n
  <1>11. \A j \in 1..n : Begin(j) \in Nat /\ End(j) \in Nat
    <2> TAKE j \in 1..n
    <2>1. ranges[j][1] \in 0..Len(sizes) /\ ranges[j][2] + 1 \in 0..Len(sizes)
      <3> DEFINE first == ranges[j][1]
                 last == ranges[j][2]
      <3>1. first <= last /\ last < Len(sizes)
        BY <1>3, Zenon
      <3>2. first \in Nat /\ last \in Nat
        BY <1>9
      <3>3. Len(sizes) \in Nat
        BY <1>7
      <3> HIDE DEF first, last
      <3>4. first \in 0..Len(sizes) /\ last + 1 \in 0..Len(sizes)
        BY <3>1, <3>2, <3>3
      <3> QED
        BY <3>4 DEF first, last
    <2>2. offsets \in [0..Len(sizes) -> Nat]
      BY <1>7 DEF Reaches
    <2> QED
      BY <2>1, <2>2
  <1>12. ASSUME NEW j \in 1..n
         PROVE  chunks[j].data.from + chunks[j].data.size = from + End(j)
    <2>1. Begin(j) \in Nat /\ End(j) \in Nat /\ from \in Nat
      BY <1>7, <1>11
    <2>2. chunks[j].data.from = from + Begin(j) /\ chunks[j].data.size = End(j) - Begin(j)
      BY <1>6
    <2> HIDE DEF Begin, End
    <2> QED
      BY <2>1, <2>2
  <1>13. /\ chunks[1].start_mip = 0
         /\ chunks[n].end_mip = texture.mip_count - 1
         /\ chunks[1].data.from = from
         /\ chunks[n].data.from + chunks[n].data.size = from + texture.data.size
    <2>1. /\ chunks[1].start_mip = ranges[1][1]
          /\ chunks[1].data.from = from + Begin(1)
          /\ chunks[n].end_mip = ranges[n][2]
      BY <1>6, <1>9
    <2>2. Begin(1) = 0 /\ End(n) = texture.data.size
      BY <1>7, <1>8, <1>10 DEF Reaches
    <2>3. chunks[n].data.from + chunks[n].data.size = from + End(n)
      BY <1>9, <1>12
    <2>4. ranges[n][2] = texture.mip_count - 1
      BY <1>7, <1>9, <1>10
    <2> HIDE DEF Begin, End
    <2> QED
      BY <1>7, <1>10, <2>1, <2>2, <2>3, <2>4
  <1>14. ASSUME NEW j \in 1..(n - 1)
         PROVE  /\ chunks[j + 1].start_mip = chunks[j].end_mip + 1
                /\ chunks[j + 1].data.from
                     = chunks[j].data.from + chunks[j].data.size
                /\ chunks[j].data.size + sizes[chunks[j].end_mip + 2] >= threshold
    <2>1. j \in 1..n /\ j + 1 \in 1..n
      BY <1>9
    <2>2. ranges[j + 1][1] = ranges[j][2] + 1
      BY <1>10
    <2>3. Begin(j + 1) = End(j)
      BY <2>2
    <2>4. (End(j) - Begin(j)) + sizes[ranges[j][2] + 2] >= threshold
      BY <1>3 DEF Closed
    <2> HIDE DEF Begin, End
    <2> QED
      BY <1>6, <1>12, <2>1, <2>2, <2>3, <2>4
  <1>15. ASSUME NEW j \in 1..n
         PROVE  /\ chunks[j].data.of = texture.data.of
                /\ chunks[j].start_mip <= chunks[j].end_mip
                /\ \/ chunks[j].start_mip = chunks[j].end_mip
                   \/ chunks[j].data.size < threshold
                   \/ j = MAX_DX10_CHUNKS
    <2>1. /\ chunks[j].data.of = texture.data.of
          /\ chunks[j].start_mip = ranges[j][1] /\ chunks[j].end_mip = ranges[j][2]
          /\ chunks[j].data.size = End(j) - Begin(j)
          /\ ranges[j][1] <= ranges[j][2]
      BY <1>3, <1>6
    <2>2. CASE j \in 1..(n - 1)
      <3>1. \/ ranges[j][1] = ranges[j][2] \/ End(j) - Begin(j) < threshold
        BY <1>3, <2>2 DEF Closed
      <3> QED
        BY <2>1, <3>1
    <2>3. CASE j = n
      BY <1>4, <2>1, <2>3 DEF MAX_DX10_CHUNKS
    <2>4. j \in 1..(n - 1) \/ j = n
      BY <1>9
    <2> QED
      BY <2>2, <2>3, <2>4
  <1>16. n \in 1..MAX_DX10_CHUNKS
    BY <1>3 DEF MAX_DX10_CHUNKS
  <1>17. Partition(texture, chunks)
    BY <1>5, <1>13, <1>14, <1>15, <1>16, Zenon
       DEF Partition, sizes, threshold, from
  <1> QED
    BY <1>1, <1>17 DEF chunks, ranges

LEMMA ChunksArePartition ==
  ASSUME NEW texture, Whole(texture)
  PROVE  Partition(texture, split_chunks(texture))
  BY CubemapIsWhole, MipsArePartitioned
-----------------------------------------------------------------------------
(* Where some sizes may be 0, sums do not shrink.                          *)
LEMMA ReachesKeep ==
  ASSUME NEW sizes, NEW f, Reaches(f, sizes), Len(sizes) \in Nat,
         \A k \in 1..Len(sizes) : sizes[k] \in Nat,
         NEW a \in Nat, NEW b \in Nat, a <= b, b <= Len(sizes)
  PROVE  f[a] <= f[b]
  <1> DEFINE n == Len(sizes) - a
             S == {d \in 0..n : f[a] <= f[a + d]}
  <1>1. /\ n \in Nat
        /\ \A k \in 0..Len(sizes) : f[k] \in Nat
        /\ \A k \in 1..Len(sizes) : f[k] = f[k - 1] + sizes[k]
    BY DEF Reaches
  <1>2. 0 \in S
    <2>1. a + 0 = a /\ a \in 0..Len(sizes)
      OBVIOUS
    <2> QED
      BY <1>1, <2>1
  <1>3. ASSUME NEW d \in 0..(n - 1), d \in S
        PROVE  d + 1 \in S
    <2>1. /\ a + (d + 1) \in 1..Len(sizes) /\ a + d \in 0..Len(sizes)
          /\ (a + (d + 1)) - 1 = a + d /\ a \in 0..Len(sizes)
      BY <1>1
    <2>2. f[a + (d + 1)] = f[a + d] + sizes[a + (d + 1)]
      BY <1>1, <2>1
    <2>3. /\ f[a] \in Nat /\ f[a + d] \in Nat
          /\ sizes[a + (d + 1)] \in Nat /\ f[a] <= f[a + d]
      BY <1>1, <1>3, <2>1
    <2>4. f[a] <= f[a + (d + 1)]
      BY <2>2, <2>3
    <2>5. d + 1 \in 0..n
      BY <1>1
    <2> QED
      BY <2>4, <2>5
  <1> HIDE DEF S
  <1>4. 0..n \subseteq S
    BY <1>1, <1>2, <1>3, InductionUpTo
  <1>5. b - a \in 0..n /\ a + (b - a) = b
    OBVIOUS
  <1> QED
    BY <1>4, <1>5 DEF S

(* Fields of a file, and where Image puts those that have bytes.           *)
AreFields(fields) ==
  Listed(fields) /\ \A k \in 1..Len(fields) : fields[k].size \in Nat

Held(fields) == {k \in 1..Len(fields) : fields[k].size > 0}

(* How long they are, and where each begins.                               *)
Extents(fields) == [k \in DOMAIN fields |-> fields[k].size]
Extent(fields) == Total(Extents(fields))
Begins(fields) == [k \in 1..Len(fields) |-> Offsets(Extents(fields))[k - 1]]

HeldAt(image, fields, places) ==
  /\ DOMAIN image.at = {places[k] : k \in Held(fields)}
  /\ \A k \in Held(fields) : image.at[places[k]] = fields[k]
  /\ \A k, l \in Held(fields) : places[k] = places[l] => k = l

LEMMA ImageHolds ==
  ASSUME NEW fields, AreFields(fields)
  PROVE  HeldAt(Image(fields), fields, Begins(fields))
  <1> DEFINE n == Len(fields)
             sizes == [k \in DOMAIN fields |-> fields[k].size]
             offsets == Offsets(sizes)
             places == [k \in 1..n |-> offsets[k - 1]]
             held == {k \in DOMAIN fields : fields[k].size > 0}
             image == Image(fields)
  <1>1. n \in Nat /\ DOMAIN fields = 1..n /\ \A k \in 1..n : fields[k].size \in Nat
    BY DEF AreFields, Listed
  <1>2. sizes \in Seq(Nat) /\ Len(sizes) = n /\ \A k \in 1..n : sizes[k] = fields[k].size
    <2> HIDE DEF n
    <2> QED
      BY <1>1
  <1>3. Reaches(offsets, sizes)
    BY <1>2, OffsetsReach
  <1>4. held = Held(fields)
    BY <1>1 DEF Held
  <1>5. /\ DOMAIN image.at = {offsets[k - 1] : k \in held}
        /\ \A at \in DOMAIN image.at :
             image.at[at] = fields[CHOOSE k \in held : offsets[k - 1] = at]
    BY DEF Image
  <1> HIDE DEF sizes, offsets, n, image
  <1>6. ASSUME NEW k \in 1..n, NEW l \in 1..n, k < l, fields[k].size > 0
        PROVE  offsets[k - 1] < offsets[l - 1]
    <2>1. /\ k \in Nat /\ l - 1 \in Nat /\ k <= l - 1 /\ l - 1 <= n
          /\ k - 1 \in 0..n /\ k \in 0..n /\ l - 1 \in 0..n
      BY <1>1, <1>6
    <2>2. offsets[k] <= offsets[l - 1]
      BY <1>1, <1>2, <1>3, <2>1, ReachesKeep
    <2>3. offsets[k] = offsets[k - 1] + fields[k].size
      BY <1>2, <1>3 DEF Reaches
    <2>4. /\ offsets[k] \in Nat /\ offsets[k - 1] \in Nat /\ offsets[l - 1] \in Nat
          /\ fields[k].size \in Nat
      BY <1>1, <1>2, <1>3, <2>1 DEF Reaches
    <2> QED
      BY <1>6, <2>2, <2>3, <2>4
  <1>7. ASSUME NEW k \in held, NEW l \in held, offsets[k - 1] = offsets[l - 1]
        PROVE  k = l
    <2>1. k \in 1..n /\ l \in 1..n /\ fields[k].size > 0 /\ fields[l].size > 0
      BY <1>1
    <2>2. offsets[k - 1] \in Nat /\ offsets[l - 1] \in Nat
      <3>1. k - 1 \in 0..n /\ l - 1 \in 0..n
        BY <1>1, <2>1
      <3> QED
        BY <1>2, <1>3, <3>1 DEF Reaches
    <2>3. ~(k < l)
      BY <1>6, <1>7, <2>1, <2>2
    <2>4. ~(l < k)
      BY <1>6, <1>7, <2>1, <2>2
    <2> QED
      BY <2>1, <2>3, <2>4
  <1>8. ASSUME NEW k \in held
        PROVE  image.at[offsets[k - 1]] = fields[k]
    <2> DEFINE l == CHOOSE i \in held : offsets[i - 1] = offsets[k - 1]
    <2>1. offsets[k - 1] \in DOMAIN image.at
      BY <1>5
    <2>2. l \in held /\ offsets[l - 1] = offsets[k - 1]
      OBVIOUS
    <2>3. image.at[offsets[k - 1]] = fields[l]
      BY <1>5, <2>1
    <2> HIDE DEF l
    <2>4. l = k
      BY <1>7, <2>2
    <2> QED
      BY <2>3, <2>4
  <1>9. \A k \in held : places[k] = offsets[k - 1]
    BY <1>1
  <1> HIDE DEF held, places
  <1>10. HeldAt(image, fields, places)
    BY <1>4, <1>5, <1>7, <1>8, <1>9 DEF HeldAt
  <1>11. Begins(fields) = places
    BY DEF Begins, Extents, places, offsets, sizes, n
  <1> QED
    BY <1>10, <1>11 DEF image

(* Fields of which as many as there are hashes begin a record, each with   *)
(* one of them.                                                            *)
HasHash(field) == "hash" \in DOMAIN field.is

KeyedAt(g, fields, hashes) ==
  /\ g \in [1..Len(hashes) -> 1..Len(fields)]
  /\ \A i, j \in 1..Len(hashes) : g[i] = g[j] => i = j
  /\ \A k \in 1..Len(fields) :
       HasHash(fields[k]) <=> \E i \in 1..Len(hashes) : g[i] = k
  /\ \A i \in 1..Len(hashes) :
       fields[g[i]].is.hash = hashes[i] /\ fields[g[i]].size > 0

Keyed(fields, hashes) ==
  /\ AreFields(fields)
  /\ \E g : KeyedAt(g, fields, hashes)

HashesIn(image) == {at \in DOMAIN image.at : HasHash(image.at[at])}
HeldUnder(image, hash) ==
  {at \in HashesIn(image) : image.at[at].is.hash = hash}

LEMMA KeysFound ==
  ASSUME NEW fields, NEW hashes, Keyed(fields, hashes), Len(hashes) \in Nat,
         \A i, j \in 1..Len(hashes) : hashes[i] = hashes[j] => i = j
  PROVE  /\ Cardinality(HashesIn(Image(fields))) = Len(hashes)
         /\ \A i \in 1..Len(hashes) :
              Cardinality(HeldUnder(Image(fields), hashes[i])) = 1
  <1> DEFINE n == Len(hashes)
             image == Image(fields)
             found == HashesIn(image)
  <1>1. PICK places : HeldAt(image, fields, places)
    BY ImageHolds DEF Keyed
  <1>2. PICK g : KeyedAt(g, fields, hashes)
    BY DEF Keyed
  <1>3. /\ g \in [1..n -> Held(fields)]
        /\ \A i, j \in 1..n : g[i] = g[j] => i = j
        /\ \A k \in Held(fields) : HasHash(fields[k]) <=> \E i \in 1..n : g[i] = k
        /\ \A i \in 1..n : fields[g[i]].is.hash = hashes[i]
    BY <1>2 DEF KeyedAt, Held
  <1> HIDE DEF n, image
  <1> DEFINE at == [i \in 1..n |-> places[g[i]]]
  <1>4. ASSUME NEW i \in 1..n
        PROVE  /\ at[i] \in found
               /\ image.at[at[i]].is.hash = hashes[i]
    BY <1>1, <1>3 DEF HeldAt, HashesIn
  <1>5. ASSUME NEW i \in 1..n, NEW j \in 1..n, at[i] = at[j]
        PROVE  i = j
    BY <1>1, <1>3, <1>5 DEF HeldAt
  <1>6. ASSUME NEW x \in found
        PROVE  \E i \in 1..n : at[i] = x
    <2>1. PICK k \in Held(fields) : x = places[k]
      BY <1>1 DEF HeldAt, HashesIn
    <2>2. HasHash(fields[k])
      BY <1>1, <2>1 DEF HeldAt, HashesIn
    <2> QED
      BY <1>3, <2>1, <2>2
  <1>7. Cardinality(found) = n
    <2>1. at \in [1..n -> found]
      BY <1>4
    <2>2. at \in Bijection(1..n, found)
      <3> HIDE DEF at, found
      <3> QED
        BY <1>5, <1>6, <2>1 DEF Bijection, Injection, Surjection, IsInjective
    <2>3. n \in Nat
      BY DEF n
    <2>4. IsFiniteSet(1..n) /\ Cardinality(1..n) = n
      <3>1. IsFiniteSet(1..n) /\ Cardinality(1..n) = IF 1 > n THEN 0 ELSE n - 1 + 1
        BY <2>3, FS_Interval
      <3> QED
        BY <2>3, <3>1
    <2> QED
      BY <2>2, <2>4, FS_Bijection DEF ExistsBijection
  <1>8. ASSUME NEW i \in 1..n
        PROVE  Cardinality(HeldUnder(image, hashes[i])) = 1
    <2>1. HeldUnder(image, hashes[i]) = {at[i]}
      <3>1. at[i] \in HeldUnder(image, hashes[i])
        BY <1>4 DEF HeldUnder
      <3>2. ASSUME NEW x \in HeldUnder(image, hashes[i])
            PROVE  x = at[i]
        <4>1. PICK j \in 1..n : at[j] = x
          BY <1>6 DEF HeldUnder
        <4>2. image.at[x].is.hash = hashes[i]
          BY DEF HeldUnder
        <4>3. hashes[j] = hashes[i]
          BY <1>4, <4>1, <4>2
        <4>4. j = i
          BY <4>3 DEF n
        <4> QED
          BY <4>1, <4>4
      <3> QED
        BY <3>1, <3>2
    <2> QED
      BY <2>1, FS_Singleton
  <1> QED
    BY <1>7, <1>8 DEF n, image

(* One sequence behind another, whatever they hold.                        *)
LEMMA ConcatIs ==
  ASSUME NEW a, NEW b, Listed(a), Listed(b)
  PROVE  /\ Listed(a \o b) /\ Len(a \o b) = Len(a) + Len(b)
         /\ Len(a) \in Nat /\ Len(b) \in Nat
         /\ \A k \in 1..Len(a) : (a \o b)[k] = a[k]
         /\ \A k \in 1..Len(b) : (a \o b)[Len(a) + k] = b[k]
  <1>1. PICK S : a \in Seq(S)
    BY DEF Listed
  <1>2. PICK T : b \in Seq(T)
    BY DEF Listed
  <1> DEFINE U == S \cup T
  <1>3. a \in Seq(U) /\ b \in Seq(U)
    BY <1>1, <1>2
  <1> HIDE DEF U
  <1>4. a \o b \in Seq(U)
    BY <1>3
  <1> QED
    BY <1>3, <1>4 DEF Listed

(* Fields none of which begins a record.                                   *)
Plain(fields) ==
  AreFields(fields) /\ \A k \in 1..Len(fields) : ~HasHash(fields[k])

LEMMA FieldsConcat ==
  ASSUME NEW a, NEW b, AreFields(a), AreFields(b)
  PROVE  AreFields(a \o b)
  <1>1. /\ Listed(a \o b) /\ Len(a \o b) = Len(a) + Len(b)
        /\ Len(a) \in Nat /\ Len(b) \in Nat
        /\ \A k \in 1..Len(a) : (a \o b)[k] = a[k]
        /\ \A k \in 1..Len(b) : (a \o b)[Len(a) + k] = b[k]
    BY ConcatIs DEF AreFields
  <1>2. ASSUME NEW k \in 1..(Len(a) + Len(b))
        PROVE  (a \o b)[k].size \in Nat
    <2>1. CASE k \in 1..Len(a)
      BY <1>1, <2>1 DEF AreFields
    <2>2. CASE k \notin 1..Len(a)
      <3>1. k - Len(a) \in 1..Len(b) /\ Len(a) + (k - Len(a)) = k
        BY <1>1, <2>2
      <3>2. (a \o b)[Len(a) + (k - Len(a))] = b[k - Len(a)]
        BY <1>1, <3>1
      <3> QED
        BY <3>1, <3>2 DEF AreFields
    <2> QED
      BY <2>1, <2>2
  <1> QED
    BY <1>1, <1>2 DEF AreFields

(* An image is keyed as its fields are put behind each other.              *)
LEMMA PlainIsKeyed ==
  ASSUME NEW fields, Plain(fields)
  PROVE  Keyed(fields, << >>)
  <1> DEFINE g == [i \in 1..0 |-> 0]
  <1>1. g \in [1..Len(<< >>) -> 1..Len(fields)] /\ 1..Len(<< >>) = {}
    OBVIOUS
  <1>2. KeyedAt(g, fields, << >>)
    BY <1>1 DEF KeyedAt, Plain
  <1> QED
    BY <1>2 DEF Keyed, Plain

LEMMA KeyedThenPlain ==
  ASSUME NEW a, NEW b, NEW hashes, Keyed(a, hashes), Plain(b)
  PROVE  Keyed(a \o b, hashes)
  <1> DEFINE n == Len(hashes)
  <1>1. PICK g : KeyedAt(g, a, hashes)
    BY DEF Keyed
  <1>2. /\ Len(a \o b) = Len(a) + Len(b)
        /\ Len(a) \in Nat /\ Len(b) \in Nat
        /\ \A k \in 1..Len(a) : (a \o b)[k] = a[k]
        /\ \A k \in 1..Len(b) : (a \o b)[Len(a) + k] = b[k]
    BY ConcatIs DEF Keyed, Plain, AreFields
  <1>3. /\ g \in [1..n -> 1..Len(a)]
        /\ \A i, j \in 1..n : g[i] = g[j] => i = j
        /\ \A k \in 1..Len(a) : HasHash(a[k]) <=> \E i \in 1..n : g[i] = k
        /\ \A i \in 1..n : a[g[i]].is.hash = hashes[i] /\ a[g[i]].size > 0
    BY <1>1 DEF KeyedAt
  <1> HIDE DEF n
  <1> DEFINE c == a \o b
  <1> HIDE DEF c
  <1>4. g \in [1..n -> 1..(Len(a) + Len(b))]
    BY <1>2, <1>3
  <1>5. ASSUME NEW k \in 1..(Len(a) + Len(b))
        PROVE  HasHash(c[k]) <=> \E i \in 1..n : g[i] = k
    <2>1. CASE k \in 1..Len(a)
      BY <1>2, <1>3, <2>1 DEF c
    <2>2. CASE k \notin 1..Len(a)
      <3>1. k - Len(a) \in 1..Len(b) /\ Len(a) + (k - Len(a)) = k
        BY <1>2, <2>2
      <3>2. c[k] = b[k - Len(a)]
        BY <1>2, <3>1 DEF c
      <3>3. ~HasHash(c[k])
        BY <3>1, <3>2 DEF Plain
      <3>4. ~ \E i \in 1..n : g[i] = k
        BY <1>3, <2>2
      <3> QED
        BY <3>3, <3>4
    <2> QED
      BY <2>1, <2>2
  <1>6. \A i \in 1..n : c[g[i]] = a[g[i]]
    BY <1>2, <1>3 DEF c
  <1>7. Len(c) = Len(a) + Len(b)
    BY <1>2 DEF c
  <1>8. KeyedAt(g, c, hashes)
    BY <1>3, <1>4, <1>5, <1>6, <1>7 DEF KeyedAt, n
  <1>9. AreFields(c)
    BY FieldsConcat DEF Keyed, Plain, c
  <1> QED
    BY <1>8, <1>9 DEF Keyed, c

(* Records behind them that have the next hashes.                          *)
LEMMA KeyedThenRecords ==
  ASSUME NEW a, NEW b, NEW hashes, Listed(hashes), NEW more, Listed(more),
         Keyed(a, hashes), AreFields(b), Len(b) = Len(more),
         \A k \in 1..Len(b) :
           HasHash(b[k]) /\ b[k].is.hash = more[k] /\ b[k].size > 0
  PROVE  Keyed(a \o b, hashes \o more)
  <1> DEFINE n == Len(hashes)
             m == Len(more)
             c == a \o b
             all == hashes \o more
             l == Len(a)
  <1>1. PICK g : KeyedAt(g, a, hashes)
    BY DEF Keyed
  <1>2. /\ Len(c) = l + m /\ l \in Nat /\ m \in Nat
        /\ \A k \in 1..l : c[k] = a[k]
        /\ \A k \in 1..m : c[l + k] = b[k]
    <2>1. Listed(a) /\ Listed(b)
      BY DEF Keyed, AreFields
    <2> DEFINE k == Len(b)
    <2>2. /\ Len(a \o b) = Len(a) + k /\ Len(a) \in Nat /\ k \in Nat
          /\ \A i \in 1..Len(a) : (a \o b)[i] = a[i]
          /\ \A i \in 1..k : (a \o b)[Len(a) + i] = b[i]
      BY <2>1, ConcatIs
    <2>3. k = m
      OBVIOUS
    <2> QED
      BY <2>2, <2>3, Zenon
  <1>3. /\ Len(all) = n + m /\ n \in Nat
        /\ \A k \in 1..n : all[k] = hashes[k]
        /\ \A k \in 1..m : all[n + k] = more[k]
    BY ConcatIs
  <1>4. /\ g \in [1..n -> 1..l]
        /\ \A i, j \in 1..n : g[i] = g[j] => i = j
        /\ \A k \in 1..l : HasHash(a[k]) <=> \E i \in 1..n : g[i] = k
        /\ \A i \in 1..n : a[g[i]].is.hash = hashes[i] /\ a[g[i]].size > 0
    BY <1>1 DEF KeyedAt
  <1>5. \A k \in 1..m : HasHash(b[k]) /\ b[k].is.hash = more[k] /\ b[k].size > 0
    OBVIOUS
  <1> DEFINE h == [i \in 1..(n + m) |-> IF i <= n THEN g[i] ELSE l + (i - n)]
  <1> HIDE DEF n, m, c, all, l
  <1>6. \A i \in 1..(n + m) : i \in 1..n \/ (i - n \in 1..m /\ n + (i - n) = i /\ ~(i <= n))
    BY <1>2, <1>3
  <1>7. \A k \in 1..(l + m) : k \in 1..l \/ (k - l \in 1..m /\ l + (k - l) = k)
    BY <1>2
  <1>8. ASSUME NEW i \in 1..n
        PROVE  h[i] = g[i] /\ h[i] \in 1..l /\ c[h[i]] = a[g[i]] /\ all[i] = hashes[i]
    <2>1. i \in 1..(n + m) /\ i <= n
      BY <1>2, <1>3
    <2>2. h[i] = g[i]
      BY <2>1
    <2> QED
      BY <1>2, <1>3, <1>4, <2>2
  <1>9. ASSUME NEW i \in 1..m
        PROVE  h[n + i] = l + i /\ c[h[n + i]] = b[i] /\ all[n + i] = more[i]
    <2>1. n + i \in 1..(n + m) /\ ~(n + i <= n) /\ (n + i) - n = i
      BY <1>2, <1>3
    <2>2. h[n + i] = l + i
      BY <2>1
    <2> QED
      BY <1>2, <1>3, <2>2
  <1>10. h \in [1..(n + m) -> 1..(l + m)]
    <2>1. ASSUME NEW i \in 1..(n + m)
          PROVE  h[i] \in 1..(l + m)
      <3>1. CASE i \in 1..n
        <4>1. h[i] \in 1..l
          BY <1>8, <3>1
        <4> QED
          BY <1>2, <4>1
      <3>2. CASE i - n \in 1..m /\ n + (i - n) = i
        <4>1. h[i] = l + (i - n)
          BY <1>9, <3>2
        <4> QED
          BY <1>2, <3>2, <4>1
      <3> QED
        BY <1>6, <3>1, <3>2
    <2> QED
      BY <2>1
  <1> HIDE DEF h
  <1>11. ASSUME NEW i \in 1..(n + m), NEW j \in 1..(n + m), h[i] = h[j]
         PROVE  i = j
    <2>1. CASE i \in 1..n /\ j \in 1..n
      BY <1>4, <1>8, <1>11, <2>1
    <2>2. CASE i \in 1..n /\ j - n \in 1..m /\ n + (j - n) = j
      <3>1. h[i] \in 1..l /\ h[j] = l + (j - n)
        BY <1>8, <1>9, <2>2
      <3> QED
        BY <1>2, <1>11, <2>2, <3>1
    <2>3. CASE j \in 1..n /\ i - n \in 1..m /\ n + (i - n) = i
      <3>1. h[j] \in 1..l /\ h[i] = l + (i - n)
        BY <1>8, <1>9, <2>3
      <3> QED
        BY <1>2, <1>11, <2>3, <3>1
    <2>4. CASE /\ i - n \in 1..m /\ n + (i - n) = i
               /\ j - n \in 1..m /\ n + (j - n) = j
      <3>1. h[i] = l + (i - n) /\ h[j] = l + (j - n)
        BY <1>9, <2>4
      <3>2. i - n = j - n
        <4> DEFINE x == i - n
                   y == j - n
        <4>1. x \in Nat /\ y \in Nat
          BY <2>4
        <4>2. l + x = l + y
          BY <1>11, <3>1
        <4> HIDE DEF x, y
        <4>3. x = y
          BY <1>2, <4>1, <4>2
        <4> QED
          BY <4>3 DEF x, y
      <3> QED
        BY <2>4, <3>2, Zenon
    <2> QED
      BY <1>6, <2>1, <2>2, <2>3, <2>4
  <1>12. ASSUME NEW k \in 1..(l + m)
         PROVE  HasHash(c[k]) <=> \E i \in 1..(n + m) : h[i] = k
    <2>1. CASE k \in 1..l
      <3>1. c[k] = a[k]
        BY <1>2, <2>1
      <3>2. ASSUME NEW i \in 1..(n + m), h[i] = k
            PROVE  i \in 1..n /\ g[i] = k
        <4>1. CASE i \in 1..n
          BY <1>8, <3>2, <4>1
        <4>2. CASE i - n \in 1..m /\ n + (i - n) = i
          <5>1. h[i] = l + (i - n)
            BY <1>9, <4>2
          <5> QED
            BY <1>2, <2>1, <3>2, <4>2, <5>1
        <4> QED
          BY <1>6, <4>1, <4>2
      <3>3. ASSUME NEW i \in 1..n, g[i] = k
            PROVE  i \in 1..(n + m) /\ h[i] = k
        BY <1>2, <1>3, <1>8, <3>3
      <3> QED
        BY <1>4, <2>1, <3>1, <3>2, <3>3
    <2>2. CASE k - l \in 1..m /\ l + (k - l) = k
      <3>1. c[k] = b[k - l]
        BY <1>2, <2>2
      <3>2. n + (k - l) \in 1..(n + m)
        BY <1>2, <1>3, <2>2
      <3>3. h[n + (k - l)] = k
        BY <1>9, <2>2, Zenon
      <3> QED
        BY <1>5, <2>2, <3>1, <3>2, <3>3
    <2> QED
      BY <1>7, <2>1, <2>2
  <1>13. ASSUME NEW i \in 1..(n + m)
         PROVE  c[h[i]].is.hash = all[i] /\ c[h[i]].size > 0
    <2>1. CASE i \in 1..n
      BY <1>4, <1>8, <2>1
    <2>2. CASE i - n \in 1..m /\ n + (i - n) = i
      BY <1>5, <1>9, <2>2
    <2> QED
      BY <1>6, <2>1, <2>2
  <1>14. KeyedAt(h, c, all)
    BY <1>2, <1>3, <1>10, <1>11, <1>12, <1>13 DEF KeyedAt
  <1>15. AreFields(c)
    BY FieldsConcat DEF Keyed, c
  <1> QED
    BY <1>14, <1>15 DEF Keyed, c, all

(* FlattenSeq puts one sequence behind the other.                          *)
Flattens(f, seqs, T) ==
  /\ f \in [0..Len(seqs) -> Seq(T)] /\ f[0] = << >>
  /\ \A k \in 1..Len(seqs) : f[k] = f[k - 1] \o seqs[k]
  /\ FlattenSeq(seqs) = f[Len(seqs)]

LEMMA EmptyBefore ==
  ASSUME NEW T, NEW s \in Seq(T)
  PROVE  << >> \o s = s /\ << >> \in Seq(T)
  OBVIOUS

LEMMA FlattenIs ==
  ASSUME NEW T, NEW seqs, seqs \in Seq(Seq(T))
  PROVE  \E f : Flattens(f, seqs, T)
  <1> DEFINE n == Len(seqs)
             step == [x \in Nat \X Seq(T) |->
                        IF x[1] < n THEN x[2] \o seqs[x[1] + 1] ELSE << >>]
  <1>1. n \in Nat /\ \A k \in 1..n : seqs[k] \in Seq(T)
    OBVIOUS
  <1>2. step \in [Nat \X Seq(T) -> Seq(T)]
    <2>1. ASSUME NEW x \in Nat \X Seq(T), x[1] < n
          PROVE  x[2] \o seqs[x[1] + 1] \in Seq(T)
      <3>1. x[1] + 1 \in 1..n /\ x[2] \in Seq(T)
        BY <1>1, <2>1
      <3>2. seqs[x[1] + 1] \in Seq(T)
        BY <1>1, <3>1
      <3> QED
        BY <3>1, <3>2
    <2>2. << >> \in Seq(T)
      OBVIOUS
    <2> HIDE DEF n
    <2> QED
      BY <2>1, <2>2
  <1>3. ASSUME NEW k \in 1..n, NEW v \in Seq(T)
        PROVE  step[<<k - 1, v>>] = v \o seqs[k]
    <2>1. k - 1 \in Nat /\ k - 1 < n /\ (k - 1) + 1 = k
      BY <1>1
    <2> HIDE DEF n
    <2> QED
      BY <2>1
  <1> HIDE DEF step, n
  <1>4. PICK f \in [0..n -> Seq(T)] : IteratesUpTo(f, n, << >>, step)
    <2>1. << >> \in Seq(T)
      OBVIOUS
    <2> QED
      BY <1>1, <1>2, <2>1, RecursionUpTo, Zenon
  <1>5. /\ f[0] = << >>
        /\ \A k \in 1..n : f[k] = f[k - 1] \o seqs[k]
    <2>1. ASSUME NEW k \in 1..n
          PROVE  f[k] = f[k - 1] \o seqs[k]
      <3>1. k \in 0..n /\ k # 0 /\ f[k - 1] \in Seq(T)
        BY <1>1
      <3>2. f[k] = step[<<k - 1, f[k - 1]>>]
        BY <1>4, <3>1 DEF IteratesUpTo
      <3> QED
        BY <1>3, <3>1, <3>2
    <2>2. f[0] = << >>
      BY <1>1, <1>4 DEF IteratesUpTo
    <2> QED
      BY <2>1, <2>2
  <1>6. CASE n = 0
    <2>1. FlattenSeq(seqs) = << >>
      <3>1. seqs = << >>
        BY <1>6 DEF n
      <3> QED
        BY <1>6, <3>1 DEF FlattenSeq, n
    <2>2. Flattens(f, seqs, T)
      BY <1>5, <1>6, <2>1 DEF Flattens, n
    <2> QED
      BY <2>2
  <1>7. CASE n # 0
    <2> DEFINE g == [i \in 1..n |-> f[i]]
               flatten == CHOOSE h : h = [i \in 1..n |->
                            IF i = 1 THEN seqs[i] ELSE h[i - 1] \o seqs[i]]
    <2>1. g = [i \in 1..n |-> IF i = 1 THEN seqs[i] ELSE g[i - 1] \o seqs[i]]
      <3>1. ASSUME NEW i \in 1..n, i = 1
            PROVE  f[i] = seqs[i]
        <4>1. i - 1 = 0 /\ seqs[i] \in Seq(T)
          BY <1>1, <3>1
        <4>2. f[i] = << >> \o seqs[i]
          BY <1>5, <4>1
        <4> QED
          BY <4>1, <4>2, EmptyBefore
      <3>2. ASSUME NEW i \in 1..n, i # 1
            PROVE  f[i] = g[i - 1] \o seqs[i]
        <4>1. i - 1 \in 1..n
          BY <1>1, <3>2
        <4> QED
          BY <1>5, <4>1
      <3> HIDE DEF g
      <3>3. \A i \in 1..n : f[i] = IF i = 1 THEN seqs[i] ELSE g[i - 1] \o seqs[i]
        BY <3>1, <3>2
      <3> QED
        BY <3>3, Zenon DEF g
    <2> HIDE DEF g
    <2>2. flatten = [i \in 1..n |->
                       IF i = 1 THEN seqs[i] ELSE flatten[i - 1] \o seqs[i]]
      BY <2>1
    <2>3. FlattenSeq(seqs) = flatten[n]
      BY <1>7 DEF FlattenSeq, n
    <2> HIDE DEF flatten
    <2> DEFINE S == {k \in 0..(n - 1) : flatten[k + 1] = f[k + 1]}
    <2>4. 0 \in S
      <3>1. 0 + 1 = 1 /\ 1 \in 1..n /\ 0 \in 0..(n - 1) /\ 1 - 1 = 0
        BY <1>1, <1>7
      <3>2. seqs[1] \in Seq(T)
        BY <1>1, <3>1
      <3>3. flatten[1] = seqs[1]
        BY <2>2, <3>1
      <3>4. f[1] = << >> \o seqs[1]
        BY <1>5, <3>1
      <3>5. flatten[1] = f[1]
        BY <3>2, <3>3, <3>4, EmptyBefore
      <3> QED
        BY <3>1, <3>5
    <2>5. ASSUME NEW k \in 0..((n - 1) - 1), k \in S
          PROVE  k + 1 \in S
      <3>1. /\ (k + 1) + 1 \in 1..n /\ (k + 1) + 1 # 1 /\ ((k + 1) + 1) - 1 = k + 1
            /\ k + 1 \in 0..(n - 1)
        BY <1>1
      <3>2. flatten[(k + 1) + 1] = flatten[k + 1] \o seqs[(k + 1) + 1]
        BY <2>2, <3>1
      <3>3. f[(k + 1) + 1] = f[k + 1] \o seqs[(k + 1) + 1]
        BY <1>5, <3>1
      <3>4. flatten[k + 1] = f[k + 1]
        BY <2>5
      <3>5. flatten[(k + 1) + 1] = f[(k + 1) + 1]
        BY <3>2, <3>3, <3>4
      <3> QED
        BY <3>1, <3>5
    <2> HIDE DEF S
    <2>6. 0..(n - 1) \subseteq S
      <3>1. n - 1 \in Nat
        BY <1>1, <1>7
      <3> QED
        BY <2>4, <2>5, <3>1, InductionUpTo
    <2>7. n - 1 \in 0..(n - 1) /\ (n - 1) + 1 = n
      BY <1>1, <1>7
    <2>8. flatten[n] = f[n]
      BY <2>6, <2>7 DEF S
    <2>9. Flattens(f, seqs, T)
      BY <1>5, <2>3, <2>8 DEF Flattens, n
    <2> QED
      BY <2>9
  <1> QED
    BY <1>6, <1>7

LEMMA FlattenType ==
  ASSUME NEW T, NEW seqs, seqs \in Seq(Seq(T))
  PROVE  FlattenSeq(seqs) \in Seq(T)
  <1>1. PICK f : Flattens(f, seqs, T)
    BY FlattenIs
  <1>2. Len(seqs) \in 0..Len(seqs)
    OBVIOUS
  <1> QED
    BY <1>1, <1>2 DEF Flattens
-----------------------------------------------------------------------------
(* Functions of 1..n are sequences, and what sequences of them hold.       *)
LEMMA FunctionIsListed ==
  ASSUME NEW n \in Nat, NEW s, s = [i \in 1..n |-> s[i]]
  PROVE  Listed(s) /\ Len(s) = n /\ DOMAIN s = 1..n
  <1>1. s \in [1..n -> {s[i] : i \in 1..n}]
    OBVIOUS
  <1>2. s \in Seq({s[i] : i \in 1..n}) /\ Len(s) = n /\ DOMAIN s = 1..n
    BY <1>1
  <1> QED
    BY <1>2, Zenon DEF Listed

LEMMA ListedIs ==
  ASSUME NEW s, Listed(s)
  PROVE  Len(s) \in Nat /\ DOMAIN s = 1..Len(s)
  BY DEF Listed

Elements(seqs) ==
  UNION {{seqs[i][j] : j \in 1..Len(seqs[i])} : i \in 1..Len(seqs)}

(* A list is of whatever its elements are.                                 *)
LEMMA RetypedList ==
  ASSUME NEW S, NEW s \in Seq(S), NEW T, \A i \in 1..Len(s) : s[i] \in T
  PROVE  s \in Seq(T)
  OBVIOUS

LEMMA ManyAreListed ==
  ASSUME NEW seqs, Listed(seqs), \A i \in 1..Len(seqs) : Listed(seqs[i])
  PROVE  seqs \in Seq(Seq(Elements(seqs)))
  <1>1. ASSUME NEW i \in 1..Len(seqs)
        PROVE  seqs[i] \in Seq(Elements(seqs))
    <2>1. PICK S : seqs[i] \in Seq(S)
      BY DEF Listed
    <2>2. \A j \in 1..Len(seqs[i]) : seqs[i][j] \in Elements(seqs)
      BY DEF Elements
    <2> QED
      BY <2>1, <2>2
  <1>2. PICK S : seqs \in Seq(S)
    BY DEF Listed
  <1> QED
    BY <1>1, <1>2

(* Plain fields, one, none and many.                                       *)
LEMMA PlainConcat ==
  ASSUME NEW a, NEW b, Plain(a), Plain(b)
  PROVE  Plain(a \o b)
  <1>1. /\ AreFields(a \o b) /\ Len(a \o b) = Len(a) + Len(b)
        /\ Len(a) \in Nat /\ Len(b) \in Nat
        /\ \A k \in 1..Len(a) : (a \o b)[k] = a[k]
        /\ \A k \in 1..Len(b) : (a \o b)[Len(a) + k] = b[k]
    BY FieldsConcat, ConcatIs DEF Plain, AreFields
  <1>2. ASSUME NEW k \in 1..Len(a \o b)
        PROVE  ~HasHash((a \o b)[k])
    <2>1. CASE k \in 1..Len(a)
      BY <1>1, <2>1 DEF Plain
    <2>2. CASE k \notin 1..Len(a)
      <3>1. k - Len(a) \in 1..Len(b) /\ k = Len(a) + (k - Len(a))
        BY <1>1, <2>2
      <3>2. (a \o b)[k] = b[k - Len(a)]
        BY <1>1, <3>1
      <3> QED
        BY <3>1, <3>2 DEF Plain
    <2> QED
      BY <2>1, <2>2
  <1> QED
    BY <1>1, <1>2 DEF Plain

LEMMA NoneIsPlain == Plain(<< >>)
  <1>1. << >> \in Seq({}) /\ Len(<< >>) = 0
    OBVIOUS
  <1> QED
    BY <1>1 DEF Plain, AreFields, Listed

LEMMA OneIsListed ==
  ASSUME NEW x
  PROVE  Listed(<<x>>) /\ Len(<<x>>) = 1 /\ <<x>>[1] = x
  <1>1. <<x>> \in Seq({x}) /\ Len(<<x>>) = 1 /\ <<x>>[1] = x
    OBVIOUS
  <1> QED
    BY <1>1 DEF Listed

LEMMA OneIsPlain ==
  ASSUME NEW x, x.size \in Nat, ~HasHash(x)
  PROVE  Plain(<<x>>)
  <1>1. \A k \in 1..1 : k = 1
    OBVIOUS
  <1> QED
    BY <1>1, OneIsListed DEF Plain, AreFields

LEMMA ManyArePlain ==
  ASSUME NEW n \in Nat, NEW s, s = [i \in 1..n |-> s[i]],
         \A i \in 1..n : s[i].size \in Nat /\ ~HasHash(s[i])
  PROVE  Plain(s)
  BY FunctionIsListed DEF Plain, AreFields

LEMMA FlattenedIsPlain ==
  ASSUME NEW seqs, Listed(seqs), \A i \in 1..Len(seqs) : Plain(seqs[i])
  PROVE  Plain(FlattenSeq(seqs))
  <1> DEFINE n == Len(seqs)
  <1>1. seqs \in Seq(Seq(Elements(seqs))) /\ n \in Nat
    BY ManyAreListed, ListedIs DEF Plain, AreFields
  <1>2. PICK f : Flattens(f, seqs, Elements(seqs))
    BY <1>1, FlattenIs
  <1> DEFINE S == {k \in 0..n : Plain(f[k])}
  <1>3. 0 \in S
    BY <1>1, <1>2, NoneIsPlain DEF Flattens
  <1>4. ASSUME NEW k \in 0..(n - 1), k \in S
        PROVE  k + 1 \in S
    <2>1. k + 1 \in 1..n /\ (k + 1) - 1 = k /\ k + 1 \in 0..n
      BY <1>1
    <2>2. f[k + 1] = f[k] \o seqs[k + 1]
      BY <1>2, <2>1 DEF Flattens
    <2>3. Plain(f[k] \o seqs[k + 1])
      BY <1>4, <2>1, PlainConcat
    <2> QED
      BY <2>1, <2>2, <2>3
  <1> HIDE DEF S
  <1>5. 0..n \subseteq S
    BY <1>1, <1>3, <1>4, InductionUpTo
  <1>6. n \in S
    BY <1>1, <1>5
  <1> QED
    BY <1>2, <1>6 DEF Flattens, S

(* The header and the table of names have no hashes.                       *)
LEMMA HeaderIsPlain ==
  ASSUME NEW f, NEW tag, NEW count, NEW at
  PROVE  Plain(write_header(f, tag, count, at))
  <1> DEFINE x == Field(24, [version |-> version[f], kind |-> tag,
                             file_count |-> count, name_table_offset |-> at])
             y == Field(8, [tail |-> 1])
             z == Field(4, [method |-> 3])
             b == IF f = "Fo4" THEN << >> ELSE <<y>>
             c == IF f = "StarfieldV3Lz4" THEN <<z>> ELSE << >>
  <1>1. write_header(f, tag, count, at) = (<<x>> \o b) \o c
    BY DEF write_header
  <1>2. /\ x.size \in Nat /\ ~HasHash(x)
        /\ y.size \in Nat /\ ~HasHash(y)
        /\ z.size \in Nat /\ ~HasHash(z)
    BY DEF HasHash, Field
  <1> HIDE DEF x, y, z
  <1>3. Plain(<<x>>) /\ Plain(b) /\ Plain(c)
    BY <1>2, OneIsPlain, NoneIsPlain
  <1> HIDE DEF b, c
  <1> QED
    BY <1>1, <1>3, PlainConcat

LEMMA NamesArePlain ==
  ASSUME NEW s, Listed(s), \A i \in 1..Len(s) : Listed(s[i].name)
  PROVE  Plain(NameTable(s))
  <1> DEFINE n == Len(s)
             x(i) == Field(2, [name_len |-> Len(s[i].name)])
             y(i) == Field(Len(s[i].name), [name |-> s[i].name])
             seqs == [i \in DOMAIN s |-> <<x(i), y(i)>>]
  <1>1. NameTable(s) = FlattenSeq(seqs)
    BY DEF NameTable
  <1>2. n \in Nat /\ DOMAIN s = 1..n
    BY ListedIs
  <1>3. ASSUME NEW i \in 1..n
        PROVE  Plain(<<x(i), y(i)>>)
    <2>1. /\ x(i).size \in Nat /\ ~HasHash(x(i))
          /\ y(i).size \in Nat /\ ~HasHash(y(i))
      <3>1. Len(s[i].name) \in Nat
        BY ListedIs
      <3> QED
        BY <3>1 DEF HasHash, Field
    <2> HIDE DEF x, y
    <2>2. Plain(<<x(i)>>) /\ Plain(<<y(i)>>)
      BY <2>1, OneIsPlain
    <2>3. <<x(i), y(i)>> = <<x(i)>> \o <<y(i)>>
      OBVIOUS
    <2> QED
      BY <2>2, <2>3, PlainConcat
  <1> HIDE DEF x, y
  <1>4. Listed(seqs) /\ Len(seqs) = n /\ \A i \in 1..n : seqs[i] = <<x(i), y(i)>>
    BY <1>2, FunctionIsListed
  <1> HIDE DEF seqs
  <1> QED
    BY <1>1, <1>3, <1>4, FlattenedIsPlain

LEMMA ChunksAreListed ==
  ASSUME NEW texture, Whole(texture)
  PROVE  Listed(split_chunks(texture))
  <1>1. CASE texture.cubemap
    BY <1>1, OneIsListed DEF split_chunks
  <1>2. CASE ~texture.cubemap
    <2> DEFINE ranges == MipRanges(texture)
               Chunk(i) == [start_mip |-> ranges[i][1], end_mip |-> ranges[i][2],
                            data |-> MipBytes(texture, ranges[i][1], ranges[i][2])]
               chunks == [i \in DOMAIN ranges |-> Chunk(i)]
    <2>1. split_chunks(texture) = chunks
      BY <1>2 DEF split_chunks
    <2>2. ranges \in Seq(Nat \X Nat)
      BY LastRound DEF RangesOf, Contiguous
    <2> HIDE DEF ranges, Chunk
    <2>3. Len(ranges) \in Nat /\ DOMAIN ranges = 1..Len(ranges)
      BY <2>2
    <2>4. Listed(chunks)
      BY <2>3, FunctionIsListed
    <2> QED
      BY <2>1, <2>4
  <1> QED
    BY <1>1, <1>2

(* What the blocks of an archive are written as.                           *)
HasSizes(data) ==
  /\ PackedSize("zlib", data.size) \in Nat \ {0}
  /\ PackedSize("lz4", data.size) \in Nat \ {0}

LEMMA CompressedIsField ==
  ASSUME NEW fmt, NEW data, HasSizes(data)
  PROVE  /\ CompressedBlock(fmt, data).bytes.size \in Nat
         /\ ~HasHash(CompressedBlock(fmt, data).bytes)
  <1>1. PackedSize(codec(fmt), data.size) \in Nat
    BY DEF codec, HasSizes
  <1> QED
    BY <1>1 DEF CompressedBlock, Field, HasHash

LEMMA StoredIsField ==
  ASSUME NEW data, data.size \in Nat,
         data = [of |-> data.of, from |-> data.from, size |-> data.size]
  PROVE  /\ StoredBlock(data).bytes.size \in Nat
         /\ ~HasHash(StoredBlock(data).bytes)
  <1>1. "hash" \notin DOMAIN data
    OBVIOUS
  <1> QED
    BY <1>1 DEF StoredBlock, Field, HasHash

LEMMA FileHasSizes ==
  ASSUME NEW e, FileOf(e)
  PROVE  /\ HasSizes(e.data) /\ e.data.size \in Nat
         /\ e.data = [of |-> e.data.of, from |-> e.data.from,
                      size |-> e.data.size]
  BY FilesAssumption, PackedSizeAssumption DEF FileOf, HasSizes, Slices

LEMMA TextureHasSizes ==
  ASSUME NEW e, TextureOf(e)
  PROVE  /\ Listed(e.chunks)
         /\ \A j \in 1..Len(e.chunks) : HasSizes(e.chunks[j].data)
  <1>1. Listed(e.chunks)
    BY ChunksAreListed DEF TextureOf
  <1>2. DOMAIN e.chunks = 1..Len(e.chunks)
    BY <1>1, ListedIs
  <1>3. PICK t \in Textures :
          /\ ParseError(t.dds) = "none"
          /\ e.chunks = split_chunks(ParsedTexture(t.dds))
    BY DEF TextureOf
  <1>4. \A by \in {"zlib", "lz4"}, j \in DOMAIN e.chunks :
          PackedSize(by, e.chunks[j].data.size) \in Nat \ {0}
    BY <1>3, PackedSizeAssumption
  <1> QED
    BY <1>1, <1>2, <1>4 DEF HasSizes

LEMMA GnrlBlocksArePlain ==
  ASSUME NEW fmt, NEW s, Listed(s), \A i \in 1..Len(s) : FileOf(s[i])
  PROVE  Plain(Bytes(GnrlBlocks(fmt, s)))
  <1> DEFINE n == Len(s)
             blocks == GnrlBlocks(fmt, s)
             bytes == Bytes(blocks)
  <1>1. n \in Nat /\ DOMAIN s = 1..n
    BY ListedIs
  <1>2. /\ DOMAIN blocks = 1..n
        /\ \A i \in 1..n : blocks[i] = Block(fmt, s[i])
    BY <1>1 DEF GnrlBlocks
  <1> HIDE DEF blocks
  <1>3. bytes = [i \in 1..n |-> bytes[i]] /\ \A i \in 1..n : bytes[i] = blocks[i].bytes
    BY <1>2 DEF Bytes
  <1> HIDE DEF bytes
  <1>4. ASSUME NEW i \in 1..n
        PROVE  bytes[i].size \in Nat /\ ~HasHash(bytes[i])
    <2>1. /\ HasSizes(s[i].data) /\ s[i].data.size \in Nat
          /\ s[i].data = [of |-> s[i].data.of, from |-> s[i].data.from,
                          size |-> s[i].data.size]
      BY FileHasSizes
    <2>2. bytes[i] = Block(fmt, s[i]).bytes
      BY <1>2, <1>3
    <2>3. /\ CompressedBlock(fmt, s[i].data).bytes.size \in Nat
          /\ ~HasHash(CompressedBlock(fmt, s[i].data).bytes)
      BY <2>1, CompressedIsField
    <2>4. /\ StoredBlock(s[i].data).bytes.size \in Nat
          /\ ~HasHash(StoredBlock(s[i].data).bytes)
      BY <2>1, StoredIsField
    <2> QED
      BY <2>2, <2>3, <2>4 DEF Block
  <1> HIDE DEF n
  <1>5. Plain(bytes)
    BY <1>1, <1>3, <1>4, ManyArePlain
  <1> QED
    BY <1>5 DEF bytes, blocks

LEMMA Dx10BlocksArePlain ==
  ASSUME NEW fmt, NEW s, Listed(s), \A i \in 1..Len(s) : TextureOf(s[i])
  PROVE  Plain(Bytes(Dx10Blocks(fmt, s)))
  <1> DEFINE n == Len(s)
             seqs == [i \in DOMAIN s |-> s[i].chunks]
             T == {c \in Elements(seqs) : HasSizes(c.data)}
             chunks == AllChunks(s)
             blocks == Dx10Blocks(fmt, s)
             bytes == Bytes(blocks)
  <1>1. n \in Nat /\ DOMAIN s = 1..n
    BY ListedIs
  <1>2. /\ Listed(seqs) /\ Len(seqs) = n
        /\ \A i \in 1..n : seqs[i] = s[i].chunks
    BY <1>1, FunctionIsListed
  <1>3. chunks = FlattenSeq(seqs)
    BY DEF AllChunks
  <1> HIDE DEF seqs
  <1>4. \A i \in 1..n : /\ Listed(seqs[i])
                        /\ \A j \in 1..Len(seqs[i]) : HasSizes(seqs[i][j].data)
    BY <1>2, TextureHasSizes
  <1>5. seqs \in Seq(Seq(T))
    <2>1. seqs \in Seq(Seq(Elements(seqs)))
      BY <1>2, <1>4, ManyAreListed
    <2>2. ASSUME NEW i \in 1..n
          PROVE  seqs[i] \in Seq(T)
      <3>1. seqs[i] \in Seq(Elements(seqs))
        BY <1>2, <2>1
      <3>2. \A j \in 1..Len(seqs[i]) : seqs[i][j] \in Elements(seqs)
        BY <3>1
      <3>3. \A j \in 1..Len(seqs[i]) : seqs[i][j] \in T
        BY <1>4, <3>2
      <3> HIDE DEF T
      <3> QED
        BY <3>1, <3>3, RetypedList
    <2> HIDE DEF T
    <2>3. \A i \in 1..Len(seqs) : seqs[i] \in Seq(T)
      BY <1>2, <2>2
    <2> QED
      BY <2>1, <2>3, RetypedList
  <1>6. chunks \in Seq(T)
    <2> HIDE DEF T
    <2> QED
      BY <1>3, <1>5, FlattenType
  <1> DEFINE m == Len(chunks)
  <1>7. /\ m \in Nat /\ DOMAIN chunks = 1..m
        /\ \A k \in 1..m : HasSizes(chunks[k].data)
    <2>1. \A c \in T : HasSizes(c.data)
      OBVIOUS
    <2> HIDE DEF T, chunks
    <2> QED
      BY <1>6, <2>1
  <1>8. /\ DOMAIN blocks = 1..m
        /\ \A k \in 1..m : blocks[k] = CompressedBlock(fmt, chunks[k].data)
    BY <1>7 DEF Dx10Blocks
  <1> HIDE DEF blocks, chunks, m
  <1>9. bytes = [k \in 1..m |-> bytes[k]] /\ \A k \in 1..m : bytes[k] = blocks[k].bytes
    BY <1>8 DEF Bytes
  <1> HIDE DEF bytes
  <1>10. ASSUME NEW k \in 1..m
         PROVE  bytes[k].size \in Nat /\ ~HasHash(bytes[k])
    BY <1>7, <1>8, <1>9, CompressedIsField
  <1>11. Plain(bytes)
    BY <1>7, <1>9, <1>10, ManyArePlain
  <1> QED
    BY <1>11 DEF bytes, blocks

(* The hashes of an archive, in the order of its entries.                  *)
HashesOf(s) == [i \in 1..Len(s) |-> s[i].hash]

LEMMA HashesAreListed ==
  ASSUME NEW s, Listed(s)
  PROVE  /\ Listed(HashesOf(s)) /\ Len(HashesOf(s)) = Len(s)
         /\ \A i \in 1..Len(s) : HashesOf(s)[i] = s[i].hash
  <1>1. Len(s) \in Nat
    BY ListedIs
  <1>2. HashesOf(s) = [i \in 1..Len(s) |-> HashesOf(s)[i]]
        /\ \A i \in 1..Len(s) : HashesOf(s)[i] = s[i].hash
    BY DEF HashesOf
  <1> QED
    BY <1>1, <1>2, FunctionIsListed

LEMMA NamesEnd ==
  ASSUME NEW s, Listed(s), \A i \in 1..Len(s) : Named(s[i]), NEW named
  PROVE  Plain(IF named THEN NameTable(s) ELSE << >>)
  <1>1. Plain(NameTable(s))
    BY NamesArePlain DEF Named
  <1> QED
    BY <1>1, NoneIsPlain

(* One record of each file of a general archive has its hash.              *)
LEMMA GnrlIsKeyed ==
  ASSUME NEW fmt, NEW names, NEW s, Listed(s),
         \A i \in 1..Len(s) : Named(s[i]) /\ FileOf(s[i])
  PROVE  \E fields : /\ GnrlImage(fmt, names, s) = Image(fields)
                     /\ Keyed(fields, HashesOf(s))
  <1> DEFINE n == Len(s)
             a == write_header(fmt, "GNRL", Len(s),
                               GnrlNamesOffset(fmt, names, s))
             b == GnrlRecords(fmt, s)
             c == Bytes(GnrlBlocks(fmt, s))
             d == IF HasNames(names, s) THEN NameTable(s) ELSE << >>
             hashes == HashesOf(s)
  <1>1. GnrlImage(fmt, names, s) = Image(((a \o b) \o c) \o d)
    BY DEF GnrlImage
  <1>2. Keyed(a, << >>) /\ Plain(c) /\ Plain(d)
    BY HeaderIsPlain, PlainIsKeyed, GnrlBlocksArePlain, NamesEnd
  <1>3. n \in Nat /\ DOMAIN s = 1..n
    BY ListedIs
  <1>4. /\ b = [i \in 1..n |-> b[i]]
        /\ \A i \in 1..n : /\ HasHash(b[i]) /\ b[i].is.hash = s[i].hash
                           /\ b[i].size = 36
    BY <1>3 DEF GnrlRecords, Field, GNRL_RECORD_SIZE, HasHash
  <1> HIDE DEF a, b, c, d
  <1>5. Listed(b) /\ Len(b) = n
    <2> HIDE DEF n
    <2> QED
      BY <1>3, <1>4, FunctionIsListed
  <1>6. AreFields(b)
    BY <1>4, <1>5 DEF AreFields
  <1>7. /\ Listed(hashes) /\ Len(hashes) = n
        /\ \A i \in 1..n : hashes[i] = s[i].hash
    BY HashesAreListed
  <1> HIDE DEF hashes
  <1>8. << >> \o hashes = hashes /\ Listed(<< >>)
    <2>1. Listed(<< >>)
      BY NoneIsPlain DEF Plain, AreFields
    <2> QED
      BY <1>7, <2>1, EmptyBefore DEF Listed
  <1>9. Keyed(a \o b, << >> \o hashes)
    <2>1. \A k \in 1..Len(b) : /\ HasHash(b[k]) /\ b[k].is.hash = hashes[k]
                               /\ b[k].size > 0
      BY <1>4, <1>5, <1>7
    <2> QED
      BY <1>2, <1>5, <1>6, <1>7, <1>8, <2>1, KeyedThenRecords
  <1>10. Keyed((a \o b) \o c, hashes)
    BY <1>2, <1>8, <1>9, KeyedThenPlain
  <1>11. Keyed(((a \o b) \o c) \o d, hashes)
    BY <1>2, <1>10, KeyedThenPlain
  <1> QED
    BY <1>1, <1>11 DEF hashes

(* The records of a texture begin with its hash and have no other.         *)
BeginsRecord(fields, hash) ==
  \E first, rest :
    /\ fields = <<first>> \o rest
    /\ HasHash(first) /\ first.is.hash = hash /\ first.size = 24
    /\ Plain(rest)

LEMMA TextureIsKeyed ==
  ASSUME NEW fmt, NEW s, NEW i, Listed(s[i].chunks)
  PROVE  BeginsRecord(TextureRecords(fmt, s, i), s[i].hash)
  <1> DEFINE m == Len(s[i].chunks)
             first == FileHeader(s[i])
             blocks == Dx10Blocks(fmt, s)
             before == Offsets(ChunkCounts(s))[i - 1]
             Chunk(j) ==
               Field(DX10_CHUNK_SIZE,
                     [offset |-> BlockStart(Dx10DataStart(fmt, s),
                                            Sizes(blocks), before + j),
                      packed |-> blocks[before + j].packed,
                      unpacked |-> blocks[before + j].unpacked,
                      start_mip |-> s[i].chunks[j].start_mip,
                      end_mip |-> s[i].chunks[j].end_mip])
             rest == [j \in DOMAIN s[i].chunks |-> Chunk(j)]
  <1>1. TextureRecords(fmt, s, i) = <<first>> \o rest
    BY DEF TextureRecords
  <1>2. HasHash(first) /\ first.is.hash = s[i].hash /\ first.size = 24
    BY DEF FileHeader, Field, HasHash, DX10_FILE_HEADER_SIZE
  <1>3. m \in Nat /\ DOMAIN s[i].chunks = 1..m
    BY ListedIs
  <1>4. ASSUME NEW j
        PROVE  Chunk(j).size \in Nat /\ ~HasHash(Chunk(j))
    BY DEF Field, HasHash, DX10_CHUNK_SIZE
  <1> HIDE DEF Chunk, first, m
  <1>5. rest = [j \in 1..m |-> rest[j]] /\ \A j \in 1..m : rest[j] = Chunk(j)
    BY <1>3
  <1> HIDE DEF rest
  <1>6. Plain(rest)
    BY <1>3, <1>4, <1>5, ManyArePlain
  <1> QED
    BY <1>1, <1>2, <1>6 DEF BeginsRecord

(* The hashes of the first entries.                                        *)
LEMMA OneMoreHash ==
  ASSUME NEW s, NEW k \in Nat
  PROVE  /\ [i \in 1..k |-> s[i].hash] \o <<s[k + 1].hash>>
              = [i \in 1..(k + 1) |-> s[i].hash]
         /\ Listed([i \in 1..k |-> s[i].hash])
  <1> DEFINE S == {s[i].hash : i \in 1..(k + 1)}
             h == [i \in 1..k |-> s[i].hash]
             l == [i \in 1..(k + 1) |-> s[i].hash]
             c == h \o <<s[k + 1].hash>>
  <1>1. h \in Seq(S) /\ l \in Seq(S) /\ Len(h) = k /\ Len(l) = k + 1
    OBVIOUS
  <1>2. /\ c \in Seq(S) /\ Len(c) = k + 1
        /\ \A i \in 1..k : c[i] = h[i]
        /\ c[k + 1] = s[k + 1].hash
    <2>1. s[k + 1].hash \in S
      OBVIOUS
    <2> HIDE DEF S, h
    <2> QED
      BY <1>1, <2>1
  <1>3. \A i \in 1..(k + 1) : c[i] = l[i]
    <2>1. \A i \in 1..(k + 1) : i \in 1..k \/ i = k + 1
      OBVIOUS
    <2>2. /\ \A i \in 1..k : h[i] = s[i].hash
          /\ \A i \in 1..(k + 1) : l[i] = s[i].hash
      OBVIOUS
    <2> HIDE DEF h, l, c
    <2> QED
      BY <1>2, <2>1, <2>2
  <1>4. c = l
    <2> HIDE DEF c, l, S
    <2> QED
      BY <1>1, <1>2, <1>3
  <1> QED
    BY <1>1, <1>4 DEF Listed

(* Where the parentheses are does not matter.                              *)
Regrouped(a, b, c) == (a \o b) \o c = a \o (b \o c)
RegroupedTwice(a, b, c, d) == ((a \o b) \o c) \o d = a \o (b \o (c \o d))

LEMMA ConcatAgain ==
  ASSUME NEW a, NEW b, NEW c, Listed(a), Listed(b), Listed(c)
  PROVE  Regrouped(a, b, c)
  <1>1. PICK A : a \in Seq(A)
    BY DEF Listed
  <1>2. PICK B : b \in Seq(B)
    BY DEF Listed
  <1>3. PICK C : c \in Seq(C)
    BY DEF Listed
  <1> DEFINE D == A \cup B \cup C
  <1>4. a \in Seq(D) /\ b \in Seq(D) /\ c \in Seq(D)
    BY <1>1, <1>2, <1>3
  <1> HIDE DEF D
  <1> QED
    BY <1>4, ConcatAssociative DEF Regrouped

LEMMA ThreeBehindOne ==
  ASSUME NEW a, NEW b, NEW c, NEW d, Listed(a), Listed(b), Listed(c), Listed(d)
  PROVE  RegroupedTwice(a, b, c, d)
  <1>1. Listed(a \o b) /\ Listed(c \o d)
    BY ConcatIs
  <1>2. Regrouped(a, b, c \o d) /\ Regrouped(a \o b, c, d)
    BY <1>1, ConcatAgain
  <1> QED
    BY <1>2, Zenon DEF Regrouped, RegroupedTwice

LEMMA Dx10IsKeyed ==
  ASSUME NEW fmt, NEW names, NEW s, Listed(s),
         \A i \in 1..Len(s) : Named(s[i]) /\ TextureOf(s[i])
  PROVE  \E fields : /\ Dx10Image(fmt, names, s) = Image(fields)
                     /\ Keyed(fields, HashesOf(s))
  <1> DEFINE n == Len(s)
             a == write_header(fmt, "DX10", Len(s),
                               Dx10NamesOffset(fmt, names, s))
             seqs == [i \in DOMAIN s |-> TextureRecords(fmt, s, i)]
             c == Bytes(Dx10Blocks(fmt, s))
             d == IF HasNames(names, s) THEN NameTable(s) ELSE << >>
             h(k) == [i \in 1..k |-> s[i].hash]
  <1>1. Dx10Image(fmt, names, s) = Image(((a \o FlattenSeq(seqs)) \o c) \o d)
    BY DEF Dx10Image
  <1>2. Plain(a) /\ Plain(c) /\ Plain(d)
    BY HeaderIsPlain, Dx10BlocksArePlain, NamesEnd
  <1>3. n \in Nat /\ DOMAIN s = 1..n
    BY ListedIs
  <1>4. /\ Listed(seqs) /\ Len(seqs) = n
        /\ \A i \in 1..n : seqs[i] = TextureRecords(fmt, s, i)
    BY <1>3, FunctionIsListed
  <1> HIDE DEF a, c, d, seqs
  <1>5. ASSUME NEW i \in 1..n
        PROVE  BeginsRecord(seqs[i], s[i].hash)
    <2>1. Listed(s[i].chunks)
      BY TextureHasSizes
    <2> QED
      BY <1>4, <2>1, TextureIsKeyed
  <1>6. \A i \in 1..n : Listed(seqs[i])
    <2> TAKE i \in 1..n
    <2>1. PICK first, rest : seqs[i] = <<first>> \o rest /\ Plain(rest)
      BY <1>5 DEF BeginsRecord
    <2> QED
      BY <2>1, OneIsListed, ConcatIs DEF Plain, AreFields
  <1>7. PICK f : Flattens(f, seqs, Elements(seqs))
    BY <1>4, <1>6, ManyAreListed, FlattenIs
  <1>8. /\ f[0] = << >> /\ FlattenSeq(seqs) = f[n]
        /\ \A k \in 1..n : f[k] = f[k - 1] \o seqs[k]
        /\ \A k \in 0..n : Listed(f[k])
    BY <1>4, <1>7 DEF Flattens, Listed
  <1> DEFINE S == {k \in 0..n : Keyed(a \o f[k], h(k))}
  <1>9. 0 \in S
    <2>1. a \o << >> = a
      <3>1. Listed(a)
        BY <1>2 DEF Plain, AreFields
      <3> QED
        BY <3>1 DEF Listed
    <2>2. h(0) = << >>
      OBVIOUS
    <2>3. Keyed(a \o f[0], h(0))
      BY <1>2, <1>8, <2>1, <2>2, PlainIsKeyed
    <2> HIDE DEF h
    <2> QED
      BY <1>3, <2>3
  <1>10. ASSUME NEW k \in 0..(n - 1), k \in S
         PROVE  k + 1 \in S
    <2>1. k + 1 \in 1..n /\ (k + 1) - 1 = k /\ k + 1 \in 0..n /\ k \in 0..n /\ k \in Nat
      BY <1>3
    <2>2. PICK first, rest :
            /\ seqs[k + 1] = <<first>> \o rest
            /\ HasHash(first) /\ first.is.hash = s[k + 1].hash /\ first.size = 24
            /\ Plain(rest)
      BY <1>5, <2>1 DEF BeginsRecord
    <2> DEFINE one == <<first>>
               more == <<s[k + 1].hash>>
    <2>3. /\ Listed(one) /\ Len(one) = 1 /\ one[1] = first
          /\ Listed(more) /\ Len(more) = 1 /\ more[1] = s[k + 1].hash
      BY OneIsListed
    <2>4. seqs[k + 1] = one \o rest
      BY <2>2
    <2> HIDE DEF one, more
    <2>5. AreFields(one) /\ \A j \in 1..Len(one) : HasHash(one[j])
            /\ one[j].is.hash = more[j] /\ one[j].size > 0
      <3>1. \A j \in 1..1 : j = 1
        OBVIOUS
      <3> QED
        BY <2>2, <2>3, <3>1 DEF AreFields
    <2>6. /\ Listed(h(k)) /\ h(k) \o more = h(k + 1)
      <3>1. k \in Nat
        BY <2>1
      <3> QED
        BY <3>1, OneMoreHash DEF more
    <2>7. Keyed(a \o f[k], h(k))
      BY <1>10
    <2> HIDE DEF h, S
    <2>8. Keyed((a \o f[k]) \o one, h(k + 1))
      BY <2>3, <2>5, <2>6, <2>7, KeyedThenRecords
    <2>9. Keyed(((a \o f[k]) \o one) \o rest, h(k + 1))
      BY <2>2, <2>8, KeyedThenPlain
    <2>10. ((a \o f[k]) \o one) \o rest = a \o (f[k] \o (one \o rest))
      <3>1. Listed(a) /\ Listed(f[k]) /\ Listed(one) /\ Listed(rest)
        BY <1>2, <1>8, <2>1, <2>2, <2>3 DEF Plain, AreFields
      <3>2. RegroupedTwice(a, f[k], one, rest)
        BY <3>1, ThreeBehindOne
      <3> QED
        BY <3>2, Zenon DEF RegroupedTwice
    <2>11. f[k + 1] = f[k] \o (one \o rest)
      BY <1>8, <2>1, <2>4
    <2> QED
      BY <2>1, <2>9, <2>10, <2>11 DEF S
  <1> HIDE DEF S
  <1>11. 0..n \subseteq S
    BY <1>3, <1>9, <1>10, InductionUpTo
  <1>12. n \in S
    BY <1>3, <1>11
  <1>13. Keyed(a \o FlattenSeq(seqs), HashesOf(s))
    BY <1>8, <1>12 DEF S, HashesOf
  <1>14. Keyed((a \o FlattenSeq(seqs)) \o c, HashesOf(s))
    BY <1>2, <1>13, KeyedThenPlain
  <1>15. Keyed(((a \o FlattenSeq(seqs)) \o c) \o d, HashesOf(s))
    BY <1>2, <1>14, KeyedThenPlain
  <1> QED
    BY <1>1, <1>15
-----------------------------------------------------------------------------
(* Fields that lie one behind the other in a file, from base on.           *)
Lies(at, base, fields) ==
  \A k \in Held(fields) :
    /\ base + Begins(fields)[k] \in DOMAIN at
    /\ at[base + Begins(fields)[k]] = fields[k]

LEMMA ExtentsReach ==
  ASSUME NEW fields, AreFields(fields)
  PROVE  /\ Len(fields) \in Nat /\ DOMAIN fields = 1..Len(fields)
         /\ Extents(fields) \in Seq(Nat) /\ Len(Extents(fields)) = Len(fields)
         /\ \A k \in 1..Len(fields) : Extents(fields)[k] = fields[k].size
         /\ Reaches(Offsets(Extents(fields)), Extents(fields))
         /\ Extent(fields) = Offsets(Extents(fields))[Len(fields)]
         /\ Extent(fields) \in Nat
  <1> DEFINE n == Len(fields)
             sizes == Extents(fields)
  <1>1. n \in Nat /\ DOMAIN fields = 1..n /\ \A k \in 1..n : fields[k].size \in Nat
    BY DEF AreFields, Listed
  <1>2. sizes \in Seq(Nat) /\ Len(sizes) = n /\ \A k \in 1..n : sizes[k] = fields[k].size
    <2> HIDE DEF n
    <2> QED
      BY <1>1 DEF Extents
  <1>3. Reaches(Offsets(sizes), sizes)
    BY <1>2, OffsetsReach
  <1>4. Extent(fields) = Offsets(sizes)[n]
    BY <1>2 DEF Extent, Total
  <1>5. Extent(fields) \in Nat
    BY <1>1, <1>2, <1>3, <1>4 DEF Reaches
  <1> QED
    BY <1>1, <1>2, <1>3, <1>4, <1>5

(* Where the fields end, one behind the other.                             *)
EndAt(f, fields) ==
  /\ f[0] = 0 /\ \A k \in 1..Len(fields) : f[k] = f[k - 1] + fields[k].size
  /\ \A k \in 0..Len(fields) : f[k] \in Nat
  /\ Extent(fields) = f[Len(fields)]

LEMMA FieldsEndAt ==
  ASSUME NEW fields, AreFields(fields)
  PROVE  EndAt(Offsets(Extents(fields)), fields)
  <1> DEFINE f == Offsets(Extents(fields))
             sizes == Extents(fields)
             n == Len(fields)
  <1>1. /\ n \in Nat /\ Len(sizes) = n /\ \A k \in 1..n : sizes[k] = fields[k].size
        /\ Reaches(f, sizes) /\ Extent(fields) = f[n]
    BY ExtentsReach
  <1> HIDE DEF f, sizes
  <1>2. f \in [0..n -> Nat] /\ f[0] = 0 /\ \A k \in 1..n : f[k] = f[k - 1] + sizes[k]
    BY <1>1 DEF Reaches
  <1>3. \A k \in 1..n : f[k] = f[k - 1] + fields[k].size
    BY <1>1, <1>2
  <1>4. \A k \in 0..n : f[k] \in Nat
    BY <1>2
  <1>5. EndAt(f, fields)
    BY <1>1, <1>2, <1>3, <1>4 DEF EndAt
  <1> QED
    BY <1>5 DEF f

LEMMA BeginsAre ==
  ASSUME NEW fields, AreFields(fields), NEW k \in 1..Len(fields)
  PROVE  /\ Begins(fields)[k] = Offsets(Extents(fields))[k - 1]
         /\ Begins(fields)[k] \in Nat
         /\ Begins(fields)[k] + fields[k].size = Offsets(Extents(fields))[k]
         /\ Begins(fields)[k] + fields[k].size <= Extent(fields)
  <1> DEFINE n == Len(fields)
             sizes == Extents(fields)
             offsets == Offsets(sizes)
  <1>1. /\ n \in Nat /\ k \in 1..n /\ Len(sizes) = n
        /\ sizes[k] = fields[k].size /\ \A i \in 1..n : sizes[i] \in Nat
        /\ Reaches(offsets, sizes) /\ Extent(fields) = offsets[n]
    BY ExtentsReach DEF AreFields
  <1>2. Begins(fields)[k] = offsets[k - 1]
    BY DEF Begins
  <1> HIDE DEF n, sizes, offsets
  <1>3. k - 1 \in 0..n /\ k \in Nat /\ k <= n /\ k \in 0..n
    BY <1>1
  <1>4. /\ offsets[k - 1] \in Nat /\ offsets[k] \in Nat
        /\ offsets[k] = offsets[k - 1] + sizes[k]
    BY <1>1, <1>3 DEF Reaches
  <1>5. offsets[k] <= offsets[n]
    BY <1>1, <1>3, ReachesKeep
  <1> QED
    BY <1>1, <1>2, <1>4, <1>5 DEF sizes, offsets

LEMMA ConcatExtents ==
  ASSUME NEW a, NEW b, AreFields(a), AreFields(b)
  PROVE  /\ \A k \in 0..Len(a) :
              Offsets(Extents(a \o b))[k] = Offsets(Extents(a))[k]
         /\ \A k \in 0..Len(b) :
              Offsets(Extents(a \o b))[Len(a) + k]
                = Extent(a) + Offsets(Extents(b))[k]
  <1> DEFINE l == Len(a)
             m == Len(b)
             c == a \o b
             f == Offsets(Extents(a))
             g == Offsets(Extents(b))
             h == Offsets(Extents(c))
  <1>1. AreFields(c)
    BY FieldsConcat
  <1>2. /\ Len(c) = l + m /\ l \in Nat /\ m \in Nat
        /\ \A k \in 1..l : c[k] = a[k]
        /\ \A k \in 1..m : c[l + k] = b[k]
    BY ConcatIs DEF AreFields
  <1>3. /\ f[0] = 0 /\ \A k \in 1..l : f[k] = f[k - 1] + a[k].size
        /\ \A k \in 0..l : f[k] \in Nat
        /\ Extent(a) = f[l]
    BY FieldsEndAt DEF EndAt
  <1>4. /\ g[0] = 0 /\ \A k \in 1..m : g[k] = g[k - 1] + b[k].size
        /\ \A k \in 0..m : g[k] \in Nat
    BY FieldsEndAt DEF EndAt
  <1>5. h[0] = 0 /\ \A k \in 1..(l + m) : h[k] = h[k - 1] + c[k].size
    <2>1. /\ Reaches(h, Extents(c)) /\ Len(Extents(c)) = Len(c)
          /\ \A k \in 1..Len(c) : Extents(c)[k] = c[k].size
      BY <1>1, ExtentsReach
    <2> HIDE DEF c, h, l, m
    <2> QED
      BY <1>2, <2>1 DEF Reaches
  <1>6. /\ \A k \in 1..l : a[k].size \in Nat
        /\ \A k \in 1..m : b[k].size \in Nat
    BY DEF AreFields
  <1> HIDE DEF f, g, h, l, m, c
  <1>7. \A k \in 0..l : h[k] = f[k]
    <2> DEFINE S == {k \in 0..l : h[k] = f[k]}
    <2>1. 0 \in S
      BY <1>2, <1>3, <1>5
    <2>2. ASSUME NEW k \in 0..(l - 1), k \in S
          PROVE  k + 1 \in S
      <3>1. k + 1 \in 1..l /\ (k + 1) - 1 = k /\ k + 1 \in 1..(l + m) /\ k + 1 \in 0..l
        BY <1>2
      <3>2. h[k + 1] = h[k] + a[k + 1].size /\ f[k + 1] = f[k] + a[k + 1].size
        BY <1>2, <1>3, <1>5, <3>1
      <3> QED
        BY <2>2, <3>1, <3>2
    <2> HIDE DEF S
    <2>3. 0..l \subseteq S
      BY <1>2, <2>1, <2>2, InductionUpTo
    <2> QED
      BY <2>3 DEF S
  <1>8. \A k \in 0..m : h[l + k] = Extent(a) + g[k]
    <2> DEFINE S == {k \in 0..m : h[l + k] = Extent(a) + g[k]}
    <2>1. 0 \in S
      <3>1. l + 0 = l /\ l \in 0..l /\ 0 \in 0..m /\ f[l] \in Nat
        BY <1>2, <1>3
      <3> QED
        BY <1>3, <1>4, <1>7, <3>1
    <2>2. ASSUME NEW k \in 0..(m - 1), k \in S
          PROVE  k + 1 \in S
      <3>1. /\ k + 1 \in 1..m /\ (k + 1) - 1 = k /\ k + 1 \in 0..m /\ k \in 0..m
            /\ l + (k + 1) \in 1..(l + m) /\ (l + (k + 1)) - 1 = l + k
        BY <1>2
      <3>2. /\ h[l + (k + 1)] = h[l + k] + b[k + 1].size
            /\ g[k + 1] = g[k] + b[k + 1].size
        BY <1>2, <1>4, <1>5, <3>1
      <3>3. b[k + 1].size \in Nat /\ g[k] \in Nat /\ Extent(a) \in Nat
        BY <1>2, <1>3, <1>4, <1>6, <3>1
      <3>4. h[l + (k + 1)] = Extent(a) + g[k + 1]
        BY <2>2, <3>2, <3>3
      <3> QED
        BY <3>1, <3>4
    <2> HIDE DEF S
    <2>3. 0..m \subseteq S
      BY <1>2, <2>1, <2>2, InductionUpTo
    <2> QED
      BY <2>3 DEF S
  <1> QED
    BY <1>7, <1>8 DEF f, g, h, l, m, c

(* Where two lists of fields lie that are put one behind the other.        *)
LEMMA ConcatLies ==
  ASSUME NEW a, NEW b, AreFields(a), AreFields(b),
         NEW at, NEW base \in Nat, Lies(at, base, a \o b)
  PROVE  /\ Lies(at, base, a) /\ Lies(at, base + Extent(a), b)
         /\ Extent(a \o b) = Extent(a) + Extent(b)
  <1> DEFINE l == Len(a)
             m == Len(b)
             c == a \o b
  <1>1. AreFields(c)
    BY FieldsConcat
  <1>2. /\ Len(c) = l + m /\ l \in Nat /\ m \in Nat
        /\ \A k \in 1..l : c[k] = a[k]
        /\ \A k \in 1..m : c[l + k] = b[k]
    BY ConcatIs DEF AreFields
  <1>3. /\ \A k \in 0..l : Offsets(Extents(c))[k] = Offsets(Extents(a))[k]
        /\ \A k \in 0..m : Offsets(Extents(c))[l + k] = Extent(a) + Offsets(Extents(b))[k]
    BY ConcatExtents
  <1> HIDE DEF c, l, m
  <1>4. ASSUME NEW k \in Held(a)
        PROVE  /\ base + Begins(a)[k] \in DOMAIN at
               /\ at[base + Begins(a)[k]] = a[k]
    <2>1. k \in 1..l /\ k \in 1..(l + m) /\ k - 1 \in 0..l /\ a[k].size > 0
      BY <1>2 DEF Held, l
    <2>2. k \in Held(c)
      BY <1>2, <2>1 DEF Held
    <2>3. Begins(c)[k] = Begins(a)[k]
      <3>1. Begins(c)[k] = Offsets(Extents(c))[k - 1]
        BY <1>1, <1>2, <2>1, BeginsAre
      <3>2. Begins(a)[k] = Offsets(Extents(a))[k - 1]
        BY <2>1, BeginsAre DEF l
      <3> QED
        BY <1>3, <2>1, <3>1, <3>2
    <2>4. base + Begins(c)[k] \in DOMAIN at /\ at[base + Begins(c)[k]] = c[k]
      BY <2>2 DEF Lies, c
    <2> QED
      BY <1>2, <2>1, <2>3, <2>4
  <1>5. ASSUME NEW k \in Held(b)
        PROVE  /\ (base + Extent(a)) + Begins(b)[k] \in DOMAIN at
               /\ at[(base + Extent(a)) + Begins(b)[k]] = b[k]
    <2>1. /\ k \in 1..m /\ l + k \in 1..(l + m) /\ k - 1 \in 0..m /\ b[k].size > 0
          /\ (l + k) - 1 = l + (k - 1)
      <3>1. k \in 1..m /\ b[k].size > 0
        BY DEF Held, m
      <3>2. l + k \in 1..(l + m) /\ k - 1 \in 0..m /\ (l + k) - 1 = l + (k - 1)
        BY <1>2, <3>1
      <3> QED
        BY <3>1, <3>2
    <2>2. l + k \in Held(c)
      BY <1>2, <2>1 DEF Held
    <2>3. Begins(c)[l + k] = Extent(a) + Begins(b)[k]
      <3>1. Begins(c)[l + k] = Offsets(Extents(c))[(l + k) - 1]
        BY <1>1, <1>2, <2>1, BeginsAre
      <3>2. Begins(b)[k] = Offsets(Extents(b))[k - 1]
        BY <2>1, BeginsAre DEF m
      <3> QED
        BY <1>3, <2>1, <3>1, <3>2
    <2>4. base + Begins(c)[l + k] \in DOMAIN at /\ at[base + Begins(c)[l + k]] = c[l + k]
      BY <2>2 DEF Lies, c
    <2>5. base + Begins(c)[l + k] = (base + Extent(a)) + Begins(b)[k]
      <3>1. Begins(b)[k] \in Nat /\ Extent(a) \in Nat
        BY <2>1, BeginsAre, ExtentsReach DEF m
      <3> QED
        BY <2>3, <3>1
    <2>6. c[l + k] = b[k]
      BY <1>2, <2>1
    <2> QED
      BY <2>4, <2>5, <2>6
  <1>6. Extent(c) = Extent(a) + Extent(b)
    <2>1. /\ Extent(c) = Offsets(Extents(c))[l + m]
          /\ Extent(b) = Offsets(Extents(b))[m]
      BY <1>1, <1>2, ExtentsReach DEF m
    <2> QED
      BY <1>2, <1>3, <2>1
  <1> QED
    BY <1>4, <1>5, <1>6 DEF Lies, c

LEMMA ImageLies ==
  ASSUME NEW fields, AreFields(fields)
  PROVE  /\ Image(fields).len = Extent(fields)
         /\ Lies(Image(fields).at, 0, fields)
  <1>1. Image(fields).len = Extent(fields)
    <2>1. Image(fields).len = Offsets(Extents(fields))[Len(fields)]
      BY DEF Image, Extents
    <2> QED
      BY <2>1, ExtentsReach
  <1>2. ASSUME NEW k \in Held(fields)
        PROVE  /\ 0 + Begins(fields)[k] \in DOMAIN Image(fields).at
               /\ Image(fields).at[0 + Begins(fields)[k]] = fields[k]
    <2>1. 0 + Begins(fields)[k] = Begins(fields)[k]
      <3>1. Begins(fields)[k] \in Nat
        BY BeginsAre DEF Held
      <3> QED
        BY <3>1
    <2> QED
      BY <2>1, ImageHolds DEF HeldAt
  <1> QED
    BY <1>1, <1>2 DEF Lies
-----------------------------------------------------------------------------
(* One field, and many of the same size.                                   *)
LEMMA OneExtent ==
  ASSUME NEW x, x.size \in Nat
  PROVE  /\ AreFields(<<x>>) /\ Extent(<<x>>) = x.size /\ Begins(<<x>>)[1] = 0
  <1> DEFINE one == <<x>>
  <1>1. Listed(one) /\ Len(one) = 1 /\ one[1] = x
    BY OneIsListed
  <1> HIDE DEF one
  <1>2. AreFields(one)
    <2>1. \A k \in 1..1 : k = 1
      OBVIOUS
    <2> QED
      BY <1>1, <2>1 DEF AreFields
  <1>3. 1 \in 1..Len(one) /\ 1 - 1 = 0
    BY <1>1
  <1>4. Reaches(Offsets(Extents(one)), Extents(one))
    BY <1>2, ExtentsReach
  <1>5. Begins(one)[1] = 0
    <2>1. Begins(one)[1] = Offsets(Extents(one))[1 - 1]
      BY <1>2, <1>3, BeginsAre
    <2> QED
      BY <1>3, <1>4, <2>1 DEF Reaches
  <1>6. Begins(one)[1] + x.size = Offsets(Extents(one))[1]
    BY <1>1, <1>2, <1>3, BeginsAre
  <1>7. Extent(one) = Offsets(Extents(one))[1]
    BY <1>1, <1>2, ExtentsReach
  <1>8. Extent(one) = x.size
    BY <1>5, <1>6, <1>7
  <1> QED
    BY <1>2, <1>5, <1>8 DEF one

LEMMA NoneExtent == AreFields(<< >>) /\ Extent(<< >>) = 0
  <1> DEFINE none == << >>
  <1>1. AreFields(none) /\ Len(none) = 0
    BY NoneIsPlain DEF Plain
  <1>2. Extent(none) = Offsets(Extents(none))[Len(none)]
        /\ Reaches(Offsets(Extents(none)), Extents(none))
    BY <1>1, ExtentsReach
  <1>3. Extent(none) = 0
    BY <1>1, <1>2 DEF Reaches
  <1> QED
    BY <1>1, <1>3

InSteps(fields, c) ==
  /\ \A k \in 1..Len(fields) : Begins(fields)[k] = c * (k - 1)
  /\ Extent(fields) = c * Len(fields)

LEMMA SameSizes ==
  ASSUME NEW fields, AreFields(fields), NEW c, c = 24 \/ c = 36,
         \A k \in 1..Len(fields) : fields[k].size = c
  PROVE  InSteps(fields, c)
  <1> DEFINE n == Len(fields)
             f == Offsets(Extents(fields))
             S == {k \in 0..n : f[k] = c * k}
  <1>1. /\ n \in Nat /\ f[0] = 0 /\ Extent(fields) = f[n]
        /\ \A k \in 1..n : f[k] = f[k - 1] + c
    <2>1. EndAt(f, fields) /\ n \in Nat
      BY FieldsEndAt, ExtentsReach
    <2> HIDE DEF f
    <2> QED
      BY <2>1 DEF EndAt
  <1> HIDE DEF f
  <1>2. 0 \in S
    BY <1>1
  <1>3. ASSUME NEW k \in 0..(n - 1), k \in S
        PROVE  k + 1 \in S
    <2>1. k + 1 \in 1..n /\ (k + 1) - 1 = k /\ k + 1 \in 0..n /\ k \in Nat
      BY <1>1
    <2>2. f[k + 1] = f[k] + c /\ f[k] = c * k
      BY <1>1, <1>3, <2>1
    <2>3. c * (k + 1) = c * k + c
      <3>1. CASE c = 24
        BY <2>1, <3>1
      <3>2. CASE c = 36
        BY <2>1, <3>2
      <3> QED
        BY <3>1, <3>2
    <2> QED
      BY <2>1, <2>2, <2>3
  <1> HIDE DEF S
  <1>4. 0..n \subseteq S
    BY <1>1, <1>2, <1>3, InductionUpTo
  <1>5. \A k \in 0..n : f[k] = c * k
    BY <1>4 DEF S
  <1>6. Extent(fields) = c * n
    <2>1. n \in 0..n
      BY <1>1
    <2> QED
      BY <1>1, <1>5, <2>1
  <1>7. ASSUME NEW k \in 1..n
        PROVE  Begins(fields)[k] = c * (k - 1)
    <2>1. k - 1 \in 0..n
      BY <1>1
    <2>2. Begins(fields)[k] = f[k - 1]
      BY BeginsAre DEF f
    <2> QED
      BY <1>5, <2>1, <2>2
  <1> QED
    BY <1>6, <1>7 DEF InSteps

(* Where each of many lists of fields lies that are put one behind the     *)
(* other.                                                                  *)
Reach(seqs) == Offsets([i \in 1..Len(seqs) |-> Extent(seqs[i])])

LiesEach(at, base, seqs) ==
  \A i \in 1..Len(seqs) : Lies(at, base + Reach(seqs)[i - 1], seqs[i])

LEMMA ReachIs ==
  ASSUME NEW seqs, Listed(seqs), \A i \in 1..Len(seqs) : AreFields(seqs[i])
  PROVE  /\ Len(seqs) \in Nat
         /\ \A i \in 1..Len(seqs) : Extent(seqs[i]) \in Nat
         /\ Reach(seqs)[0] = 0
         /\ \A i \in 1..Len(seqs) : Reach(seqs)[i] = Reach(seqs)[i - 1] + Extent(seqs[i])
         /\ \A i \in 0..Len(seqs) : Reach(seqs)[i] \in Nat
  <1> DEFINE n == Len(seqs)
             e == [i \in 1..n |-> Extent(seqs[i])]
  <1>1. n \in Nat
    BY ListedIs
  <1>2. \A i \in 1..n : Extent(seqs[i]) \in Nat
    BY ExtentsReach
  <1>3. e \in Seq(Nat) /\ Len(e) = n /\ \A i \in 1..n : e[i] = Extent(seqs[i])
    <2> HIDE DEF n
    <2> QED
      BY <1>1, <1>2
  <1>4. Reaches(Offsets(e), e)
    BY <1>3, OffsetsReach
  <1>5. Reach(seqs) = Offsets(e)
    BY DEF Reach
  <1> HIDE DEF e, n
  <1>6. /\ Offsets(e)[0] = 0
        /\ \A i \in 1..n : Offsets(e)[i] = Offsets(e)[i - 1] + Extent(seqs[i])
        /\ \A i \in 0..n : Offsets(e)[i] \in Nat
    BY <1>3, <1>4 DEF Reaches
  <1> QED
    BY <1>1, <1>2, <1>5, <1>6 DEF n

LEMMA FlattenLies ==
  ASSUME NEW seqs, Listed(seqs), \A i \in 1..Len(seqs) : AreFields(seqs[i]),
         NEW at, NEW base \in Nat, Lies(at, base, FlattenSeq(seqs))
  PROVE  /\ LiesEach(at, base, seqs)
         /\ AreFields(FlattenSeq(seqs))
         /\ Extent(FlattenSeq(seqs)) = Reach(seqs)[Len(seqs)]
  <1> DEFINE n == Len(seqs)
  <1>1. seqs \in Seq(Seq(Elements(seqs))) /\ n \in Nat
    BY ManyAreListed, ListedIs DEF AreFields
  <1>2. PICK f : Flattens(f, seqs, Elements(seqs))
    BY <1>1, FlattenIs
  <1>3. /\ f[0] = << >> /\ FlattenSeq(seqs) = f[n]
        /\ \A k \in 1..n : f[k] = f[k - 1] \o seqs[k]
    BY <1>2 DEF Flattens
  <1>4. /\ Reach(seqs)[0] = 0
        /\ \A i \in 1..n : Reach(seqs)[i] = Reach(seqs)[i - 1] + Extent(seqs[i])
        /\ \A i \in 0..n : Reach(seqs)[i] \in Nat
    BY ReachIs
  <1> DEFINE S == {k \in 0..n : AreFields(f[k])}
  <1>5. \A k \in 0..n : AreFields(f[k])
    <2>1. 0 \in S
      BY <1>1, <1>3, NoneExtent
    <2>2. ASSUME NEW k \in 0..(n - 1), k \in S
          PROVE  k + 1 \in S
      <3>1. k + 1 \in 1..n /\ (k + 1) - 1 = k /\ k + 1 \in 0..n
        BY <1>1
      <3>2. f[k + 1] = f[k] \o seqs[k + 1]
        BY <1>3, <3>1
      <3>3. AreFields(f[k] \o seqs[k + 1])
        BY <2>2, <3>1, FieldsConcat
      <3> QED
        BY <3>1, <3>2, <3>3
    <2> HIDE DEF S
    <2>3. 0..n \subseteq S
      BY <1>1, <2>1, <2>2, InductionUpTo
    <2> QED
      BY <2>3 DEF S
  <1> HIDE DEF S
  <1> DEFINE D == {d \in 0..n : Lies(at, base, f[n - d])}
  <1>6. ASSUME NEW k \in 1..n, Lies(at, base, f[k])
        PROVE  /\ Lies(at, base, f[k - 1])
               /\ Lies(at, base + Extent(f[k - 1]), seqs[k])
    <2>1. k - 1 \in 0..n /\ f[k] = f[k - 1] \o seqs[k]
      <3>1. k - 1 \in 0..n
        BY <1>1
      <3> QED
        BY <1>3, <3>1
    <2>2. AreFields(f[k - 1]) /\ AreFields(seqs[k])
      BY <1>5, <2>1
    <2> QED
      BY <1>6, <2>1, <2>2, ConcatLies
  <1>7. \A k \in 0..n : Lies(at, base, f[k])
    <2>1. 0 \in D
      <3>1. n - 0 = n /\ 0 \in 0..n
        BY <1>1
      <3> QED
        BY <1>3, <3>1
    <2>2. ASSUME NEW d \in 0..(n - 1), d \in D
          PROVE  d + 1 \in D
      <3>1. d + 1 \in 0..n /\ n - d \in 1..n /\ (n - d) - 1 = n - (d + 1)
        BY <1>1
      <3>2. Lies(at, base, f[n - d])
        BY <2>2
      <3>3. Lies(at, base, f[(n - d) - 1])
        BY <1>6, <3>1, <3>2
      <3> QED
        BY <3>1, <3>3
    <2> HIDE DEF D
    <2>3. 0..n \subseteq D
      BY <1>1, <2>1, <2>2, InductionUpTo
    <2> TAKE k \in 0..n
    <2>4. n - k \in 0..n /\ n - (n - k) = k
      BY <1>1
    <2>5. Lies(at, base, f[n - (n - k)])
      BY <2>3, <2>4 DEF D
    <2> QED
      BY <2>4, <2>5
  <1> HIDE DEF D
  <1> DEFINE E == {k \in 0..n : Extent(f[k]) = Reach(seqs)[k]}
  <1>8. \A k \in 0..n : Extent(f[k]) = Reach(seqs)[k]
    <2>1. 0 \in E
      BY <1>1, <1>3, <1>4, NoneExtent
    <2>2. ASSUME NEW k \in 0..(n - 1), k \in E
          PROVE  k + 1 \in E
      <3>1. k + 1 \in 1..n /\ (k + 1) - 1 = k /\ k + 1 \in 0..n /\ k \in 0..n
        BY <1>1
      <3>2. f[k + 1] = f[k] \o seqs[k + 1] /\ Lies(at, base, f[k] \o seqs[k + 1])
        BY <1>3, <1>7, <3>1
      <3>3. Extent(f[k] \o seqs[k + 1]) = Extent(f[k]) + Extent(seqs[k + 1])
        BY <1>5, <3>1, <3>2, ConcatLies
      <3>4. Reach(seqs)[k + 1] = Reach(seqs)[k] + Extent(seqs[k + 1])
        BY <1>4, <3>1
      <3> QED
        BY <2>2, <3>1, <3>2, <3>3, <3>4
    <2> HIDE DEF E
    <2>3. 0..n \subseteq E
      BY <1>1, <2>1, <2>2, InductionUpTo
    <2> QED
      BY <2>3 DEF E
  <1> HIDE DEF E
  <1>9. LiesEach(at, base, seqs)
    <2>1. ASSUME NEW i \in 1..n
          PROVE  Lies(at, base + Reach(seqs)[i - 1], seqs[i])
      <3>1. i - 1 \in 0..n /\ i \in 0..n
        BY <1>1
      <3>2. Lies(at, base + Extent(f[i - 1]), seqs[i])
        BY <1>6, <1>7, <3>1
      <3>3. Extent(f[i - 1]) = Reach(seqs)[i - 1]
        BY <1>8, <3>1
      <3> QED
        BY <3>2, <3>3
    <2> QED
      BY <2>1 DEF LiesEach
  <1>10. n \in 0..n
    BY <1>1
  <1> QED
    BY <1>3, <1>5, <1>8, <1>9, <1>10
-----------------------------------------------------------------------------
(* What a reader gets where a field lies: the field if all of it is there, *)
(* otherwise Noise.                                                        *)
Shows(image, place, field) ==
  Get(image, place, field.size) =
    IF field.size = 0 THEN Nothing
    ELSE IF place + field.size <= image.len THEN field.is ELSE Noise

ShowsEach(image, base, fields) ==
  \A k \in 1..Len(fields) : Shows(image, base + Begins(fields)[k], fields[k])

LEMMA LiesShow ==
  ASSUME NEW image, NEW base, NEW fields, Lies(image.at, base, fields),
         AreFields(fields)
  PROVE  ShowsEach(image, base, fields)
  <1>1. ASSUME NEW k \in 1..Len(fields)
        PROVE  Shows(image, base + Begins(fields)[k], fields[k])
    <2> DEFINE place == base + Begins(fields)[k]
               field == fields[k]
    <2>1. field.size \in Nat
      BY DEF AreFields
    <2>2. CASE field.size = 0
      BY <2>2 DEF Shows, Get
    <2>3. CASE field.size # 0
      <3>1. k \in Held(fields)
        BY <2>1, <2>3 DEF Held
      <3>2. place \in DOMAIN image.at /\ image.at[place] = field
        BY <3>1 DEF Lies
      <3> HIDE DEF place, field
      <3>3. Shows(image, place, field)
        BY <2>3, <3>2 DEF Shows, Get
      <3> QED
        BY <3>3 DEF place, field
    <2> QED
      BY <2>2, <2>3
  <1> QED
    BY <1>1 DEF ShowsEach

(* The four parts of an archive.                                           *)
FourParts(image, a, b, c, d) ==
  /\ Lies(image.at, 0, a)
  /\ Lies(image.at, Extent(a), b)
  /\ Lies(image.at, Extent(a) + Extent(b), c)
  /\ Lies(image.at, Extent(a) + Extent(b) + Extent(c), d)
  /\ image.len = Extent(a) + Extent(b) + Extent(c) + Extent(d)

LEMMA PartsLie ==
  ASSUME NEW a, NEW b, NEW c, NEW d,
         AreFields(a), AreFields(b), AreFields(c), AreFields(d)
  PROVE  FourParts(Image(((a \o b) \o c) \o d), a, b, c, d)
  <1> DEFINE ab == a \o b
             abc == ab \o c
             all == abc \o d
             at == Image(all).at
  <1>1. AreFields(ab) /\ AreFields(abc) /\ AreFields(all)
    BY FieldsConcat
  <1>2. Image(all).len = Extent(all) /\ Lies(at, 0, all)
    BY <1>1, ImageLies
  <1>3. /\ Extent(a) \in Nat /\ Extent(b) \in Nat /\ Extent(c) \in Nat
        /\ Extent(ab) \in Nat /\ Extent(abc) \in Nat
    BY <1>1, ExtentsReach
  <1> HIDE DEF at
  <1>4. /\ Lies(at, 0, abc) /\ Lies(at, 0 + Extent(abc), d)
        /\ Extent(all) = Extent(abc) + Extent(d)
    <2> HIDE DEF abc
    <2> QED
      BY <1>1, <1>2, ConcatLies
  <1> HIDE DEF all
  <1>5. /\ Lies(at, 0, ab) /\ Lies(at, 0 + Extent(ab), c)
        /\ Extent(abc) = Extent(ab) + Extent(c)
    <2> HIDE DEF ab
    <2> QED
      BY <1>1, <1>4, ConcatLies
  <1> HIDE DEF abc
  <1>6. /\ Lies(at, 0, a) /\ Lies(at, 0 + Extent(a), b)
        /\ Extent(ab) = Extent(a) + Extent(b)
    BY <1>1, <1>5, ConcatLies
  <1> HIDE DEF ab
  <1>7. /\ 0 + Extent(a) = Extent(a)
        /\ 0 + Extent(ab) = Extent(a) + Extent(b)
        /\ 0 + Extent(abc) = Extent(a) + Extent(b) + Extent(c)
        /\ Extent(all) = Extent(a) + Extent(b) + Extent(c) + Extent(d)
    BY <1>3, <1>4, <1>5, <1>6
  <1> QED
    BY <1>2, <1>4, <1>5, <1>6, <1>7 DEF FourParts, at, all, abc, ab

(* The header.                                                             *)
ShowsHeader(image, fmt, tag, count, at) ==
  /\ Shows(image, 0, Field(24, [version |-> version[fmt], kind |-> tag,
                                file_count |-> count, name_table_offset |-> at]))
  /\ fmt = "StarfieldV3Lz4" => Shows(image, 32, Field(4, [method |-> 3]))

LEMMA HeaderLies ==
  ASSUME NEW fmt, fmt \in Formats, NEW tag, NEW count, NEW at, NEW image,
         Lies(image.at, 0, write_header(fmt, tag, count, at))
  PROVE  /\ Extent(write_header(fmt, tag, count, at)) = HeaderSize(fmt)
         /\ AreFields(write_header(fmt, tag, count, at))
         /\ ShowsHeader(image, fmt, tag, count, at)
         /\ HeaderSize(fmt) \in Nat /\ HeaderSize(fmt) >= 24
  <1> DEFINE x == Field(24, [version |-> version[fmt], kind |-> tag,
                             file_count |-> count, name_table_offset |-> at])
             y == Field(8, [tail |-> 1])
             z == Field(4, [method |-> 3])
             b == IF fmt = "Fo4" THEN << >> ELSE <<y>>
             c == IF fmt = "StarfieldV3Lz4" THEN <<z>> ELSE << >>
             one == <<x>>
  <1>1. write_header(fmt, tag, count, at) = (one \o b) \o c
    BY DEF write_header
  <1>2. /\ AreFields(one) /\ Extent(one) = 24 /\ Begins(one)[1] = 0
        /\ AreFields(<<y>>) /\ Extent(<<y>>) = 8
        /\ AreFields(<<z>>) /\ Extent(<<z>>) = 4 /\ Begins(<<z>>)[1] = 0
    <2>1. x.size = 24 /\ y.size = 8 /\ z.size = 4
      BY DEF Field
    <2> HIDE DEF x, y, z
    <2> QED
      BY <2>1, OneExtent
  <1> HIDE DEF x, y, z
  <1>3. /\ AreFields(b) /\ Extent(b) = IF fmt = "Fo4" THEN 0 ELSE 8
        /\ AreFields(c) /\ Extent(c) = IF fmt = "StarfieldV3Lz4" THEN 4 ELSE 0
    BY <1>2, NoneExtent
  <1>4. Len(one) = 1 /\ one[1] = x /\ Len(<<z>>) = 1 /\ <<z>>[1] = z
    BY OneIsListed
  <1>5. fmt = "StarfieldV3Lz4" => c = <<z>>
    OBVIOUS
  <1> HIDE DEF b, c, one
  <1>6. AreFields(one \o b)
    BY <1>2, <1>3, FieldsConcat
  <1>7. /\ Lies(image.at, 0, one \o b) /\ Lies(image.at, 0 + Extent(one \o b), c)
        /\ Extent((one \o b) \o c) = Extent(one \o b) + Extent(c)
    BY <1>1, <1>3, <1>6, ConcatLies
  <1>8. /\ Lies(image.at, 0, one)
        /\ Extent(one \o b) = Extent(one) + Extent(b)
    BY <1>2, <1>3, <1>7, ConcatLies
  <1>9. Extent((one \o b) \o c) = HeaderSize(fmt) /\ HeaderSize(fmt) \in Nat /\ HeaderSize(fmt) >= 24
    BY <1>2, <1>3, <1>7, <1>8 DEF HeaderSize, Formats
  <1>10. AreFields((one \o b) \o c)
    BY <1>3, <1>6, FieldsConcat
  <1>11. Shows(image, 0, x)
    <2>1. ShowsEach(image, 0, one)
      BY <1>2, <1>8, LiesShow
    <2>2. 1 \in 1..1 /\ 0 + 0 = 0
      OBVIOUS
    <2> QED
      BY <1>2, <1>4, <2>1, <2>2 DEF ShowsEach
  <1>12. ASSUME fmt = "StarfieldV3Lz4"
         PROVE  Shows(image, 32, z)
    <2>1. Lies(image.at, 0 + Extent(one \o b), <<z>>)
      BY <1>5, <1>7, <1>12
    <2>2. 0 + Extent(one \o b) = 32
      BY <1>2, <1>3, <1>8, <1>12
    <2>3. ShowsEach(image, 32, <<z>>)
      BY <1>2, <2>1, <2>2, LiesShow
    <2>4. 1 \in 1..1 /\ 32 + 0 = 32
      OBVIOUS
    <2> QED
      BY <1>2, <1>4, <2>3, <2>4 DEF ShowsEach
  <1>13. ShowsHeader(image, fmt, tag, count, at)
    BY <1>11, <1>12 DEF ShowsHeader, x, z
  <1> QED
    BY <1>1, <1>9, <1>10, <1>13

(* The data of an archive, block by block.                                 *)
LEMMA BlocksLie ==
  ASSUME NEW image, NEW base, NEW blocks, AreFields(Bytes(blocks)),
         Lies(image.at, base, Bytes(blocks)), Listed(blocks)
  PROVE  /\ \A k \in 1..Len(blocks) :
              /\ Shows(image, BlockStart(base, Sizes(blocks), k), blocks[k].bytes)
              /\ BlockStart(0, Sizes(blocks), k) \in Nat
              /\ BlockStart(base, Sizes(blocks), k)
                   = base + BlockStart(0, Sizes(blocks), k)
              /\ BlockStart(0, Sizes(blocks), k) + blocks[k].bytes.size
                   <= Extent(Bytes(blocks))
         /\ Extent(Bytes(blocks)) = Total(Sizes(blocks))
  <1> DEFINE n == Len(blocks)
             bytes == Bytes(blocks)
  <1>1. n \in Nat /\ DOMAIN blocks = 1..n
    BY ListedIs
  <1>2. DOMAIN bytes = 1..n /\ \A k \in 1..n : bytes[k] = blocks[k].bytes
    BY <1>1 DEF Bytes
  <1>3. Len(bytes) = n
    <2>1. bytes = [k \in 1..n |-> bytes[k]]
      BY <1>1 DEF Bytes
    <2> HIDE DEF bytes, n
    <2> QED
      BY <1>1, <2>1, FunctionIsListed
  <1>4. Extents(bytes) = Sizes(blocks)
    BY <1>1 DEF Extents, Sizes, Bytes
  <1> HIDE DEF bytes
  <1>5. ShowsEach(image, base, bytes)
    BY LiesShow DEF bytes
  <1>6. ASSUME NEW k \in 1..n
        PROVE  /\ Shows(image, BlockStart(base, Sizes(blocks), k), blocks[k].bytes)
               /\ BlockStart(0, Sizes(blocks), k) \in Nat
               /\ BlockStart(base, Sizes(blocks), k)
                    = base + BlockStart(0, Sizes(blocks), k)
               /\ BlockStart(0, Sizes(blocks), k) + blocks[k].bytes.size
                    <= Extent(bytes)
    <2>1. /\ Begins(bytes)[k] = Offsets(Sizes(blocks))[k - 1]
          /\ Begins(bytes)[k] \in Nat
          /\ Begins(bytes)[k] + bytes[k].size <= Extent(bytes)
      BY <1>3, <1>4, BeginsAre DEF bytes
    <2>2. /\ BlockStart(base, Sizes(blocks), k) = base + Begins(bytes)[k]
          /\ BlockStart(0, Sizes(blocks), k) = 0 + Begins(bytes)[k]
      BY <2>1 DEF BlockStart
    <2>3. 0 + Begins(bytes)[k] = Begins(bytes)[k]
      BY <2>1
    <2>4. Shows(image, base + Begins(bytes)[k], bytes[k])
      BY <1>3, <1>5 DEF ShowsEach
    <2> QED
      BY <1>2, <2>1, <2>2, <2>3, <2>4
  <1>7. Extent(bytes) = Total(Sizes(blocks))
    BY <1>4 DEF Extent
  <1> QED
    BY <1>6, <1>7 DEF bytes

(* The table of names, name by name.                                       *)
NamesReach(s) == Offsets([i \in 1..Len(s) |-> 2 + Len(s[i].name)])

ShowsNames(image, base, s) ==
  \A i \in 1..Len(s) :
    /\ Shows(image, base + NamesReach(s)[i - 1],
             Field(2, [name_len |-> Len(s[i].name)]))
    /\ Shows(image, base + NamesReach(s)[i - 1] + 2,
             Field(Len(s[i].name), [name |-> s[i].name]))

LEMMA NamesReachIs ==
  ASSUME NEW s, Listed(s), \A i \in 1..Len(s) : Named(s[i])
  PROVE  /\ NamesReach(s)[0] = 0
         /\ \A i \in 1..Len(s) :
              NamesReach(s)[i] = NamesReach(s)[i - 1] + (2 + Len(s[i].name))
         /\ \A i \in 0..Len(s) : NamesReach(s)[i] \in Nat
         /\ \A i \in 0..Len(s) : NamesReach(s)[i] <= NamesReach(s)[Len(s)]
         /\ \A i \in 1..Len(s) : Len(s[i].name) \in Nat \ {0}
  <1> DEFINE n == Len(s)
             e == [i \in 1..n |-> 2 + Len(s[i].name)]
  <1>1. n \in Nat
    BY ListedIs
  <1>2. \A i \in 1..n : Len(s[i].name) \in Nat \ {0}
    <2> TAKE i \in 1..n
    <2>1. PICK S : s[i].name \in Seq(S)
      BY DEF Named, Listed
    <2>2. s[i].name # << >>
      BY DEF Named
    <2> QED
      BY <2>1, <2>2
  <1>3. e \in Seq(Nat) /\ Len(e) = n /\ \A i \in 1..n : e[i] = 2 + Len(s[i].name)
    <2>1. \A i \in 1..n : 2 + Len(s[i].name) \in Nat
      BY <1>2
    <2> HIDE DEF n
    <2> QED
      BY <1>1, <2>1
  <1>4. Reaches(Offsets(e), e)
    BY <1>3, OffsetsReach
  <1>5. NamesReach(s) = Offsets(e)
    BY DEF NamesReach
  <1>6. \A i \in 1..n : e[i] \in Nat
    BY <1>3
  <1> HIDE DEF e
  <1>7. \A i \in 0..n : Offsets(e)[i] <= Offsets(e)[n]
    <2> TAKE i \in 0..n
    <2>1. i \in Nat /\ n \in Nat /\ i <= n /\ n <= Len(e) /\ Len(e) \in Nat
      BY <1>1, <1>3
    <2>2. \A k \in 1..Len(e) : e[k] \in Nat
      BY <1>3, <1>6
    <2> HIDE DEF n
    <2> QED
      BY <1>4, <2>1, <2>2, ReachesKeep
  <1> HIDE DEF n
  <1>8. /\ Offsets(e)[0] = 0
        /\ \A i \in 1..n : Offsets(e)[i] = Offsets(e)[i - 1] + (2 + Len(s[i].name))
        /\ \A i \in 0..n : Offsets(e)[i] \in Nat
    BY <1>3, <1>4 DEF Reaches
  <1> QED
    BY <1>2, <1>5, <1>7, <1>8 DEF n

LEMMA NamesLie ==
  ASSUME NEW s, Listed(s), \A i \in 1..Len(s) : Named(s[i]),
         NEW image, NEW base \in Nat, Lies(image.at, base, NameTable(s))
  PROVE  /\ ShowsNames(image, base, s)
         /\ Extent(NameTable(s)) = NamesReach(s)[Len(s)]
  <1> DEFINE n == Len(s)
             x(i) == Field(2, [name_len |-> Len(s[i].name)])
             y(i) == Field(Len(s[i].name), [name |-> s[i].name])
             seqs == [i \in DOMAIN s |-> <<x(i), y(i)>>]
  <1>1. NameTable(s) = FlattenSeq(seqs)
    BY DEF NameTable
  <1>2. n \in Nat /\ DOMAIN s = 1..n
    BY ListedIs
  <1>3. \A i \in 1..n : /\ x(i).size = 2 /\ y(i).size = Len(s[i].name)
                        /\ Len(s[i].name) \in Nat
    BY NamesReachIs DEF Field
  <1> HIDE DEF x, y
  <1>4. Listed(seqs) /\ Len(seqs) = n /\ \A i \in 1..n : seqs[i] = <<x(i), y(i)>>
    BY <1>2, FunctionIsListed
  <1> HIDE DEF seqs
  <1>5. ASSUME NEW i \in 1..n
        PROVE  /\ AreFields(seqs[i]) /\ Extent(seqs[i]) = 2 + Len(s[i].name)
               /\ seqs[i] = <<x(i)>> \o <<y(i)>>
               /\ AreFields(<<x(i)>>) /\ AreFields(<<y(i)>>)
               /\ Extent(<<x(i)>>) = 2
               /\ Begins(<<x(i)>>)[1] = 0 /\ Begins(<<y(i)>>)[1] = 0
    <2>1. /\ AreFields(<<x(i)>>) /\ Extent(<<x(i)>>) = 2
          /\ Begins(<<x(i)>>)[1] = 0
      BY <1>3, OneExtent
    <2>2. /\ AreFields(<<y(i)>>) /\ Extent(<<y(i)>>) = Len(s[i].name)
          /\ Begins(<<y(i)>>)[1] = 0
      BY <1>3, OneExtent
    <2>3. seqs[i] = <<x(i)>> \o <<y(i)>>
      BY <1>4
    <2>4. AreFields(<<x(i)>> \o <<y(i)>>)
      BY <2>1, <2>2, FieldsConcat
    <2>5. /\ Lies(Image(<<x(i)>> \o <<y(i)>>).at, 0, <<x(i)>> \o <<y(i)>>)
      BY <2>4, ImageLies
    <2>6. Extent(<<x(i)>> \o <<y(i)>>) = Extent(<<x(i)>>) + Extent(<<y(i)>>)
      BY <2>1, <2>2, <2>5, ConcatLies
    <2> QED
      BY <2>1, <2>2, <2>3, <2>4, <2>6
  <1>6. /\ LiesEach(image.at, base, seqs)
        /\ Extent(FlattenSeq(seqs)) = Reach(seqs)[n]
    BY <1>1, <1>4, <1>5, FlattenLies
  <1>7. Reach(seqs) = NamesReach(s)
    <2>1. [i \in 1..n |-> Extent(seqs[i])] = [i \in 1..n |-> 2 + Len(s[i].name)]
      BY <1>5
    <2> QED
      BY <1>4, <2>1 DEF Reach, NamesReach
  <1>8. ASSUME NEW i \in 1..n
        PROVE  /\ Shows(image, base + NamesReach(s)[i - 1], x(i))
               /\ Shows(image, base + NamesReach(s)[i - 1] + 2, y(i))
    <2> DEFINE at == base + NamesReach(s)[i - 1]
    <2>1. at \in Nat
      <3>1. i - 1 \in 0..n
        BY <1>2
      <3>2. NamesReach(s)[i - 1] \in Nat
        BY <3>1, NamesReachIs
      <3> QED
        BY <3>2
    <2>2. Lies(image.at, at, seqs[i])
      BY <1>4, <1>6, <1>7 DEF LiesEach
    <2> HIDE DEF at
    <2>3. Lies(image.at, at, <<x(i)>>) /\ Lies(image.at, at + 2, <<y(i)>>)
      <3> DEFINE a == <<x(i)>>
                 b == <<y(i)>>
      <3>1. /\ AreFields(a) /\ AreFields(b) /\ Extent(a) = 2
            /\ Lies(image.at, at, a \o b)
        BY <1>5, <2>2
      <3> HIDE DEF a, b
      <3>2. Lies(image.at, at, a) /\ Lies(image.at, at + Extent(a), b)
        BY <2>1, <3>1, ConcatLies
      <3> QED
        BY <3>1, <3>2 DEF a, b
    <2>4. ShowsEach(image, at, <<x(i)>>) /\ ShowsEach(image, at + 2, <<y(i)>>)
      BY <1>5, <2>3, LiesShow
    <2>5. /\ Len(<<x(i)>>) = 1 /\ <<x(i)>>[1] = x(i)
          /\ Len(<<y(i)>>) = 1 /\ <<y(i)>>[1] = y(i)
      BY OneIsListed
    <2>6. at + 0 = at /\ (at + 2) + 0 = at + 2 /\ 1 \in 1..1
      BY <2>1
    <2>7. Shows(image, at, x(i)) /\ Shows(image, at + 2, y(i))
      BY <1>5, <2>4, <2>5, <2>6 DEF ShowsEach
    <2> QED
      BY <2>7 DEF at
  <1>9. ShowsNames(image, base, s)
    BY <1>8 DEF ShowsNames, x, y
  <1> QED
    BY <1>1, <1>6, <1>7, <1>9
-----------------------------------------------------------------------------
LEMMA TookIs ==
  ASSUME NEW at, NEW list, NEW size, NEW entry
  PROVE  Took([error |-> "none", at |-> at, entries |-> list], size, entry)
           = [error |-> "none", at |-> at + size, entries |-> Append(list, entry)]
  BY DEF Took, Reading

LEMMA OneMore ==
  ASSUME NEW k \in Nat, NEW F
  PROVE  Append([i \in 1..k |-> F[i]], F[k + 1]) = [i \in 1..(k + 1) |-> F[i]]
  <1> DEFINE S == {F[i] : i \in 1..(k + 1)}
             h == [i \in 1..k |-> F[i]]
             l == [i \in 1..(k + 1) |-> F[i]]
             x == F[k + 1]
             c == Append(h, x)
  <1>1. h \in Seq(S) /\ l \in Seq(S) /\ Len(h) = k /\ Len(l) = k + 1
    OBVIOUS
  <1>2. x \in S
    OBVIOUS
  <1>3. /\ \A i \in 1..k : h[i] = F[i]
        /\ \A i \in 1..(k + 1) : l[i] = F[i]
    OBVIOUS
  <1> HIDE DEF S, h, l
  <1>4. /\ c \in Seq(S) /\ Len(c) = k + 1
        /\ \A i \in 1..k : c[i] = h[i]
        /\ c[k + 1] = x
    BY <1>1, <1>2
  <1> HIDE DEF c
  <1>5. \A i \in 1..(k + 1) : c[i] = l[i]
    <2>1. \A i \in 1..(k + 1) : i \in 1..k \/ i = k + 1
      OBVIOUS
    <2> QED
      BY <1>3, <1>4, <2>1
  <1>6. c = l
    BY <1>1, <1>4, <1>5
  <1> QED
    BY <1>6 DEF c, h, l

(* What the reader lists an entry as.                                      *)
Listing(e) == [name |-> from_utf8_lossy(e.name)]

LEMMA ListingIsText ==
  ASSUME NEW e, Named(e)
  PROVE  Text([name |-> e.name]) = Listing(e)
  <1>1. [name |-> e.name] # Noise
    BY DEF Named
  <1> QED
    BY <1>1 DEF Text, Listing

(* What read_names makes of a table of names, whole or cut.                *)
LEMMA NamesAreRead ==
  ASSUME NEW s, Listed(s), \A i \in 1..Len(s) : Named(s[i]),
         NEW image, image.len \in Nat, NEW base \in Nat, base # 0,
         ShowsNames(image, base, s), NEW names,
         names = read_names(image, base, Len(s))
  PROVE  /\ names.error = "none" =>
              names.entries = [i \in 1..Len(s) |-> Listing(s[i])]
         /\ base + NamesReach(s)[Len(s)] <= image.len => names.error = "none"
  <1> DEFINE n == Len(s)
             reach == NamesReach(s)
             len(i) == Len(s[i].name)
             F == [i \in 1..n |-> Listing(s[i])]
             Good(i) == [error |-> "none", at |-> base + reach[i],
                         entries |-> [k \in 1..i |-> F[k]]]
             In(i) == i = 0 \/ base + reach[i] <= image.len
             E(i) == IF In(i) THEN Good(i) ELSE Refused("TooShort")
             e == [i \in 0..n |-> E(i)]
             reading == CHOOSE g : g = [i \in 0..n |->
                          IF i = 0 THEN Reading(base) ELSE ReadName(image, g[i - 1])]
  <1>1. n \in Nat
    BY ListedIs
  <1>2. /\ reach[0] = 0
        /\ \A i \in 1..n : reach[i] = reach[i - 1] + (2 + len(i))
        /\ \A i \in 0..n : reach[i] \in Nat
        /\ \A i \in 1..n : len(i) \in Nat \ {0}
    BY NamesReachIs
  <1>3. names = reading[n]
    BY DEF read_names
  <1>4. ASSUME NEW i \in 1..n
        PROVE  /\ Shows(image, base + reach[i - 1], Field(2, [name_len |-> len(i)]))
               /\ Shows(image, base + reach[i - 1] + 2,
                        Field(len(i), [name |-> s[i].name]))
    BY DEF ShowsNames
  <1>5. \A i \in 1..n : F[i] = Listing(s[i])
    OBVIOUS
  <1> HIDE DEF n, reach, F, len
  <1>6. E(0) = Reading(base)
    <2>1. [k \in 1..0 |-> F[k]] = << >>
      OBVIOUS
    <2>2. base + reach[0] = base
      BY <1>2
    <2> QED
      BY <2>1, <2>2 DEF Reading
  <1>7. ASSUME NEW i \in 1..n
        PROVE  ReadName(image, E(i - 1)) = E(i)
    <2>1. i - 1 \in 0..n /\ i \in 0..n /\ i # 0
      BY <1>1
    <2> DEFINE at == base + reach[i - 1]
               L == len(i)
    <2>2. at \in Nat /\ L \in Nat \ {0} /\ base + reach[i] = at + (2 + L)
      <3>1. reach[i - 1] \in Nat /\ L \in Nat \ {0} /\ reach[i] = reach[i - 1] + (2 + L)
        BY <1>2, <2>1
      <3> HIDE DEF L
      <3> QED
        BY <3>1
    <2>3. In(i) = (at + (2 + L) <= image.len)
      BY <2>1, <2>2
    <2>4. CASE ~In(i - 1)
      <3>1. E(i - 1) = Refused("TooShort")
        BY <2>4
      <3>2. ~(at <= image.len)
        BY <2>4
      <3> HIDE DEF at, L
      <3>3. ~In(i)
        BY <2>2, <2>3, <3>2
      <3>4. E(i) = Refused("TooShort")
        BY <3>3
      <3>5. ReadName(image, Refused("TooShort")) = Refused("TooShort")
        BY DEF ReadName, Refused
      <3> QED
        BY <3>1, <3>4, <3>5
    <2>5. CASE In(i - 1)
      <3> DEFINE list == [k \in 1..(i - 1) |-> F[k]]
                 r == [error |-> "none", at |-> at, entries |-> list]
      <3>1. E(i - 1) = r
        BY <2>5
      <3>2. r.error = "none" /\ r.at = at
        OBVIOUS
      <3>3. /\ Get(image, at, 2) = IF at + 2 <= image.len THEN [name_len |-> L] ELSE Noise
            /\ Get(image, at + 2, L) = IF at + 2 + L <= image.len
                                       THEN [name |-> s[i].name] ELSE Noise
        <4>1. /\ Shows(image, at, Field(2, [name_len |-> L]))
              /\ Shows(image, at + 2, Field(L, [name |-> s[i].name]))
          BY <1>4
        <4> HIDE DEF at, L
        <4> QED
          BY <2>2, <4>1 DEF Shows, Field
      <3>4. Took(r, 2 + L, F[i])
              = [error |-> "none", at |-> at + (2 + L), entries |-> Append(list, F[i])]
        <4> DEFINE size == 2 + L
                   x == F[i]
        <4>1. Took(r, size, x)
                = [error |-> "none", at |-> at + size, entries |-> Append(list, x)]
          <5> HIDE DEF at, L, list, size, x
          <5> QED
            BY TookIs
        <4> QED
          BY <4>1 DEF size
      <3>5. Append(list, F[i]) = [k \in 1..i |-> F[k]]
        <4> DEFINE j == i - 1
        <4>1. j \in Nat /\ j + 1 = i
          BY <2>1
        <4> HIDE DEF j
        <4>2. Append([k \in 1..j |-> F[k]], F[j + 1]) = [k \in 1..(j + 1) |-> F[k]]
          BY <4>1, OneMore
        <4> QED
          BY <4>1, <4>2 DEF j
      <3>6. [name_len |-> L] # Noise /\ [name_len |-> L].name_len = L
        BY <2>2, NoiseAssumption
      <3> HIDE DEF r, L, list
      <3>7. CASE at + 2 > image.len
        <4>1. ReadName(image, r) = Refused("TooShort")
          BY <3>2, <3>7 DEF ReadName
        <4>2. ~In(i)
          <5> HIDE DEF at
          <5> QED
            BY <2>2, <2>3, <3>7
        <4> QED
          BY <3>1, <4>1, <4>2
      <3>8. CASE ~(at + 2 > image.len) /\ at + 2 + L > image.len
        <4>1. Get(image, at, 2) = [name_len |-> L]
          <5> HIDE DEF at
          <5> QED
            BY <2>2, <3>3, <3>8
        <4>2. ReadName(image, r) = Refused("TooShort")
          BY <3>2, <3>6, <3>8, <4>1 DEF ReadName
        <4>3. ~In(i)
          <5> HIDE DEF at
          <5> QED
            BY <2>2, <2>3, <3>8
        <4> QED
          BY <3>1, <4>2, <4>3
      <3>9. CASE ~(at + 2 > image.len) /\ ~(at + 2 + L > image.len)
        <4>1. /\ Get(image, at, 2) = [name_len |-> L]
              /\ Text(Get(image, at + 2, L)) = F[i]
          <5>1. at + 2 <= image.len /\ at + 2 + L <= image.len
            <6> HIDE DEF at
            <6> QED
              BY <2>2, <3>9
          <5>2. Get(image, at, 2) = [name_len |-> L]
            BY <3>3, <5>1
          <5>3. Get(image, at + 2, L) = [name |-> s[i].name]
            BY <3>3, <5>1
          <5>4. Text([name |-> s[i].name]) = Listing(s[i])
            <6>1. Named(s[i])
              BY DEF n
            <6> QED
              BY <6>1, ListingIsText
          <5> QED
            BY <1>5, <5>2, <5>3, <5>4
        <4>2. ReadName(image, r) = Took(r, 2 + L, F[i])
          BY <3>2, <3>6, <3>9, <4>1 DEF ReadName
        <4>3. In(i)
          <5> HIDE DEF at
          <5> QED
            BY <2>2, <2>3, <3>9
        <4>4. E(i) = Good(i)
          BY <4>3
        <4>5. Good(i) = [error |-> "none", at |-> at + (2 + L),
                         entries |-> [k \in 1..i |-> F[k]]]
          BY <2>2 DEF L
        <4> QED
          BY <3>1, <3>4, <3>5, <4>2, <4>4, <4>5
      <3> QED
        BY <3>7, <3>8, <3>9
    <2> QED
      BY <2>4, <2>5
  <1> HIDE DEF E
  <1>8. e = [i \in 0..n |-> IF i = 0 THEN Reading(base) ELSE ReadName(image, e[i - 1])]
    <2>1. ASSUME NEW i \in 0..n
          PROVE  E(i) = IF i = 0 THEN Reading(base) ELSE ReadName(image, e[i - 1])
      <3>1. CASE i = 0
        BY <1>6, <3>1
      <3>2. CASE i # 0
        <4>1. i \in 1..n /\ i - 1 \in 0..n
          BY <1>1, <3>2
        <4>2. e[i - 1] = E(i - 1)
          BY <4>1
        <4> QED
          BY <1>7, <3>2, <4>1, <4>2
      <3> QED
        BY <3>1, <3>2
    <2> QED
      BY <2>1
  <1>9. \A i \in 0..n : e[i] = E(i)
    OBVIOUS
  <1> HIDE DEF e
  <1>10. reading = [i \in 0..n |-> IF i = 0 THEN Reading(base) ELSE ReadName(image, reading[i - 1])]
    BY <1>8
  <1> HIDE DEF reading
  <1> DEFINE S == {i \in 0..n : reading[i] = E(i)}
  <1>11. 0 \in S
    BY <1>1, <1>6, <1>10
  <1>12. ASSUME NEW i \in 0..(n - 1), i \in S
         PROVE  i + 1 \in S
    <2>1. i + 1 \in 1..n /\ (i + 1) - 1 = i /\ i + 1 \in 0..n /\ i + 1 # 0
      BY <1>1
    <2>2. reading[i + 1] = ReadName(image, reading[i])
      BY <1>10, <2>1
    <2>3. ReadName(image, E(i)) = E(i + 1)
      BY <1>7, <2>1
    <2> QED
      BY <1>12, <2>1, <2>2, <2>3
  <1> HIDE DEF S
  <1>13. 0..n \subseteq S
    BY <1>1, <1>11, <1>12, InductionUpTo
  <1>14. names = E(n)
    <2>1. n \in 0..n
      BY <1>1
    <2> QED
      BY <1>3, <1>13, <2>1 DEF S
  <1>15. [k \in 1..n |-> F[k]] = [i \in 1..n |-> Listing(s[i])]
    BY <1>5
  <1>16. CASE In(n)
    <2>1. names = Good(n)
      BY <1>14, <1>16 DEF E
    <2>2. names.entries = [k \in 1..n |-> F[k]] /\ names.error = "none"
      BY <2>1
    <2> QED
      BY <1>15, <2>2 DEF n
  <1>17. CASE ~In(n)
    <2>1. names = Refused("TooShort")
      BY <1>14, <1>17 DEF E
    <2>2. names.error # "none"
      BY <2>1 DEF Refused
    <2> QED
      BY <1>17, <2>2 DEF n, reach
  <1> QED
    BY <1>16, <1>17
-----------------------------------------------------------------------------
(* What read_gnrl makes of the records of a general archive.               *)
FileRead(path, record) ==
  [path |-> path, offset |-> record.offset, packed |-> record.packed,
   unpacked |-> record.unpacked]

FilesTaken(read, image, start, n, paths, records) ==
  /\ read.error = "none" =>
       read.entries = [i \in 1..n |-> FileRead(paths[i], records[i])]
  /\ start + 36 * n <= image.len => read.error = "none"

LEMMA FilesAreRead ==
  ASSUME NEW n \in Nat, NEW image, image.len \in Nat, NEW start \in Nat,
         NEW paths, Len(paths) = n, NEW records,
         \A i \in 1..n : Shows(image, start + 36 * (i - 1), Field(36, records[i])),
         NEW read, read = read_gnrl(image, start, paths)
  PROVE  FilesTaken(read, image, start, n, paths, records)
  <1> DEFINE F == [i \in 1..n |-> FileRead(paths[i], records[i])]
             Good(i) == [error |-> "none", at |-> start + 36 * i,
                         entries |-> [k \in 1..i |-> F[k]]]
             In(i) == i = 0 \/ start + 36 * i <= image.len
             E(i) == IF In(i) THEN Good(i) ELSE Refused("TooShort")
             e == [i \in 0..n |-> E(i)]
             reading == CHOOSE g : g = [i \in 0..n |->
                          IF i = 0 THEN Reading(start)
                          ELSE ReadFile(image, g[i - 1], paths[i])]
  <1>1. read = reading[n]
    BY DEF read_gnrl
  <1>2. \A i \in 1..n : F[i] = FileRead(paths[i], records[i])
    OBVIOUS
  <1> HIDE DEF F
  <1>3. E(0) = Reading(start)
    <2>1. [k \in 1..0 |-> F[k]] = << >>
      OBVIOUS
    <2>2. start + 36 * 0 = start
      OBVIOUS
    <2> QED
      BY <2>1, <2>2 DEF Reading
  <1>4. ASSUME NEW i \in 1..n
        PROVE  ReadFile(image, E(i - 1), paths[i]) = E(i)
    <2> DEFINE at == start + 36 * (i - 1)
    <2>1. i - 1 \in 0..n /\ i \in 0..n /\ i # 0 /\ at \in Nat /\ start + 36 * i = at + 36
      OBVIOUS
    <2>2. In(i) = (at + 36 <= image.len)
      BY <2>1
    <2>3. CASE ~In(i - 1)
      <3>1. E(i - 1) = Refused("TooShort")
        BY <2>3
      <3>2. ~(at <= image.len)
        BY <2>3
      <3> HIDE DEF at
      <3>3. ~In(i)
        BY <2>1, <2>2, <3>2
      <3>4. E(i) = Refused("TooShort")
        BY <3>3
      <3>5. ReadFile(image, Refused("TooShort"), paths[i]) = Refused("TooShort")
        BY DEF ReadFile, Refused
      <3> QED
        BY <3>1, <3>4, <3>5
    <2>4. CASE In(i - 1)
      <3> DEFINE list == [k \in 1..(i - 1) |-> F[k]]
                 r == [error |-> "none", at |-> at, entries |-> list]
      <3>1. E(i - 1) = r
        BY <2>4
      <3>2. r.error = "none" /\ r.at = at
        OBVIOUS
      <3>3. Took(r, 36, F[i])
              = [error |-> "none", at |-> at + 36, entries |-> Append(list, F[i])]
        <4> DEFINE size == 36
                   x == F[i]
        <4>1. Took(r, size, x)
                = [error |-> "none", at |-> at + size, entries |-> Append(list, x)]
          <5> HIDE DEF at, list, size, x
          <5> QED
            BY TookIs
        <4> QED
          BY <4>1 DEF size
      <3>4. Append(list, F[i]) = [k \in 1..i |-> F[k]]
        <4> DEFINE j == i - 1
        <4>1. j \in Nat /\ j + 1 = i
          BY <2>1
        <4> HIDE DEF j
        <4>2. Append([k \in 1..j |-> F[k]], F[j + 1]) = [k \in 1..(j + 1) |-> F[k]]
          BY <4>1, OneMore
        <4> QED
          BY <4>1, <4>2 DEF j
      <3> HIDE DEF r, list
      <3>5. CASE at + 36 > image.len
        <4>1. ReadFile(image, r, paths[i]) = Refused("TooShort")
          BY <3>2, <3>5 DEF ReadFile
        <4>2. ~In(i)
          <5> HIDE DEF at
          <5> QED
            BY <2>1, <2>2, <3>5
        <4> QED
          BY <3>1, <4>1, <4>2
      <3>6. CASE ~(at + 36 > image.len)
        <4>1. at + 36 <= image.len
          <5> HIDE DEF at
          <5> QED
            BY <2>1, <3>6
        <4>2. Get(image, at, 36) = records[i]
          <5>1. Shows(image, at, Field(36, records[i]))
            OBVIOUS
          <5> HIDE DEF at
          <5> QED
            BY <4>1, <5>1 DEF Shows, Field
        <4>3. ReadFile(image, r, paths[i]) = Took(r, 36, F[i])
          BY <1>2, <3>2, <3>6, <4>2 DEF ReadFile, FileRead
        <4>4. E(i) = Good(i)
          BY <2>2, <4>1
        <4>5. Good(i) = [error |-> "none", at |-> at + 36,
                         entries |-> [k \in 1..i |-> F[k]]]
          BY <2>1
        <4> QED
          BY <3>1, <3>3, <3>4, <4>3, <4>4, <4>5
      <3> QED
        BY <3>5, <3>6
    <2> QED
      BY <2>3, <2>4
  <1> HIDE DEF E
  <1>5. e = [i \in 0..n |-> IF i = 0 THEN Reading(start)
                           ELSE ReadFile(image, e[i - 1], paths[i])]
    <2>1. ASSUME NEW i \in 0..n
          PROVE  E(i) = IF i = 0 THEN Reading(start)
                        ELSE ReadFile(image, e[i - 1], paths[i])
      <3>1. CASE i = 0
        BY <1>3, <3>1
      <3>2. CASE i # 0
        <4>1. i \in 1..n /\ i - 1 \in 0..n
          BY <3>2
        <4>2. e[i - 1] = E(i - 1)
          BY <4>1
        <4> QED
          BY <1>4, <3>2, <4>1, <4>2
      <3> QED
        BY <3>1, <3>2
    <2> QED
      BY <2>1
  <1> HIDE DEF e
  <1>6. reading = [i \in 0..n |-> IF i = 0 THEN Reading(start)
                                 ELSE ReadFile(image, reading[i - 1], paths[i])]
    BY <1>5
  <1> HIDE DEF reading
  <1> DEFINE S == {i \in 0..n : reading[i] = E(i)}
  <1>7. 0 \in S
    BY <1>3, <1>6
  <1>8. ASSUME NEW i \in 0..(n - 1), i \in S
        PROVE  i + 1 \in S
    <2>1. i + 1 \in 1..n /\ (i + 1) - 1 = i /\ i + 1 \in 0..n /\ i + 1 # 0
      OBVIOUS
    <2>2. reading[i + 1] = ReadFile(image, reading[i], paths[i + 1])
      BY <1>6, <2>1
    <2>3. ReadFile(image, E(i), paths[i + 1]) = E(i + 1)
      BY <1>4, <2>1
    <2> QED
      BY <1>8, <2>1, <2>2, <2>3
  <1> HIDE DEF S
  <1>9. 0..n \subseteq S
    BY <1>7, <1>8, InductionUpTo
  <1>10. read = E(n)
    <2>1. n \in 0..n
      OBVIOUS
    <2> QED
      BY <1>1, <1>9, <2>1 DEF S
  <1>11. [k \in 1..n |-> F[k]] = [i \in 1..n |-> FileRead(paths[i], records[i])]
    BY <1>2
  <1>12. CASE In(n)
    <2>1. read = Good(n)
      BY <1>10, <1>12 DEF E
    <2>2. read.entries = [k \in 1..n |-> F[k]] /\ read.error = "none"
      BY <2>1
    <2> QED
      BY <1>11, <2>2 DEF FilesTaken
  <1>13. CASE ~In(n)
    <2>1. read = Refused("TooShort")
      BY <1>10, <1>13 DEF E
    <2>2. read.error # "none"
      BY <2>1 DEF Refused
    <2> QED
      BY <1>13, <2>2 DEF FilesTaken
  <1> QED
    BY <1>12, <1>13

(* What read_dx10 makes of the records of a texture archive.               *)
TextureRead(path, head, chunks) ==
  [path |-> path, width |-> head.width, height |-> head.height,
   num_mips |-> head.num_mips, format |-> head.format,
   cubemap |-> head.cubemap, tile_mode |-> head.tile_mode, chunks |-> chunks]

(* The records of a texture: its head and then its chunks.                 *)
ShowsTexture(image, place, head, chunks) ==
  /\ Shows(image, place, Field(24, head))
  /\ head.chunk_record_size = 24 /\ head.num_chunks = Len(chunks)
  /\ \A j \in 1..Len(chunks) :
       Shows(image, place + 24 + 24 * (j - 1), Field(24, chunks[j]))

TextureTaken(image, r, path, size, head, chunks) ==
  ReadTexture(image, r, path) =
    IF r.at + size <= image.len
    THEN Took(r, size, TextureRead(path, head, chunks))
    ELSE Refused("TooShort")

(* One texture.                                                            *)
LEMMA TextureIsRead ==
  ASSUME NEW image, image.len \in Nat, NEW at \in Nat, NEW head, NEW chunks,
         Listed(chunks), ShowsTexture(image, at, head, chunks),
         NEW r, r.error = "none", r.at = at, NEW path, NEW size,
         size = 24 * (1 + Len(chunks))
  PROVE  TextureTaken(image, r, path, size, head, chunks)
  <1> DEFINE m == Len(chunks)
             record == Get(image, at, 24)
             first == at + 24
             got == [j \in 1..m |-> Get(image, first + 24 * (j - 1), 24)]
  <1>1. m \in Nat /\ DOMAIN chunks = 1..m
    BY ListedIs
  <1>2. /\ Shows(image, at, Field(24, head))
        /\ head.chunk_record_size = 24 /\ head.num_chunks = m
        /\ \A j \in 1..m : Shows(image, first + 24 * (j - 1), Field(24, chunks[j]))
    BY DEF ShowsTexture
  <1>3. at + size = first + 24 * m
    BY <1>1
  <1>4. CASE first > image.len
    <2>1. ReadTexture(image, r, path) = Refused("TooShort")
      BY <1>4 DEF ReadTexture
    <2>2. ~(at + size <= image.len)
      BY <1>1, <1>3, <1>4
    <2>3. ReadTexture(image, r, path) =
            IF at + size <= image.len
            THEN Took(r, size, TextureRead(path, head, chunks))
            ELSE Refused("TooShort")
      BY <2>1, <2>2
    <2> QED
      BY <2>3 DEF TextureTaken
  <1>5. CASE ~(first > image.len)
    <2>1. record = head
      <3>1. at + 24 <= image.len
        BY <1>5
      <3> QED
        BY <1>2, <3>1 DEF Shows, Field
    <2>2. CASE first + 24 * m > image.len
      <3>1. ReadTexture(image, r, path) = Refused("TooShort")
        BY <1>2, <1>5, <2>1, <2>2 DEF ReadTexture
      <3>2. ~(at + size <= image.len)
        BY <1>1, <1>3, <2>2
      <3> QED
        BY <3>1, <3>2 DEF TextureTaken
    <2>3. CASE ~(first + 24 * m > image.len)
      <3>1. at + size <= image.len
        BY <1>1, <1>3, <2>3
      <3>2. ASSUME NEW j \in 1..m
            PROVE  Get(image, first + 24 * (j - 1), 24) = chunks[j]
        <4> DEFINE place == first + 24 * (j - 1)
        <4>1. place + 24 <= image.len
          BY <1>1, <1>3, <3>1
        <4>2. Shows(image, place, Field(24, chunks[j]))
          BY <1>2
        <4> HIDE DEF place
        <4>3. Get(image, place, 24) = chunks[j]
          BY <4>1, <4>2 DEF Shows, Field
        <4> QED
          BY <4>3 DEF place
      <3>3. got = chunks
        <4>1. got = [j \in 1..m |-> chunks[j]]
          BY <3>2
        <4>2. chunks = [j \in 1..m |-> chunks[j]]
          BY <1>1 DEF Listed
        <4> QED
          BY <4>1, <4>2
      <3>4. ReadTexture(image, r, path)
              = Took(r, 24 * (1 + m), TextureRead(path, head, got))
        <4> HIDE DEF m
        <4> QED
          BY <1>2, <1>5, <2>1, <2>3 DEF ReadTexture, TextureRead
      <3> QED
        BY <3>1, <3>3, <3>4 DEF TextureTaken
    <2> QED
      BY <2>2, <2>3
  <1> QED
    BY <1>4, <1>5

TexturesTaken(read, image, start, n, reach, paths, heads, chunks) ==
  /\ read.error = "none" =>
       read.entries = [i \in 1..n |-> TextureRead(paths[i], heads[i], chunks[i])]
  /\ start + reach[n] <= image.len => read.error = "none"

LEMMA TexturesAreRead ==
  ASSUME NEW n \in Nat, NEW image, image.len \in Nat, NEW start \in Nat,
         NEW paths, Len(paths) = n, NEW heads, NEW chunks, NEW reach,
         reach[0] = 0,
         \A i \in 1..n : /\ Listed(chunks[i])
                         /\ reach[i] = reach[i - 1] + 24 * (1 + Len(chunks[i]))
                         /\ ShowsTexture(image, start + reach[i - 1], heads[i], chunks[i]),
         \A i \in 0..n : reach[i] \in Nat,
         NEW read, read = read_dx10(image, start, paths)
  PROVE  TexturesTaken(read, image, start, n, reach, paths, heads, chunks)
  <1> DEFINE F == [i \in 1..n |-> TextureRead(paths[i], heads[i], chunks[i])]
             Good(i) == [error |-> "none", at |-> start + reach[i],
                         entries |-> [k \in 1..i |-> F[k]]]
             In(i) == i = 0 \/ start + reach[i] <= image.len
             E(i) == IF In(i) THEN Good(i) ELSE Refused("TooShort")
             e == [i \in 0..n |-> E(i)]
             reading == CHOOSE g : g = [i \in 0..n |->
                          IF i = 0 THEN Reading(start)
                          ELSE ReadTexture(image, g[i - 1], paths[i])]
  <1>1. read = reading[n]
    BY DEF read_dx10
  <1>2. \A i \in 1..n : F[i] = TextureRead(paths[i], heads[i], chunks[i])
    OBVIOUS
  <1> HIDE DEF F
  <1>3. E(0) = Reading(start)
    <2>1. [k \in 1..0 |-> F[k]] = << >>
      OBVIOUS
    <2>2. start + reach[0] = start
      OBVIOUS
    <2> QED
      BY <2>1, <2>2 DEF Reading
  <1>4. ASSUME NEW i \in 1..n
        PROVE  ReadTexture(image, E(i - 1), paths[i]) = E(i)
    <2> DEFINE at == start + reach[i - 1]
               size == 24 * (1 + Len(chunks[i]))
    <2>1. /\ i - 1 \in 0..n /\ i \in 0..n /\ i # 0 /\ Listed(chunks[i])
          /\ ShowsTexture(image, at, heads[i], chunks[i])
      OBVIOUS
    <2>2. at \in Nat /\ size \in Nat /\ start + reach[i] = at + size
      <3>1. reach[i - 1] \in Nat /\ Len(chunks[i]) \in Nat
        BY <2>1, ListedIs
      <3>2. size \in Nat
        BY <3>1
      <3>3. reach[i] = reach[i - 1] + size
        OBVIOUS
      <3> DEFINE y == reach[i - 1]
      <3>4. y \in Nat /\ size \in Nat /\ reach[i] = y + size /\ at = start + y
        BY <3>1, <3>2, <3>3
      <3> HIDE DEF size, y, at
      <3> QED
        BY <3>4
    <2>3. In(i) = (at + size <= image.len)
      BY <2>1, <2>2
    <2>4. CASE ~In(i - 1)
      <3>1. E(i - 1) = Refused("TooShort")
        BY <2>4
      <3>2. ~(at <= image.len)
        BY <2>4
      <3> HIDE DEF at, size
      <3>3. ~In(i)
        BY <2>2, <2>3, <3>2
      <3>4. E(i) = Refused("TooShort")
        BY <3>3
      <3>5. ReadTexture(image, Refused("TooShort"), paths[i]) = Refused("TooShort")
        BY DEF ReadTexture, Refused
      <3> QED
        BY <3>1, <3>4, <3>5
    <2>5. CASE In(i - 1)
      <3> DEFINE list == [k \in 1..(i - 1) |-> F[k]]
                 r == [error |-> "none", at |-> at, entries |-> list]
      <3>1. E(i - 1) = r
        BY <2>5
      <3>2. r.error = "none" /\ r.at = at
        OBVIOUS
      <3>3. Took(r, size, F[i])
              = [error |-> "none", at |-> at + size, entries |-> Append(list, F[i])]
        <4> DEFINE x == F[i]
        <4>1. Took(r, size, x)
                = [error |-> "none", at |-> at + size, entries |-> Append(list, x)]
          <5> HIDE DEF at, list, size, x
          <5> QED
            BY ONLY TookIs
        <4> QED
          BY <4>1
      <3>4. Append(list, F[i]) = [k \in 1..i |-> F[k]]
        <4> DEFINE j == i - 1
        <4>1. j \in Nat /\ j + 1 = i
          BY <2>1
        <4> HIDE DEF j
        <4>2. Append([k \in 1..j |-> F[k]], F[j + 1]) = [k \in 1..(j + 1) |-> F[k]]
          BY <4>1, OneMore
        <4> QED
          BY <4>1, <4>2 DEF j
      <3>5. ReadTexture(image, r, paths[i]) =
              IF at + size <= image.len THEN Took(r, size, F[i])
              ELSE Refused("TooShort")
        <4>1. size = 24 * (1 + Len(chunks[i]))
          OBVIOUS
        <4> HIDE DEF r, list, at, size
        <4>2. TextureTaken(image, r, paths[i], size, heads[i], chunks[i])
          BY <2>1, <2>2, <3>2, <4>1, TextureIsRead
        <4> QED
          BY <1>2, <3>2, <4>2 DEF TextureTaken
      <3>6. CASE In(i)
        <4>1. E(i) = Good(i) /\ at + size <= image.len
          BY <2>3, <3>6
        <4>2. Good(i) = [error |-> "none", at |-> at + size,
                         entries |-> [k \in 1..i |-> F[k]]]
          BY <2>2
        <4> HIDE DEF r, list, at, size
        <4> QED
          BY <3>1, <3>3, <3>4, <3>5, <4>1, <4>2
      <3>7. CASE ~In(i)
        BY <2>3, <3>1, <3>5, <3>7
      <3> QED
        BY <3>6, <3>7
    <2> QED
      BY <2>4, <2>5
  <1> HIDE DEF E
  <1>5. e = [i \in 0..n |-> IF i = 0 THEN Reading(start)
                           ELSE ReadTexture(image, e[i - 1], paths[i])]
    <2>1. ASSUME NEW i \in 0..n
          PROVE  E(i) = IF i = 0 THEN Reading(start)
                        ELSE ReadTexture(image, e[i - 1], paths[i])
      <3>1. CASE i = 0
        BY <1>3, <3>1
      <3>2. CASE i # 0
        <4>1. i \in 1..n /\ i - 1 \in 0..n
          BY <3>2
        <4>2. e[i - 1] = E(i - 1)
          BY <4>1
        <4> QED
          BY <1>4, <3>2, <4>1, <4>2
      <3> QED
        BY <3>1, <3>2
    <2> QED
      BY <2>1
  <1> HIDE DEF e
  <1>6. reading = [i \in 0..n |-> IF i = 0 THEN Reading(start)
                                 ELSE ReadTexture(image, reading[i - 1], paths[i])]
    BY <1>5
  <1> HIDE DEF reading
  <1> DEFINE S == {i \in 0..n : reading[i] = E(i)}
  <1>7. 0 \in S
    BY <1>3, <1>6
  <1>8. ASSUME NEW i \in 0..(n - 1), i \in S
        PROVE  i + 1 \in S
    <2>1. i + 1 \in 1..n /\ (i + 1) - 1 = i /\ i + 1 \in 0..n /\ i + 1 # 0
      OBVIOUS
    <2>2. reading[i + 1] = ReadTexture(image, reading[i], paths[i + 1])
      BY <1>6, <2>1
    <2>3. ReadTexture(image, E(i), paths[i + 1]) = E(i + 1)
      BY <1>4, <2>1
    <2> QED
      BY <1>8, <2>1, <2>2, <2>3
  <1> HIDE DEF S
  <1>9. 0..n \subseteq S
    BY <1>7, <1>8, InductionUpTo
  <1>10. read = E(n)
    <2>1. n \in 0..n
      OBVIOUS
    <2> QED
      BY <1>1, <1>9, <2>1 DEF S
  <1>11. [k \in 1..n |-> F[k]]
           = [i \in 1..n |-> TextureRead(paths[i], heads[i], chunks[i])]
    BY <1>2
  <1>12. CASE In(n)
    <2>1. read = Good(n)
      BY <1>10, <1>12 DEF E
    <2>2. read.entries = [k \in 1..n |-> F[k]] /\ read.error = "none"
      BY <2>1
    <2> QED
      BY <1>11, <2>2 DEF TexturesTaken
  <1>13. CASE ~In(n)
    <2>1. read = Refused("TooShort")
      BY <1>10, <1>13 DEF E
    <2>2. read.error # "none"
      BY <2>1 DEF Refused
    <2> QED
      BY <1>13, <2>2 DEF TexturesTaken
  <1> QED
    BY <1>12, <1>13
-----------------------------------------------------------------------------
(* The header, of as much as the sink took.                                *)
LEMMA HeaderIsRead ==
  ASSUME NEW fmt, fmt \in Formats, NEW tag, NEW count, NEW at, NEW image,
         image.len \in Nat, ShowsHeader(image, fmt, tag, count, at)
  PROVE  /\ HeaderError(image) = "none" <=> HeaderSize(fmt) <= image.len
         /\ HeaderSize(fmt) <= image.len =>
              /\ Get(image, 0, 24).kind = tag
              /\ Get(image, 0, 24).file_count = count
              /\ Get(image, 0, 24).name_table_offset = at
              /\ RecordsStart(Get(image, 0, 24).version) = HeaderSize(fmt)
              /\ Compression(image) = codec(fmt)
  <1> DEFINE head == [version |-> version[fmt], kind |-> tag,
                      file_count |-> count, name_table_offset |-> at]
             len == image.len
             got == Get(image, 0, 24)
             tail == Get(image, 32, 4)
  <1>1. Shows(image, 0, Field(24, head))
    BY DEF ShowsHeader
  <1>2. got = IF 24 <= len THEN head ELSE Noise
    BY <1>1 DEF Shows, Field
  <1>3. fmt = "StarfieldV3Lz4" =>
          tail = IF 36 <= len THEN [method |-> 3] ELSE Noise
    <2>1. fmt = "StarfieldV3Lz4" => Shows(image, 32, Field(4, [method |-> 3]))
      BY DEF ShowsHeader
    <2> QED
      BY <2>1 DEF Shows, Field
  <1>4. /\ version["Fo4"] = 1 /\ version["StarfieldV2"] = 2
        /\ version["StarfieldV3Lz4"] = 3
        /\ HeaderSize("Fo4") = 24 /\ HeaderSize("StarfieldV2") = 32
        /\ HeaderSize("StarfieldV3Lz4") = 36
    BY DEF version, HeaderSize
  <1>5. head.version = version[fmt] /\ head.kind = tag
        /\ head.file_count = count /\ head.name_table_offset = at
    OBVIOUS
  <1> HIDE DEF head
  <1>6. CASE len < 24
    <2>1. HeaderError(image) # "none"
      BY <1>6 DEF HeaderError
    <2>2. ~(HeaderSize(fmt) <= len)
      BY <1>4, <1>6 DEF Formats
    <2> QED
      BY <2>1, <2>2
  <1>7. CASE ~(len < 24)
    <2>1. got = head
      BY <1>2, <1>7
    <2>2. CASE fmt = "Fo4"
      <3>1. got.version = 1 /\ codec(fmt) = "zlib" /\ HeaderSize(fmt) <= len
        BY <1>4, <1>5, <1>7, <2>1, <2>2 DEF codec
      <3> HIDE DEF got, tail
      <3>2. HeaderError(image) = "none"
        BY <1>7, <3>1 DEF HeaderError, got
      <3>3. RecordsStart(1) = 24 /\ Compression(image) = "zlib"
        BY <3>1 DEF RecordsStart, Compression, got
      <3> QED
        BY <1>4, <1>5, <2>1, <2>2, <3>1, <3>2, <3>3 DEF got
    <2>3. CASE fmt = "StarfieldV2"
      <3>1. got.version = 2 /\ codec(fmt) = "zlib" /\ HeaderSize(fmt) = 32
        BY <1>4, <1>5, <1>7, <2>1, <2>3 DEF codec
      <3> HIDE DEF got, tail
      <3>2. HeaderError(image) = "none" <=> 32 <= len
        BY <1>7, <3>1 DEF HeaderError, got
      <3>3. RecordsStart(2) = 32 /\ Compression(image) = "zlib"
        BY <3>1 DEF RecordsStart, Compression, got
      <3> QED
        BY <1>5, <2>1, <3>1, <3>2, <3>3 DEF got
    <2>4. CASE fmt = "StarfieldV3Lz4"
      <3>1. got.version = 3 /\ codec(fmt) = "lz4" /\ HeaderSize(fmt) = 36
        BY <1>4, <1>5, <1>7, <2>1, <2>4 DEF codec
      <3>2. RecordsStart(3) = 36
        BY DEF RecordsStart
      <3> HIDE DEF got, tail
      <3>3. CASE len < 36
        <4>1. HeaderError(image) # "none"
          BY <1>7, <3>1, <3>3 DEF HeaderError, got
        <4> QED
          BY <3>1, <3>3, <4>1
      <3>4. CASE ~(len < 36)
        <4>1. tail.method = 3
          BY <1>3, <2>4, <3>4
        <4>2. HeaderError(image) = "none"
          BY <1>7, <3>1, <3>4, <4>1 DEF HeaderError, got, tail
        <4>3. Compression(image) = "lz4"
          BY <3>1, <4>1 DEF Compression, got, tail
        <4> QED
          BY <1>5, <2>1, <3>1, <3>2, <3>4, <4>2, <4>3 DEF got
      <3> QED
        BY <3>3, <3>4
    <2> QED
      BY <2>2, <2>3, <2>4 DEF Formats
  <1> QED
    BY <1>6, <1>7

(* The paths a reader finds.                                               *)
PathsOf(names, s) ==
  [i \in 1..Len(s) |-> IF names THEN Listing(s[i]) ELSE Unnamed]

ShowsTable(image, names, at, s) ==
  IF HasNames(names, s) THEN at # 0 /\ ShowsNames(image, at, s) ELSE at = 0

LEMMA PathsAreRead ==
  ASSUME NEW s, Listed(s), \A i \in 1..Len(s) : Named(s[i]),
         NEW image, image.len \in Nat, NEW at, at \in Nat,
         NEW w, w \in BOOLEAN,
         ShowsTable(image, w, at, s), NEW names,
         names = read_names(image, at, Len(s))
  PROVE  /\ names.error = "none" => names.entries = PathsOf(w, s)
         /\ (HasNames(w, s) => at + NamesReach(s)[Len(s)] <= image.len)
              => names.error = "none"
  <1> DEFINE n == Len(s)
  <1>1. n \in Nat
    BY ListedIs
  <1>2. CASE HasNames(w, s)
    <2>1. w /\ at # 0 /\ ShowsNames(image, at, s)
      BY <1>2 DEF HasNames, ShowsTable
    <2>2. PathsOf(w, s) = [i \in 1..n |-> Listing(s[i])]
      BY <2>1 DEF PathsOf
    <2>3. /\ names.error = "none" =>
               names.entries = [i \in 1..n |-> Listing(s[i])]
          /\ at + NamesReach(s)[n] <= image.len => names.error = "none"
      BY <2>1, NamesAreRead
    <2> QED
      BY <1>2, <2>2, <2>3
  <1>3. CASE ~HasNames(w, s)
    <2>1. at = 0
      BY <1>3 DEF ShowsTable
    <2>2. /\ names.error = "none"
          /\ names.entries = [i \in 1..n |-> Unnamed]
      BY <2>1 DEF read_names, Reading
    <2>3. PathsOf(w, s) = [i \in 1..n |-> Unnamed]
      <3>1. CASE ~w
        BY <3>1 DEF PathsOf
      <3>2. CASE w
        <4>1. n = 0
          <5>1. s = << >>
            BY <1>3, <3>2 DEF HasNames
          <5> QED
            BY <5>1
        <4>2. \A i \in 1..n : FALSE
          BY <4>1
        <4> QED
          BY <4>2 DEF PathsOf
      <3> QED
        BY <3>1, <3>2
    <2> QED
      BY <2>2, <2>3
  <1> QED
    BY <1>2, <1>3

(* What the reader makes of an archive: all that it asks for, and its      *)
(* answer.                                                                 *)
EntriesRead(image, tag, start, paths) ==
  IF tag = "GNRL" THEN read_gnrl(image, start, paths)
  ELSE read_dx10(image, start, paths)

ArchiveIs(archive, image, tag, fmt, list) ==
  /\ archive.error = "none" /\ archive.image = image /\ archive.kind = tag
  /\ archive.compression = codec(fmt) /\ archive.entries = list

ArchiveTaken(archive, image, tag, fmt, w, at, s, read) ==
  /\ archive.error = "none" =>
       read.error = "none" /\ ArchiveIs(archive, image, tag, fmt, read.entries)
  /\ /\ HeaderSize(fmt) <= image.len
     /\ Len(s) * MinRecord(tag) <= image.len
     /\ HasNames(w, s) => at + NamesReach(s)[Len(s)] <= image.len
     /\ read.error = "none"
     => archive.error = "none"

LEMMA ArchiveIsRead ==
  ASSUME NEW fmt, fmt \in Formats, NEW tag, tag \in {"GNRL", "DX10"},
         NEW s, Listed(s), \A i \in 1..Len(s) : Named(s[i]),
         NEW image, image.len \in Nat, NEW at, at \in Nat,
         NEW w, w \in BOOLEAN,
         ShowsHeader(image, fmt, tag, Len(s), at), ShowsTable(image, w, at, s),
         NEW read, read = EntriesRead(image, tag, HeaderSize(fmt), PathsOf(w, s)),
         NEW archive, archive = ReadArchive(image)
  PROVE  ArchiveTaken(archive, image, tag, fmt, w, at, s, read)
  <1> DEFINE head == Get(image, 0, 24)
             start == RecordsStart(head.version)
             names == read_names(image, head.name_table_offset, head.file_count)
             list == IF head.kind = "GNRL"
                     THEN read_gnrl(image, start, names.entries)
                     ELSE read_dx10(image, start, names.entries)
             tooMany == head.file_count * MinRecord(head.kind) > image.len
             answer == [error |-> "none", image |-> image, kind |-> head.kind,
                        compression |-> Compression(image), entries |-> list.entries]
  <1>1. archive =
          CASE HeaderError(image) # "none" -> Refused(HeaderError(image))
            [] tooMany                     -> Refused("Malformed")
            [] names.error # "none"        -> Refused(names.error)
            [] head.kind \notin {"GNRL", "DX10"}
                                           -> Refused("UnsupportedType")
            [] list.error # "none"         -> Refused(list.error)
            [] OTHER                       -> answer
    BY DEF ReadArchive
  <1> HIDE DEF list, answer, tooMany, names
  <1>2. archive.error = "none" =>
          /\ HeaderError(image) = "none" /\ ~tooMany /\ names.error = "none"
          /\ list.error = "none" /\ archive = answer
    BY <1>1 DEF Refused
  <1>3. /\ HeaderError(image) = "none" /\ ~tooMany /\ names.error = "none"
        /\ head.kind \in {"GNRL", "DX10"} /\ list.error = "none"
        => archive = answer
    BY <1>1
  <1>4. /\ HeaderError(image) = "none" <=> HeaderSize(fmt) <= image.len
        /\ HeaderSize(fmt) <= image.len =>
             /\ head.kind = tag /\ head.file_count = Len(s)
             /\ head.name_table_offset = at /\ start = HeaderSize(fmt)
             /\ Compression(image) = codec(fmt)
    BY HeaderIsRead
  <1>5. ASSUME HeaderError(image) = "none"
        PROVE  /\ head.kind = tag /\ Compression(image) = codec(fmt)
               /\ tooMany = (Len(s) * MinRecord(tag) > image.len)
               /\ names.error = "none" => names.entries = PathsOf(w, s)
               /\ names.error = "none" => list = read
               /\ (HasNames(w, s) => at + NamesReach(s)[Len(s)] <= image.len)
                    => names.error = "none"
    <2>1. /\ head.kind = tag /\ head.file_count = Len(s)
          /\ head.name_table_offset = at /\ start = HeaderSize(fmt)
          /\ Compression(image) = codec(fmt)
      BY <1>4, <1>5
    <2>2. names = read_names(image, at, Len(s))
      BY <2>1 DEF names
    <2>3. /\ names.error = "none" => names.entries = PathsOf(w, s)
          /\ (HasNames(w, s) => at + NamesReach(s)[Len(s)] <= image.len)
               => names.error = "none"
      BY <2>2, PathsAreRead
    <2>4. tooMany = (Len(s) * MinRecord(tag) > image.len)
      BY <2>1 DEF tooMany
    <2>5. ASSUME names.error = "none"
          PROVE  list = read
      <3>1. names.entries = PathsOf(w, s)
        BY <2>3, <2>5
      <3>2. list = EntriesRead(image, head.kind, start, names.entries)
        BY DEF list, EntriesRead
      <3> HIDE DEF head, start
      <3> QED
        BY <2>1, <3>1, <3>2 DEF start
    <2> HIDE DEF head, start
    <2> QED
      BY <2>1, <2>3, <2>4, <2>5
  <1>6. ASSUME archive.error = "none"
        PROVE  /\ read.error = "none"
               /\ ArchiveIs(archive, image, tag, fmt, read.entries)
    <2>1. /\ HeaderError(image) = "none" /\ list = read /\ archive = answer
          /\ read.error = "none" /\ head.kind = tag /\ Compression(image) = codec(fmt)
      BY <1>2, <1>5, <1>6
    <2> QED
      BY <2>1 DEF ArchiveIs, answer
  <1>7. ASSUME HeaderSize(fmt) <= image.len,
               Len(s) * MinRecord(tag) <= image.len,
               HasNames(w, s) => at + NamesReach(s)[Len(s)] <= image.len,
               read.error = "none"
        PROVE  archive.error = "none"
    <2>1. HeaderError(image) = "none"
      BY <1>4, <1>7
    <2>2. ~tooMany
      <3>1. Len(s) * MinRecord(tag) \in Nat
        <4>1. Len(s) \in Nat /\ MinRecord(tag) \in {24, 36}
          BY ListedIs DEF MinRecord
        <4> QED
          BY <4>1
      <3> DEFINE least == Len(s) * MinRecord(tag)
                 len == image.len
      <3>2. least \in Nat /\ len \in Nat /\ least <= len
            /\ (tooMany => least > len)
        BY <1>5, <1>7, <2>1, <3>1
      <3> HIDE DEF least, len
      <3> QED
        BY <3>2
    <2>3. names.error = "none" /\ list = read /\ head.kind = tag
      BY <1>5, <1>7, <2>1
    <2>4. archive = answer
      BY <1>3, <1>7, <2>1, <2>2, <2>3
    <2> QED
      BY <2>4 DEF answer
  <1> QED
    BY <1>6, <1>7 DEF ArchiveTaken
-----------------------------------------------------------------------------
(* What read_chunk makes of a block, compressed or stored.                 *)
Describes(chunk, place, block) ==
  /\ chunk.offset = place
  /\ chunk.packed = block.packed /\ chunk.unpacked = block.unpacked

Opens(archive, image, fmt) ==
  archive.image = image /\ archive.compression = codec(fmt)

BlockRead(read, image, place, block, data) ==
  /\ read.error = "none" => read.bytes = data
  /\ place + block.bytes.size <= image.len =>
       read.error = IF data.size > MAX_CHUNK_UNPACKED THEN "TooLarge" ELSE "none"

LEMMA CompressedIsExtracted ==
  ASSUME NEW fmt, NEW data, data \in Slices(data.of), HasSizes(data),
         Noise \notin Packings(data.of),
         NEW image, image.len \in Nat, NEW place, place \in Nat,
         NEW block, block = CompressedBlock(fmt, data),
         Shows(image, place, block.bytes),
         NEW archive, Opens(archive, image, fmt),
         NEW chunk, Describes(chunk, place, block),
         NEW read, read = read_chunk(archive, chunk)
  PROVE  BlockRead(read, image, place, block, data)
  <1> DEFINE p == PackedSize(codec(fmt), data.size)
             packing == [codec |-> codec(fmt), data |-> data]
             held == Get(image, place, p)
  <1>1. p \in Nat \ {0}
    BY DEF HasSizes, codec
  <1>2. /\ block.packed = p /\ block.unpacked = data.size
        /\ block.bytes.size = p /\ block.bytes.is = packing
    BY DEF CompressedBlock, Field
  <1>3. packing # Noise
    <2>1. packing \in Packings(data.of)
      BY DEF Packings, codec
    <2> HIDE DEF packing
    <2> QED
      BY <2>1
  <1>4. Decodes(codec(fmt), packing, data.size)
    <2>1. /\ "codec" \in DOMAIN packing /\ packing.codec = codec(fmt)
          /\ packing.data = data
      OBVIOUS
    <2> HIDE DEF packing
    <2> QED
      BY <1>3, <2>1 DEF Decodes
  <1>5. packing.data = data
    OBVIOUS
  <1> HIDE DEF packing, p
  <1>6. /\ chunk.packed # 0 /\ StoredSize(chunk) = p /\ chunk.offset = place
        /\ chunk.unpacked = data.size
        /\ archive.image = image /\ archive.compression = codec(fmt)
    BY <1>1, <1>2 DEF Describes, Opens, StoredSize
  <1>7. InBounds(archive.image, chunk) = (place + p <= image.len)
    BY <1>6 DEF InBounds
  <1>8. CASE place + p <= image.len
    <2>1. Get(image, place, p) = packing
      BY <1>1, <1>2, <1>8 DEF Shows
    <2>2. CASE data.size > MAX_CHUNK_UNPACKED
      <3>1. read = Refused("TooLarge")
        BY <1>6, <1>7, <1>8, <2>2 DEF read_chunk
      <3> QED
        BY <1>2, <2>2, <3>1 DEF Refused, BlockRead
    <2>3. CASE ~(data.size > MAX_CHUNK_UNPACKED)
      <3>1. read = Got(data)
        BY <1>4, <1>5, <1>6, <1>7, <1>8, <2>1, <2>3 DEF read_chunk
      <3> QED
        BY <1>2, <2>3, <3>1 DEF Got, BlockRead
    <2> QED
      BY <2>2, <2>3
  <1>9. CASE ~(place + p <= image.len)
    <2>1. read = Refused("Malformed")
      BY <1>7, <1>9 DEF read_chunk
    <2> QED
      BY <1>2, <1>9, <2>1 DEF Refused, BlockRead
  <1> QED
    BY <1>8, <1>9

LEMMA StoredIsExtracted ==
  ASSUME NEW fmt, NEW data, data \in Slices(data.of), data.size = 0 => data = Nothing,
         NEW image, image.len \in Nat, NEW place, place \in Nat,
         NEW block, block = StoredBlock(data),
         Shows(image, place, block.bytes),
         NEW archive, Opens(archive, image, fmt),
         NEW chunk, Describes(chunk, place, block),
         NEW read, read = read_chunk(archive, chunk)
  PROVE  /\ read.error = "none" => read.bytes = data
         /\ place + block.bytes.size <= image.len => read.error = "none"
  <1> DEFINE p == data.size
  <1>1. p \in Nat
    BY DEF Slices
  <1>2. /\ block.packed = 0 /\ block.unpacked = p
        /\ block.bytes.size = p /\ block.bytes.is = data
    BY DEF StoredBlock, Field
  <1>3. p = 0 => data = Nothing
    OBVIOUS
  <1> HIDE DEF p
  <1>4. /\ chunk.packed = 0 /\ StoredSize(chunk) = p /\ chunk.offset = place
        /\ archive.image = image
    BY <1>2 DEF Describes, Opens, StoredSize
  <1>5. InBounds(archive.image, chunk) = (place + p <= image.len)
    BY <1>4 DEF InBounds
  <1>6. CASE place + p <= image.len
    <2>1. Get(image, place, p) = data
      BY <1>1, <1>2, <1>3, <1>6 DEF Shows
    <2>2. read = Got(data)
      BY <1>4, <1>5, <1>6, <2>1 DEF read_chunk
    <2> QED
      BY <2>2 DEF Got
  <1>7. CASE ~(place + p <= image.len)
    <2>1. read = Refused("Malformed")
      BY <1>5, <1>7 DEF read_chunk
    <2> QED
      BY <1>2, <1>7, <2>1 DEF Refused
  <1> QED
    BY <1>6, <1>7

(* A file of a general archive.                                            *)
LEMMA FileIsExtracted ==
  ASSUME NEW fmt, NEW e, FileOf(e),
         NEW image, image.len \in Nat, NEW place, place \in Nat,
         NEW block, block = Block(fmt, e),
         Shows(image, place, block.bytes),
         NEW archive, Opens(archive, image, fmt),
         NEW chunk, Describes(chunk, place, block),
         NEW read, read = read_chunk(archive, chunk)
  PROVE  /\ read.error = "none" => read.bytes = e.data
         /\ place + block.bytes.size <= image.len =>
              read.error = IF e.compress /\ e.data.size > MAX_CHUNK_UNPACKED
                           THEN "TooLarge" ELSE "none"
  <1>1. PICK f \in Files : e.data = f.data
    BY DEF FileOf
  <1>2. /\ e.data \in Slices(e.data.of) /\ (e.data.size = 0 => e.data = Nothing)
        /\ Noise \notin Packings(e.data.of)
    BY <1>1, FilesAssumption, NoiseAssumption
  <1>3. HasSizes(e.data)
    BY FileHasSizes
  <1>4. CASE e.compress
    <2>1. block = CompressedBlock(fmt, e.data)
      BY <1>4 DEF Block
    <2>2. BlockRead(read, image, place, block, e.data)
      BY <1>2, <1>3, <2>1, CompressedIsExtracted
    <2> QED
      BY <1>4, <2>2 DEF BlockRead
  <1>5. CASE ~e.compress
    <2>1. block = StoredBlock(e.data)
      BY <1>5 DEF Block
    <2> QED
      BY <1>2, <1>5, <2>1, StoredIsExtracted
  <1> QED
    BY <1>4, <1>5
-----------------------------------------------------------------------------
(* The data of an archive and its table of names.                          *)
DataShown(image, base, blocks, w, at, s) ==
  /\ at \in Nat /\ ShowsTable(image, w, at, s)
  /\ \A k \in 1..Len(blocks) :
       /\ BlockStart(base, Sizes(blocks), k) \in Nat
       /\ Shows(image, BlockStart(base, Sizes(blocks), k), blocks[k].bytes)

DataFits(len, base, blocks, w, at, s) ==
  /\ base <= len
  /\ HasNames(w, s) => at + NamesReach(s)[Len(s)] <= len
  /\ \A k \in 1..Len(blocks) :
       BlockStart(base, Sizes(blocks), k) + blocks[k].bytes.size <= len

LEMMA DataLies ==
  ASSUME NEW s, Listed(s), \A i \in 1..Len(s) : Named(s[i]),
         NEW image, NEW base \in Nat, base # 0, NEW blocks, Listed(blocks),
         AreFields(Bytes(blocks)), NEW w, w \in BOOLEAN, NEW at,
         at = IF HasNames(w, s) THEN base + Total(Sizes(blocks)) ELSE 0,
         NEW table, table = IF HasNames(w, s) THEN NameTable(s) ELSE << >>,
         Lies(image.at, base, Bytes(blocks)),
         Lies(image.at, base + Extent(Bytes(blocks)), table),
         NEW len, len = base + Extent(Bytes(blocks)) + Extent(table)
  PROVE  /\ DataShown(image, base, blocks, w, at, s)
         /\ DataFits(len, base, blocks, w, at, s)
  <1> DEFINE n == Len(s)
             x == Extent(Bytes(blocks))
             y == Extent(table)
             Start(k) == BlockStart(base, Sizes(blocks), k)
             Size(k) == blocks[k].bytes.size
  <1>1. AreFields(table)
    BY NamesEnd DEF Plain
  <1>2. x \in Nat /\ y \in Nat
    BY <1>1, ExtentsReach
  <1>3. x = Total(Sizes(blocks))
    BY BlocksLie
  <1>4. ASSUME NEW k \in 1..Len(blocks)
        PROVE  /\ Start(k) \in Nat /\ Start(k) + Size(k) <= base + x
               /\ Shows(image, Start(k), blocks[k].bytes)
    <2> DEFINE first == BlockStart(0, Sizes(blocks), k)
               size == Size(k)
    <2>1. /\ Shows(image, Start(k), blocks[k].bytes)
          /\ first \in Nat /\ Start(k) = base + first
          /\ first + size <= x
      BY BlocksLie
    <2>2. size \in Nat
      <3>1. Len(blocks) \in Nat /\ DOMAIN blocks = 1..Len(blocks)
        BY ListedIs
      <3>2. Bytes(blocks) = [i \in 1..Len(blocks) |-> Bytes(blocks)[i]]
            /\ Bytes(blocks)[k] = blocks[k].bytes
        BY <3>1 DEF Bytes
      <3>3. Len(Bytes(blocks)) = Len(blocks)
        BY <3>1, <3>2, FunctionIsListed
      <3> QED
        BY <3>2, <3>3 DEF AreFields
    <2> HIDE DEF first, size, Start, x
    <2>3. Start(k) \in Nat /\ Start(k) + size <= base + x
      BY <1>2, <2>1, <2>2
    <2> QED
      BY <2>1, <2>3 DEF size
  <1>5. ASSUME HasNames(w, s)
        PROVE  /\ at \in Nat /\ at # 0 /\ ShowsNames(image, at, s)
               /\ at + NamesReach(s)[n] = base + x + y
    <2>1. at = base + x /\ table = NameTable(s)
      BY <1>3, <1>5
    <2> HIDE DEF x
    <2>2. at \in Nat /\ at # 0
      BY <1>2, <2>1
    <2>3. Lies(image.at, at, NameTable(s))
      BY <2>1 DEF x
    <2>4. /\ ShowsNames(image, at, s) /\ Extent(NameTable(s)) = NamesReach(s)[n]
      BY <2>2, <2>3, NamesLie
    <2>5. NamesReach(s)[n] = y
      BY <2>1, <2>4
    <2> QED
      BY <2>1, <2>2, <2>4, <2>5
  <1>6. at \in Nat /\ ShowsTable(image, w, at, s)
    <2>1. CASE HasNames(w, s)
      BY <1>5, <2>1 DEF ShowsTable
    <2>2. CASE ~HasNames(w, s)
      BY <2>2 DEF ShowsTable
    <2> QED
      BY <2>1, <2>2
  <1>7. DataShown(image, base, blocks, w, at, s)
    BY <1>4, <1>6 DEF DataShown
  <1>8. len = (base + x) + y
    OBVIOUS
  <1> HIDE DEF x, y
  <1>9. base <= len /\ base + x <= len /\ len \in Nat
    BY <1>2, <1>8
  <1>10. ASSUME NEW k \in 1..Len(blocks)
         PROVE  Start(k) + Size(k) <= len
    <2> DEFINE end == Start(k) + Size(k)
    <2>1. end <= base + x /\ Start(k) \in Nat
      BY <1>4
    <2>2. Size(k) \in Nat
      <3>1. Len(blocks) \in Nat /\ DOMAIN blocks = 1..Len(blocks)
        BY ListedIs
      <3>2. Bytes(blocks) = [i \in 1..Len(blocks) |-> Bytes(blocks)[i]]
            /\ Bytes(blocks)[k] = blocks[k].bytes
        BY <3>1 DEF Bytes
      <3>3. Len(Bytes(blocks)) = Len(blocks)
        BY <3>1, <3>2, FunctionIsListed
      <3> QED
        BY <3>2, <3>3 DEF AreFields
    <2> HIDE DEF Start, Size
    <2>3. end \in Nat
      BY <2>1, <2>2
    <2> HIDE DEF end
    <2>4. end <= len
      BY <1>2, <1>9, <2>1, <2>3
    <2> QED
      BY <2>4 DEF end
  <1>11. HasNames(w, s) => at + NamesReach(s)[n] <= len
    <2> SUFFICES ASSUME HasNames(w, s)
                 PROVE  at + NamesReach(s)[n] <= len
      OBVIOUS
    <2>1. at + NamesReach(s)[n] = base + x + y
      BY <1>5
    <2> DEFINE end == at + NamesReach(s)[n]
    <2>2. end = len
      BY <1>8, <2>1
    <2> HIDE DEF end
    <2>3. end <= len
      BY <1>9, <2>2
    <2> QED
      BY <2>3 DEF end
  <1>12. DataFits(len, base, blocks, w, at, s)
    BY <1>9, <1>10, <1>11 DEF DataFits
  <1> QED
    BY <1>7, <1>12

(* A general archive, of which an image may be the beginning.              *)
GnrlShown(image, fmt, w, s) ==
  /\ ShowsHeader(image, fmt, "GNRL", Len(s), GnrlNamesOffset(fmt, w, s))
  /\ \A i \in 1..Len(s) :
       Shows(image, HeaderSize(fmt) + 36 * (i - 1), GnrlRecords(fmt, s)[i])
  /\ DataShown(image, GnrlDataStart(fmt, s), GnrlBlocks(fmt, s), w,
               GnrlNamesOffset(fmt, w, s), s)

LEMMA GnrlShows ==
  ASSUME NEW fmt, fmt \in Formats, NEW w, w \in BOOLEAN, NEW s, Listed(s),
         \A i \in 1..Len(s) : Named(s[i]) /\ FileOf(s[i]),
         NEW image, image.at = GnrlImage(fmt, w, s).at
  PROVE  /\ GnrlShown(image, fmt, w, s)
         /\ DataFits(GnrlImage(fmt, w, s).len, GnrlDataStart(fmt, s),
                     GnrlBlocks(fmt, s), w, GnrlNamesOffset(fmt, w, s), s)
         /\ AreFields(Bytes(GnrlBlocks(fmt, s)))
         /\ GnrlDataStart(fmt, s) = HeaderSize(fmt) + 36 * Len(s)
         /\ HeaderSize(fmt) \in Nat /\ HeaderSize(fmt) >= 24
         /\ GnrlImage(fmt, w, s).len \in Nat
  <1> DEFINE n == Len(s)
             at == GnrlNamesOffset(fmt, w, s)
             blocks == GnrlBlocks(fmt, s)
             base == GnrlDataStart(fmt, s)
             a == write_header(fmt, "GNRL", n, at)
             b == GnrlRecords(fmt, s)
             c == Bytes(blocks)
             d == IF HasNames(w, s) THEN NameTable(s) ELSE << >>
             full == GnrlImage(fmt, w, s)
  <1>1. full = Image(((a \o b) \o c) \o d)
    BY DEF GnrlImage
  <1>2. n \in Nat /\ DOMAIN s = 1..n
    BY ListedIs
  <1>3. AreFields(a) /\ AreFields(c) /\ AreFields(d)
    BY HeaderIsPlain, GnrlBlocksArePlain, NamesEnd DEF Plain
  <1>4. b = [i \in 1..n |-> b[i]] /\ \A i \in 1..n : b[i].size = 36
    BY <1>2 DEF GnrlRecords, Field, GNRL_RECORD_SIZE
  <1>5. /\ at = IF HasNames(w, s) THEN base + Total(Sizes(blocks)) ELSE 0
        /\ base = HeaderSize(fmt) + 36 * n
    BY DEF GnrlNamesOffset, GnrlDataStart, GNRL_RECORD_SIZE
  <1>6. Listed(blocks)
    BY <1>2, FunctionIsListed DEF GnrlBlocks
  <1>7. d = IF HasNames(w, s) THEN NameTable(s) ELSE << >>
    OBVIOUS
  <1> HIDE DEF at, blocks, base, a, b, c, d, full, n
  <1>8. Listed(b) /\ Len(b) = n
    BY <1>2, <1>4, FunctionIsListed
  <1>9. AreFields(b)
    <2>1. \A k \in 1..Len(b) : b[k].size \in Nat
      <3> TAKE k \in 1..Len(b)
      <3>1. b[k].size = 36
        BY <1>4, <1>8
      <3> QED
        BY <3>1
    <2> QED
      BY <1>8, <2>1 DEF AreFields
  <1>10. FourParts(full, a, b, c, d)
    BY <1>1, <1>3, <1>9, PartsLie
  <1>11. /\ Lies(image.at, 0, a) /\ Lies(image.at, Extent(a), b)
         /\ Lies(image.at, Extent(a) + Extent(b), c)
         /\ Lies(image.at, Extent(a) + Extent(b) + Extent(c), d)
         /\ full.len = Extent(a) + Extent(b) + Extent(c) + Extent(d)
    BY <1>10 DEF FourParts, full
  <1>12. /\ Extent(a) = HeaderSize(fmt) /\ ShowsHeader(image, fmt, "GNRL", n, at)
         /\ HeaderSize(fmt) \in Nat /\ HeaderSize(fmt) >= 24
    BY <1>11, HeaderLies DEF a
  <1>13. /\ \A k \in 1..n : Begins(b)[k] = 36 * (k - 1)
         /\ Extent(b) = 36 * n
    <2> DEFINE size == 36
    <2>1. /\ \A k \in 1..Len(b) : Begins(b)[k] = size * (k - 1)
          /\ Extent(b) = size * Len(b)
      <3>1. size = 36 /\ \A k \in 1..Len(b) : b[k].size = size
        BY <1>4, <1>8
      <3> HIDE DEF size
      <3>2. InSteps(b, size)
        BY <1>9, <3>1, SameSizes
      <3> QED
        BY <3>2 DEF InSteps
    <2> QED
      BY <1>8, <2>1
  <1>14. ASSUME NEW i \in 1..n
         PROVE  Shows(image, HeaderSize(fmt) + 36 * (i - 1), b[i])
    <2>1. ShowsEach(image, Extent(a), b)
      BY <1>9, <1>11, LiesShow
    <2>2. Shows(image, Extent(a) + Begins(b)[i], b[i])
      BY <1>8, <2>1 DEF ShowsEach
    <2> QED
      BY <1>12, <1>13, <2>2
  <1>15. base = Extent(a) + Extent(b) /\ base \in Nat /\ base # 0
    BY <1>2, <1>5, <1>12, <1>13
  <1>16. /\ Lies(image.at, base, c) /\ Lies(image.at, base + Extent(c), d)
         /\ full.len = base + Extent(c) + Extent(d)
    BY <1>11, <1>15
  <1>17. /\ DataShown(image, base, blocks, w, at, s)
         /\ DataFits(full.len, base, blocks, w, at, s)
    BY <1>3, <1>5, <1>6, <1>7, <1>15, <1>16, DataLies DEF c
  <1>18. full.len \in Nat
    <2>1. Extent(c) \in Nat /\ Extent(d) \in Nat
      BY <1>3, ExtentsReach
    <2> QED
      BY <1>15, <1>16, <2>1
  <1>19. GnrlShown(image, fmt, w, s)
    BY <1>12, <1>14, <1>17 DEF GnrlShown, n, at, b, base, blocks
  <1> QED
    BY <1>3, <1>5, <1>12, <1>17, <1>18, <1>19 DEF full, base, blocks, at, n, c
-----------------------------------------------------------------------------
(* The entries of an archive read back, by their paths.                    *)
PathOf(w, e) == IF w THEN Listing(e) ELSE Unnamed

SamePaths(archive, tag, w, s) ==
  /\ archive.kind = tag /\ Len(archive.entries) = Len(s)
  /\ \A i \in 1..Len(s) : archive.entries[i].path = PathOf(w, s[i])

FileComesBack(archive, e, record) ==
  LET read == read_chunk(archive, record)
  IN read.error = "none" => read.bytes = e.data

FileIsWhole(archive, e, record) ==
  read_chunk(archive, record).error =
    IF e.compress /\ e.data.size > MAX_CHUNK_UNPACKED THEN "TooLarge" ELSE "none"

LEMMA GnrlReadsBack ==
  ASSUME NEW fmt, fmt \in Formats, NEW w, w \in BOOLEAN, NEW s, Listed(s),
         \A i \in 1..Len(s) : Named(s[i]) /\ FileOf(s[i]),
         NEW image, image.at = GnrlImage(fmt, w, s).at, image.len \in Nat,
         NEW archive, archive = ReadArchive(image)
  PROVE  /\ archive.error = "none" =>
              /\ SamePaths(archive, "GNRL", w, s)
              /\ \A i \in 1..Len(s) : FileComesBack(archive, s[i], archive.entries[i])
         /\ image.len = GnrlImage(fmt, w, s).len =>
              /\ archive.error = "none"
              /\ \A i \in 1..Len(s) : FileIsWhole(archive, s[i], archive.entries[i])
  <1> DEFINE n == Len(s)
             at == GnrlNamesOffset(fmt, w, s)
             base == GnrlDataStart(fmt, s)
             blocks == GnrlBlocks(fmt, s)
             start == HeaderSize(fmt)
             paths == PathsOf(w, s)
             table == GnrlRecords(fmt, s)
             records == [i \in 1..n |-> table[i].is]
             Begin(i) == BlockStart(base, Sizes(blocks), i)
             read == read_gnrl(image, start, paths)
             full == GnrlImage(fmt, w, s).len
  <1>1. n \in Nat /\ DOMAIN s = 1..n
    BY ListedIs
  <1>2. /\ Len(paths) = n /\ \A i \in 1..n : paths[i] = PathOf(w, s[i])
    <2>1. paths = [i \in 1..n |-> paths[i]]
          /\ \A i \in 1..n : paths[i] = PathOf(w, s[i])
      BY DEF PathsOf, PathOf
    <2> HIDE DEF paths, n
    <2> QED
      BY <1>1, <2>1, FunctionIsListed
  <1>3. \A i \in 1..n : /\ table[i] = Field(36, records[i])
                        /\ records[i].offset = Begin(i)
                        /\ records[i].packed = blocks[i].packed
                        /\ records[i].unpacked = blocks[i].unpacked
    BY <1>1 DEF GnrlRecords, Field, GNRL_RECORD_SIZE
  <1>4. /\ GnrlShown(image, fmt, w, s)
        /\ DataFits(full, base, blocks, w, at, s)
        /\ base = start + 36 * n /\ start \in Nat /\ start >= 24 /\ full \in Nat
    BY GnrlShows
  <1>5. Len(blocks) = n /\ \A i \in 1..n : blocks[i] = Block(fmt, s[i])
    <2>1. blocks = [i \in 1..n |-> blocks[i]]
          /\ \A i \in 1..n : blocks[i] = Block(fmt, s[i])
      BY <1>1 DEF GnrlBlocks
    <2> HIDE DEF blocks, n
    <2> QED
      BY <1>1, <2>1, FunctionIsListed
  <1>6. ShowsHeader(image, fmt, "GNRL", n, at) /\ at \in Nat /\ ShowsTable(image, w, at, s)
    BY <1>4 DEF GnrlShown, DataShown
  <1> HIDE DEF records, table, paths, blocks, base, at, full, read
  <1>7. /\ read.error = "none" =>
             read.entries = [i \in 1..n |-> FileRead(paths[i], records[i])]
        /\ start + 36 * n <= image.len => read.error = "none"
    <2>1. \A i \in 1..n : Shows(image, start + 36 * (i - 1), Field(36, records[i]))
      <3> TAKE i \in 1..n
      <3>1. Shows(image, start + 36 * (i - 1), table[i])
        BY <1>4 DEF GnrlShown, table
      <3> QED
        BY <1>3, <3>1
    <2>2. read = read_gnrl(image, start, paths)
      BY DEF read
    <2>3. start \in Nat
      BY <1>4
    <2> HIDE DEF start, n
    <2>4. FilesTaken(read, image, start, n, paths, records)
      BY <1>1, <1>2, <2>1, <2>2, <2>3, FilesAreRead
    <2> QED
      BY <2>4 DEF FilesTaken
  <1>8. /\ archive.error = "none" =>
             read.error = "none" /\ ArchiveIs(archive, image, "GNRL", fmt, read.entries)
        /\ /\ HeaderSize(fmt) <= image.len /\ n * MinRecord("GNRL") <= image.len
           /\ HasNames(w, s) => at + NamesReach(s)[n] <= image.len
           /\ read.error = "none"
           => archive.error = "none"
    <2>1. read = EntriesRead(image, "GNRL", HeaderSize(fmt), PathsOf(w, s))
      BY DEF EntriesRead, read, paths
    <2>2. ArchiveTaken(archive, image, "GNRL", fmt, w, at, s, read)
      BY <1>6, <2>1, ArchiveIsRead
    <2> QED
      BY <2>2 DEF ArchiveTaken
  <1>9. ASSUME archive.error = "none", NEW i \in 1..n
        PROVE  LET r == read_chunk(archive, archive.entries[i])
                   e == s[i]
               IN /\ archive.entries[i].path = PathOf(w, s[i])
                  /\ r.error = "none" => r.bytes = e.data
                  /\ Begin(i) + blocks[i].bytes.size <= image.len =>
                       r.error = IF e.compress /\ e.data.size > MAX_CHUNK_UNPACKED
                                 THEN "TooLarge" ELSE "none"
    <2> DEFINE chunk == archive.entries[i]
               r == read_chunk(archive, chunk)
               e == s[i]
               place == Begin(i)
               block == blocks[i]
    <2>1. chunk = FileRead(paths[i], records[i])
      BY <1>7, <1>8, <1>9 DEF ArchiveIs
    <2>2. Describes(chunk, place, block) /\ chunk.path = PathOf(w, s[i])
      BY <1>2, <1>3, <2>1 DEF FileRead, Describes
    <2>3. Opens(archive, image, fmt)
      BY <1>8, <1>9 DEF ArchiveIs, Opens
    <2>4. place \in Nat /\ Shows(image, place, block.bytes)
      BY <1>4, <1>5 DEF GnrlShown, DataShown, base, blocks, at
    <2>5. block = Block(fmt, e) /\ FileOf(e)
      BY <1>5
    <2>6. r = read_chunk(archive, chunk)
      OBVIOUS
    <2> HIDE DEF chunk, r, e, place, block
    <2>7. /\ r.error = "none" => r.bytes = e.data
          /\ place + block.bytes.size <= image.len =>
               r.error = IF e.compress /\ e.data.size > MAX_CHUNK_UNPACKED
                         THEN "TooLarge" ELSE "none"
      BY <2>2, <2>3, <2>4, <2>5, <2>6, FileIsExtracted
    <2> QED
      BY <2>2, <2>7 DEF chunk, r, e, place, block
  <1>10. ASSUME archive.error = "none"
         PROVE  /\ SamePaths(archive, "GNRL", w, s)
                /\ \A i \in 1..n : FileComesBack(archive, s[i], archive.entries[i])
    <2>1. archive.kind = "GNRL"
      BY <1>8, <1>10 DEF ArchiveIs
    <2>2. Len(archive.entries) = n
      <3>1. archive.entries = [i \in 1..n |-> FileRead(paths[i], records[i])]
        BY <1>7, <1>8, <1>10 DEF ArchiveIs
      <3>2. archive.entries = [i \in 1..n |-> archive.entries[i]]
        BY <3>1
      <3> QED
        BY <1>1, <3>2, FunctionIsListed
    <2>3. \A i \in 1..n : archive.entries[i].path = PathOf(w, s[i])
      BY <1>9, <1>10
    <2>4. \A i \in 1..n : FileComesBack(archive, s[i], archive.entries[i])
      BY <1>9, <1>10 DEF FileComesBack
    <2> QED
      BY <2>1, <2>2, <2>3, <2>4 DEF SamePaths
  <1>11. ASSUME image.len = full
         PROVE  archive.error = "none"
    <2>1. base <= image.len /\ (HasNames(w, s) => at + NamesReach(s)[n] <= image.len)
      BY <1>4, <1>11 DEF DataFits
    <2>2. start + 36 * n <= image.len /\ start <= image.len /\ n * 36 <= image.len
      <3> DEFINE len == image.len
      <3>1. len \in Nat /\ base <= len /\ base = start + 36 * n
            /\ start \in Nat /\ n \in Nat
        BY <1>1, <1>4, <2>1
      <3> HIDE DEF len, start, n
      <3>2. start + 36 * n <= len /\ start <= len /\ n * 36 <= len
        BY <3>1
      <3> QED
        BY <3>2 DEF len
    <2>3. MinRecord("GNRL") = 36
      BY DEF MinRecord
    <2> QED
      BY <1>7, <1>8, <2>1, <2>2, <2>3
  <1>12. ASSUME image.len = full, NEW i \in 1..n
         PROVE  FileIsWhole(archive, s[i], archive.entries[i])
    <2>1. Begin(i) + blocks[i].bytes.size <= image.len
      BY <1>4, <1>5, <1>12 DEF DataFits
    <2> HIDE DEF Begin
    <2> QED
      BY <1>9, <1>11, <1>12, <2>1 DEF FileIsWhole
  <1> QED
    BY <1>10, <1>11, <1>12 DEF full
-----------------------------------------------------------------------------
(* Where the elements of sequences are when they follow each other.        *)
Counted(list, seqs, reach, k) ==
  /\ Len(list) = reach[k]
  /\ \A i \in 1..k : \A j \in 1..Len(seqs[i]) :
       /\ reach[i - 1] + j \in 1..Len(list)
       /\ list[reach[i - 1] + j] = seqs[i][j]

LEMMA CountedAgain ==
  ASSUME NEW list, Listed(list), NEW seqs, NEW reach, NEW k \in Nat,
         Counted(list, seqs, reach, k), Listed(seqs[k + 1]),
         reach[k + 1] = reach[k] + Len(seqs[k + 1])
  PROVE  Counted(list \o seqs[k + 1], seqs, reach, k + 1)
  <1> DEFINE more == seqs[k + 1]
             m == Len(list)
             new == list \o more
  <1>1. /\ Len(new) = m + Len(more) /\ m \in Nat /\ Len(more) \in Nat
        /\ \A x \in 1..m : new[x] = list[x]
        /\ \A x \in 1..Len(more) : new[m + x] = more[x]
    BY ConcatIs
  <1>2. m = reach[k]
    BY DEF Counted
  <1> HIDE DEF new, m
  <1>3. ASSUME NEW i \in 1..k, NEW j \in 1..Len(seqs[i])
        PROVE  /\ reach[i - 1] + j \in 1..Len(new)
               /\ new[reach[i - 1] + j] = seqs[i][j]
    <2> DEFINE x == reach[i - 1] + j
    <2>1. x \in 1..m /\ list[x] = seqs[i][j]
      BY DEF Counted, m
    <2> HIDE DEF x
    <2>2. x \in 1..Len(new) /\ new[x] = seqs[i][j]
      BY <1>1, <2>1
    <2> QED
      BY <2>2 DEF x
  <1>4. ASSUME NEW j \in 1..Len(more)
        PROVE  /\ reach[(k + 1) - 1] + j \in 1..Len(new)
               /\ new[reach[(k + 1) - 1] + j] = more[j]
    <2>1. (k + 1) - 1 = k
      OBVIOUS
    <2>2. reach[(k + 1) - 1] = m
      BY <1>2, <2>1
    <2>3. j \in Nat /\ j >= 1 /\ j <= Len(more)
      BY <1>1
    <2> HIDE DEF more
    <2>4. m + j \in 1..Len(new) /\ new[m + j] = more[j]
      BY <1>1, <2>3
    <2> QED
      BY <2>2, <2>4
  <1>5. \A i \in 1..(k + 1) : i \in 1..k \/ i = k + 1
    OBVIOUS
  <1>6. Len(new) = reach[k + 1]
    BY <1>1, <1>2
  <1>7. \A i \in 1..(k + 1) : \A j \in 1..Len(seqs[i]) :
          /\ reach[i - 1] + j \in 1..Len(new)
          /\ new[reach[i - 1] + j] = seqs[i][j]
    <2> TAKE i \in 1..(k + 1)
    <2>1. CASE i \in 1..k
      BY <1>3, <2>1
    <2>2. CASE i = k + 1
      BY <1>4, <2>2
    <2> QED
      BY <1>5, <2>1, <2>2
  <1> QED
    BY <1>6, <1>7 DEF Counted, new

LEMMA FlattenCounts ==
  ASSUME NEW seqs, Listed(seqs), \A i \in 1..Len(seqs) : Listed(seqs[i]),
         NEW counts, counts = [i \in 1..Len(seqs) |-> Len(seqs[i])],
         NEW reach, reach = Offsets(counts)
  PROVE  /\ Counted(FlattenSeq(seqs), seqs, reach, Len(seqs))
         /\ Listed(FlattenSeq(seqs))
         /\ reach[0] = 0 /\ \A i \in 0..Len(seqs) : reach[i] \in Nat
         /\ \A i \in 1..Len(seqs) : reach[i] = reach[i - 1] + Len(seqs[i])
  <1> DEFINE n == Len(seqs)
  <1>1. seqs \in Seq(Seq(Elements(seqs))) /\ n \in Nat
    BY ManyAreListed, ListedIs
  <1>2. PICK f : Flattens(f, seqs, Elements(seqs))
    BY <1>1, FlattenIs
  <1>3. /\ f[0] = << >> /\ FlattenSeq(seqs) = f[n]
        /\ \A k \in 1..n : f[k] = f[k - 1] \o seqs[k]
        /\ \A k \in 0..n : Listed(f[k])
    BY <1>2 DEF Flattens, Listed
  <1>4. \A i \in 1..n : Len(seqs[i]) \in Nat
    BY ListedIs
  <1>5. counts \in Seq(Nat) /\ Len(counts) = n /\ \A i \in 1..n : counts[i] = Len(seqs[i])
    BY <1>1, <1>4
  <1>6. Reaches(reach, counts)
    BY <1>5, OffsetsReach
  <1>7. /\ reach[0] = 0 /\ \A i \in 0..n : reach[i] \in Nat
        /\ \A i \in 1..n : reach[i] = reach[i - 1] + Len(seqs[i])
    BY <1>5, <1>6 DEF Reaches
  <1> DEFINE S == {k \in 0..n : Counted(f[k], seqs, reach, k)}
  <1>8. 0 \in S
    <2>1. Len(<< >>) = 0 /\ 0 \in 0..n /\ 1..0 = {}
      BY <1>1
    <2> QED
      BY <1>3, <1>7, <2>1 DEF Counted
  <1>9. ASSUME NEW k \in 0..(n - 1), k \in S
        PROVE  k + 1 \in S
    <2>1. k + 1 \in 1..n /\ (k + 1) - 1 = k /\ k + 1 \in 0..n /\ k \in Nat /\ k \in 0..n
      BY <1>1
    <2>2. f[k + 1] = f[k] \o seqs[k + 1] /\ Listed(f[k]) /\ Listed(seqs[k + 1])
      BY <1>3, <2>1
    <2>3. reach[k + 1] = reach[k] + Len(seqs[k + 1])
      BY <1>7, <2>1
    <2>4. Counted(f[k] \o seqs[k + 1], seqs, reach, k + 1)
      BY <1>9, <2>1, <2>2, <2>3, CountedAgain
    <2> QED
      BY <2>1, <2>2, <2>4
  <1> HIDE DEF S
  <1>10. 0..n \subseteq S
    BY <1>1, <1>8, <1>9, InductionUpTo
  <1>11. n \in S /\ n \in 0..n
    BY <1>1, <1>10
  <1> QED
    BY <1>3, <1>7, <1>11 DEF S

(* A chunk of a texture among those of the archive.                        *)
FirstChunk(s, i) == Offsets(ChunkCounts(s))[i - 1]

ChunksReach(s) ==
  /\ FirstChunk(s, 1) = 0
  /\ \A i \in 1..(Len(s) + 1) : FirstChunk(s, i) \in Nat
  /\ \A i \in 1..Len(s) :
       FirstChunk(s, i + 1) = FirstChunk(s, i) + Len(s[i].chunks)
  /\ Len(AllChunks(s)) = FirstChunk(s, Len(s) + 1)
  /\ Listed(AllChunks(s))
  /\ \A i \in 1..Len(s) : \A j \in 1..Len(s[i].chunks) :
       /\ FirstChunk(s, i) + j \in 1..Len(AllChunks(s))
       /\ AllChunks(s)[FirstChunk(s, i) + j] = s[i].chunks[j]

LEMMA AllChunksReach ==
  ASSUME NEW s, Listed(s), \A i \in 1..Len(s) : Listed(s[i].chunks)
  PROVE  ChunksReach(s)
  <1> DEFINE n == Len(s)
             seqs == [i \in DOMAIN s |-> s[i].chunks]
             counts == ChunkCounts(s)
             reach == Offsets(counts)
             all == AllChunks(s)
  <1>1. n \in Nat /\ DOMAIN s = 1..n
    BY ListedIs
  <1>2. /\ Listed(seqs) /\ Len(seqs) = n
        /\ \A i \in 1..n : seqs[i] = s[i].chunks
    BY <1>1, FunctionIsListed
  <1>3. all = FlattenSeq(seqs)
    BY DEF AllChunks
  <1> HIDE DEF seqs
  <1>4. counts = [i \in 1..Len(seqs) |-> Len(seqs[i])]
    BY <1>1, <1>2 DEF ChunkCounts
  <1>5. reach = Offsets(counts)
    OBVIOUS
  <1> HIDE DEF counts, reach, all
  <1>6. /\ Counted(all, seqs, reach, n) /\ Listed(all)
        /\ reach[0] = 0 /\ \A i \in 0..n : reach[i] \in Nat
        /\ \A i \in 1..n : reach[i] = reach[i - 1] + Len(seqs[i])
    <2>1. \A i \in 1..Len(seqs) : Listed(seqs[i])
      BY <1>2
    <2>2. /\ Counted(FlattenSeq(seqs), seqs, reach, Len(seqs))
          /\ Listed(FlattenSeq(seqs))
          /\ reach[0] = 0 /\ \A i \in 0..Len(seqs) : reach[i] \in Nat
          /\ \A i \in 1..Len(seqs) : reach[i] = reach[i - 1] + Len(seqs[i])
      BY <1>2, <1>4, <1>5, <2>1, FlattenCounts
    <2> QED
      BY <1>2, <1>3, <2>2
  <1>7. \A i : FirstChunk(s, i) = reach[i - 1]
    BY DEF FirstChunk, reach, counts
  <1>8. 1 - 1 = 0 /\ (n + 1) - 1 = n
    BY <1>1
  <1>9. \A i \in 1..(n + 1) : i - 1 \in 0..n
    BY <1>1
  <1>10. \A i \in 1..n : (i + 1) - 1 = i
    BY <1>1
  <1>11. FirstChunk(s, 1) = 0 /\ \A i \in 1..(n + 1) : FirstChunk(s, i) \in Nat
    BY <1>6, <1>7, <1>8, <1>9
  <1>12. \A i \in 1..n : FirstChunk(s, i + 1) = FirstChunk(s, i) + Len(s[i].chunks)
    BY <1>2, <1>6, <1>7, <1>10
  <1>13. Len(all) = FirstChunk(s, n + 1)
    BY <1>6, <1>7, <1>8 DEF Counted
  <1>14. \A i \in 1..n : \A j \in 1..Len(s[i].chunks) :
           /\ FirstChunk(s, i) + j \in 1..Len(all)
           /\ all[FirstChunk(s, i) + j] = s[i].chunks[j]
    BY <1>2, <1>6, <1>7 DEF Counted
  <1> QED
    BY <1>6, <1>11, <1>12, <1>13, <1>14 DEF ChunksReach, all
-----------------------------------------------------------------------------
(* The records of a texture: its header, then one for each chunk.          *)
ChunkRecord(fmt, s, i, j) ==
  LET k == FirstChunk(s, i) + j
      blocks == Dx10Blocks(fmt, s)
  IN [offset |-> BlockStart(Dx10DataStart(fmt, s), Sizes(blocks), k),
      packed |-> blocks[k].packed, unpacked |-> blocks[k].unpacked,
      start_mip |-> s[i].chunks[j].start_mip,
      end_mip |-> s[i].chunks[j].end_mip]

ChunkRecords(fmt, s, i) ==
  [j \in 1..Len(s[i].chunks) |-> ChunkRecord(fmt, s, i, j)]

ChunkFields(fmt, s, i) ==
  [j \in 1..Len(s[i].chunks) |-> Field(24, ChunkRecord(fmt, s, i, j))]

Behind(list, x, b) ==
  /\ Listed(list) /\ Len(list) = 1 + Len(b) /\ list[1] = x
  /\ \A k \in 1..Len(b) : list[1 + k] = b[k]

LEMMA BehindOne ==
  ASSUME NEW a, NEW b, Listed(a), Listed(b)
  PROVE  Len(a) = 1 => Behind(a \o b, a[1], b)
  <1>1. /\ Listed(a \o b) /\ Len(a \o b) = Len(a) + Len(b)
        /\ \A k \in 1..Len(a) : (a \o b)[k] = a[k]
        /\ \A k \in 1..Len(b) : (a \o b)[Len(a) + k] = b[k]
    BY ConcatIs
  <1>2. Len(a) = 1 => 1 \in 1..Len(a)
    OBVIOUS
  <1> QED
    BY <1>1, <1>2 DEF Behind

LEMMA OneBefore ==
  ASSUME NEW x, NEW b, Listed(b)
  PROVE  Behind(<<x>> \o b, x, b)
  <1> DEFINE a == <<x>>
  <1>1. Listed(a) /\ Len(a) = 1 /\ a[1] = x
    BY OneIsListed
  <1> HIDE DEF a
  <1>2. Behind(a \o b, a[1], b)
    BY <1>1, BehindOne
  <1> QED
    BY <1>1, <1>2, Zenon DEF a

RecordsAre(fields, fmt, s, i, m) ==
  /\ m \in Nat /\ AreFields(fields) /\ Len(fields) = 1 + m
  /\ fields[1] = Field(24, FileHeader(s[i]).is)
  /\ \A j \in 1..m : fields[1 + j] = Field(24, ChunkRecord(fmt, s, i, j))
  /\ \A k \in 1..Len(fields) : fields[k].size = 24

LEMMA TextureRecordsAre ==
  ASSUME NEW fmt, NEW s, NEW i, Listed(s[i].chunks), NEW m, m = Len(s[i].chunks),
         NEW fields, fields = TextureRecords(fmt, s, i)
  PROVE  RecordsAre(fields, fmt, s, i, m)
  <1> DEFINE first == FileHeader(s[i])
             rest == ChunkFields(fmt, s, i)
  <1>1. m \in Nat /\ DOMAIN s[i].chunks = 1..m
    BY ListedIs
  <1>2. fields = <<first>> \o rest
    BY <1>1 DEF TextureRecords, ChunkFields, ChunkRecord, FirstChunk,
                DX10_CHUNK_SIZE
  <1>3. first = Field(24, first.is) /\ first.size = 24
    BY DEF FileHeader, Field, DX10_FILE_HEADER_SIZE
  <1>4. rest = [j \in 1..m |-> rest[j]]
        /\ \A j \in 1..m : rest[j] = Field(24, ChunkRecord(fmt, s, i, j))
    BY DEF ChunkFields
  <1> HIDE DEF first, rest
  <1>5. Listed(rest) /\ Len(rest) = m
    BY <1>1, <1>4, FunctionIsListed
  <1>7. /\ Listed(fields) /\ Len(fields) = 1 + m
        /\ fields[1] = first
        /\ \A j \in 1..m : fields[1 + j] = rest[j]
    <2>1. Behind(<<first>> \o rest, first, rest)
      BY <1>5, OneBefore
    <2>2. Behind(fields, first, rest)
      BY ONLY <1>2, <2>1, Zenon
    <2> QED
      BY <1>5, <2>2 DEF Behind
  <1>8. ASSUME NEW k \in 1..Len(fields)
        PROVE  fields[k].size = 24
    <2>1. k = 1 \/ (k - 1 \in 1..m /\ k = 1 + (k - 1))
      BY <1>1, <1>7
    <2>2. CASE k = 1
      BY <1>3, <1>7, <2>2
    <2>3. CASE k - 1 \in 1..m /\ k = 1 + (k - 1)
      <3>1. fields[1 + (k - 1)] = Field(24, ChunkRecord(fmt, s, i, k - 1))
        BY <1>4, <1>7, <2>3
      <3>2. Field(24, ChunkRecord(fmt, s, i, k - 1)).size = 24
        BY DEF Field
      <3> QED
        BY <2>3, <3>1, <3>2
    <2> QED
      BY <2>1, <2>2, <2>3
  <1>9. AreFields(fields)
    <2>1. \A k \in 1..Len(fields) : fields[k].size \in Nat
      <3> TAKE k \in 1..Len(fields)
      <3>1. fields[k].size = 24
        BY <1>8
      <3> QED
        BY <3>1
    <2> QED
      BY <1>7, <2>1 DEF AreFields
  <1>10. fields[1] = Field(24, FileHeader(s[i]).is)
    BY <1>3, <1>7 DEF first
  <1>11. \A j \in 1..m : fields[1 + j] = Field(24, ChunkRecord(fmt, s, i, j))
    BY <1>4, <1>7
  <1> QED
    BY <1>1, <1>7, <1>8, <1>9, <1>10, <1>11 DEF RecordsAre

LEMMA TextureShows ==
  ASSUME NEW fmt, NEW s, NEW i, Listed(s[i].chunks),
         NEW image, NEW place, place \in Nat,
         Lies(image.at, place, TextureRecords(fmt, s, i))
  PROVE  /\ ShowsTexture(image, place, FileHeader(s[i]).is, ChunkRecords(fmt, s, i))
         /\ Extent(TextureRecords(fmt, s, i)) = 24 * (1 + Len(s[i].chunks))
         /\ Listed(ChunkRecords(fmt, s, i))
         /\ Len(ChunkRecords(fmt, s, i)) = Len(s[i].chunks)
  <1> DEFINE fields == TextureRecords(fmt, s, i)
             m == Len(s[i].chunks)
             list == ChunkRecords(fmt, s, i)
             head == FileHeader(s[i]).is
             size == 24
  <1>1. /\ m \in Nat /\ AreFields(fields) /\ Len(fields) = 1 + m
        /\ fields[1] = Field(size, head)
        /\ \A j \in 1..m : fields[1 + j] = Field(size, ChunkRecord(fmt, s, i, j))
        /\ \A k \in 1..Len(fields) : fields[k].size = size
    <2>1. m = Len(s[i].chunks) /\ fields = TextureRecords(fmt, s, i)
      OBVIOUS
    <2> HIDE DEF m, fields, head
    <2>2. RecordsAre(fields, fmt, s, i, m)
      BY <2>1, TextureRecordsAre
    <2> QED
      BY <2>2 DEF head, RecordsAre
  <1>2. /\ \A k \in 1..Len(fields) : Begins(fields)[k] = size * (k - 1)
        /\ Extent(fields) = size * Len(fields)
    <2>1. size = 24
      OBVIOUS
    <2> HIDE DEF size, fields
    <2>2. InSteps(fields, size)
      BY <1>1, <2>1, SameSizes
    <2> QED
      BY <2>2 DEF InSteps
  <1>3. ShowsEach(image, place, fields)
    BY <1>1, LiesShow
  <1>4. list = [j \in 1..m |-> list[j]]
        /\ \A j \in 1..m : list[j] = ChunkRecord(fmt, s, i, j)
    BY DEF ChunkRecords
  <1>5. head.chunk_record_size = 24 /\ head.num_chunks = m
    BY DEF FileHeader, Field, DX10_CHUNK_RECORD_SIZE
  <1> HIDE DEF fields, list, head, m
  <1>6. Listed(list) /\ Len(list) = m
    BY <1>1, <1>4, FunctionIsListed
  <1>7. Shows(image, place, Field(24, head))
    <2>1. 1 \in 1..Len(fields) /\ size * (1 - 1) = 0
      BY <1>1
    <2>2. Shows(image, place + Begins(fields)[1], fields[1])
      BY <1>3, <2>1 DEF ShowsEach
    <2>3. place + Begins(fields)[1] = place
      BY <1>2, <2>1
    <2> QED
      BY <1>1, <2>2, <2>3
  <1>8. ASSUME NEW j \in 1..m
        PROVE  Shows(image, place + 24 + 24 * (j - 1), Field(24, list[j]))
    <2>1. 1 + j \in 1..Len(fields)
      BY <1>1
    <2>2. Shows(image, place + Begins(fields)[1 + j], fields[1 + j])
      BY <1>3, <2>1 DEF ShowsEach
    <2>3. Begins(fields)[1 + j] = 24 * ((1 + j) - 1)
      BY <1>2, <2>1
    <2>4. place + Begins(fields)[1 + j] = place + 24 + 24 * (j - 1)
      <3>1. j \in Nat
        BY <1>1
      <3>2. 24 * ((1 + j) - 1) = 24 + 24 * (j - 1)
        BY <3>1
      <3> QED
        BY <2>3, <3>1, <3>2
    <2> QED
      BY <1>1, <1>4, <2>2, <2>4
  <1>9. ShowsTexture(image, place, head, list)
    BY <1>5, <1>6, <1>7, <1>8 DEF ShowsTexture
  <1> QED
    BY <1>1, <1>2, <1>6, <1>9 DEF fields, list, head, m
-----------------------------------------------------------------------------
(* The records of every texture.                                           *)
Dx10Records(fmt, s) == [i \in 1..Len(s) |-> TextureRecords(fmt, s, i)]

(* How far the records of the first i textures reach.                      *)
RecordsReach(fmt, s) == Reach(Dx10Records(fmt, s))

TexturesShown(image, base, fmt, s) ==
  \A i \in 1..Len(s) :
    ShowsTexture(image, base + RecordsReach(fmt, s)[i - 1], FileHeader(s[i]).is,
                 ChunkRecords(fmt, s, i))

RecordsReachIs(fmt, s) ==
  /\ RecordsReach(fmt, s)[0] = 0
  /\ \A i \in 0..Len(s) : RecordsReach(fmt, s)[i] \in Nat
  /\ \A i \in 1..Len(s) :
       /\ Listed(ChunkRecords(fmt, s, i))
       /\ RecordsReach(fmt, s)[i]
            = RecordsReach(fmt, s)[i - 1] + 24 * (1 + Len(ChunkRecords(fmt, s, i)))

LEMMA FlattenedAreFields ==
  ASSUME NEW seqs, Listed(seqs), \A i \in 1..Len(seqs) : AreFields(seqs[i])
  PROVE  AreFields(FlattenSeq(seqs))
  <1> DEFINE n == Len(seqs)
  <1>1. seqs \in Seq(Seq(Elements(seqs))) /\ n \in Nat
    BY ManyAreListed, ListedIs DEF AreFields
  <1>2. PICK f : Flattens(f, seqs, Elements(seqs))
    BY <1>1, FlattenIs
  <1> DEFINE S == {k \in 0..n : AreFields(f[k])}
  <1>3. 0 \in S
    BY <1>1, <1>2, NoneExtent DEF Flattens
  <1>4. ASSUME NEW k \in 0..(n - 1), k \in S
        PROVE  k + 1 \in S
    <2>1. k + 1 \in 1..n /\ (k + 1) - 1 = k /\ k + 1 \in 0..n
      BY <1>1
    <2>2. f[k + 1] = f[k] \o seqs[k + 1]
      BY <1>2, <2>1 DEF Flattens
    <2>3. AreFields(f[k] \o seqs[k + 1])
      BY <1>4, <2>1, FieldsConcat
    <2> QED
      BY <2>1, <2>2, <2>3
  <1> HIDE DEF S
  <1>5. 0..n \subseteq S
    BY <1>1, <1>3, <1>4, InductionUpTo
  <1>6. n \in S
    BY <1>1, <1>5
  <1> QED
    BY <1>2, <1>6 DEF Flattens, S

LEMMA RecordsAreFields ==
  ASSUME NEW fmt, NEW s, Listed(s), \A i \in 1..Len(s) : Listed(s[i].chunks)
  PROVE  /\ Listed(Dx10Records(fmt, s)) /\ Len(Dx10Records(fmt, s)) = Len(s)
         /\ \A i \in 1..Len(s) :
              /\ Dx10Records(fmt, s)[i] = TextureRecords(fmt, s, i)
              /\ AreFields(Dx10Records(fmt, s)[i])
         /\ AreFields(FlattenSeq(Dx10Records(fmt, s)))
  <1> DEFINE n == Len(s)
             seqs == Dx10Records(fmt, s)
  <1>1. n \in Nat
    BY ListedIs
  <1>2. seqs = [i \in 1..n |-> seqs[i]]
        /\ \A i \in 1..n : seqs[i] = TextureRecords(fmt, s, i)
    BY DEF Dx10Records
  <1> HIDE DEF seqs
  <1>3. Listed(seqs) /\ Len(seqs) = n
    BY <1>1, <1>2, FunctionIsListed
  <1>4. \A i \in 1..n : AreFields(seqs[i])
    <2> TAKE i \in 1..n
    <2> DEFINE fields == seqs[i]
               m == Len(s[i].chunks)
    <2>1. fields = TextureRecords(fmt, s, i) /\ m = Len(s[i].chunks)
      BY <1>2
    <2> HIDE DEF fields, m
    <2>2. RecordsAre(fields, fmt, s, i, m)
      BY <2>1, TextureRecordsAre
    <2> QED
      BY <2>2 DEF RecordsAre, fields
  <1>5. AreFields(FlattenSeq(seqs))
    <2>1. \A i \in 1..Len(seqs) : AreFields(seqs[i])
      BY <1>3, <1>4
    <2> QED
      BY <1>3, <2>1, FlattenedAreFields
  <1> QED
    BY <1>2, <1>3, <1>4, <1>5 DEF seqs

LEMMA RecordsLie ==
  ASSUME NEW fmt, NEW s, Listed(s), \A i \in 1..Len(s) : Listed(s[i].chunks),
         NEW image, NEW base \in Nat,
         Lies(image.at, base, FlattenSeq(Dx10Records(fmt, s)))
  PROVE  /\ TexturesShown(image, base, fmt, s)
         /\ RecordsReachIs(fmt, s)
         /\ Extent(FlattenSeq(Dx10Records(fmt, s))) = RecordsReach(fmt, s)[Len(s)]
  <1> DEFINE n == Len(s)
             seqs == Dx10Records(fmt, s)
  <1>1. n \in Nat
    BY ListedIs
  <1>2. /\ Listed(seqs) /\ Len(seqs) = n
        /\ \A i \in 1..n : seqs[i] = TextureRecords(fmt, s, i) /\ AreFields(seqs[i])
    BY RecordsAreFields
  <1> HIDE DEF seqs
  <1>5. /\ LiesEach(image.at, base, seqs)
        /\ Extent(FlattenSeq(seqs)) = Reach(seqs)[Len(seqs)]
    <2>1. Lies(image.at, base, FlattenSeq(seqs))
      BY DEF seqs
    <2>2. \A i \in 1..Len(seqs) : AreFields(seqs[i])
      BY <1>2
    <2> QED
      BY <1>2, <2>1, <2>2, FlattenLies
  <1> DEFINE reach == Reach(seqs)
  <1>6. /\ reach[0] = 0
        /\ \A i \in 1..n : reach[i] = reach[i - 1] + Extent(seqs[i])
        /\ \A i \in 0..n : reach[i] \in Nat
    <2>1. \A i \in 1..Len(seqs) : AreFields(seqs[i])
      BY <1>2
    <2> QED
      BY <1>2, <2>1, ReachIs
  <1> HIDE DEF reach
  <1>7. ASSUME NEW i \in 1..n
        PROVE  /\ ShowsTexture(image, base + reach[i - 1], FileHeader(s[i]).is,
                               ChunkRecords(fmt, s, i))
               /\ Listed(ChunkRecords(fmt, s, i))
               /\ reach[i] = reach[i - 1] + 24 * (1 + Len(ChunkRecords(fmt, s, i)))
    <2> DEFINE place == base + reach[i - 1]
    <2>1. place \in Nat
      <3>1. i - 1 \in 0..n
        BY <1>1
      <3>2. reach[i - 1] \in Nat
        BY <1>6, <3>1
      <3> QED
        BY <3>2
    <2>2. Lies(image.at, place, TextureRecords(fmt, s, i))
      BY <1>2, <1>5 DEF LiesEach, reach
    <2> HIDE DEF place
    <2>3. /\ ShowsTexture(image, place, FileHeader(s[i]).is, ChunkRecords(fmt, s, i))
          /\ Extent(TextureRecords(fmt, s, i)) = 24 * (1 + Len(s[i].chunks))
          /\ Listed(ChunkRecords(fmt, s, i))
          /\ Len(ChunkRecords(fmt, s, i)) = Len(s[i].chunks)
      BY <2>1, <2>2, TextureShows
    <2>4. reach[i] = reach[i - 1] + 24 * (1 + Len(ChunkRecords(fmt, s, i)))
      BY <1>2, <1>6, <2>3
    <2> QED
      BY <2>3, <2>4 DEF place
  <1>8. reach = RecordsReach(fmt, s)
    BY DEF reach, RecordsReach, seqs
  <1>9. TexturesShown(image, base, fmt, s)
    BY <1>7, <1>8 DEF TexturesShown
  <1>10. RecordsReachIs(fmt, s)
    BY <1>6, <1>7, <1>8 DEF RecordsReachIs
  <1>11. Extent(FlattenSeq(seqs)) = RecordsReach(fmt, s)[Len(s)]
    BY <1>2, <1>5, <1>8 DEF reach
  <1> QED
    BY <1>9, <1>10, <1>11 DEF seqs

(* All of them together: the data begins behind them.                      *)
LEMMA RecordsReachData ==
  ASSUME NEW fmt, HeaderSize(fmt) \in Nat, NEW s, Listed(s),
         \A i \in 1..Len(s) : Listed(s[i].chunks), RecordsReachIs(fmt, s)
  PROVE  /\ HeaderSize(fmt) + RecordsReach(fmt, s)[Len(s)] = Dx10DataStart(fmt, s)
         /\ 24 * Len(s) <= RecordsReach(fmt, s)[Len(s)]
  <1> DEFINE n == Len(s)
             reach == RecordsReach(fmt, s)
             S == {i \in 0..n : reach[i] = 24 * i + 24 * FirstChunk(s, i + 1)}
  <1>1. n \in Nat
    BY ListedIs
  <1>2. /\ FirstChunk(s, 1) = 0
        /\ \A i \in 1..(n + 1) : FirstChunk(s, i) \in Nat
        /\ \A i \in 1..n : FirstChunk(s, i + 1) = FirstChunk(s, i) + Len(s[i].chunks)
        /\ Len(AllChunks(s)) = FirstChunk(s, n + 1)
    BY AllChunksReach DEF ChunksReach
  <1>3. \A i \in 1..n : Len(ChunkRecords(fmt, s, i)) = Len(s[i].chunks)
                        /\ Len(s[i].chunks) \in Nat
    <2> TAKE i \in 1..n
    <2> DEFINE list == ChunkRecords(fmt, s, i)
               m == Len(s[i].chunks)
    <2>1. m \in Nat
      BY ListedIs
    <2>2. list = [j \in 1..m |-> list[j]]
      BY DEF ChunkRecords
    <2> HIDE DEF list, m
    <2>3. Len(list) = m
      BY <2>1, <2>2, FunctionIsListed
    <2> QED
      BY <2>1, <2>3 DEF list, m
  <1>4. /\ reach[0] = 0
        /\ \A i \in 0..n : reach[i] \in Nat
        /\ \A i \in 1..n : reach[i] = reach[i - 1] + 24 * (1 + Len(s[i].chunks))
    BY <1>3 DEF RecordsReachIs
  <1> HIDE DEF reach
  <1>5. 0 \in S
    <2>1. 0 \in 0..n /\ 0 + 1 = 1 /\ FirstChunk(s, 0 + 1) = 0
      BY <1>1, <1>2
    <2> QED
      BY <1>4, <2>1
  <1>6. ASSUME NEW i \in 0..(n - 1), i \in S
        PROVE  i + 1 \in S
    <2> DEFINE a == FirstChunk(s, i + 1)
               b == FirstChunk(s, (i + 1) + 1)
               m == Len(s[i + 1].chunks)
               x == reach[i]
               y == reach[i + 1]
    <2>1. /\ i + 1 \in 1..n /\ (i + 1) - 1 = i /\ i + 1 \in 0..n
          /\ i + 1 \in 1..(n + 1) /\ (i + 1) + 1 \in 1..(n + 1) /\ i \in Nat
      BY <1>1
    <2>2. a \in Nat /\ b \in Nat /\ m \in Nat /\ b = a + m
      BY <1>2, <1>2, <2>1
    <2>3. x = 24 * i + 24 * a
      BY <1>6
    <2>4. y = x + 24 * (1 + m)
      BY <1>4, <2>1
    <2> HIDE DEF a, b, m, x, y
    <2>5. y = 24 * (i + 1) + 24 * b
      BY <2>1, <2>2, <2>3, <2>4
    <2> QED
      BY <2>1, <2>5 DEF y, b
  <1> HIDE DEF S
  <1>7. 0..n \subseteq S
    BY <1>1, <1>5, <1>6, InductionUpTo
  <1>8. n \in 0..n /\ n + 1 \in 1..(n + 1)
    BY <1>1
  <1> DEFINE all == Len(AllChunks(s))
             end == reach[n]
             h == HeaderSize(fmt)
  <1>9. end = 24 * n + 24 * all /\ all \in Nat
    BY <1>2, <1>7, <1>8 DEF S
  <1>10. Dx10DataStart(fmt, s) = h + 24 * n + 24 * all
    BY DEF Dx10DataStart, DX10_FILE_HEADER_SIZE, DX10_CHUNK_SIZE
  <1>11. h \in Nat
    OBVIOUS
  <1> HIDE DEF all, end, h, n
  <1>12. h + end = Dx10DataStart(fmt, s) /\ 24 * n <= end
    BY <1>1, <1>9, <1>10, <1>11
  <1> QED
    BY <1>12 DEF h, end, n, reach
-----------------------------------------------------------------------------
(* A texture archive, of which an image may be the beginning.              *)
Dx10Shown(image, fmt, w, s) ==
  /\ ShowsHeader(image, fmt, "DX10", Len(s), Dx10NamesOffset(fmt, w, s))
  /\ TexturesShown(image, HeaderSize(fmt), fmt, s)
  /\ DataShown(image, Dx10DataStart(fmt, s), Dx10Blocks(fmt, s), w,
               Dx10NamesOffset(fmt, w, s), s)

LEMMA BlocksAreChunks ==
  ASSUME NEW fmt, NEW s, Listed(s), \A i \in 1..Len(s) : Listed(s[i].chunks)
  PROVE  /\ Listed(Dx10Blocks(fmt, s)) /\ Len(Dx10Blocks(fmt, s)) = Len(AllChunks(s))
         /\ \A k \in 1..Len(AllChunks(s)) :
              Dx10Blocks(fmt, s)[k] = CompressedBlock(fmt, AllChunks(s)[k].data)
  <1> DEFINE all == AllChunks(s)
             m == Len(all)
             blocks == Dx10Blocks(fmt, s)
  <1>1. Listed(all)
    BY AllChunksReach DEF ChunksReach
  <1> HIDE DEF all
  <1>2. m \in Nat /\ DOMAIN all = 1..m
    BY <1>1, ListedIs
  <1>3. blocks = [k \in 1..m |-> blocks[k]]
        /\ \A k \in 1..m : blocks[k] = CompressedBlock(fmt, all[k].data)
    BY <1>2 DEF Dx10Blocks, all
  <1> HIDE DEF m, blocks
  <1>4. Listed(blocks) /\ Len(blocks) = m
    BY <1>2, <1>3, FunctionIsListed
  <1> QED
    BY <1>3, <1>4 DEF m, all, blocks

LEMMA Dx10Shows ==
  ASSUME NEW fmt, fmt \in Formats, NEW w, w \in BOOLEAN, NEW s, Listed(s),
         \A i \in 1..Len(s) : Named(s[i]) /\ TextureOf(s[i]),
         NEW image, image.at = Dx10Image(fmt, w, s).at
  PROVE  /\ Dx10Shown(image, fmt, w, s)
         /\ DataFits(Dx10Image(fmt, w, s).len, Dx10DataStart(fmt, s),
                     Dx10Blocks(fmt, s), w, Dx10NamesOffset(fmt, w, s), s)
         /\ RecordsReachIs(fmt, s)
         /\ HeaderSize(fmt) + RecordsReach(fmt, s)[Len(s)] = Dx10DataStart(fmt, s)
         /\ 24 * Len(s) <= RecordsReach(fmt, s)[Len(s)]
         /\ HeaderSize(fmt) \in Nat /\ HeaderSize(fmt) >= 24
         /\ Dx10Image(fmt, w, s).len \in Nat
  <1> DEFINE n == Len(s)
             at == Dx10NamesOffset(fmt, w, s)
             blocks == Dx10Blocks(fmt, s)
             base == Dx10DataStart(fmt, s)
             seqs == Dx10Records(fmt, s)
             a == write_header(fmt, "DX10", n, at)
             b == FlattenSeq(seqs)
             c == Bytes(blocks)
             d == IF HasNames(w, s) THEN NameTable(s) ELSE << >>
             full == Dx10Image(fmt, w, s)
             reach == RecordsReach(fmt, s)
  <1>1. n \in Nat /\ DOMAIN s = 1..n
    BY ListedIs
  <1>2. \A i \in 1..n : Listed(s[i].chunks)
    BY TextureHasSizes
  <1>3. full = Image(((a \o b) \o c) \o d)
    BY <1>1 DEF Dx10Image, Dx10Records
  <1>4. AreFields(a) /\ AreFields(c) /\ AreFields(d)
    BY HeaderIsPlain, Dx10BlocksArePlain, NamesEnd DEF Plain
  <1>5. /\ at = IF HasNames(w, s) THEN base + Total(Sizes(blocks)) ELSE 0
    BY DEF Dx10NamesOffset
  <1>6. Listed(blocks)
    BY <1>2, BlocksAreChunks
  <1>7. d = IF HasNames(w, s) THEN NameTable(s) ELSE << >>
    OBVIOUS
  <1>8. AreFields(b)
    BY <1>2, RecordsAreFields
  <1> HIDE DEF at, blocks, base, a, b, c, d, full, n, reach, seqs
  <1>9. FourParts(full, a, b, c, d)
    BY <1>3, <1>4, <1>8, PartsLie
  <1>10. /\ Lies(image.at, 0, a) /\ Lies(image.at, Extent(a), b)
         /\ Lies(image.at, Extent(a) + Extent(b), c)
         /\ Lies(image.at, Extent(a) + Extent(b) + Extent(c), d)
         /\ full.len = Extent(a) + Extent(b) + Extent(c) + Extent(d)
    BY <1>9 DEF FourParts, full
  <1>11. /\ Extent(a) = HeaderSize(fmt) /\ ShowsHeader(image, fmt, "DX10", n, at)
         /\ HeaderSize(fmt) \in Nat /\ HeaderSize(fmt) >= 24
    BY <1>10, HeaderLies DEF a
  <1>12. /\ TexturesShown(image, HeaderSize(fmt), fmt, s) /\ RecordsReachIs(fmt, s)
         /\ Extent(b) = reach[n]
    <2>1. Lies(image.at, HeaderSize(fmt), FlattenSeq(Dx10Records(fmt, s)))
      BY <1>10, <1>11 DEF b, seqs
    <2>2. \A i \in 1..Len(s) : Listed(s[i].chunks)
      BY <1>2 DEF n
    <2> QED
      BY <1>11, <2>1, <2>2, RecordsLie DEF b, seqs, reach, n
  <1>13. HeaderSize(fmt) + reach[n] = base /\ 24 * n <= reach[n]
    <2>1. \A i \in 1..Len(s) : Listed(s[i].chunks)
      BY <1>2 DEF n
    <2> QED
      BY <1>11, <1>12, <2>1, RecordsReachData DEF reach, n, base
  <1>14. base = Extent(a) + Extent(b) /\ base \in Nat /\ base # 0
    <2> DEFINE h == HeaderSize(fmt)
               x == Extent(b)
    <2>1. h \in Nat /\ h >= 24 /\ x \in Nat /\ h + x = base
      BY <1>8, <1>11, <1>12, <1>13, ExtentsReach
    <2> HIDE DEF h, x
    <2>2. base = h + x /\ base \in Nat /\ base # 0
      BY <2>1
    <2> QED
      BY <1>11, <2>2 DEF h, x
  <1>15. /\ Lies(image.at, base, c) /\ Lies(image.at, base + Extent(c), d)
         /\ full.len = base + Extent(c) + Extent(d)
    BY <1>10, <1>14
  <1>16. /\ DataShown(image, base, blocks, w, at, s)
         /\ DataFits(full.len, base, blocks, w, at, s)
    BY <1>4, <1>5, <1>6, <1>7, <1>14, <1>15, DataLies DEF c
  <1>17. full.len \in Nat
    <2>1. Extent(c) \in Nat /\ Extent(d) \in Nat
      BY <1>4, ExtentsReach
    <2> QED
      BY <1>14, <1>15, <2>1
  <1>18. Dx10Shown(image, fmt, w, s)
    BY <1>11, <1>12, <1>16 DEF Dx10Shown, n, at, base, blocks
  <1> QED
    BY <1>11, <1>12, <1>13, <1>16, <1>17, <1>18 DEF full, base, blocks, at, n, reach
-----------------------------------------------------------------------------
(* A piece of a texture's data: never empty, and never taken for Noise.    *)
Piece(data, of) ==
  /\ data \in Slices(of) /\ data.size # 0
  /\ data # Noise /\ Noise \notin Packings(of)

LEMMA TextureDataIs ==
  ASSUME NEW e, TextureOf(e)
  PROVE  /\ Piece(e.texture.data, e.texture.data.of)
         /\ Noise \notin Slices(e.texture.data.of)
  <1> DEFINE t == e.texture
             sizes == SizesOf(t)
             of == t.data.of
  <1>1. PICK x \in Textures :
          ParseError(x.dds) = "none" /\ t = ParsedTexture(x.dds)
    BY DEF TextureOf
  <1>2. Whole(t)
    BY DEF TextureOf
  <1>3. /\ of = x.dds.data.of
        /\ t.data = [of |-> of, from |-> t.data.from, size |-> t.data.size]
    BY <1>1 DEF ParsedTexture
  <1>4. Noise \notin Slices(of) /\ Noise \notin Packings(of)
    BY <1>3, NoiseAssumption
  <1>5. t.data.size \in Nat \ {0}
    <2>1. sizes \in Seq(Nat \ {0}) /\ Len(sizes) = t.mip_count /\ t.mip_count \in Nat \ {0}
      BY <1>2, SizesArePositive DEF Whole
    <2> DEFINE f == Offsets(sizes)
               n == Len(sizes)
    <2>2. Reaches(f, sizes)
      <3>1. sizes \in Seq(Nat)
        <4> HIDE DEF sizes
        <4> QED
          BY <2>1
      <3> HIDE DEF sizes
      <3> QED
        BY <3>1, OffsetsReach
    <2>3. f[0] < f[n]
      <3>1. 0 \in Nat /\ n \in Nat /\ 0 < n /\ n <= Len(sizes)
        BY <2>1
      <3> HIDE DEF sizes, f, n
      <3> QED
        BY <2>1, <2>2, <3>1, ReachesGrow
    <2>4. f[0] = 0 /\ f[n] \in Nat
      <3>1. n \in 0..n
        BY <2>1
      <3> QED
        BY <2>2, <3>1 DEF Reaches
    <2> DEFINE total == f[n]
               c == Cubemap(t.cubemap)
    <2>5. total \in Nat \ {0}
      BY <2>3, <2>4
    <2>6. c \in Nat \ {0}
      BY DEF Cubemap
    <2>7. t.data.size = c * total
      BY <1>2 DEF Whole, Total
    <2> HIDE DEF c, total
    <2> QED
      BY <2>5, <2>6, <2>7, ProductPositive
  <1>6. t.data \in Slices(of)
    <2> DEFINE from == t.data.from
               size == t.data.size
    <2>1. from \in Nat /\ size \in Nat
      BY <1>2, <1>5 DEF Whole
    <2>2. t.data = [of |-> of, from |-> from, size |-> size]
      BY <1>3
    <2> HIDE DEF from, size, t, of
    <2> QED
      BY <2>1, <2>2 DEF Slices
  <1>7. t.data # Noise
    BY <1>4, <1>6
  <1> QED
    BY <1>4, <1>5, <1>6, <1>7 DEF Piece

LEMMA ChunksArePieces ==
  ASSUME NEW e, TextureOf(e), NEW j \in 1..Len(e.chunks)
  PROVE  Piece(e.chunks[j].data, e.texture.data.of)
  <1> DEFINE t == e.texture
             of == t.data.of
             sizes == SizesOf(t)
             offsets == Offsets(sizes)
             ranges == MipRanges(t)
             from == t.data.from
  <1>1. Whole(t) /\ e.chunks = split_chunks(t)
    BY DEF TextureOf
  <1>2. /\ Piece(t.data, of) /\ Noise \notin Slices(of) /\ Noise \notin Packings(of)
    BY TextureDataIs DEF Piece
  <1>3. CASE t.cubemap
    <2>1. e.chunks = <<[start_mip |-> 0, end_mip |-> t.mip_count - 1,
                        data |-> t.data]>>
      BY <1>1, <1>3 DEF split_chunks
    <2>2. j = 1
      BY <2>1
    <2>3. e.chunks[j].data = t.data
      BY <2>1, <2>2
    <2> QED
      BY <1>2, <2>3
  <1>4. CASE ~t.cubemap
    <2>1. e.chunks = [i \in DOMAIN ranges |->
                        [start_mip |-> ranges[i][1], end_mip |-> ranges[i][2],
                         data |-> MipBytes(t, ranges[i][1], ranges[i][2])]]
      BY <1>1, <1>4 DEF split_chunks
    <2>2. RangesOf(ranges, offsets, sizes, Threshold(t.dxgi))
      BY <1>1, LastRound
    <2>3. /\ ranges \in Seq(Nat \X Nat)
          /\ \A i \in 1..Len(ranges) :
               ranges[i][1] <= ranges[i][2] /\ ranges[i][2] < Len(sizes)
      BY <2>2, Zenon DEF RangesOf, Contiguous
    <2> HIDE DEF ranges
    <2>4. Len(ranges) \in Nat /\ DOMAIN ranges = 1..Len(ranges)
      BY <2>3
    <2>5. Len(e.chunks) = Len(ranges)
      BY <2>1, <2>4
    <2>6. j \in 1..Len(ranges)
      BY <2>5
    <2> DEFINE first == ranges[j][1]
               last == ranges[j][2]
               data == e.chunks[j].data
    <2>7. data = MipBytes(t, first, last)
      BY <2>1, <2>4, <2>6
    <2>8. data = [of |-> of, from |-> from + offsets[first],
                  size |-> offsets[last + 1] - offsets[first]]
      BY <2>7 DEF MipBytes
    <2>9. first \in Nat /\ last \in Nat /\ first <= last /\ last < Len(sizes)
      <3>1. ranges[j] \in Nat \X Nat
        BY <2>3, <2>6
      <3> QED
        BY <2>3, <2>6, <3>1
    <2>10. sizes \in Seq(Nat \ {0}) /\ Len(sizes) \in Nat
      BY <1>1, SizesArePositive
    <2>11. Reaches(offsets, sizes)
      <3>1. sizes \in Seq(Nat)
        <4> HIDE DEF sizes
        <4> QED
          BY <2>10
      <3> HIDE DEF sizes
      <3> QED
        BY <3>1, OffsetsReach
    <2> HIDE DEF sizes, offsets, first, last
    <2>12. offsets[first] < offsets[last + 1]
      <3>1. last + 1 \in Nat /\ first < last + 1 /\ last + 1 <= Len(sizes)
        BY <2>9, <2>10
      <3> QED
        BY <2>9, <2>10, <2>11, <3>1, ReachesGrow
    <2>13. offsets[first] \in Nat /\ offsets[last + 1] \in Nat
      <3>1. first \in 0..Len(sizes) /\ last + 1 \in 0..Len(sizes)
        BY <2>9, <2>10
      <3> QED
        BY <2>11, <3>1 DEF Reaches
    <2> DEFINE place == from + offsets[first]
               size == offsets[last + 1] - offsets[first]
    <2>14. place \in Nat /\ size \in Nat \ {0}
      <3> DEFINE a == offsets[first]
                 b == offsets[last + 1]
      <3>1. a \in Nat /\ b \in Nat /\ a < b /\ from \in Nat
        BY <1>1, <2>12, <2>13 DEF Whole
      <3> HIDE DEF a, b, from
      <3>2. from + a \in Nat /\ b - a \in Nat \ {0}
        BY <3>1
      <3> QED
        BY <3>2 DEF a, b, from
    <2>15. data = [of |-> of, from |-> place, size |-> size]
      BY <2>8
    <2> HIDE DEF place, size, data, of
    <2>16. data \in Slices(of) /\ data.size # 0
      BY <2>14, <2>15 DEF Slices
    <2>17. data # Noise
      BY <1>2, <2>16
    <2>18. Piece(data, of)
      BY <1>2, <2>16, <2>17 DEF Piece
    <2> QED
      BY <2>18 DEF data, of
  <1> QED
    BY <1>3, <1>4
-----------------------------------------------------------------------------
(* Slices that follow each other, put together.                            *)
Follow(data, n, of) ==
  /\ \A j \in 1..n : Piece(data[j], of)
  /\ \A j \in 1..(n - 1) : data[j + 1].from = data[j].from + data[j].size

From(data, j, of) ==
  [of |-> of, from |-> data[1].from,
   size |-> (data[j].from + data[j].size) - data[1].from]

LEMMA PieceIs ==
  ASSUME NEW data, NEW of, Piece(data, of)
  PROVE  /\ data = [of |-> of, from |-> data.from, size |-> data.size]
         /\ data.from \in Nat /\ data.size \in Nat \ {0} /\ data.of = of
  BY DEF Piece, Slices

LEMMA OneExtends ==
  ASSUME NEW a, NEW b, NEW of, Noise \notin Slices(of),
         a \in Slices(of), a.size # 0, b \in Slices(of), b.from = a.from + a.size
  PROVE  Extended(a, b) = [of |-> of, from |-> a.from, size |-> a.size + b.size]
  <1>1. /\ a = [of |-> of, from |-> a.from, size |-> a.size]
        /\ a.of = of /\ b.of = of
    BY DEF Slices
  <1>2. a # Noise /\ b # Noise
    OBVIOUS
  <1>3. a # Nothing
    BY DEF Nothing
  <1>4. [a EXCEPT !.size = @ + b.size]
          = [of |-> of, from |-> a.from, size |-> a.size + b.size]
    BY <1>1
  <1> QED
    BY <1>1, <1>2, <1>3, <1>4 DEF Extended

LEMMA FromAre ==
  ASSUME NEW n \in Nat \ {0}, NEW of, NEW data, Follow(data, n, of)
  PROVE  /\ From(data, 1, of) = data[1]
         /\ \A j \in 1..n : From(data, j, of) \in Slices(of)
                            /\ From(data, j, of).size # 0
         /\ \A j \in 1..(n - 1) :
              /\ data[j + 1].from = From(data, j, of).from + From(data, j, of).size
              /\ From(data, j + 1, of)
                   = [of |-> of, from |-> From(data, j, of).from,
                      size |-> From(data, j, of).size + data[j + 1].size]
  <1>1. \A j \in 1..n : /\ data[j] = [of |-> of, from |-> data[j].from, size |-> data[j].size]
                        /\ data[j].from \in Nat /\ data[j].size \in Nat \ {0}
    BY PieceIs DEF Follow
  <1>2. \A j \in 1..(n - 1) : data[j + 1].from = data[j].from + data[j].size
    BY DEF Follow
  <1> DEFINE start == data[1].from
             S == {k \in 0..(n - 1) : start <= data[k + 1].from}
  <1>3. start \in Nat /\ 1 \in 1..n
    <2>1. 1 \in 1..n
      OBVIOUS
    <2> QED
      BY <1>1, <2>1
  <1>4. 0 \in S
    BY <1>3
  <1>5. ASSUME NEW k \in 0..((n - 1) - 1), k \in S
        PROVE  k + 1 \in S
    <2> DEFINE x == data[k + 1].from
               y == data[k + 1].size
               z == data[(k + 1) + 1].from
    <2>1. k + 1 \in 1..(n - 1) /\ k + 1 \in 1..n /\ k + 1 \in 0..(n - 1)
      OBVIOUS
    <2>2. x \in Nat /\ y \in Nat /\ z = x + y /\ start <= x
      BY <1>1, <1>2, <1>5, <2>1
    <2> HIDE DEF x, y, z, start
    <2>3. start <= z
      BY <1>3, <2>2
    <2> QED
      BY <2>1, <2>3 DEF z
  <1> HIDE DEF S
  <1>6. 0..(n - 1) \subseteq S
    <2>1. n - 1 \in Nat
      OBVIOUS
    <2> QED
      BY <1>4, <1>5, <2>1, InductionUpTo
  <1>7. \A j \in 1..n : start <= data[j].from
    <2> TAKE j \in 1..n
    <2>1. j - 1 \in 0..(n - 1) /\ (j - 1) + 1 = j
      OBVIOUS
    <2> QED
      BY <1>6, <2>1 DEF S
  <1>8. From(data, 1, of) = data[1]
    <2> DEFINE size == data[1].size
    <2>1. size \in Nat /\ data[1] = [of |-> of, from |-> start, size |-> size]
      BY <1>1, <1>3
    <2>2. From(data, 1, of) = [of |-> of, from |-> start, size |-> (start + size) - start]
      BY DEF From
    <2> HIDE DEF start, size
    <2>3. (start + size) - start = size
      BY <1>3, <2>1
    <2> QED
      BY <2>1, <2>2, <2>3
  <1>9. ASSUME NEW j \in 1..n
        PROVE  From(data, j, of) \in Slices(of) /\ From(data, j, of).size # 0
    <2> DEFINE x == data[j].from
               y == data[j].size
               size == (x + y) - start
    <2>1. x \in Nat /\ y \in Nat \ {0} /\ start <= x
      BY <1>1, <1>7
    <2>2. From(data, j, of) = [of |-> of, from |-> start, size |-> size]
      BY DEF From
    <2>3. size \in Nat \ {0}
      <3> HIDE DEF x, y, start
      <3> QED
        BY <1>3, <2>1
    <2> HIDE DEF size, start
    <2> QED
      BY <1>3, <2>2, <2>3 DEF Slices
  <1>10. ASSUME NEW j \in 1..(n - 1)
         PROVE  /\ data[j + 1].from = From(data, j, of).from + From(data, j, of).size
                /\ From(data, j + 1, of)
                     = [of |-> of, from |-> From(data, j, of).from,
                        size |-> From(data, j, of).size + data[j + 1].size]
    <2> DEFINE x == data[j].from
               y == data[j].size
               u == data[j + 1].from
               v == data[j + 1].size
               size == (x + y) - start
    <2>1. j \in 1..n /\ j + 1 \in 1..n
      OBVIOUS
    <2>2. x \in Nat /\ y \in Nat /\ u = x + y /\ v \in Nat
      BY <1>1, <1>2, <2>1
    <2>3. From(data, j, of).from = start /\ From(data, j, of).size = size
      BY DEF From
    <2>4. From(data, j + 1, of) = [of |-> of, from |-> start, size |-> (u + v) - start]
      BY DEF From
    <2> HIDE DEF x, y, u, v, start
    <2>5. u = start + size /\ (u + v) - start = size + v
      BY <1>3, <2>2
    <2> HIDE DEF size
    <2> QED
      BY <2>3, <2>4, <2>5 DEF u, v
  <1> QED
    BY <1>8, <1>9, <1>10

LEMMA SlicesJoin ==
  ASSUME NEW n \in Nat \ {0}, NEW of, Noise \notin Slices(of),
         NEW data, Follow(data, n, of),
         NEW read, Len(read) = n, \A j \in 1..n : read[j].bytes = data[j]
  PROVE  Joined(read) = From(data, n, of)
  <1> DEFINE E(j) == IF j = 0 THEN Nothing ELSE From(data, j, of)
             e == [j \in 0..n |-> E(j)]
             bytes == CHOOSE g : g = [j \in 0..n |->
                        IF j = 0 THEN Nothing ELSE Extended(g[j - 1], read[j].bytes)]
  <1>1. ASSUME NEW j \in 1..n
        PROVE  Extended(E(j - 1), read[j].bytes) = E(j)
    <2>1. CASE j = 1
      <3>1. E(j - 1) = Nothing
        BY <2>1
      <3>2. E(j) = data[1] /\ read[j].bytes = data[1]
        BY <2>1, FromAre
      <3> HIDE DEF E
      <3> QED
        BY <3>1, <3>2 DEF Extended
    <2>2. CASE j # 1
      <3> DEFINE a == From(data, j - 1, of)
                 b == data[j]
      <3>1. j - 1 \in 1..(n - 1) /\ j - 1 \in 1..n /\ (j - 1) + 1 = j
            /\ j # 0 /\ j - 1 # 0
        BY <2>2
      <3>2. /\ \A k \in 1..n : From(data, k, of) \in Slices(of)
                               /\ From(data, k, of).size # 0
            /\ \A k \in 1..(n - 1) :
                 /\ data[k + 1].from = From(data, k, of).from + From(data, k, of).size
                 /\ From(data, k + 1, of)
                      = [of |-> of, from |-> From(data, k, of).from,
                         size |-> From(data, k, of).size + data[k + 1].size]
        BY FromAre
      <3>3. /\ a \in Slices(of) /\ a.size # 0 /\ b.from = a.from + a.size
            /\ From(data, j, of) = [of |-> of, from |-> a.from, size |-> a.size + b.size]
        <4>1. /\ data[(j - 1) + 1].from = a.from + a.size
              /\ From(data, (j - 1) + 1, of)
                   = [of |-> of, from |-> a.from, size |-> a.size + data[(j - 1) + 1].size]
          BY <3>1, <3>2
        <4> QED
          BY <3>1, <3>2, <4>1
      <3>4. b \in Slices(of)
        BY DEF Follow, Piece
      <3> HIDE DEF a, b
      <3>5. Extended(a, b) = [of |-> of, from |-> a.from, size |-> a.size + b.size]
        BY <3>3, <3>4, OneExtends
      <3>6. E(j - 1) = a /\ E(j) = From(data, j, of) /\ read[j].bytes = b
        BY <3>1 DEF a, b
      <3> HIDE DEF E
      <3> QED
        BY <3>3, <3>5, <3>6
    <2> QED
      BY <2>1, <2>2
  <1>2. E(0) = Nothing
    OBVIOUS
  <1> HIDE DEF E
  <1>3. e = [j \in 0..n |-> IF j = 0 THEN Nothing ELSE Extended(e[j - 1], read[j].bytes)]
    <2>1. ASSUME NEW j \in 0..n, j # 0
          PROVE  E(j) = Extended(e[j - 1], read[j].bytes)
      <3>1. j \in 1..n /\ j - 1 \in 0..n
        BY <2>1
      <3>2. e[j - 1] = E(j - 1)
        BY <3>1
      <3> QED
        BY <1>1, <3>1, <3>2
    <2> HIDE DEF e
    <2>2. \A j \in 0..n : E(j) = IF j = 0 THEN Nothing ELSE Extended(e[j - 1], read[j].bytes)
      BY <1>2, <2>1
    <2> QED
      BY <2>2, Zenon DEF e
  <1> HIDE DEF e
  <1>4. bytes = [j \in 0..n |->
                   IF j = 0 THEN Nothing ELSE Extended(bytes[j - 1], read[j].bytes)]
    BY <1>3
  <1>5. Joined(read) = bytes[n]
    BY DEF Joined
  <1> HIDE DEF bytes
  <1> DEFINE S == {j \in 0..n : bytes[j] = E(j)}
  <1>6. 0 \in S
    BY <1>2, <1>4
  <1>7. ASSUME NEW j \in 0..(n - 1), j \in S
        PROVE  j + 1 \in S
    <2>1. j + 1 \in 1..n /\ (j + 1) - 1 = j /\ j + 1 \in 0..n /\ j + 1 # 0
      OBVIOUS
    <2>2. bytes[j + 1] = Extended(bytes[j], read[j + 1].bytes)
      BY <1>4, <2>1
    <2>3. Extended(E(j), read[j + 1].bytes) = E(j + 1)
      BY <1>1, <2>1
    <2>4. bytes[j] = E(j)
      BY <1>7
    <2> QED
      BY <2>1, <2>2, <2>3, <2>4
  <1> HIDE DEF S
  <1>8. 0..n \subseteq S
    BY <1>6, <1>7, InductionUpTo
  <1>9. n \in S /\ n # 0
    BY <1>8
  <1> QED
    BY <1>5, <1>9 DEF S, E
-----------------------------------------------------------------------------
(* The chunks of a texture put together are its data.                      *)
LEMMA ChunksJoin ==
  ASSUME NEW e, TextureOf(e), NEW n, n = Len(e.chunks),
         NEW read, Len(read) = n, \A j \in 1..n : read[j].bytes = e.chunks[j].data
  PROVE  Joined(read) = e.texture.data
  <1> DEFINE t == e.texture
             of == t.data.of
             data == [j \in 1..n |-> e.chunks[j].data]
  <1>1. Partition(t, e.chunks)
    BY ChunksArePartition DEF TextureOf
  <1>2. /\ n \in 1..MAX_DX10_CHUNKS
        /\ e.chunks[1].data.from = t.data.from
        /\ e.chunks[n].data.from + e.chunks[n].data.size = t.data.from + t.data.size
        /\ \A j \in 1..(n - 1) :
             e.chunks[j + 1].data.from = e.chunks[j].data.from + e.chunks[j].data.size
    BY <1>1, Zenon DEF Partition
  <1>3. n \in Nat \ {0} /\ 1 \in 1..n /\ n \in 1..n
        /\ \A j \in 1..(n - 1) : j \in 1..n /\ j + 1 \in 1..n
    BY <1>2 DEF MAX_DX10_CHUNKS
  <1>4. \A j \in 1..n : Piece(e.chunks[j].data, of)
    BY ChunksArePieces
  <1>5. Noise \notin Slices(of) /\ Piece(t.data, of)
    BY TextureDataIs
  <1>6. \A j \in 1..n : data[j] = e.chunks[j].data
    OBVIOUS
  <1> HIDE DEF data, of
  <1>7. Follow(data, n, of)
    <2>1. \A j \in 1..n : Piece(data[j], of)
      BY <1>4, <1>6
    <2>2. \A j \in 1..(n - 1) : data[j + 1].from = data[j].from + data[j].size
      BY <1>2, <1>3, <1>6
    <2> QED
      BY <2>1, <2>2 DEF Follow
  <1>8. \A j \in 1..n : read[j].bytes = data[j]
    BY <1>6
  <1>9. Joined(read) = From(data, n, of)
    BY <1>3, <1>5, <1>7, <1>8, SlicesJoin
  <1>10. From(data, n, of) = t.data
    <2> DEFINE from == t.data.from
               size == t.data.size
               end == e.chunks[n].data.from + e.chunks[n].data.size
    <2>1. t.data = [of |-> of, from |-> from, size |-> size]
          /\ from \in Nat /\ size \in Nat
      BY <1>5, PieceIs
    <2>2. end = from + size
      BY <1>2
    <2>3. From(data, n, of) = [of |-> of, from |-> from, size |-> end - from]
      BY <1>2, <1>3, <1>6 DEF From
    <2> HIDE DEF from, size, end
    <2>4. end - from = size
      BY <2>1, <2>2
    <2> QED
      BY <2>1, <2>3, <2>4
  <1> QED
    BY <1>9, <1>10

(* The header of a texture and its data parse to the texture again.        *)
FileBack(t, read) ==
  [field \in DOMAIN read.header \cup {"length", "data"} |->
     CASE field = "length" -> 148 + read.bytes.size
       [] field = "data"   -> read.bytes
       [] OTHER            -> read.header[field]]

HasHeader(file, t, mips, size) ==
  /\ file.magic = TRUE /\ file.shaped = TRUE /\ file.pixel = "DX10"
  /\ file.width = t.width /\ file.height = t.height
  /\ file.mips = Max({mips, 1}) /\ file.mip_flag = (mips > 1)
  /\ file.dxgi = t.dxgi /\ file.dimension = 3 /\ file.array = 1
  /\ file.cube = t.cubemap /\ file.data = t.data
  /\ file.length = 148 + size

LEMMA FileBackIs ==
  ASSUME NEW t, NEW read,
         read.header = header(t.width, t.height, t.mip_count, t.dxgi, t.cubemap),
         read.bytes = t.data, NEW file, file = FileBack(t, read)
  PROVE  HasHeader(file, t, t.mip_count, t.data.size)
  BY DEF FileBack, header, HasHeader

(* What parse found in the file a texture came with.                       *)
Sound(t) ==
  /\ t.width \in 1..U16_MAX /\ t.height \in 1..U16_MAX
  /\ t.mip_count \in Nat \ {0} /\ t.mip_count <= U8_MAX
  /\ t.mip_count <= MaxMips(t.width, t.height)
  /\ Sized(t.dxgi) /\ t.dxgi \in 1..U8_MAX
  /\ t.data = [of |-> t.data.of, from |-> t.data.from, size |-> t.data.size]
  /\ t.data.size \in Nat
  /\ t.data.size = Cubemap(t.cubemap) * Total(SizesOf(t))
  /\ t = [width |-> t.width, height |-> t.height, mip_count |-> t.mip_count,
          dxgi |-> t.dxgi, cubemap |-> t.cubemap, data |-> t.data]

LEMMA LegacyAreDxgi ==
  ASSUME NEW pixel \in DOMAIN LegacyFormats
  PROVE  LegacyFormats[pixel] \in 1..U8_MAX
  BY DEF LegacyFormats, U8_MAX

LEMMA TextureIsSound ==
  ASSUME NEW e, TextureOf(e)
  PROVE  Sound(e.texture)
  <1> DEFINE t == e.texture
  <1>1. PICK x \in Textures :
          ParseError(x.dds) = "none" /\ t = ParsedTexture(x.dds)
    BY DEF TextureOf
  <1> DEFINE dds == x.dds
  <1>2. Whole(t)
    BY DEF TextureOf
  <1>3. /\ t.width = dds.width /\ t.height = dds.height
        /\ t.mip_count = MipCount(dds) /\ t.dxgi = Dxgi(dds)
        /\ t = [width |-> t.width, height |-> t.height, mip_count |-> t.mip_count,
                dxgi |-> t.dxgi, cubemap |-> t.cubemap, data |-> t.data]
        /\ t.data = [of |-> t.data.of, from |-> t.data.from, size |-> t.data.size]
    BY <1>1 DEF ParsedTexture
  <1>4. /\ IsDx10(dds) => dds.dxgi \in 1..U8_MAX
        /\ ~IsDx10(dds) => dds.pixel \in DOMAIN LegacyFormats
        /\ ContentError(dds) = "none"
    BY <1>1, Zenon DEF ParseError
  <1>5. Shaped(dds) /\ Sized(Dxgi(dds))
    BY <1>4, Zenon DEF ContentError
  <1>6. Dxgi(dds) \in 1..U8_MAX
    BY <1>4, LegacyAreDxgi DEF Dxgi
  <1>7. t.data.size \in Nat
    BY TextureDataIs, PieceIs
  <1>8. /\ t.width \in 1..U16_MAX /\ t.height \in 1..U16_MAX
        /\ t.mip_count <= U8_MAX /\ t.mip_count <= MaxMips(t.width, t.height)
    BY <1>3, <1>5, Zenon DEF Shaped
  <1> HIDE DEF t, dds
  <1> QED
    BY <1>2, <1>3, <1>5, <1>6, <1>7, <1>8, Zenon DEF Sound, Whole, t
-----------------------------------------------------------------------------
LEMMA TheGreater ==
  ASSUME NEW m \in Nat \ {0}
  PROVE  Max({m, 1}) = m
  <1> DEFINE T == {m, 1}
  <1>1. m \in T /\ \A y \in T : m >= y
    OBVIOUS
  <1>2. \A x \in T : (\A y \in T : x >= y) => x = m
    OBVIOUS
  <1> HIDE DEF T
  <1> QED
    BY <1>1, <1>2 DEF Max

LEMMA TextureIsSame ==
  ASSUME NEW t, Sound(t), NEW read,
         read.header = header(t.width, t.height, t.mip_count, t.dxgi, t.cubemap),
         read.bytes = t.data, t.data # Noise
  PROVE  SameTexture(t, read)
  <1> DEFINE file == FileBack(t, read)
             m == t.mip_count
             size == t.data.size
  <1>1. /\ file.magic = TRUE /\ file.shaped = TRUE /\ file.pixel = "DX10"
        /\ file.width = t.width /\ file.height = t.height
        /\ file.mips = Max({m, 1}) /\ file.mip_flag = (m > 1)
        /\ file.dxgi = t.dxgi /\ file.dimension = 3 /\ file.array = 1
        /\ file.cube = t.cubemap /\ file.data = t.data
        /\ file.length = 148 + size
    <2>1. HasHeader(file, t, m, size)
      BY FileBackIs
    <2> HIDE DEF file, m, size
    <2> QED
      BY <2>1 DEF HasHeader
  <1>2. /\ m \in Nat \ {0} /\ size \in Nat
        /\ t.data = [of |-> t.data.of, from |-> t.data.from, size |-> size]
        /\ t = [width |-> t.width, height |-> t.height, mip_count |-> m,
                dxgi |-> t.dxgi, cubemap |-> t.cubemap, data |-> t.data]
    BY DEF Sound
  <1> HIDE DEF file, m, size
  <1>3. MipCount(file) = m
    <2>1. file.mips = m
      BY <1>1, <1>2, TheGreater
    <2>2. m = 1 \/ m > 1
      BY <1>2
    <2>3. CASE m = 1
      <3>1. ~(m > 1)
        BY <2>3
      <3>2. ~file.mip_flag
        BY <1>1, <3>1
      <3> QED
        BY <2>3, <3>2 DEF MipCount
    <2>4. CASE m > 1
      BY <1>1, <1>2, <2>1, <2>4 DEF MipCount
    <2> QED
      BY <2>2, <2>3, <2>4
  <1>4. IsDx10(file) /\ HeaderLen(file) = 148 /\ Dxgi(file) = t.dxgi
    BY <1>1 DEF IsDx10, HeaderLen, Dxgi
  <1>5. Shaped(file) /\ Sized(Dxgi(file))
    BY <1>1, <1>3, <1>4 DEF Shaped, Sound, m
  <1>6. file.length - HeaderLen(file) = size
    BY <1>1, <1>2, <1>4
  <1>7. ExpectedData(file) = size
    <2>1. MipSizes(file.width, file.height, MipCount(file), Dxgi(file)) = SizesOf(t)
      BY <1>1, <1>3, <1>4 DEF SizesOf, m
    <2>2. size = Cubemap(t.cubemap) * Total(SizesOf(t))
      BY DEF Sound, size
    <2> QED
      BY <1>1, <2>1, <2>2, Zenon DEF ExpectedData
  <1>8. ContentError(file) = "none"
    BY <1>5, <1>6, <1>7 DEF ContentError
  <1>9. /\ ~(file.length < 4) /\ ~(file.length < 128) /\ ~(file.length < 148)
    BY <1>1, <1>2
  <1>10. file.dxgi \in 1..U8_MAX
    BY <1>1 DEF Sound
  <1>11. ParseError(file) = "none"
    <2>1. /\ ~(file.length < 4 \/ ~file.magic) /\ ~(file.length < 128)
          /\ ~(~file.shaped) /\ ~(IsDx10(file) /\ file.length < 148)
          /\ ~(IsDx10(file) /\ \/ file.dimension # 3 \/ file.array # 1
                               \/ file.dxgi \notin 1..U8_MAX)
          /\ ~(~IsDx10(file) /\ \/ file.volume
                                \/ file.pixel \notin DOMAIN LegacyFormats)
      BY <1>1, <1>4, <1>9, <1>10
    <2> QED
      BY <1>8, <2>1, Zenon DEF ParseError
  <1>12. ParsedTexture(file) = t
    BY <1>1, <1>2, <1>3, <1>4, <1>6 DEF ParsedTexture
  <1>13. SameTexture(t, read)
    BY <1>11, <1>12 DEF SameTexture, FileBack, file
  <1> QED
    BY <1>13

(* A texture of an archive, from the chunks that were read.                *)
ChunkComesBack(archive, chunk, data) ==
  LET read == read_chunk(archive, chunk)
  IN read.error = "none" => read.bytes = data

ChunkIsWhole(archive, chunk, data) ==
  read_chunk(archive, chunk).error =
    IF data.size > MAX_CHUNK_UNPACKED THEN "TooLarge" ELSE "none"

TextureComesBack(archive, e, record) ==
  LET read == extract_texture(archive, record)
  IN read.error = "none" => SameTexture(e.texture, read)

TextureIsWhole(archive, e, record) ==
  extract_texture(archive, record).error =
    IF \E j \in DOMAIN e.chunks : e.chunks[j].data.size > MAX_CHUNK_UNPACKED
    THEN "TooLarge" ELSE "none"

LEMMA TextureIsExtracted ==
  ASSUME NEW e, TextureOf(e), NEW n, n = Len(e.chunks),
         NEW list, Listed(list), Len(list) = n, NEW archive, NEW path,
         NEW record, record = TextureRead(path, FileHeader(e).is, list),
         \A j \in 1..n : ChunkComesBack(archive, list[j], e.chunks[j].data)
  PROVE  /\ TextureComesBack(archive, e, record)
         /\ (\A j \in 1..n : ChunkIsWhole(archive, list[j], e.chunks[j].data))
              => TextureIsWhole(archive, e, record)
  <1> DEFINE t == e.texture
             read == [j \in DOMAIN list |-> read_chunk(archive, list[j])]
             failed == {j \in DOMAIN read : read[j].error # "none"}
             head == FileHeader(e).is
             out == extract_texture(archive, record)
             got == [error |-> "none",
                     header |-> header(t.width, t.height, t.mip_count, t.dxgi,
                                       t.cubemap),
                     bytes |-> Joined(read)]
  <1>1. /\ record.width = t.width /\ record.height = t.height
        /\ record.num_mips = t.mip_count /\ record.format = t.dxgi
        /\ record.cubemap = t.cubemap /\ record.tile_mode = 8
        /\ record.chunks = list
    BY DEF TextureRead, FileHeader, Field
  <1>2. Sound(t)
    BY TextureIsSound
  <1>3. t.width # 0 /\ t.height # 0
    BY <1>2 DEF Sound
  <1>4. n \in Nat \ {0} /\ DOMAIN list = 1..n /\ list # << >> /\ DOMAIN e.chunks = 1..n
    <2>1. Partition(t, e.chunks)
      BY ChunksArePartition DEF TextureOf
    <2>2. n \in 1..MAX_DX10_CHUNKS
      <3>1. Len(e.chunks) \in 1..MAX_DX10_CHUNKS
        <4> HIDE DEF t
        <4> QED
          BY <2>1, Zenon DEF Partition
      <3> QED
        BY <3>1
    <2>3. n \in Nat \ {0}
      BY ONLY <2>2 DEF MAX_DX10_CHUNKS
    <2>4. Listed(e.chunks)
      BY TextureHasSizes
    <2> QED
      BY <2>3, <2>4, ListedIs
  <1>5. out = IF failed # {} THEN Refused(read[Min(failed)].error) ELSE got
    <2>1. ~(record.width = 0 \/ record.height = 0) /\ ~(record.chunks = << >>)
          /\ ~(record.tile_mode # 8)
      BY <1>1, <1>3, <1>4
    <2> HIDE DEF t
    <2> QED
      BY <1>1, <2>1 DEF extract_texture
  <1>6. /\ read = [j \in 1..n |-> read[j]] /\ DOMAIN read = 1..n
        /\ \A j \in 1..n : read[j] = read_chunk(archive, list[j])
    BY <1>4
  <1> HIDE DEF read
  <1>7. Len(read) = n
    BY <1>4, <1>6, FunctionIsListed
  <1>8. CASE failed # {}
    <2>1. failed \subseteq Nat
      BY <1>6
    <2>2. Min(failed) \in failed
      BY <1>8, <2>1, LeastExists
    <2> DEFINE j == Min(failed)
    <2>3. j \in 1..n /\ read[j].error # "none"
      BY <1>6, <2>2
    <2> HIDE DEF j
    <2>4. out.error = read[j].error
      BY <1>5, <1>8 DEF Refused, j
    <2>5. TextureComesBack(archive, e, record)
      BY <2>3, <2>4 DEF TextureComesBack
    <2>6. ASSUME \A k \in 1..n : ChunkIsWhole(archive, list[k], e.chunks[k].data)
          PROVE  TextureIsWhole(archive, e, record)
      <3>1. read[j].error = IF e.chunks[j].data.size > MAX_CHUNK_UNPACKED
                            THEN "TooLarge" ELSE "none"
        BY <1>6, <2>3, <2>6 DEF ChunkIsWhole
      <3>2. e.chunks[j].data.size > MAX_CHUNK_UNPACKED /\ out.error = "TooLarge"
        BY <2>3, <2>4, <3>1
      <3> QED
        BY <1>4, <2>3, <3>2 DEF TextureIsWhole
    <2> QED
      BY <2>5, <2>6
  <1>9. CASE failed = {}
    <2>1. out = got /\ out.error = "none"
      BY <1>5, <1>9
    <2>2. \A j \in 1..n : read[j].error = "none"
      BY <1>6, <1>9
    <2>3. \A j \in 1..n : read[j].bytes = e.chunks[j].data
      BY <1>6, <2>2 DEF ChunkComesBack
    <2>4. Joined(read) = t.data
      BY <1>7, <2>3, ChunksJoin
    <2>5. t.data # Noise
      BY TextureDataIs DEF Piece
    <2>6. /\ out.header = header(t.width, t.height, t.mip_count, t.dxgi, t.cubemap)
          /\ out.bytes = t.data
      BY <2>1, <2>4
    <2> HIDE DEF out, t, got, failed
    <2>7. SameTexture(t, out)
      BY <1>2, <2>5, <2>6, TextureIsSame
    <2>8. TextureComesBack(archive, e, record)
      BY <2>7 DEF TextureComesBack, out, t
    <2>9. ASSUME \A k \in 1..n : ChunkIsWhole(archive, list[k], e.chunks[k].data)
          PROVE  TextureIsWhole(archive, e, record)
      <3>1. \A j \in 1..n : ~(e.chunks[j].data.size > MAX_CHUNK_UNPACKED)
        <4> TAKE j \in 1..n
        <4>1. read[j].error = IF e.chunks[j].data.size > MAX_CHUNK_UNPACKED
                              THEN "TooLarge" ELSE "none"
          BY <1>6, <2>9 DEF ChunkIsWhole
        <4> QED
          BY <2>2, <4>1
      <3> QED
        BY <1>4, <2>1, <3>1 DEF TextureIsWhole, out
    <2> QED
      BY <2>8, <2>9
  <1> QED
    BY <1>8, <1>9
-----------------------------------------------------------------------------
(* A chunk of an archive, extracted.                                       *)
LEMMA ChunkIsExtracted ==
  ASSUME NEW fmt, NEW s, Listed(s), \A i \in 1..Len(s) : TextureOf(s[i]),
         NEW image, image.len \in Nat, NEW w, NEW at,
         NEW base, base = Dx10DataStart(fmt, s),
         DataShown(image, base, Dx10Blocks(fmt, s), w, at, s),
         NEW archive, Opens(archive, image, fmt),
         NEW i \in 1..Len(s), NEW j \in 1..Len(s[i].chunks)
  PROVE  /\ ChunkComesBack(archive, ChunkRecord(fmt, s, i, j), s[i].chunks[j].data)
         /\ DataFits(image.len, base, Dx10Blocks(fmt, s), w, at, s)
              => ChunkIsWhole(archive, ChunkRecord(fmt, s, i, j), s[i].chunks[j].data)
  <1> DEFINE blocks == Dx10Blocks(fmt, s)
             k == FirstChunk(s, i) + j
             place == BlockStart(base, Sizes(blocks), k)
             block == blocks[k]
             data == s[i].chunks[j].data
             of == s[i].texture.data.of
             chunk == ChunkRecord(fmt, s, i, j)
             read == read_chunk(archive, chunk)
  <1>1. \A x \in 1..Len(s) : Listed(s[x].chunks)
    BY TextureHasSizes
  <1>2. /\ k \in 1..Len(AllChunks(s)) /\ AllChunks(s)[k] = s[i].chunks[j]
        /\ Len(blocks) = Len(AllChunks(s))
        /\ blocks[k] = CompressedBlock(fmt, AllChunks(s)[k].data)
    <2>1. ChunksReach(s)
      BY <1>1, AllChunksReach
    <2>2. k \in 1..Len(AllChunks(s)) /\ AllChunks(s)[k] = s[i].chunks[j]
      BY <2>1 DEF ChunksReach
    <2>3. /\ Len(blocks) = Len(AllChunks(s))
          /\ \A x \in 1..Len(AllChunks(s)) :
               blocks[x] = CompressedBlock(fmt, AllChunks(s)[x].data)
      BY <1>1, BlocksAreChunks
    <2> HIDE DEF k, blocks
    <2> QED
      BY <2>2, <2>3
  <1>3. block = CompressedBlock(fmt, data) /\ k \in 1..Len(blocks)
    BY <1>2
  <1>4. place \in Nat /\ Shows(image, place, block.bytes)
    BY <1>3 DEF DataShown
  <1>5. Describes(chunk, place, block)
    BY DEF Describes, ChunkRecord
  <1>6. /\ Piece(data, of) /\ data.of = of
    BY ChunksArePieces, PieceIs
  <1>7. data \in Slices(data.of) /\ Noise \notin Packings(data.of)
    BY <1>6 DEF Piece
  <1>8. HasSizes(data)
    BY TextureHasSizes
  <1>9. read = read_chunk(archive, chunk)
    OBVIOUS
  <1>10. DataFits(image.len, base, blocks, w, at, s) =>
           place + block.bytes.size <= image.len
    BY <1>3 DEF DataFits
  <1> HIDE DEF block, place, data, chunk, read, k, of, blocks
  <1>11. BlockRead(read, image, place, block, data)
    BY <1>3, <1>4, <1>5, <1>7, <1>8, <1>9, CompressedIsExtracted
  <1>12. ChunkComesBack(archive, chunk, data)
    BY <1>9, <1>11 DEF ChunkComesBack, BlockRead
  <1>13. DataFits(image.len, base, blocks, w, at, s) =>
           ChunkIsWhole(archive, chunk, data)
    BY <1>9, <1>10, <1>11 DEF ChunkIsWhole, BlockRead
  <1> QED
    BY <1>12, <1>13 DEF chunk, data, blocks

LEMMA Dx10ReadsBack ==
  ASSUME NEW fmt, fmt \in Formats, NEW w, w \in BOOLEAN, NEW s, Listed(s),
         \A i \in 1..Len(s) : Named(s[i]) /\ TextureOf(s[i]),
         NEW image, image.at = Dx10Image(fmt, w, s).at, image.len \in Nat,
         NEW archive, archive = ReadArchive(image)
  PROVE  /\ archive.error = "none" =>
              /\ SamePaths(archive, "DX10", w, s)
              /\ \A i \in 1..Len(s) : TextureComesBack(archive, s[i], archive.entries[i])
         /\ image.len = Dx10Image(fmt, w, s).len =>
              /\ archive.error = "none"
              /\ \A i \in 1..Len(s) : TextureIsWhole(archive, s[i], archive.entries[i])
  <1> DEFINE n == Len(s)
             at == Dx10NamesOffset(fmt, w, s)
             base == Dx10DataStart(fmt, s)
             blocks == Dx10Blocks(fmt, s)
             start == HeaderSize(fmt)
             paths == PathsOf(w, s)
             heads == [i \in 1..n |-> FileHeader(s[i]).is]
             lists == [i \in 1..n |-> ChunkRecords(fmt, s, i)]
             reach == RecordsReach(fmt, s)
             read == read_dx10(image, start, paths)
             full == Dx10Image(fmt, w, s).len
  <1>1. n \in Nat /\ DOMAIN s = 1..n
    BY ListedIs
  <1>2. /\ Len(paths) = n /\ \A i \in 1..n : paths[i] = PathOf(w, s[i])
    <2>1. paths = [i \in 1..n |-> paths[i]]
          /\ \A i \in 1..n : paths[i] = PathOf(w, s[i])
      BY DEF PathsOf, PathOf
    <2> HIDE DEF paths, n
    <2> QED
      BY <1>1, <2>1, FunctionIsListed
  <1>3. \A i \in 1..n : heads[i] = FileHeader(s[i]).is /\ lists[i] = ChunkRecords(fmt, s, i)
    OBVIOUS
  <1>4. /\ Dx10Shown(image, fmt, w, s)
        /\ DataFits(full, base, blocks, w, at, s)
        /\ RecordsReachIs(fmt, s) /\ start + reach[n] = base /\ 24 * n <= reach[n]
        /\ start \in Nat /\ start >= 24 /\ full \in Nat
    BY Dx10Shows
  <1>5. ShowsHeader(image, fmt, "DX10", n, at) /\ at \in Nat /\ ShowsTable(image, w, at, s)
        /\ DataShown(image, base, blocks, w, at, s)
    BY <1>4 DEF Dx10Shown, DataShown
  <1> HIDE DEF heads, lists, paths, blocks, base, at, full, read
  <1>6. /\ reach[0] = 0 /\ \A i \in 0..n : reach[i] \in Nat
        /\ \A i \in 1..n :
             /\ Listed(lists[i]) /\ reach[i] = reach[i - 1] + 24 * (1 + Len(lists[i]))
             /\ ShowsTexture(image, start + reach[i - 1], heads[i], lists[i])
    <2>1. \A i \in 1..n :
            /\ Listed(lists[i]) /\ reach[i] = reach[i - 1] + 24 * (1 + Len(lists[i]))
      BY <1>3, <1>4 DEF RecordsReachIs
    <2>2. \A i \in 1..n : ShowsTexture(image, start + reach[i - 1], heads[i], lists[i])
      BY <1>3, <1>4 DEF Dx10Shown, TexturesShown
    <2> QED
      BY <1>4, <2>1, <2>2 DEF RecordsReachIs
  <1>7. /\ read.error = "none" =>
             read.entries = [i \in 1..n |-> TextureRead(paths[i], heads[i], lists[i])]
        /\ start + reach[n] <= image.len => read.error = "none"
    <2>1. read = read_dx10(image, start, paths)
      BY DEF read
    <2>2. start \in Nat
      BY <1>4
    <2> HIDE DEF start, n, reach
    <2>3. TexturesTaken(read, image, start, n, reach, paths, heads, lists)
      BY <1>1, <1>2, <1>6, <2>1, <2>2, TexturesAreRead
    <2> QED
      BY <2>3 DEF TexturesTaken
  <1>8. /\ archive.error = "none" =>
             read.error = "none" /\ ArchiveIs(archive, image, "DX10", fmt, read.entries)
        /\ /\ HeaderSize(fmt) <= image.len /\ n * MinRecord("DX10") <= image.len
           /\ HasNames(w, s) => at + NamesReach(s)[n] <= image.len
           /\ read.error = "none"
           => archive.error = "none"
    <2>1. read = EntriesRead(image, "DX10", HeaderSize(fmt), PathsOf(w, s))
      BY DEF EntriesRead, read, paths
    <2>2. ArchiveTaken(archive, image, "DX10", fmt, w, at, s, read)
      BY <1>5, <2>1, ArchiveIsRead
    <2> QED
      BY <2>2 DEF ArchiveTaken
  <1>9. ASSUME archive.error = "none", NEW i \in 1..n
        PROVE  /\ archive.entries[i].path = PathOf(w, s[i])
               /\ TextureComesBack(archive, s[i], archive.entries[i])
               /\ DataFits(image.len, base, blocks, w, at, s)
                    => TextureIsWhole(archive, s[i], archive.entries[i])
    <2> DEFINE record == archive.entries[i]
               e == s[i]
               list == lists[i]
               path == paths[i]
               m == Len(e.chunks)
               Data(j) == e.chunks[j].data
    <2>1. record = TextureRead(path, FileHeader(e).is, list)
      BY <1>3, <1>7, <1>8, <1>9 DEF ArchiveIs
    <2>2. record.path = PathOf(w, s[i])
      BY <1>2, <2>1 DEF TextureRead
    <2>3. Opens(archive, image, fmt)
      BY <1>8, <1>9 DEF ArchiveIs, Opens
    <2>4. TextureOf(e)
      OBVIOUS
    <2>5. Listed(list) /\ Len(list) = m
          /\ \A j \in 1..m : list[j] = ChunkRecord(fmt, s, i, j)
      <3>1. m \in Nat
        BY <2>4, TextureHasSizes, ListedIs
      <3>2. list = [j \in 1..m |-> list[j]]
            /\ \A j \in 1..m : list[j] = ChunkRecord(fmt, s, i, j)
        BY <1>3 DEF ChunkRecords
      <3> HIDE DEF list, m
      <3> QED
        BY <3>1, <3>2, FunctionIsListed
    <2>6. ASSUME NEW j \in 1..m
          PROVE  /\ ChunkComesBack(archive, list[j], Data(j))
                 /\ DataFits(image.len, base, blocks, w, at, s)
                      => ChunkIsWhole(archive, list[j], Data(j))
      <3>1. base = Dx10DataStart(fmt, s) /\ blocks = Dx10Blocks(fmt, s)
        BY DEF base, blocks
      <3>2. /\ ChunkComesBack(archive, ChunkRecord(fmt, s, i, j), Data(j))
            /\ DataFits(image.len, base, Dx10Blocks(fmt, s), w, at, s)
                 => ChunkIsWhole(archive, ChunkRecord(fmt, s, i, j), Data(j))
        BY <1>5, <2>3, <3>1, ChunkIsExtracted
      <3> QED
        BY <2>5, <3>1, <3>2
    <2>7. /\ TextureComesBack(archive, e, record)
          /\ (\A j \in 1..m : ChunkIsWhole(archive, list[j], Data(j)))
               => TextureIsWhole(archive, e, record)
      <3>1. \A j \in 1..m : ChunkComesBack(archive, list[j], e.chunks[j].data)
        BY <2>6
      <3>2. m = Len(e.chunks)
        OBVIOUS
      <3> HIDE DEF record, e, list, m, path
      <3>3. /\ TextureComesBack(archive, e, record)
            /\ (\A j \in 1..m : ChunkIsWhole(archive, list[j], e.chunks[j].data))
                 => TextureIsWhole(archive, e, record)
        BY <2>1, <2>4, <2>5, <3>1, <3>2, TextureIsExtracted
      <3> QED
        BY <3>3
    <2> QED
      BY <2>2, <2>6, <2>7
  <1>10. ASSUME archive.error = "none"
         PROVE  /\ SamePaths(archive, "DX10", w, s)
                /\ \A i \in 1..n : TextureComesBack(archive, s[i], archive.entries[i])
    <2>1. archive.kind = "DX10"
      BY <1>8, <1>10 DEF ArchiveIs
    <2>2. Len(archive.entries) = n
      <3>1. archive.entries = [i \in 1..n |-> TextureRead(paths[i], heads[i], lists[i])]
        BY <1>7, <1>8, <1>10 DEF ArchiveIs
      <3>2. archive.entries = [i \in 1..n |-> archive.entries[i]]
        BY <3>1
      <3> QED
        BY <1>1, <3>2, FunctionIsListed
    <2>3. \A i \in 1..n : archive.entries[i].path = PathOf(w, s[i])
      BY <1>9, <1>10
    <2>4. \A i \in 1..n : TextureComesBack(archive, s[i], archive.entries[i])
      BY <1>9, <1>10
    <2> QED
      BY <2>1, <2>2, <2>3, <2>4 DEF SamePaths
  <1>11. ASSUME image.len = full
         PROVE  archive.error = "none"
    <2>1. base <= image.len /\ (HasNames(w, s) => at + NamesReach(s)[n] <= image.len)
      BY <1>4, <1>11 DEF DataFits
    <2>2. start + reach[n] <= image.len /\ start <= image.len /\ n * 24 <= image.len
      <3> DEFINE len == image.len
                 end == reach[n]
      <3>1. len \in Nat /\ base <= len /\ base = start + end
            /\ start \in Nat /\ n \in Nat /\ 24 * n <= end /\ end \in Nat
        <4>1. n \in 0..n
          BY <1>1
        <4> QED
          BY <1>1, <1>4, <1>6, <2>1, <4>1
      <3> HIDE DEF len, start, n, end
      <3>2. start + end <= len /\ start <= len /\ n * 24 <= len
        BY <3>1
      <3> QED
        BY <3>2 DEF len, end
    <2>3. MinRecord("DX10") = 24
      BY DEF MinRecord
    <2> QED
      BY <1>7, <1>8, <2>1, <2>2, <2>3
  <1>12. ASSUME image.len = full, NEW i \in 1..n
         PROVE  TextureIsWhole(archive, s[i], archive.entries[i])
    <2>1. DataFits(image.len, base, blocks, w, at, s)
      BY <1>4, <1>12
    <2> QED
      BY <1>9, <1>11, <1>12, <2>1
  <1> QED
    BY <1>10, <1>11, <1>12 DEF full
-----------------------------------------------------------------------------
(* What the writer makes lies at natural places, however it is cut.        *)
LEMMA ImageIsPlaced ==
  ASSUME EntriesInv
  PROVE  /\ to_vec = [len |-> to_vec.len, at |-> to_vec.at]
         /\ StopsOf(to_vec) \subseteq Nat
  <1>1. PICK fields : to_vec = Image(fields) /\ AreFields(fields)
    <2>1. CASE kind = "GNRL"
      <3>1. \A i \in 1..Len(entries) : Named(entries[i]) /\ FileOf(entries[i])
        BY <2>1 DEF EntriesInv, Given
      <3>2. \E fields : /\ GnrlImage(format, write_names, entries) = Image(fields)
                        /\ Keyed(fields, HashesOf(entries))
        BY <3>1, GnrlIsKeyed DEF EntriesInv
      <3> QED
        BY <2>1, <3>2 DEF to_vec, Keyed
    <2>2. CASE kind # "GNRL"
      <3>1. \A i \in 1..Len(entries) : Named(entries[i]) /\ TextureOf(entries[i])
        BY <2>2 DEF EntriesInv, Given
      <3>2. \E fields : /\ Dx10Image(format, write_names, entries) = Image(fields)
                        /\ Keyed(fields, HashesOf(entries))
        BY <3>1, Dx10IsKeyed DEF EntriesInv
      <3> QED
        BY <2>2, <3>2 DEF to_vec, Keyed
    <2> QED
      BY <2>1, <2>2
  <1>2. to_vec = [len |-> to_vec.len, at |-> to_vec.at]
    <2>1. Image(fields) = [len |-> Image(fields).len, at |-> Image(fields).at]
      BY DEF Image
    <2> QED
      BY <1>1, <2>1, Zenon
  <1>3. DOMAIN to_vec.at \subseteq Nat
    <2>1. DOMAIN to_vec.at = {Begins(fields)[k] : k \in Held(fields)}
      BY <1>1, ImageHolds DEF HeldAt
    <2>2. \A k \in Held(fields) : Begins(fields)[k] \in Nat
      <3> TAKE k \in Held(fields)
      <3>1. k \in 1..Len(fields)
        BY DEF Held
      <3> QED
        BY <1>1, <3>1, BeginsAre
    <2> QED
      BY <2>1, <2>2
  <1>4. StopsOf(to_vec) \subseteq Nat
    BY <1>3 DEF StopsOf
  <1> QED
    BY <1>2, <1>4

LEMMA NothingIsRefused ==
  ASSUME NEW image, image = NewImage
  PROVE  ReadArchive(image).error # "none"
  <1> DEFINE head == Get(image, 0, 24)
             start == RecordsStart(head.version)
             names == read_names(image, head.name_table_offset, head.file_count)
             list == IF head.kind = "GNRL"
                     THEN read_gnrl(image, start, names.entries)
                     ELSE read_dx10(image, start, names.entries)
             tooMany == head.file_count * MinRecord(head.kind) > image.len
             answer == [error |-> "none", image |-> image, kind |-> head.kind,
                        compression |-> Compression(image), entries |-> list.entries]
  <1>1. image.len = 0
    BY DEF NewImage
  <1>2. HeaderError(image) # "none"
    BY <1>1 DEF HeaderError
  <1>3. ReadArchive(image) =
          CASE HeaderError(image) # "none" -> Refused(HeaderError(image))
            [] tooMany                     -> Refused("Malformed")
            [] names.error # "none"        -> Refused(names.error)
            [] head.kind \notin {"GNRL", "DX10"}
                                           -> Refused("UnsupportedType")
            [] list.error # "none"         -> Refused(list.error)
            [] OTHER                       -> answer
    BY DEF ReadArchive
  <1> HIDE DEF list, answer, tooMany, names
  <1> QED
    BY <1>2, <1>3 DEF Refused

(* What comes back of what the writer made, cut or not.                    *)
ComesBack(archive) ==
  archive.error = "none" =>
    /\ SameEntries(archive)
    /\ \A i \in DOMAIN entries :
         Extracted(archive, i).error = "none" => SameData(archive, i)

ComesBackWhole(archive) ==
  /\ archive.error = "none"
  /\ \A i \in DOMAIN entries :
       Extracted(archive, i).error =
         IF TooLargeToRead(entries[i]) THEN "TooLarge" ELSE "none"

(* A text that is UTF-8 throughout is listed as it is.                     *)
LEMMA Utf8IsKept ==
  ASSUME NEW S, NEW text \in Seq(S), IsUtf8(text)
  PROVE  from_utf8_lossy(text) = text
  <1> DEFINE n == Len(text)
             bytes == [i \in DOMAIN text |-> <<text[i]>>]
  <1>1. n \in Nat /\ DOMAIN text = 1..n /\ \A i \in 1..n : text[i] \in S
    OBVIOUS
  <1>2. \A i \in DOMAIN text : ShownAs(text, i) = <<text[i]>>
    BY DEF IsUtf8, ShownAs
  <1>3. from_utf8_lossy(text) = FlattenSeq(bytes)
    <2>1. [i \in DOMAIN text |-> ShownAs(text, i)] = bytes
      BY <1>2
    <2> QED
      BY <2>1, Zenon DEF from_utf8_lossy
  <1>4. /\ bytes \in Seq(Seq(S)) /\ Len(bytes) = n
        /\ \A i \in 1..n : bytes[i] = <<text[i]>>
    <2>1. \A i \in 1..n : <<text[i]>> \in Seq(S)
      BY <1>1
    <2> HIDE DEF n
    <2> QED
      BY <1>1, <2>1
  <1> HIDE DEF n, bytes
  <1>5. PICK f : Flattens(f, bytes, S)
    BY <1>4, FlattenIs
  <1> DEFINE T == {i \in 0..n : Len(f[i]) = i /\ \A k \in 1..i : f[i][k] = text[k]}
  <1>6. f \in [0..n -> Seq(S)] /\ f[0] = << >>
        /\ \A i \in 1..n : f[i] = f[i - 1] \o bytes[i]
    BY <1>4, <1>5 DEF Flattens
  <1>7. 0 \in T
    BY <1>1, <1>6
  <1>8. ASSUME NEW i \in 0..(n - 1), i \in T
        PROVE  i + 1 \in T
    <2>1. i + 1 \in 1..n /\ i + 1 \in 0..n /\ (i + 1) - 1 = i /\ i \in 0..n
      BY <1>1
    <2>2. f[i + 1] = f[i] \o <<text[i + 1]>>
      BY <1>4, <1>6, <2>1
    <2>3. /\ f[i] \in Seq(S) /\ Len(f[i]) = i
          /\ \A k \in 1..i : f[i][k] = text[k]
      BY <1>6, <1>8, <2>1
    <2>4. Len(f[i + 1]) = i + 1
      BY <2>2, <2>3
    <2>5. \A k \in 1..(i + 1) : f[i + 1][k] = text[k]
      BY <2>1, <2>2, <2>3
    <2> QED
      BY <2>1, <2>4, <2>5
  <1> HIDE DEF T
  <1>9. n \in T
    <2>1. 0..n \subseteq T
      BY <1>1, <1>7, <1>8, InductionUpTo
    <2> QED
      BY <1>1, <2>1
  <1>10. /\ f[n] \in Seq(S) /\ Len(f[n]) = n
         /\ \A k \in 1..n : f[n][k] = text[k]
    BY <1>1, <1>6, <1>9 DEF T
  <1>11. f[n] = text
    BY <1>1, <1>10 DEF n
  <1>12. FlattenSeq(bytes) = f[n]
    BY <1>4, <1>5 DEF Flattens
  <1> QED
    BY <1>3, <1>11, <1>12

LEMMA PathsAreSame ==
  ASSUME Listed(entries), \A i \in 1..Len(entries) : Named(entries[i]),
         NEW archive, SamePaths(archive, kind, write_names, entries)
  PROVE  SameEntries(archive)
  <1>1. DOMAIN entries = 1..Len(entries)
    BY ListedIs
  <1>2. ASSUME NEW i \in 1..Len(entries), write_names
        PROVE  SamePath(archive.entries[i].path, entries[i].name)
    <2>1. archive.entries[i].path = [name |-> from_utf8_lossy(entries[i].name)]
      BY <1>2 DEF SamePaths, PathOf, Listing
    <2>2. PICK S : entries[i].name \in Seq(S)
      BY DEF Named, Listed
    <2> QED
      BY <2>1, <2>2, Utf8IsKept DEF SamePath
  <1>3. ASSUME NEW i \in 1..Len(entries), ~write_names
        PROVE  archive.entries[i].path = Unnamed
    BY <1>3 DEF SamePaths, PathOf
  <1> QED
    BY <1>1, <1>2, <1>3 DEF SamePaths, SameEntries

LEMMA ImageComesBack ==
  ASSUME EntriesInv, SettingsInv, NEW image, image.at = to_vec.at,
         image.len \in Nat, NEW archive, archive = ReadArchive(image)
  PROVE  /\ ComesBack(archive)
         /\ image.len = to_vec.len => ComesBackWhole(archive)
  <1> DEFINE n == Len(entries)
  <1>1. /\ Listed(entries) /\ DOMAIN entries = 1..n
        /\ kind \in {"GNRL", "DX10"}
        /\ format \in Formats /\ write_names \in BOOLEAN
        /\ \A i \in 1..n : Given(kind, entries[i])
    BY ListedIs DEF EntriesInv, SettingsInv
  <1>2. CASE kind = "GNRL"
    <2>1. \A i \in 1..n : Named(entries[i]) /\ FileOf(entries[i])
      BY <1>1, <1>2 DEF Given
    <2>2. image.at = GnrlImage(format, write_names, entries).at
          /\ to_vec.len = GnrlImage(format, write_names, entries).len
      BY <1>2 DEF to_vec
    <2>3. /\ archive.error = "none" =>
               /\ SamePaths(archive, "GNRL", write_names, entries)
               /\ \A i \in 1..n :
                    FileComesBack(archive, entries[i], archive.entries[i])
          /\ image.len = GnrlImage(format, write_names, entries).len =>
               /\ archive.error = "none"
               /\ \A i \in 1..n :
                    FileIsWhole(archive, entries[i], archive.entries[i])
      BY <1>1, <2>1, <2>2, GnrlReadsBack
    <2>4. \A i : Extracted(archive, i) = read_chunk(archive, archive.entries[i])
      BY <1>2 DEF Extracted, extract
    <2>5. ComesBack(archive)
      <3> SUFFICES ASSUME archive.error = "none"
                   PROVE  /\ SameEntries(archive)
                          /\ \A i \in DOMAIN entries :
                               Extracted(archive, i).error = "none"
                                 => SameData(archive, i)
        BY DEF ComesBack
      <3>1. SameEntries(archive)
        BY <1>1, <1>2, <2>1, <2>3, PathsAreSame
      <3>2. ASSUME NEW i \in 1..n, Extracted(archive, i).error = "none"
            PROVE  SameData(archive, i)
        BY <1>2, <2>3, <2>4, <3>2 DEF SameData, FileComesBack
      <3> QED
        BY <1>1, <3>1, <3>2
    <2>6. image.len = to_vec.len => ComesBackWhole(archive)
      BY <1>1, <1>2, <2>2, <2>3, <2>4
         DEF ComesBackWhole, FileIsWhole, TooLargeToRead
    <2> QED
      BY <2>5, <2>6
  <1>3. CASE kind = "DX10"
    <2>1. \A i \in 1..n : Named(entries[i]) /\ TextureOf(entries[i])
      BY <1>1, <1>3 DEF Given
    <2>2. image.at = Dx10Image(format, write_names, entries).at
          /\ to_vec.len = Dx10Image(format, write_names, entries).len
      BY <1>3 DEF to_vec
    <2>3. /\ archive.error = "none" =>
               /\ SamePaths(archive, "DX10", write_names, entries)
               /\ \A i \in 1..n :
                    TextureComesBack(archive, entries[i], archive.entries[i])
          /\ image.len = Dx10Image(format, write_names, entries).len =>
               /\ archive.error = "none"
               /\ \A i \in 1..n :
                    TextureIsWhole(archive, entries[i], archive.entries[i])
      BY <1>1, <2>1, <2>2, Dx10ReadsBack
    <2>4. \A i : Extracted(archive, i) = extract_texture(archive, archive.entries[i])
      BY <1>3 DEF Extracted
    <2>5. ComesBack(archive)
      <3> SUFFICES ASSUME archive.error = "none"
                   PROVE  /\ SameEntries(archive)
                          /\ \A i \in DOMAIN entries :
                               Extracted(archive, i).error = "none"
                                 => SameData(archive, i)
        BY DEF ComesBack
      <3>1. SameEntries(archive)
        BY <1>1, <1>3, <2>1, <2>3, PathsAreSame
      <3>2. ASSUME NEW i \in 1..n, Extracted(archive, i).error = "none"
            PROVE  SameData(archive, i)
        BY <1>3, <2>3, <2>4, <3>2 DEF SameData, TextureComesBack
      <3> QED
        BY <1>1, <3>1, <3>2
    <2>6. image.len = to_vec.len => ComesBackWhole(archive)
      BY <1>1, <1>3, <2>2, <2>3, <2>4
         DEF ComesBackWhole, TextureIsWhole, TooLargeToRead
    <2> QED
      BY <2>5, <2>6
  <1> QED
    BY <1>1, <1>2, <1>3

LEMMA ImageHasLength ==
  ASSUME EntriesInv, SettingsInv
  PROVE  to_vec.len \in Nat
  <1> DEFINE n == Len(entries)
  <1>1. /\ Listed(entries) /\ kind \in {"GNRL", "DX10"}
        /\ format \in Formats /\ write_names \in BOOLEAN
        /\ \A i \in 1..n : Given(kind, entries[i])
    BY DEF EntriesInv, SettingsInv
  <1>2. CASE kind = "GNRL"
    <2>1. \A i \in 1..n : Named(entries[i]) /\ FileOf(entries[i])
      BY <1>1, <1>2 DEF Given
    <2> DEFINE image == GnrlImage(format, write_names, entries)
    <2>2. image.len \in Nat
      BY <1>1, <2>1, GnrlShows
    <2> QED
      BY <1>2, <2>2 DEF to_vec
  <1>3. CASE kind = "DX10"
    <2>1. \A i \in 1..n : Named(entries[i]) /\ TextureOf(entries[i])
      BY <1>1, <1>3 DEF Given
    <2> DEFINE image == Dx10Image(format, write_names, entries)
    <2>2. image.len \in Nat
      BY <1>1, <2>1, Dx10Shows
    <2> QED
      BY <1>3, <2>2 DEF to_vec
  <1> QED
    BY <1>1, <1>2, <1>3
-----------------------------------------------------------------------------
(* GnrlWriter::push and Dx10Writer::push remember exactly the names of the *)
(* files they took.                                                        *)
THEOREM SeenAreEntries == Spec => []SeenIsEntries
  <1>1. IInv => SeenIsEntries
    BY DEF IInv
  <1> QED
    BY <1>1, Invariance, PTL

(* split_chunks splits every texture that parse accepts so that no mip is  *)
(* lost or stored twice, and only where the size asks for it.              *)
THEOREM TexturesArePartitioned == Spec => []ChunksPartition
  <1>1. ASSUME IInv, kind = "DX10", NEW i \in DOMAIN entries
        PROVE  Partition(entries[i].texture, entries[i].chunks)
    <2>1. i \in 1..Len(entries)
      BY <1>1, ListedIs DEF IInv, EntriesInv
    <2>2. TextureOf(entries[i])
      BY <1>1, <2>1 DEF IInv, EntriesInv, Given
    <2> QED
      BY <2>2, ChunksArePartition DEF TextureOf
  <1>2. IInv => ChunksPartition
    BY <1>1 DEF ChunksPartition
  <1> QED
    BY <1>2, Invariance, PTL

(* What LookupFindsFile says of an image.                                  *)
LEMMA EntriesAreFound ==
  ASSUME EntriesInv
  PROVE  /\ Cardinality(HashesIn(to_vec)) = Len(entries)
         /\ \A i \in 1..Len(entries) :
              Cardinality(HeldUnder(to_vec, entries[i].hash)) = 1
  <1> DEFINE hashes == HashesOf(entries)
  <1>1. /\ Listed(entries) /\ kind \in {"GNRL", "DX10"}
        /\ \A i \in 1..Len(entries) : Given(kind, entries[i])
        /\ \A i, j \in 1..Len(entries) :
             entries[i].hash = entries[j].hash => i = j
    BY DEF EntriesInv
  <1>2. /\ Len(hashes) = Len(entries) /\ Len(hashes) \in Nat
        /\ \A i \in 1..Len(entries) : hashes[i] = entries[i].hash
    BY <1>1, HashesAreListed, ListedIs
  <1> HIDE DEF hashes
  <1>3. \E fields : to_vec = Image(fields) /\ Keyed(fields, hashes)
    <2>1. CASE kind = "GNRL"
      <3>1. to_vec = GnrlImage(format, write_names, entries)
        BY <2>1 DEF to_vec
      <3>2. \A i \in 1..Len(entries) : Named(entries[i]) /\ FileOf(entries[i])
        BY <1>1, <2>1 DEF Given
      <3> QED
        BY <1>1, <3>1, <3>2, GnrlIsKeyed DEF hashes
    <2>2. CASE kind = "DX10"
      <3>1. to_vec = Dx10Image(format, write_names, entries)
        BY <2>2 DEF to_vec
      <3>2. \A i \in 1..Len(entries) : Named(entries[i]) /\ TextureOf(entries[i])
        BY <1>1, <2>2 DEF Given
      <3> QED
        BY <1>1, <3>1, <3>2, Dx10IsKeyed DEF hashes
    <2> QED
      BY <1>1, <2>1, <2>2
  <1>4. PICK fields : to_vec = Image(fields) /\ Keyed(fields, hashes)
    BY <1>3
  <1>5. \A i, j \in 1..Len(hashes) : hashes[i] = hashes[j] => i = j
    BY <1>1, <1>2
  <1>6. /\ Cardinality(HashesIn(Image(fields))) = Len(hashes)
        /\ \A i \in 1..Len(hashes) :
             Cardinality(HeldUnder(Image(fields), hashes[i])) = 1
    BY <1>2, <1>4, <1>5, KeysFound
  <1> QED
    BY <1>2, <1>4, <1>6

(* What the engine looks up is there: in an archive GnrlWriter::write or   *)
(* Dx10Writer::write wrote to its end, exactly one record has the key of   *)
(* the path of a file, in every spelling of it.                            *)
THEOREM FilesAreFound == Spec => []LookupFindsFile
  <1>1. ASSUME IInv, sink.whole
        PROVE  LookupFindsFile
    <2>1. /\ EntriesInv /\ sink.image = to_vec
      BY <1>1 DEF IInv, SinkInv
    <2>2. /\ Cardinality(HashesIn(sink.image)) = Len(entries)
          /\ \A i \in 1..Len(entries) :
               Cardinality(HeldUnder(sink.image, entries[i].hash)) = 1
      BY <2>1, EntriesAreFound
    <2>3. /\ DOMAIN entries = 1..Len(entries)
          /\ \A i \in 1..Len(entries) : entries[i].hash = Key(entries[i].name)
      BY <2>1, ListedIs DEF EntriesInv, Given, Named
    <2>4. \A i \in DOMAIN entries :
            Cardinality(HeldUnder(sink.image, Key(entries[i].name))) = 1
      BY <2>2, <2>3
    <2> QED
      BY <2>2, <2>4 DEF LookupFindsFile, HashesIn, HeldUnder, HasHash
  <1>2. IInv => LookupFindsFile
    BY <1>1 DEF LookupFindsFile
  <1> QED
    BY <1>2, Invariance, PTL

(* to_vec computes every offset of an archive before it writes a byte, and *)
(* the reader finds every file by those offsets.                           *)
THEOREM WholeIsReadBack == Spec => []WholeReadsBack
  <1>1. ASSUME IInv
        PROVE  WholeReadsBack
    <2> SUFFICES ASSUME sink.whole
                 PROVE  LET archive == ReadArchive(sink.image)
                        IN /\ archive.error = "none" /\ SameEntries(archive)
                           /\ \A i \in DOMAIN entries :
                                IF TooLargeToRead(entries[i])
                                THEN Extracted(archive, i).error = "TooLarge"
                                ELSE SameData(archive, i)
      BY DEF WholeReadsBack
    <2> DEFINE image == sink.image
               archive == ReadArchive(image)
    <2>1. image = to_vec /\ EntriesInv /\ SettingsInv
      BY <1>1 DEF IInv, SinkInv
    <2>2. image.len \in Nat
      BY <2>1, ImageHasLength
    <2>3. archive = ReadArchive(image) /\ image.at = to_vec.at
      BY <2>1
    <2> HIDE DEF archive, image
    <2>4. ComesBack(archive) /\ ComesBackWhole(archive)
      BY <2>1, <2>2, <2>3, ImageComesBack
    <2> QED
      BY <2>3, <2>4 DEF ComesBack, ComesBackWhole, image
  <1> QED
    BY <1>1, Invariance, PTL

(* An archive that write left half written is refused, or its files are.   *)
THEOREM PartIsNeverMisread == Spec => []PartNeverMisread
  <1>1. ASSUME IInv
        PROVE  PartNeverMisread
    <2> SUFFICES ASSUME ~sink.whole
                 PROVE  ComesBack(ReadArchive(sink.image))
      BY DEF PartNeverMisread, ComesBack
    <2> DEFINE image == sink.image
               archive == ReadArchive(image)
    <2>1. EntriesInv /\ SettingsInv
      BY <1>1 DEF IInv
    <2>2. \/ image = NewImage
          \/ \E len \in StopsOf(to_vec) : image = Cut(to_vec, len)
      BY <1>1 DEF IInv, SinkInv
    <2>3. CASE image = NewImage
      BY <2>3, NothingIsRefused DEF ComesBack
    <2>4. CASE \E len \in StopsOf(to_vec) : image = Cut(to_vec, len)
      <3>1. PICK len \in StopsOf(to_vec) : image = Cut(to_vec, len)
        BY <2>4
      <3>2. len \in Nat /\ to_vec = [len |-> to_vec.len, at |-> to_vec.at]
        BY <2>1, ImageIsPlaced
      <3>3. image.len = len /\ image.at = to_vec.at
        <4> DEFINE all == to_vec
        <4>1. all = [len |-> all.len, at |-> all.at] /\ image = [all EXCEPT !.len = len]
          BY <3>1, <3>2 DEF Cut
        <4> HIDE DEF all, image
        <4>2. image.len = len /\ image.at = all.at
          BY <4>1
        <4> QED
          BY <4>2 DEF all
      <3>4. archive = ReadArchive(image) /\ image.len \in Nat
        BY <3>2, <3>3
      <3> HIDE DEF archive, image
      <3>5. ComesBack(archive)
        BY <2>1, <3>3, <3>4, ImageComesBack
      <3> QED
        BY <3>5 DEF archive, image
    <2> QED
      BY <2>2, <2>3, <2>4
  <1> QED
    BY <1>1, Invariance, PTL
=============================================================================
