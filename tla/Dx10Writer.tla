----------------------------- MODULE Dx10Writer -----------------------------
(***************************************************************************)
(* btdx/src/write/dx10.rs: how the mips of a texture are split into        *)
(* chunks, and the layout of a texture archive.                            *)
(***************************************************************************)
EXTENDS Ba2Format, DdsTexture

DX10_FILE_HEADER_SIZE == 24
DX10_CHUNK_SIZE == 24
DX10_CHUNK_RECORD_SIZE == 24
MIP_CHUNK_DIM == 512
MAX_DX10_CHUNKS == 4

Threshold(dxgi) == mip_size(MIP_CHUNK_DIM, MIP_CHUNK_DIM, dxgi)

(* One round of split_chunks: mip m, counted from 0, joins the chunk begun *)
(* at split.start or begins another.  The last chunk allowed takes the     *)
(* rest.                                                                   *)
NextUncounted(split, m, size, threshold) ==  \* a fault: the mip a chunk begins with is not counted
  IF split.full THEN split
  ELSE IF split.size = 0 \/ split.size + size < threshold
  THEN [split EXCEPT !.size = @ + size]
  ELSE [start |-> m, size |-> 0,
        ranges |-> Append(split.ranges, <<split.start, m - 1>>),
        full |-> Len(split.ranges) + 1 = MAX_DX10_CHUNKS - 1]
NextMip(split, m, size, threshold) ==
  IF split.full THEN split
  ELSE IF split.size = 0 \/ split.size + size < threshold
  THEN [split EXCEPT !.size = @ + size]
  ELSE [start |-> m, size |-> size,
        ranges |-> Append(split.ranges, <<split.start, m - 1>>),
        full |-> Len(split.ranges) + 1 = MAX_DX10_CHUNKS - 1]

NewSplit == [start |-> 0, size |-> 0, ranges |-> << >>, full |-> FALSE]

(* After each number of rounds.                                            *)
Splits(sizes, threshold) ==
  LET split[m \in 0..Len(sizes)] ==
        IF m = 0 THEN NewSplit
        ELSE NextMip(split[m - 1], m - 1, sizes[m], threshold)
  IN split

SizesOf(texture) ==
  MipSizes(texture.width, texture.height, texture.mip_count, texture.dxgi)

MipRanges(texture) ==
  LET split == Splits(SizesOf(texture), Threshold(texture.dxgi))
                 [texture.mip_count]
  IN Append(split.ranges, <<split.start, texture.mip_count - 1>>)

(* The bytes of mips first..last in the texture's data.                    *)
MipBytes(texture, first, last) ==
  LET offsets == Offsets(SizesOf(texture))
  IN [of |-> texture.data.of, from |-> texture.data.from + offsets[first],
      size |-> offsets[last + 1] - offsets[first]]

split_chunks(texture) ==
  IF texture.cubemap
  THEN <<[start_mip |-> 0, end_mip |-> texture.mip_count - 1,
          data |-> texture.data]>>
  ELSE LET ranges == MipRanges(texture)
       IN [i \in DOMAIN ranges |->
             [start_mip |-> ranges[i][1], end_mip |-> ranges[i][2],
              data |-> MipBytes(texture, ranges[i][1], ranges[i][2])]]
-----------------------------------------------------------------------------
(* Every chunk of every texture, in the order of the archive.              *)
AllChunks(entries) == FlattenSeq([i \in DOMAIN entries |-> entries[i].chunks])

ChunkCounts(entries) == [i \in DOMAIN entries |-> Len(entries[i].chunks)]

Dx10Blocks(format, entries) ==
  LET chunks == AllChunks(entries)
  IN [k \in DOMAIN chunks |-> CompressedBlock(format, chunks[k].data)]

Dx10DataStart(format, entries) ==
  HeaderSize(format) + DX10_FILE_HEADER_SIZE * Len(entries)
                     + DX10_CHUNK_SIZE * Len(AllChunks(entries))

Dx10NamesOffset(format, write_names, entries) ==
  IF HasNames(write_names, entries)
  THEN Dx10DataStart(format, entries)
         + Total(Sizes(Dx10Blocks(format, entries)))
  ELSE 0

FileHeader(entry) ==
  Field(DX10_FILE_HEADER_SIZE,
        [hash |-> entry.hash, num_chunks |-> Len(entry.chunks),
         chunk_record_size |-> DX10_CHUNK_RECORD_SIZE,
         height |-> entry.texture.height, width |-> entry.texture.width,
         num_mips |-> entry.texture.mip_count, format |-> entry.texture.dxgi,
         cubemap |-> entry.texture.cubemap, tile_mode |-> 8])

(* The records of a texture, the k-th chunk of the archive its first.      *)
TextureRecords(format, entries, i) ==
  LET blocks == Dx10Blocks(format, entries)
      before == Offsets(ChunkCounts(entries))[i - 1]
      Chunk(j) ==
        LET k == before + j
        IN Field(DX10_CHUNK_SIZE,
                 [offset |-> BlockStart(Dx10DataStart(format, entries),
                                        Sizes(blocks), k),
                  packed |-> blocks[k].packed, unpacked |-> blocks[k].unpacked,
                  start_mip |-> entries[i].chunks[j].start_mip,
                  end_mip |-> entries[i].chunks[j].end_mip])
  IN <<FileHeader(entries[i])>>
     \o [j \in DOMAIN entries[i].chunks |-> Chunk(j)]

(* to_vec, if every size fits its field.                                   *)
Dx10Fits(format, entries) ==
  LET blocks == Dx10Blocks(format, entries)
  IN \A k \in DOMAIN blocks : FitsU32(blocks[k])

Dx10Image(format, write_names, entries) ==
  Image(write_header(format, "DX10", Len(entries),
                     Dx10NamesOffset(format, write_names, entries))
        \o FlattenSeq([i \in DOMAIN entries |->
                         TextureRecords(format, entries, i)])
        \o Bytes(Dx10Blocks(format, entries))
        \o (IF HasNames(write_names, entries) THEN NameTable(entries)
            ELSE << >>))
=============================================================================
