----------------------------- MODULE DdsTexture -----------------------------
(***************************************************************************)
(* btdx/src/dds.rs: reading a DDS file and writing the header of one.  A   *)
(* file is the record of the header fields parse looks at, its length and  *)
(* its data, a slice of the bytes it came with.  pixel is "DX10", or names *)
(* the four-character code or the masks of an older pixel format.          *)
(***************************************************************************)
EXTENDS ByteImage, FiniteSetsExt

U8_MAX == 255
U16_MAX == 65535

Cubemap(form) == IF form THEN 6 ELSE 1  \* faces

block_bytes(dxgi) ==
  IF dxgi \in (70..72) \cup (79..81) THEN 8
  ELSE IF dxgi \in (73..78) \cup (82..84) \cup (94..99) THEN 16 ELSE 0

bits_per_pixel(dxgi) ==
  IF dxgi \in (23..38) \cup (87..93) THEN 32
  ELSE IF dxgi \in (48..59) \cup {85, 86} THEN 16
  ELSE IF dxgi \in 60..65 THEN 8 ELSE 0

CeilDiv(n, d) == (n + d - 1) \div d
AcrossBlocks(n) == Max({CeilDiv(n, 4), 1})

(* The formats whose mips have a known size, and that size.                *)
Sized(dxgi) == block_bytes(dxgi) # 0 \/ bits_per_pixel(dxgi) # 0

mip_size(width, height, dxgi) ==
  IF block_bytes(dxgi) # 0
  THEN AcrossBlocks(width) * AcrossBlocks(height) * block_bytes(dxgi)
  ELSE CeilDiv(width * bits_per_pixel(dxgi), 8) * height

(* dimension >> m.                                                         *)
Halved(dimension, m) ==
  LET half[k \in 0..m] == IF k = 0 THEN dimension ELSE half[k - 1] \div 2
  IN half[m]

MipDimension(dimension, m) == Max({Halved(dimension, m), 1})

MipSizes(width, height, mips, dxgi) ==
  [m \in 1..mips |-> mip_size(MipDimension(width, m - 1),
                              MipDimension(height, m - 1), dxgi)]

MaxMips(width, height) ==
  Min({n \in 1..16 : Max({width, height}) < 2^n})
-----------------------------------------------------------------------------
LegacyFormats ==
  [DXT1 |-> 71, DXT3 |-> 74, DXT5 |-> 77, ATI1 |-> 80, BC4U |-> 80,
   BC4S |-> 81, ATI2 |-> 83, BC5U |-> 83, BC5S |-> 84,
   BGRA |-> 87, BGRX |-> 88, RGBA |-> 28, B5G6R5 |-> 85, R8 |-> 61]

IsDx10(file) == file.pixel = "DX10"
HeaderLen(file) == IF IsDx10(file) THEN 148 ELSE 128

Dxgi(file) == IF IsDx10(file) THEN file.dxgi ELSE LegacyFormats[file.pixel]

MipCount(file) == IF ~file.mip_flag \/ file.mips = 0 THEN 1 ELSE file.mips

ExpectedData(file) ==
  Cubemap(file.cube)
    * Total(MipSizes(file.width, file.height, MipCount(file), Dxgi(file)))

(* parse: the first of the checks, in the order of the code, that fails,   *)
(* of those that look at the kind of the header and those that follow.     *)
Shaped(file) ==
  /\ file.width \in 1..U16_MAX /\ file.height \in 1..U16_MAX
  /\ MipCount(file) <= U8_MAX
  /\ MipCount(file) <= MaxMips(file.width, file.height)

ContentError(file) ==
  IF ~Shaped(file) THEN "UnsupportedShape"
  ELSE IF ~Sized(Dxgi(file)) THEN "UnsupportedFormat"
  ELSE IF file.length - HeaderLen(file) # ExpectedData(file)
       THEN "SizeMismatch" ELSE "none"

ParseError(file) ==
  CASE file.length < 4 \/ ~file.magic               -> "NotDds"
    [] file.length < 128                            -> "Truncated"
    [] ~file.shaped                                 -> "UnsupportedShape"
    [] IsDx10(file) /\ file.length < 148            -> "Truncated"
    [] IsDx10(file) /\ \/ file.dimension # 3 \/ file.array # 1
                       \/ file.dxgi \notin 1..U8_MAX -> "UnsupportedShape"
    [] ~IsDx10(file) /\ \/ file.volume
                        \/ file.pixel \notin DOMAIN LegacyFormats
                                                    -> "UnsupportedShape"
    [] OTHER                                        -> ContentError(file)

(* The data is all that follows the header.                                *)
ParsedTexture(file) ==
  [width |-> file.width, height |-> file.height, mip_count |-> MipCount(file),
   dxgi |-> Dxgi(file), cubemap |-> file.cube,
   data |-> [of |-> file.data.of, from |-> file.data.from,
             size |-> file.length - HeaderLen(file)]]
-----------------------------------------------------------------------------
(* The header of a texture out of an archive is always of the DX10 kind.   *)
header(width, height, mips, dxgi, cubemap) ==
  [magic |-> TRUE, shaped |-> TRUE, pixel |-> "DX10", volume |-> FALSE,
   width |-> width, height |-> height, mips |-> Max({mips, 1}),
   mip_flag |-> mips > 1, dxgi |-> dxgi, dimension |-> 3, array |-> 1,
   cube |-> cubemap]
=============================================================================
