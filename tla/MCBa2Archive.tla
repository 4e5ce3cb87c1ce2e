---------------------------- MODULE MCBa2Archive ----------------------------
(***************************************************************************)
(* Archives of up to two files.  The limits are scaled: a key has room for *)
(* two bytes of an extension, names are shorter than ten bytes, the reader *)
(* expands 2^23 bytes and a size has room for 2^26.                        *)
(***************************************************************************)
EXTENDS Ba2Archive

PathB == <<"a", "\\", "b", ".", "c">>
PathBShouted == <<"/", "A", "/", "B", ".", "C", "\\">>
PathD == <<"a", "\\", "d", ".", "c">>                    \* collides with b
PathLong == <<"a", "\\", "b", ".", "c", "c", "c">>
PathLonger == <<"a", "\\", "b", ".", "c", "c", "c", "c">>  \* collides
PathDotted == <<"a", ".", "b", "\\", "c">>      \* the dot of a directory
PathRoot == <<"b">>
PathEmpty == <<"/", "\\">>
(* Beyond ASCII: two characters of more than one byte, the name of a real  *)
(* archive in the test of hashing.rs, a character broken off by a dot, and *)
(* two names that are listed alike.                                        *)
PathUtf8 == <<"B", "C3", "A9", "E2", "82", "AC">>
PathLatin == <<"a", "\\", "A", "ED", "a", ".", "c">>
PathBroken == <<"a", "E2", "82", ".", "E2", "c">>
PathAlike == <<"a", "ED", ".", "ED", "c">>
PathTooLong == <<"a", "\\", "b", "b", "b", "b", "b", "b", ".", "c">>

MCUtf8 ==
  {<<byte>> : byte \in {"a", "b", "c", "d", ".", "\\"}}
    \cup {<<"C3", "A9">>, <<"E2", "82", "AC">>, <<"ED", "95", "9C">>,
          <<"EF", "BF", "BD">>}
MCReplacement == <<"EF", "BF", "BD">>

MCCrc(bytes) == IF bytes = <<"d">> THEN <<"b">> ELSE bytes

(* Compressible data shrinks to a third, but the codec has its own bytes.  *)
MCPackedSize(codec_, size) ==
  IF codec_ = "lz4" THEN size \div 2 + 1 ELSE size \div 3 + 8

Data(of, size) ==
  IF size = 0 THEN Nothing ELSE [of |-> of, from |-> 0, size |-> size]

File(path, size, compress) ==
  [path |-> path, data |-> Data(path, size), compress |-> compress]

MCFiles ==
  {File(PathB, 3, TRUE), File(PathBShouted, 5, FALSE), File(PathD, 1, TRUE),
   File(PathLong, 0, FALSE), File(PathLonger, 0, TRUE),
   File(PathDotted, MAX_CHUNK_UNPACKED, TRUE),
   File(PathRoot, MAX_CHUNK_UNPACKED + 1, TRUE),
   File(PathDotted, MAX_CHUNK_UNPACKED + 1, FALSE),
   File(PathRoot, U32_MAX + 1, FALSE), File(PathRoot, 36, FALSE),
   File(PathUtf8, 3, TRUE), File(PathLatin, 5, FALSE),
   File(PathBroken, 1, FALSE), File(PathAlike, 1, TRUE),
   File(PathEmpty, 1, TRUE), File(PathTooLong, 1, FALSE)}

(* A DDS file with its exact data, and the ways it may differ.             *)
Dds(of, width, height, mips, dxgi, cube) ==
  LET head == header(width, height, mips, dxgi, cube)
  IN head @@ [length |-> 148 + ExpectedData(head),
              data |-> [of |-> of, from |-> 148, size |-> ExpectedData(head)]]

Legacy(of, width, height, mips, pixel, cube) ==
  LET head == [header(width, height, mips, 0, cube) EXCEPT !.pixel = pixel]
  IN head @@ [length |-> 128 + ExpectedData(head),
              data |-> [of |-> of, from |-> 128, size |-> ExpectedData(head)]]

Small == Dds("small", 8, 8, 4, 71, FALSE)

BadDds ==
  {[Small EXCEPT !.magic = FALSE], [Small EXCEPT !.length = 100],
   [Small EXCEPT !.length = @ + 1], [Small EXCEPT !.length = 147],
   [Small EXCEPT !.shaped = FALSE], [Small EXCEPT !.array = 6],
   [Small EXCEPT !.dxgi = 250], [Small EXCEPT !.mips = 5],
   [Small EXCEPT !.width = 0], [Small EXCEPT !.pixel = "other"]}

GoodDds ==
  {Small, Dds("odd", 20, 6, 5, 28, FALSE),
   Dds("example", 1024, 1024, 11, 71, FALSE),
   Dds("four", 4096, 4096, 13, 71, FALSE),
   Dds("wide", 8192, 512, 14, 98, FALSE),
   Dds("tooLarge", 8192, 8192, 14, 71, FALSE),
   Dds("tooLargeToWrite", 8192, 4096, 1, 28, FALSE),
   Dds("cube", 16, 16, 5, 98, TRUE),
   Legacy("legacy", 512, 512, 1, "DXT1", FALSE),
   Legacy("plain", 1024, 512, 3, "R8", FALSE)}

Texture(path, dds) == [path |-> path, dds |-> dds]

MCTextures ==
  {Texture(PathB, dds) : dds \in BadDds \cup GoodDds}
    \cup {Texture(PathDotted, dds) :
            dds \in {Small, Dds("four", 4096, 4096, 13, 71, FALSE)}}
    \cup {Texture(PathBShouted, Small), Texture(PathD, Small),
          Texture(PathUtf8, Small), Texture(PathLatin, Small),
          Texture(PathEmpty, Small), Texture(PathTooLong, Small)}
=============================================================================
