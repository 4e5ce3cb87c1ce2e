---------------------------- MODULE ArchivePaths ----------------------------
(***************************************************************************)
(* btdx/src/hashing.rs: the name an archive stores a path under and the    *)
(* key the engine looks it up by.  A path is a sequence of bytes, of which *)
(* the separators, the dots and the capitals of ASCII matter.              *)
(***************************************************************************)
EXTENDS Integers, Sequences, FiniteSetsExt

CONSTANTS Crc(_),      \* the CRC of a byte string: two may have the same
          PACKED_EXT   \* the bytes of an extension the key has room for

Separator == "\\"
LowerCase == [A |-> "a", B |-> "b", C |-> "c"]
Lowered(c) == IF c = "/" THEN Separator
              ELSE IF c \in DOMAIN LowerCase THEN LowerCase[c] ELSE c

Places(c, path) == {i \in DOMAIN path : path[i] = c}
LastPlace(c, path) == Max(Places(c, path) \cup {0})

(* Separators are stripped at both ends and kept, doubled or not, inside.  *)
normalize_path(path) ==
  LET lowered == [i \in DOMAIN path |-> Lowered(path[i])]
      kept == DOMAIN lowered \ Places(Separator, lowered)
  IN IF kept = {} THEN << >> ELSE SubSeq(lowered, Min(kept), Max(kept))

Parent(path) == SubSeq(path, 1, LastPlace(Separator, path) - 1)

Extension(path) ==
  LET dot == LastPlace(".", path)
  IN IF dot = 0 THEN << >> ELSE SubSeq(path, dot + 1, Len(path))

(* Empty when the last dot is one of a directory's name.                   *)
Stem(path) ==
  LET dot == LastPlace(".", path)
  IN SubSeq(path, LastPlace(Separator, path) + 1,
            IF dot = 0 THEN Len(path) ELSE dot - 1)

Key(name) ==
  [file |-> Crc(Stem(name)),
   extension |-> SubSeq(Extension(name), 1,
                        Min({Len(Extension(name)), PACKED_EXT})),
   directory |-> Crc(Parent(name))]

HashAsGiven(path) == [name |-> normalize_path(path), hash |-> Key(path)]  \* a fault: the key of the path as it was given
hash_file(path) ==
  LET name == normalize_path(path) IN [name |-> name, hash |-> Key(name)]
=============================================================================
