---------------------------- MODULE PluginFormat ----------------------------
(***************************************************************************)
(* esl-writer: the bytes of a plugin.  What is written is a sequence of    *)
(* the fields of a ByteImage; payloads are slices of what the caller gave. *)
(* An operator named ...Error is the first check of the function of that   *)
(* name to fail, "none" if it succeeds.                                    *)
(***************************************************************************)
EXTENDS ByteImage

CONSTANTS U16_MAX, U32_MAX,  \* what the two kinds of size field have room for
          Unset              \* a text or a form version that was not given

(* Per game: game.rs.                                                      *)
Games == {"SkyrimSe", "Fallout4", "Starfield"}
hedr_version == [SkyrimSe |-> "1.71", Fallout4 |-> "1.0", Starfield |-> "0.96"]
light_flag == [SkyrimSe |-> 512, Fallout4 |-> 512, Starfield |-> 256]
form_version == [SkyrimSe |-> 44, Fallout4 |-> 131, Starfield |-> 552]
masters_have_data(game) == game # "Starfield"

FirstError(checks) ==
  LET failed == SelectSeq(checks, LAMBDA e : e # "none")
  IN IF failed = << >> THEN "none" ELSE failed[1]

ByteLen(out) == Total([i \in DOMAIN out |-> out[i].size])
-----------------------------------------------------------------------------
(* write.rs.  A size is cast to sixteen bits, whatever it is.              *)
FieldHead(sig, size) == Field(6, [sig |-> sig, size |-> size % (U16_MAX + 1)])

write_field(sig, payload) ==
  <<FieldHead(sig, payload.size), Field(payload.size, payload)>>

write_hedr(ver, num_records, next_object_id) ==
  <<FieldHead("HEDR", 12),
    Field(12, [version |-> ver, num_records |-> num_records,
               next_object_id |-> next_object_id])>>

(* Text is encoded to one byte per character, and ends with a NUL.         *)
Terminated(text) == [of |-> text.of, from |-> 0, size |-> text.chars + 1]

StringError(text) ==
  CASE text.has_nul                      -> "InteriorNul"
    [] ~text.win1252                     -> "Encoding"
    [] Terminated(text).size > U16_MAX   -> "StringTooLong"
    [] OTHER                             -> "none"

write_string_field(sig, text) == write_field(sig, Terminated(text))

write_record_header(sig, data_size, flags, form_id, ver) ==
  <<Field(24, [sig |-> sig, data_size |-> data_size, flags |-> flags,
               form_id |-> form_id, form_version |-> ver])>>
-----------------------------------------------------------------------------
(* record.rs.  A record's flags are the set of those that are on.          *)
TooLong(size) == IF size > U32_MAX THEN "RecordTooLong" ELSE "none"

PrefixedPastOne(data) == data.size > U16_MAX + 1  \* a fault: one byte too many is let through
NeedsPrefix(data) == data.size > U16_MAX

write_record_field(field) ==
  IF NeedsPrefix(field.data)
  THEN <<FieldHead("XXXX", 4), Field(4, [real_size |-> field.data.size]),
         FieldHead(field.sig, 0), Field(field.data.size, field.data)>>
  ELSE write_field(field.sig, field.data)

RecordFieldError(field) ==
  IF field.sig = "XXXX" THEN "ReservedFieldSignature" ELSE TooLong(field.data.size)

Body(record) ==
  FlattenSeq([k \in DOMAIN record.fields |-> write_record_field(record.fields[k])])

RecordError(record) ==
  IF "compressed" \in record.flags THEN "CompressedRecordUnsupported"
  ELSE FirstError([k \in DOMAIN record.fields |->
                     RecordFieldError(record.fields[k])]
                  \o <<TooLong(ByteLen(Body(record)))>>)

write_record(record, game) ==
  write_record_header(record.sig, ByteLen(Body(record)), record.flags,
                      record.form_id,
                      IF record.form_version = Unset THEN form_version[game]
                      ELSE record.form_version)
  \o Body(record)

GroupHeader(group) ==
  Field(24, [sig |-> "GRUP", size |-> 0, label |-> group.label])

Records(group, game) ==
  FlattenSeq([i \in DOMAIN group.records |-> write_record(group.records[i], game)])

is_nesting_required(label) == label \in {"CELL", "WRLD", "DIAL"}

GroupError(group, game) ==
  IF is_nesting_required(group.label) THEN "NestedGroupRequired"
  ELSE FirstError(
         [i \in DOMAIN group.records |->
            IF group.records[i].sig # group.label THEN "RecordTypeMismatch"
            ELSE RecordError(group.records[i])]
         \o <<IF 24 + ByteLen(Records(group, game)) > U32_MAX
              THEN "GroupTooLong" ELSE "none">>)

(* The size of a group is written over its placeholder, header included.   *)
GroupSize(out, start) == ByteLen(SubSeq(out, start, Len(out)))

write_group(out, group, game) ==
  LET start == Len(out) + 1
      written == out \o <<GroupHeader(group)>> \o Records(group, game)
  IN [written EXCEPT ![start].is.size = GroupSize(written, start)]
-----------------------------------------------------------------------------
(* plugin.rs.                                                              *)
NewPlugin(game) ==
  [game |-> game, is_master |-> TRUE, is_light |-> TRUE, author |-> Unset,
   description |-> Unset, masters |-> << >>, next_object_id |-> 1,
   groups |-> << >>]

flags(plugin) ==
  (IF plugin.is_master THEN 1 ELSE 0)
    + (IF plugin.is_light THEN light_flag[plugin.game] ELSE 0)

num_records(plugin) ==
  Len(plugin.groups)
    + Total([i \in DOMAIN plugin.groups |-> Len(plugin.groups[i].records)])

Optional(text, Written(_)) == IF text = Unset THEN << >> ELSE Written(text)

MasterFields(game, name) ==
  write_string_field("MAST", name)
  \o (IF masters_have_data(game)
      THEN write_field("DATA", [of |-> "zeros", from |-> 0, size |-> 8])
      ELSE << >>)

HeaderFields(plugin) ==
  write_hedr(hedr_version[plugin.game], num_records(plugin), plugin.next_object_id)
  \o Optional(plugin.author, LAMBDA t : write_string_field("CNAM", t))
  \o Optional(plugin.description, LAMBDA t : write_string_field("SNAM", t))
  \o FlattenSeq([i \in DOMAIN plugin.masters |->
                   MasterFields(plugin.game, plugin.masters[i])])

TextError(text) == IF text = Unset THEN "none" ELSE StringError(text)

PluginError(plugin) ==
  FirstError(<<IF num_records(plugin) > U32_MAX THEN "TooManyRecords" ELSE "none",
               TextError(plugin.author), TextError(plugin.description)>>
             \o [i \in DOMAIN plugin.masters |-> StringError(plugin.masters[i])]
             \o <<TooLong(ByteLen(HeaderFields(plugin)))>>
             \o [i \in DOMAIN plugin.groups |->
                   GroupError(plugin.groups[i], plugin.game)])

to_bytes(plugin) ==
  LET fields == HeaderFields(plugin)
      head == write_record_header("TES4", ByteLen(fields), flags(plugin), 0,
                                  form_version[plugin.game])
  IN FoldLeft(LAMBDA out, group : write_group(out, group, plugin.game),
              head \o fields, plugin.groups)

carrier_plugin(game) ==
  LET fields == write_hedr(hedr_version[game], 0, 1)
  IN write_record_header("TES4", ByteLen(fields), 1 + light_flag[game], 0,
                         form_version[game]) \o fields
=============================================================================
