---------------------------- MODULE MCPluginFile ----------------------------
(***************************************************************************)
(* Plugins of up to two groups.  Size fields are scaled to 20 and 120, so  *)
(* that texts, fields, records and groups just fit, or just do not.        *)
(***************************************************************************)
EXTENDS PluginFile

Text(of, chars) ==
  [of |-> of, chars |-> chars, has_nul |-> FALSE, win1252 |-> TRUE]

MCTexts ==
  {Text("full", U16_MAX - 1), Text("over", U16_MAX),
   [Text("nul", 3) EXCEPT !.has_nul = TRUE, !.win1252 = FALSE],
   [Text("foreign", U16_MAX) EXCEPT !.win1252 = FALSE]}

Payload(of, size) ==
  [sig |-> of,
   data |-> IF size = 0 THEN Nothing
            ELSE [of |-> of, from |-> 0, size |-> size]]

Record(fields) ==
  [sig |-> "KYWD", flags |-> {}, form_id |-> 1, form_version |-> Unset,
   fields |-> fields]

Group(records) == [label |-> "KYWD", records |-> records]

Edges == Record(<<Payload("full", U16_MAX), Payload("over", U16_MAX + 1),
                  Payload("empty", 0)>>)

Deleted ==
  [Record(<<Payload("edid", 3)>>)
     EXCEPT !.flags = {"deleted"}, !.form_version = 0]

MCGroups ==
  {Group(<< >>), Group(<<Edges>>),
   Group(<<Record(<< >>), Deleted>>),
   Group(<<Edges, Edges>>),                               \* a group too long
   Group(<<Record(<<Payload("a", 50), Payload("b", 50)>>)>>),   \* a record
   Group(<<Record(<<Payload("huge", U32_MAX + 1)>>)>>),         \* a field
   Group(<<Record(<<[Payload("x", 3) EXCEPT !.sig = "XXXX"]>>)>>),
   Group(<<[Record(<< >>) EXCEPT !.flags = {"compressed"}]>>),
   Group(<<[Record(<< >>) EXCEPT !.sig = "GLOB"]>>),
   [Group(<< >>) EXCEPT !.label = "CELL"]}
=============================================================================
