----------------------------- MODULE PluginFile -----------------------------
(***************************************************************************)
(* esl-writer: a plugin is built by calls and serialized.  result and file *)
(* are what the last call returned.                                        *)
(***************************************************************************)
EXTENDS PluginFormat, PluginParser

CONSTANTS Texts, Ids, Groups,    \* what the calls are given
          MAX_MASTERS, MAX_GROUPS, \* how many of each the model adds
          MAX_CHANGED  \* how many settings it takes away from a new plugin

VARIABLES plugin, result, file
vars == <<plugin, result, file>>

Init ==
  /\ \E game \in Games : plugin = NewPlugin(game)
  /\ result = "none" /\ file = << >>

Changed(p) == {s \in DOMAIN p : p[s] # NewPlugin(p.game)[s]}

(* A call of the builder.                                                  *)
Builds(p) ==
  /\ Cardinality(Changed(p)) <= MAX_CHANGED
  /\ plugin' = p /\ result' = "none" /\ file' = << >>

Author(text) == Builds([plugin EXCEPT !.author = text])
Description(text) == Builds([plugin EXCEPT !.description = text])
Light(yes) == Builds([plugin EXCEPT !.is_light = yes])
MasterFlag(yes) == Builds([plugin EXCEPT !.is_master = yes])
NextObjectId(id) == Builds([plugin EXCEPT !.next_object_id = id])

Master(name) ==
  /\ Len(plugin.masters) < MAX_MASTERS
  /\ Builds([plugin EXCEPT !.masters = Append(@, name)])

AddGroup(group) ==
  /\ Len(plugin.groups) < MAX_GROUPS
  /\ Builds([plugin EXCEPT !.groups = Append(@, group)])

ToBytes ==
  /\ result' = PluginError(plugin)
  /\ file' = IF result' = "none" THEN to_bytes(plugin) ELSE << >>
  /\ UNCHANGED plugin

(* The carrier is built by hand, for a plugin nothing was set of.          *)
Carrier ==
  /\ Changed(plugin) = {}
  /\ result' = "none" /\ file' = carrier_plugin(plugin.game)
  /\ UNCHANGED plugin

Next ==
  \/ \E text \in Texts : Author(text) \/ Description(text) \/ Master(text)
  \/ \E yes \in BOOLEAN : Light(yes) \/ MasterFlag(yes)
  \/ \E id \in Ids : NextObjectId(id)
  \/ \E group \in Groups : AddGroup(group)
  \/ ToBytes \/ Carrier

Spec == Init /\ [][Next]_vars
-----------------------------------------------------------------------------
(* What a reader should find: every text, master and record that was       *)
(* added, in its order, and the count of groups and records together.      *)
TextField(sig, text) ==
  Optional(text, LAMBDA t : <<[sig |-> sig, data |-> Terminated(t)]>>)

MasterPair(name) ==
  TextField("MAST", name)
  \o (IF plugin.game = "Starfield" THEN << >>
      ELSE <<[sig |-> "DATA", data |-> [of |-> "zeros", from |-> 0, size |-> 8]]>>)

RecordRead(record) ==
  [sig |-> record.sig, flags |-> record.flags, form_id |-> record.form_id,
   fields |-> record.fields,
   form_version |-> IF record.form_version = Unset
                    THEN form_version[plugin.game] ELSE record.form_version]

GroupRead(group) ==
  [label |-> group.label,
   records |-> [i \in DOMAIN group.records |-> RecordRead(group.records[i])]]

(* What to_bytes returns parses to the plugin that was built, however the  *)
(* calls were ordered: sizes written back over placeholders lead from      *)
(* group to group and end with the file, a payload at the edge of sixteen  *)
(* bits keeps its length, and the count covers groups and records.  The    *)
(* carrier parses to the plugin nothing was set of.                        *)
ReadsBack ==
  file # << >> =>
    parse(Image(file)) =
      [flags |-> flags(plugin), form_version |-> form_version[plugin.game],
       hedr |-> [version |-> hedr_version[plugin.game],
                 num_records |-> FoldLeft(LAMBDA n, g : n + 1 + Len(g.records),
                                          0, plugin.groups),
                 next_object_id |-> plugin.next_object_id],
       header_fields |-> TextField("CNAM", plugin.author)
                         \o TextField("SNAM", plugin.description)
                         \o FlattenSeq([i \in DOMAIN plugin.masters |->
                                          MasterPair(plugin.masters[i])]),
       groups |-> [i \in DOMAIN plugin.groups |-> GroupRead(plugin.groups[i])],
       trailing |-> FALSE]
=============================================================================
