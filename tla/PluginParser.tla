---------------------------- MODULE PluginParser ----------------------------
(***************************************************************************)
(* The parser of the crate's own tests (tests/common/mod.rs): it goes by   *)
(* the sizes it finds, over a file or a slice [from, to) of one.  Where    *)
(* what it finds is no header it stops, and keeps Noise.                   *)
(***************************************************************************)
EXTENDS ByteImage

(* A loop that calls Step until reading.at reaches to; every step of these *)
(* takes six bytes or more.                                                *)
Reading(from) == [at |-> from, items |-> << >>]

Read(reading, size, item) ==
  [at |-> reading.at + size, items |-> Append(reading.items, item)]

Until(to, from, Step(_)) ==
  FoldLeft(LAMBDA r, i : IF r.at < to THEN Step(r) ELSE r, Reading(from),
           [i \in 1..((to - from) \div 6 + 1) |-> i])

GiveUp(to, reading) == [at |-> to, items |-> Append(reading.items, Noise)]

NextField(image, to, r) ==
  LET head == Get(image, r.at, 6)
      real == Get(image, r.at + 6, 4).real_size
      realHead == Get(image, r.at + 10, 6)
  IN CASE head = Noise -> GiveUp(to, r)
       [] head.sig = "XXXX" ->
            Read(r, 16 + real, [sig |-> realHead.sig,
                                data |-> Get(image, r.at + 16, real)])
       [] OTHER -> Read(r, 6 + head.size,
                        [sig |-> head.sig,
                         data |-> Get(image, r.at + 6, head.size)])

parse_fields(image, from, to) ==
  Until(to, from, LAMBDA r : NextField(image, to, r)).items

NextRecord(image, to, r) ==
  LET head == Get(image, r.at, 24)
  IN IF head = Noise \/ "data_size" \notin DOMAIN head THEN GiveUp(to, r)
     ELSE Read(r, 24 + head.data_size,
               [sig |-> head.sig, flags |-> head.flags,
                form_id |-> head.form_id,
                form_version |-> head.form_version,
                fields |-> parse_fields(image, r.at + 24,
                                        r.at + 24 + head.data_size)])

parse_records(image, from, to) ==
  Until(to, from, LAMBDA r : NextRecord(image, to, r)).items

NextGroup(image, r) ==
  LET head == Get(image, r.at, 24)
  IN IF head = Noise \/ "label" \notin DOMAIN head THEN GiveUp(image.len, r)
     ELSE Read(r, head.size,
               [label |-> head.label,
                records |-> parse_records(image, r.at + 24, r.at + head.size)])

(* The file ends with its last group, to the byte.                         *)
parse(image) ==
  LET head == Get(image, 0, 24)
      body == 24 + head.data_size
      fields == parse_fields(image, 24, body)
      groups == Until(image.len, body, LAMBDA r : NextGroup(image, r))
  IN [flags |-> head.flags, form_version |-> head.form_version,
      hedr |-> fields[1].data, header_fields |-> Tail(fields),
      groups |-> groups.items, trailing |-> groups.at # image.len]
=============================================================================
