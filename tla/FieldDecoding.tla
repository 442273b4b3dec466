--------------------------- MODULE FieldDecoding ----------------------------
(***************************************************************************)
(* From the bytes of an instance to the fields of its object               *)
(* (hprof-engine: resolver.rs; hprof-parser: thread_resolution.rs          *)
(* extract_obj_refs; types.rs; java_types.rs).                             *)
(*                                                                         *)
(* The bytes of a field are written as [value, nth, of]: the nth of the    *)
(* `of` bytes of a value.  A reader that lost its place in the bytes takes *)
(* Garbage for a value.  A class dump is [id, super, fields, form]; fields *)
(* is a sequence of [name, type], and empty in a partial dump.             *)
(***************************************************************************)
EXTENDS HeapDump, SequencesExt

CONSTANT Garbage

NoClass == 0     (* super_class_id of the root of the hierarchy             *)
Null    == 0

\* value_byte_size: 0 for a type nobody knows.
TypeSize(type) ==
    CASE type = "ref" -> IdSize
      [] type = "int" -> 4
      [] type = "bool" -> 1
      [] OTHER -> 0

BytesOf(value, type) ==
    [k \in 1..TypeSize(type) |-> [value |-> value, nth |-> k, of |-> TypeSize(type)]]

\* The value read from n bytes after the first p.
ReadAt(data, p, n) ==
    IF \A k \in 1..n : data[p + k].nth = k /\ data[p + k].of = n
    THEN data[p + 1].value ELSE Garbage

-----------------------------------------------------------------------------
(* The super-class chain, from the class up, each class once.              *)

Chain(dumps, class) ==
    LET up[n \in 0..Cardinality(DOMAIN dumps)] ==
          IF n = 0 THEN IF class \in DOMAIN dumps THEN <<class>> ELSE <<>>
          ELSE LET s == up[n - 1]
               IN  IF s = <<>> THEN s
                   ELSE LET super == dumps[Last(s)].super
                        IN  IF super = NoClass \/ super \notin DOMAIN dumps
                               \/ super \in Range(s)
                            THEN s ELSE Append(s, super)
    IN  up[Cardinality(DOMAIN dumps)]

\* Mutant of FieldDefs: super-class fields first, as its comment has it.
FieldDefsRootFirst(dumps, class) ==
    FoldLeft(LAMBDA s, c : dumps[c].fields \o s, <<>>, Chain(dumps, class))

\* collect_fields: the fields of the class, then those of its super-classes.
Joined(s, t) == s \o t
FieldDefs(dumps, class) ==
    LET chain == Chain(dumps, class)
    IN  FoldLeft(Joined, <<>>, [i \in DOMAIN chain |-> dumps[chain[i]].fields])

\* decode_fields: the fields up to the first that the bytes do not hold or
\* whose type is unknown, each as [name, type, value].
ReadFields(data, defs) ==
    LET start(i) == FoldLeft(LAMBDA n, d : n + TypeSize(d.type), 0, SubSeq(defs, 1, i - 1))
        readable(i) == /\ TypeSize(defs[i].type) > 0
                       /\ start(i) + TypeSize(defs[i].type) <= Len(data)
        stuck == {i \in DOMAIN defs : ~readable(i)}
        n == IF stuck = {} THEN Len(defs) ELSE Least(stuck) - 1
    IN  [i \in 1..n |-> [name |-> defs[i].name, type |-> defs[i].type,
                         value |-> ReadAt(data, start(i), TypeSize(defs[i].type))]]

Decode(dumps, instance) ==
    ReadFields(instance.data, FieldDefs(dumps, instance.class))

IsRef(f) == f.type = "ref" /\ f.value # Null

\* extract_obj_refs: the non-null references held by fields of these names.
RefsNamed(fields, strings, names) ==
    {fields[i].value : i \in {j \in DOMAIN fields :
        IsRef(fields[j]) /\ fields[j].name \in DOMAIN strings
                         /\ strings[fields[j].name] \in names}}

\* The find_map of the engine: the value of the first field of that name and
\* type; a null reference is no reference.
FirstNamed(fields, names, name, type) ==
    LET hits == {i \in DOMAIN fields :
                   /\ fields[i].type = type
                   /\ type = "ref" => IsRef(fields[i])
                   /\ fields[i].name \in DOMAIN names
                   /\ names[fields[i].name] = name}
    IN  IF hits = {} THEN NotFound ELSE fields[Least(hits)].value
=============================================================================
