----------------------------- MODULE NodeArguments -----------------------------
(***************************************************************************)
(* From the manifest to the arguments a node runs with: the parameters     *)
(* peppy.json5 declares and how they are parsed, the arguments of a launch,*)
(* the defaults the daemon fills in before it writes the launch file       *)
(* (peppy-config-model/src/common.rs, node/types.rs, node/parse.rs), the   *)
(* fingerprint that ties the generated code to the manifest                *)
(* (fingerprint.rs), and what the node makes of all that when it starts    *)
(* (peppylib-rs/src/runtime/processor.rs).                                 *)
(*                                                                         *)
(* A JSON5 value is a tree, that is, a function from the places it has to  *)
(* what is there: a place is the sequence of steps from the root, through  *)
(* fields of objects and elements of arrays.  So what the code does by     *)
(* recursion is said here of all places at once.  t tells the variant of   *)
(* AnyType, n the number of an Int or a UInt.  Integers have scaled widths *)
(* that keep the order of the real bounds; of a float is kept which whole  *)
(* number it is, and if it is none, or one of more than 64 bits, only the  *)
(* magnitude.                                                              *)
(*                                                                         *)
(* An operator introduced by "Slip" is a wrong version of the one after    *)
(* it; nothing uses it but the runs that show which property would notice. *)
(***************************************************************************)
EXTENDS Integers, Sequences

CONSTANTS
  Manifests,     \* parameters as written in peppy.json5, with a mount's references
  UserArguments, \* arguments of a launch
  EditsMidStart, \* may peppy.json5 change between a node's two reads of it?
  MaxEdits       \* bound of the model: edits of peppy.json5

ASSUME ArgumentsAssumption == EditsMidStart \in BOOLEAN /\ MaxEdits \in Nat

VARIABLES
  manifestFile,  \* peppy.json5 as it is now
  fingerprint,   \* of the manifest the code was generated from, or NoManifest
  edits,         \* edits of peppy.json5 so far
  given,         \* the arguments of the launch
  launchedFrom,  \* the manifest the daemon launched by (history)
  launchFile,    \* those the daemon wrote, or Nothing
  nodeAt,        \* of the process: off, checked, running, refused
  nodeMode,      \* daemon or standalone
  schema,        \* the parameters the node read
  arguments      \* the validated arguments

argVars == <<manifestFile, fingerprint, edits, given, launchedFrom, launchFile, nodeAt, nodeMode,
             schema, arguments>>

-----------------------------------------------------------------------------
(* The bounds of the integers, scaled: u8 and i8 have 2 bits, u64 and i64    *)
(* have 5; between them is the largest integer f32 holds without loss.       *)
LowestOf(kind) == [u8 |-> 0, i8 |-> -2, i64 |-> -16, u64 |-> 0][kind]
HighestOf(kind) == [u8 |-> 3, i8 |-> 1, i64 |-> 15, u64 |-> 31][kind]
IntegerKinds == {"u8", "i8", "i64", "u64"}
F32_LOSSLESS_INT_LIMIT == 8

(* AnyType                                                                   *)

Text(s) == [t |-> "string", s |-> s]
Signed(n) == [t |-> "int", n |-> n]
Unsigned(n) == [t |-> "uint", n |-> n]
Float(size) == [t |-> "float", size |-> size]  \* fits (f32), huge, infinite
Whole(n) == [t |-> "float", size |-> "whole", n |-> n]

AnyType ==
  [t : {"null", "object"}] \cup [t : {"bool"}, b : BOOLEAN] \cup [t : {"string"}, s : STRING]
    \cup [t : {"array"}, len : Nat] \cup [t : {"int"}, n : LowestOf("i64")..HighestOf("i64")]
    \cup [t : {"uint"}, n : 0..HighestOf("u64")]
    \cup [t : {"float"}, size : {"whole"}, n : LowestOf("i64")..HighestOf("u64")]
    \cup [t : {"float"}, size : {"fits", "huge", "infinite"}]

(* The steps from a value to what it holds.                                  *)
Field(k) == <<"field", k>>
Item(i) == <<"item", i>>
Steps == ({"field"} \X STRING) \cup ({"item"} \X Nat)

Upto(path, n) == SubSeq(path, 1, n)

(* A tree has whatever is on the way to one of its places: the arrays that   *)
(* hold its items, the objects that hold its fields.                         *)
IsTree(v) ==
  /\ <<>> \in DOMAIN v
  /\ \A p \in DOMAIN v :
       /\ v[p] \in AnyType /\ p \in Seq(Steps)
       /\ \A n \in 0..(Len(p) - 1) :
            /\ Upto(p, n) \in DOMAIN v
            /\ v[Upto(p, n)].t = IF p[n + 1][1] = "item" THEN "array" ELSE "object"

IsObject(v) == IsTree(v) /\ v[<<>>] = [t |-> "object"]

Nothing == [p \in {<<>>} |-> [t |-> "null"]]

(* The steps that lead on from a place.                                      *)
StepsFrom(tree, p) ==
  {q[Len(q)] : q \in {q \in DOMAIN tree : Len(q) = Len(p) + 1 /\ Upto(q, Len(p)) = p}}

ASSUME TreesAssumption ==
  /\ \A args \in UserArguments : IsObject(args)
  /\ \A m \in Manifests :
       IsObject(m.parameters) /\ \A path \in m.references : path \in Seq(STRING)

(* TypeToken, and the names parse_type_token takes for one.                  *)
TypeToken == {"bool", "string", "bytes", "time", "u8", "i8", "i64", "u64", "f32", "f64"}

ParseTypeToken(name) ==
  CASE name = "str"    -> "string"
    [] name = "float"  -> "f32"
    [] name = "double" -> "f64"
    [] OTHER           -> name

Magnitude(n) == IF n < 0 THEN -n ELSE n

(* check_unsigned_range and check_signed_range.                              *)
IntegerFits(v, kind) ==
  v.t \in {"int", "uint"} /\ v.n >= LowestOf(kind) /\ v.n <= HighestOf(kind)

(* check_f32: of integers, those f32 holds without loss; of floats any that  *)
(* is not too large, a whole one too.                                        *)
F32Lossless(n) == Magnitude(n) <= F32_LOSSLESS_INT_LIMIT

F32Fits(v) ==
  \/ v.t = "float" /\ v.size \in {"fits", "whole"}
  \/ v.t \in {"int", "uint"} /\ F32Lossless(v.n)

MatchesToken(v, kind) ==
  \/ kind = "bool"   /\ v.t = "bool"
  \/ kind = "string" /\ v.t = "string"
  \/ kind = "bytes"  /\ v.t \in {"string", "array"}
  \/ kind = "time"   /\ v.t \in {"int", "uint"}
  \/ kind = "f32"    /\ F32Fits(v)
  \/ kind = "f64"    /\ v.t \in {"float", "int", "uint"}
  \/ kind \in IntegerKinds /\ IntegerFits(v, kind)

-----------------------------------------------------------------------------
(* ParameterSpec, parsed: a tree of its own, in which one step leads to what *)
(* all elements of an array have in common.                                  *)

NoDefault == [t |-> "no_default"]
NotADefault == [t |-> "bad_default"]
Unparsed == [shape |-> "bad"]
BadSpec == [s \in {<<>>} |-> Unparsed]
Group == [shape |-> "group"]
Primitive(kind, default) == [shape |-> "primitive", kind |-> kind, default |-> default]

Each == <<"each">>

(* Where the spec of a place of a value is, and where a spec is written.     *)
PlaceOf(p) == [i \in DOMAIN p |-> IF p[i][1] = "item" THEN Each ELSE p[i]]
WrittenAt(s) == [i \in DOMAIN s |-> IF s[i] = Each THEN Field("$items") ELSE s[i]]

AsFloat(v) == IF v.t = "float" THEN v ELSE Whole(v.n)

(* Slip: the upper bound of an integer default is left out.                  *)
LowerBoundOnly(kind, raw) ==
  IF raw.t \in {"int", "uint"} /\ raw.n >= LowestOf(kind)
  THEN IF LowestOf(kind) = 0 THEN Unsigned(raw.n) ELSE Signed(raw.n)
  ELSE NotADefault

(* bounded_uint_default and bounded_int_default.                             *)
IntegerDefault(kind, raw) ==
  IF IntegerFits(raw, kind)
  THEN IF LowestOf(kind) = 0 THEN Unsigned(raw.n) ELSE Signed(raw.n)
  ELSE NotADefault

ParseDefaultValue(kind, raw) ==
  CASE kind \in {"bool", "string"} -> IF raw.t = kind THEN raw ELSE NotADefault
    [] kind \in {"bytes", "time"}  -> NotADefault
    [] kind = "f32"                -> IF F32Fits(raw) THEN AsFloat(raw) ELSE NotADefault
    [] kind = "f64"                -> IF raw.t \in {"float", "int", "uint"}
                                      THEN AsFloat(raw) ELSE NotADefault
    [] OTHER                       -> IntegerDefault(kind, raw)

SchemaKeys == {"$type", "$default", "$items", "$length", "$optional"}

(* The object at r has these fields, and none of those but the allowed ones. *)
Has(raw, r, k) == Append(r, Field(k)) \in DOMAIN raw
Get(raw, r, k) == raw[Append(r, Field(k))]
HasOnly(raw, r, keys) == StepsFrom(raw, r) \subseteq {Field(k) : k \in keys}

ParsePrimitiveObject(raw, r) ==
  LET kind    == ParseTypeToken(Get(raw, r, "$type").s)
      default == IF Has(raw, r, "$default")
                 THEN ParseDefaultValue(kind, Get(raw, r, "$default")) ELSE NoDefault
  IN  IF HasOnly(raw, r, {"$type", "$default"}) /\ kind \in TypeToken /\ default # NotADefault
      THEN Primitive(kind, default) ELSE Unparsed

ParseArraySpec(raw, r) ==
  LET length == IF Has(raw, r, "$length") THEN {Get(raw, r, "$length")} ELSE {}
  IN  IF /\ HasOnly(raw, r, {"$type", "$items", "$length"}) /\ Has(raw, r, "$items")
         /\ \A l \in length : l.t \in {"int", "uint"} /\ l.n >= 0
      THEN [shape |-> "array", length |-> {l.n : l \in length}] ELSE Unparsed

(* parse_group_object, and parse_explicit_group with its $type.              *)
ParseGroup(raw, r) ==
  IF \E k \in SchemaKeys \ {"$type"} : Has(raw, r, k) THEN Unparsed ELSE Group

(* What is written at r, by itself.  At the root is ParameterSchema: a group *)
(* whose names are not looked at.                                            *)
SpecWritten(raw, r) ==
  IF r = <<>> THEN Group
  ELSE IF raw[r].t = "string"
  THEN IF ParseTypeToken(raw[r].s) \in TypeToken
       THEN Primitive(ParseTypeToken(raw[r].s), NoDefault) ELSE Unparsed
  ELSE IF raw[r].t # "object" THEN Unparsed
  ELSE IF ~Has(raw, r, "$type") THEN ParseGroup(raw, r)
  ELSE IF Get(raw, r, "$type").t # "string" THEN Unparsed
  ELSE CASE Get(raw, r, "$type").s = "array"  -> ParseArraySpec(raw, r)
         [] Get(raw, r, "$type").s = "object" -> ParseGroup(raw, r)
         [] OTHER -> ParsePrimitiveObject(raw, r)

(* Groups are parsed field by field, arrays for their items.                 *)
ParsedIn(raw, r, step) ==
  LET spec == SpecWritten(raw, r)
  IN  \/ spec.shape = "group" /\ step # Each /\ (step = Field("$type") => r = <<>>)
      \/ spec.shape = "array" /\ step = Each

SpecPlaces(raw) ==
  {s \in {[i \in DOMAIN r |-> IF i > 1 /\ r[i] = Field("$items") THEN Each ELSE r[i]] :
             r \in DOMAIN raw} :
     \A n \in 0..(Len(s) - 1) : ParsedIn(raw, WrittenAt(Upto(s, n)), s[n + 1])}

ParameterSpecFromAny(raw) ==
  LET spec == [s \in SpecPlaces(raw) |-> SpecWritten(raw, WrittenAt(s))]
  IN  IF \E s \in DOMAIN spec : spec[s] = Unparsed THEN BadSpec ELSE spec

(* resolve_parameter_path and resolve_argument_path: a path names fields.    *)
Fields(path) == [i \in DOMAIN path |-> Field(path[i])]

NamesText(spec, path) ==
  /\ Fields(path) \in DOMAIN spec
  /\ spec[Fields(path)].shape = "primitive" /\ spec[Fields(path)].kind = "string"

SchemaOf(m) == ParameterSpecFromAny(m.parameters)

(* NodeConfigParser: the schema, and validate_parameter_refs.                *)
ParseManifest(m) ==
  IF \A path \in m.references : NamesText(SchemaOf(m), path) THEN SchemaOf(m) ELSE BadSpec

-----------------------------------------------------------------------------
(* Arguments against a schema                                                *)

(* Of merge_defaults: p is an object where a group is declared, and has no   *)
(* field on the way to s, which is declared below.                           *)
Lacks(value, spec, p, s) ==
  /\ value[p].t = "object" /\ Len(p) < Len(s) /\ Upto(s, Len(p)) = PlaceOf(p)
  /\ spec[PlaceOf(p)].shape = "group" /\ Append(p, s[Len(p) + 1]) \notin DOMAIN value

Lacking(value, spec) ==
  {ps \in (DOMAIN value) \X (DOMAIN spec) : Lacks(value, spec, ps[1], ps[2])}

(* synthesize_default: where it finds nothing, and what it finds elsewhere.  *)
HasNoDefault(spec) ==
  spec.shape = "array" \/ (spec.shape = "primitive" /\ spec.default = NoDefault)

Synthesized(spec) == IF spec.shape = "primitive" THEN spec.default ELSE [t |-> "object"]

StillMissing(value, spec) == {ps \in Lacking(value, spec) : HasNoDefault(spec[ps[2]])}

(* p, and from there on the way to s.                                        *)
Onward(p, s) == p \o SubSeq(s, Len(p) + 1, Len(s))

(* merge_defaults, when nothing is missing.                                  *)
MergeDefaults(value, spec) ==
  LET filled == {Onward(ps[1], ps[2]) : ps \in Lacking(value, spec)}
  IN  [p \in DOMAIN value \cup filled |->
         IF p \in DOMAIN value THEN value[p] ELSE Synthesized(spec[PlaceOf(p)])]

(* validate_value_against_spec                                               *)
FitsAt(value, spec, p) ==
  LET declared == spec[PlaceOf(p)] IN
  \/ declared.shape = "primitive" /\ MatchesToken(value[p], declared.kind)
  \/ /\ declared.shape = "array" /\ value[p].t = "array"
     /\ \A l \in declared.length : value[p].len = l
  \/ /\ declared.shape = "group" /\ value[p].t = "object"
     /\ StepsFrom(value, p) = StepsFrom(spec, PlaceOf(p))

Valid(value, spec) ==
  \A p \in DOMAIN value : PlaceOf(p) \in DOMAIN spec => FitsAt(value, spec, p)

Resolved(ok, value) == [ok |-> ok, value |-> value]

(* RawNodeArguments::into_resolved, that is, validate_node_arguments.        *)
IntoResolved(args, spec) ==
  IF StillMissing(args, spec) # {} THEN Resolved(FALSE, Nothing)
  ELSE LET filled == MergeDefaults(args, spec)
       IN  IF Valid(filled, spec) THEN Resolved(TRUE, filled) ELSE Resolved(FALSE, Nothing)

(* apply_parameter_defaults: nothing is changed when a leaf is missing.      *)
ApplyParameterDefaults(args, spec) ==
  IF StillMissing(args, spec) = {} THEN MergeDefaults(args, spec) ELSE args

(* A value that was written to a file and read again: AnyType's variants are *)
(* tried in order, Int before UInt; and a float that is whole is written     *)
(* without a fraction, so that it is read as an integer                      *)
(* (save_json5_launch_config).                                               *)
IsWhole(v) == v.t = "float" /\ v.size = "whole"

AsInteger(n) == IF n <= HighestOf("i64") THEN Signed(n) ELSE Unsigned(n)

RereadAs(node) == IF node.t = "uint" \/ IsWhole(node) THEN AsInteger(node.n) ELSE node

Reread(value) == [p \in DOMAIN value |-> RereadAs(value[p])]

-----------------------------------------------------------------------------
(* Code generation, launch and start                                         *)

NoManifest ==
  [parameters |-> [p \in {<<>>} |-> [t |-> "object"]], references |-> {<<"none">>}]

EditManifest(m) ==
  /\ edits < MaxEdits /\ edits' = edits + 1
  /\ nodeAt = "checked" => EditsMidStart
  /\ manifestFile' = m
  /\ UNCHANGED <<fingerprint, given, launchedFrom, launchFile, nodeAt,
                 nodeMode, schema, arguments>>

(* peppygen (external) runs for a manifest that parses, and                  *)
(* generate_node_config_fingerprint notes which one it was.                  *)
GenerateCode ==
  /\ manifestFile # NoManifest /\ nodeAt = "off"
  /\ ParseManifest(manifestFile) # BadSpec
  /\ fingerprint' = manifestFile
  /\ UNCHANGED <<manifestFile, edits, given, launchedFrom, launchFile, nodeAt,
                 nodeMode, schema, arguments>>

(* The daemon (external) writes the launch file unless a leaf is missing.    *)
DaemonLaunches(args) ==
  LET spec == ParseManifest(manifestFile) IN
  /\ manifestFile # NoManifest /\ launchFile = Nothing /\ nodeAt = "off"
  /\ spec # BadSpec /\ StillMissing(args, spec) = {}
  /\ given' = args /\ launchedFrom' = manifestFile
  /\ launchFile' = Reread(ApplyParameterDefaults(args, spec))
  /\ UNCHANGED <<manifestFile, fingerprint, edits, nodeAt, nodeMode, schema,
                 arguments>>

(* new_daemon_from_path, up to validate_fingerprint.                         *)
StartFromDaemon ==
  /\ nodeAt = "off" /\ launchFile # Nothing
  /\ nodeMode' = "daemon"
  /\ nodeAt' = IF fingerprint = manifestFile THEN "checked" ELSE "refused"
  /\ UNCHANGED <<manifestFile, fingerprint, edits, given, launchedFrom,
                 launchFile, schema, arguments>>

Settle(answer) ==
  /\ arguments' = answer.value
  /\ nodeAt' = IF answer.ok THEN "running" ELSE "refused"

(* The rest of it reads the manifest again and validates.                    *)
ReadManifest ==
  /\ nodeAt = "checked" /\ schema' = SchemaOf(manifestFile)
  /\ Settle(IF schema' = BadSpec THEN Resolved(FALSE, Nothing)
            ELSE IntoResolved(launchFile, schema'))
  /\ UNCHANGED <<manifestFile, fingerprint, edits, given, launchedFrom,
                 launchFile, nodeMode>>

(* new_standalone: no fingerprint, no defaults from elsewhere.               *)
StartStandalone(args) ==
  /\ nodeAt = "off" /\ launchFile = Nothing /\ manifestFile # NoManifest
  /\ nodeMode' = "standalone" /\ given' = args /\ schema' = ParseManifest(manifestFile)
  /\ Settle(IF schema' = BadSpec THEN Resolved(FALSE, Nothing)
            ELSE IntoResolved(args, schema'))
  /\ UNCHANGED <<manifestFile, fingerprint, edits, launchedFrom, launchFile>>

ArgumentsInit ==
  /\ manifestFile = NoManifest /\ fingerprint = NoManifest /\ edits = 0
  /\ given = Nothing /\ launchedFrom = NoManifest /\ launchFile = Nothing
  /\ nodeAt = "off" /\ nodeMode = "none" /\ schema = BadSpec /\ arguments = Nothing

ArgumentsNext ==
  \/ \E m \in Manifests : EditManifest(m)
  \/ GenerateCode \/ StartFromDaemon \/ ReadManifest
  \/ \E args \in UserArguments : DaemonLaunches(args) \/ StartStandalone(args)

ArgumentsSpec == ArgumentsInit /\ [][ArgumentsNext]_argVars

-----------------------------------------------------------------------------
(* Whatever the launch named is as it was, anywhere; every other place is    *)
(* declared and at its default; and where a group is declared, there are all *)
(* of its fields and no others.                                              *)
KeepsAndFills(gave, spec, has) ==
  /\ \A p \in DOMAIN gave : p \in DOMAIN has /\ has[p] = gave[p]
  /\ \A p \in DOMAIN has \ DOMAIN gave :
       /\ PlaceOf(p) \in DOMAIN spec
       /\ ~HasNoDefault(spec[PlaceOf(p)]) /\ has[p] = RereadAs(Synthesized(spec[PlaceOf(p)]))
  /\ \A p \in DOMAIN has :
       PlaceOf(p) \in DOMAIN spec /\ spec[PlaceOf(p)].shape = "group" =>
         StepsFrom(has, p) = StepsFrom(spec, PlaceOf(p))

(* An integer is not checked as the float it was before: types of integers   *)
(* take it, and f32 refuses one that it may not hold (check_f32).            *)
ReadsOtherwise(v, kind) ==
  /\ IsWhole(v)
  /\ kind \in IntegerKinds \cup {"time"} \/ (kind = "f32" /\ ~F32Lossless(v.n))

ReadsAlike(value, spec) ==
  \A p \in DOMAIN value :
    PlaceOf(p) \in DOMAIN spec /\ spec[PlaceOf(p)].shape = "primitive" =>
      ~ReadsOtherwise(value[p], spec[PlaceOf(p)].kind)

(* "Any DefaultValue reaching downstream code is guaranteed compatible with  *)
(* its declared kind" (DefaultValue): where it was parsed, and, those that   *)
(* read otherwise apart, where the launch file is read.                      *)
DefaultsFit(spec) ==
  \A s \in DOMAIN spec :
    spec[s].shape = "primitive" /\ ~HasNoDefault(spec[s]) =>
      /\ MatchesToken(spec[s].default, spec[s].kind)
      /\ ReadsOtherwise(spec[s].default, spec[s].kind)
           \/ MatchesToken(RereadAs(spec[s].default), spec[s].kind)

(* Nothing ties the launch file to a manifest: what follows holds if the     *)
(* daemon launched by the one the node reads.                                *)
LaunchedByIt == nodeMode = "daemon" => SchemaOf(launchedFrom) = schema

(* A node that runs has every argument its manifest declares, those the      *)
(* launch named unchanged and the others at their declared defaults, up to   *)
(* the variant a number is read as; in daemon mode the manifest is the one   *)
(* its code was generated from (Processor, "validates the fingerprint        *)
(* matches compiled code").                                                  *)
RunsAsDeclared ==
  nodeAt = "running" =>
    /\ LaunchedByIt => KeepsAndFills(Reread(given), schema, Reread(arguments))
    /\ nodeMode = "daemon" => schema = SchemaOf(fingerprint)

(* Every default a manifest declares is of its type; and filling in the      *)
(* defaults at the daemon, writing the launch file and validating it again   *)
(* comes to the same as validating at once (apply_parameter_defaults),       *)
(* unless a whole float is among the values that reads otherwise.            *)
StartsIfLaunched ==
  /\ DefaultsFit(SchemaOf(manifestFile))
  /\ /\ nodeMode = "daemon" /\ schema # BadSpec /\ LaunchedByIt
     /\ ReadsAlike(MergeDefaults(given, schema), schema)
     => (nodeAt = "running") = IntoResolved(given, schema).ok

(* A mount that refers to parameters finds a text in the arguments of every  *)
(* node that runs (validate_parameter_refs, resolve_argument_path).          *)
MountsResolve ==
  nodeAt = "running" /\ schema = ParseManifest(manifestFile) =>
    \A path \in manifestFile.references :
      Fields(path) \in DOMAIN arguments /\ arguments[Fields(path)].t = "string"

(* What a launch is checked for holds when the node runs.                    *)
ArgumentsResolved == RunsAsDeclared /\ StartsIfLaunched /\ MountsResolve
=============================================================================
