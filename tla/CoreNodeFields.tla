---------------------------- MODULE CoreNodeFields ----------------------------
(***************************************************************************)
(* How a field of a core node message travels                              *)
(* (core-node-api/src/encoding.rs and the encode and decode of each        *)
(* message).  A leaf is a table: the values a sender may hold, what is put *)
(* on the wire for each, the wires a receiver may meet and what it reads   *)
(* in each.  A Cap'n Proto field that nobody set holds its default, so an  *)
(* absent value and an empty one look alike on the wire.                   *)
(*                                                                         *)
(* Leaf fields: held, put, wires, get; `usual`, the value held in a        *)
(* message of which another field is varied; `sound`, the values that mean *)
(* something and mean one thing; `unset`, for a field that older peers do  *)
(* not send, what is then on the wire.                                     *)
(*                                                                         *)
(* An operator introduced by "Slip" is a wrong version of the one after    *)
(* it; nothing uses it but the runs that show which property would notice. *)
(***************************************************************************)
EXTENDS Integers, Sequences

(* The length of a list is a 32 bit number (capnp_list_len); here MaxItems.  *)
CONSTANT MaxItems

ASSUME MaxItemsAssumption == MaxItems \in Nat \ {0}

Absent == <<>>
Given(v) == <<v>>

Took(v) == [ok |-> TRUE, is |-> v]
NotTaken == [ok |-> FALSE]

Leaf(put, get, sound, usual) ==
  [kind |-> "leaf", put |-> put, get |-> get, sound |-> sound, usual |-> usual,
   unset |-> {}]
AddedLater(leaf, unset) == [leaf EXCEPT !.unset = {unset}]

-----------------------------------------------------------------------------
(* Text, numbers, flags                                                      *)

Empty == ""
Blank == " "
Padded == " x"
SomeTexts == {Empty, Blank, "x", Padded}
Trimmed(t) == IF t = Padded THEN "x" ELSE IF t = Blank THEN Empty ELSE t

Taken(S) == [v \in S |-> Took(v)]
AsItIs(S, usual) == Leaf(Taken(S), Taken(S), S, usual)

TextField == AsItIs(SomeTexts, "x")
FlagField == AsItIs(BOOLEAN, TRUE)
NumberField == AsItIs({0, 1, 2}, 1)

(* Slip: a text that was not set is read as an empty one.                    *)
TextIsThere(t) == Given(t)

(* optional_text: an empty text is no text.                                  *)
OptionalText(t) == IF t = Empty THEN Absent ELSE Given(t)
TextOr(o, t) == IF o = Absent THEN t ELSE o[1]
Options == {Absent} \cup {Given(t) : t \in SomeTexts}
OptionalTextField ==
  Leaf([o \in Options |-> Took(TextOr(o, Empty))],
       [t \in SomeTexts |-> Took(OptionalText(t))], Options \ {Given(Empty)}, Given("x"))

(* NodeSource::decode_git trims the reference it reads.                      *)
GitRefField ==
  Leaf([o \in Options |-> Took(TextOr(o, Empty))],
       [t \in SomeTexts |-> Took(OptionalText(Trimmed(t)))], {Absent, Given("x")}, Given("x"))

(* Slip: the digest is not trimmed.                                          *)
AsTyped(o) == OptionalText(TextOr(o, Empty))

(* normalize_http_sha256 trims the digest on both sides.                     *)
NormalizeHttpSha256(o) == OptionalText(Trimmed(TextOr(o, Empty)))
HttpSha256Field ==
  Leaf([o \in Options |-> Took(TextOr(NormalizeHttpSha256(o), Empty))],
       [t \in SomeTexts |-> Took(NormalizeHttpSha256(Given(t)))], {Absent, Given("x")}, Given("x"))

(* A number whose zero stands for none.                                      *)
Counts == {0, 1, 2}
Numbers == {Absent} \cup {Given(n) : n \in Counts}
OptionalNumberField ==
  Leaf([o \in Numbers |-> Took(TextOr(o, 0))],
       [n \in Counts |-> Took(IF n = 0 THEN Absent ELSE Given(n))],
       Numbers \ {Given(0)}, Given(1))

(* with_default, with_timeout_default: zero is read as the default.          *)
DefaultedNumberField(default) ==
  LET Values == Counts \cup {default} IN
  AddedLater(Leaf(Taken(Values), [n \in Values |-> Took(IF n = 0 THEN default ELSE n)],
                  Values \ {0}, 1), 0)

(* A key, or a launcher's name, that may not be empty.                       *)
NonEmptyField ==
  Leaf(Taken(SomeTexts), [t \in SomeTexts |-> IF t = Empty THEN NotTaken ELSE Took(t)],
       SomeTexts \ {Empty}, "x")
DatastoreKeyField == [NonEmptyField EXCEPT !.put = Taken(SomeTexts \ {Empty})]

-----------------------------------------------------------------------------
(* Paths: one of each sort, and one that is not UTF-8                        *)

NotUtf8 == "a\\xff"
Replaced == "a?"
PathTexts == {Empty, "a", "/a", Replaced}
Paths == PathTexts \cup {NotUtf8}
Lossy(p) == IF p = NotUtf8 THEN Replaced ELSE p
PathSent == [p \in Paths |-> Took(Lossy(p))]
PathsBut(S) == [p \in PathTexts |-> IF p \in S THEN NotTaken ELSE Took(p)]

PathField == Leaf(PathSent, PathsBut({}), PathTexts, "/a")
(* decode_fs_path, decode_absolute_fs_path                                   *)
FsPathField == Leaf(PathSent, PathsBut({Empty}), PathTexts \ {Empty}, "/a")
AbsoluteFsPathField == Leaf(PathSent, PathsBut({Empty, "a", Replaced}), {"/a"}, "/a")
(* NodeInitRequest refuses to send a path it would have to alter.            *)
Utf8PathField ==
  [PathField EXCEPT !.put = [p \in Paths |-> IF p = NotUtf8 THEN NotTaken ELSE Took(p)]]
OptionalPaths == {Absent} \cup {Given(p) : p \in Paths}
OptionalPathField ==
  Leaf([o \in OptionalPaths |-> Took(Lossy(TextOr(o, Empty)))],
       [p \in PathTexts |-> Took(OptionalText(p))],
       {Absent} \cup {Given(p) : p \in PathTexts \ {Empty}}, Given("/a"))

-----------------------------------------------------------------------------
(* Names of a closed set, on the wire as a text or as a Cap'n Proto enum:    *)
(* any other is refused.  An enum that nobody set is its first.              *)

Unknown == "?"
NamedField(names, usual) ==
  Leaf(Taken(names),
       [n \in names \cup {Empty, Unknown} |-> IF n \in names THEN Took(n) ELSE NotTaken],
       names, usual)
EnumField(names, usual) ==
  Leaf(Taken(names),
       [n \in names \cup {Unknown} |-> IF n \in names THEN Took(n) ELSE NotTaken],
       names, usual)

(* Toolchain::from_str takes any letter case; nothing else puts "UV".        *)
ToolchainField ==
  Leaf(Taken({"cargo", "uv"}),
       [n \in {"cargo", "uv", "UV", Unknown, Empty} |->
          IF n \in {"cargo", "uv"} THEN Took(n) ELSE IF n = "UV" THEN Took("uv") ELSE NotTaken],
       {"cargo", "uv"}, "uv")

(* NodeSource::decode_git, decode_http: the address must parse, and a web    *)
(* address must be one.                                                      *)
GitUrlField ==
  Leaf(Taken({"git"}), [u \in {Empty, "git"} |-> IF u = "git" THEN Took(u) ELSE NotTaken],
       {"git"}, "git")
WebUrls == {"http:", "https:"}
HttpUrlField ==
  Leaf(Taken(WebUrls \cup {"ftp:"}),
       [u \in WebUrls \cup {"ftp:", Empty, "x"} |-> IF u \in WebUrls THEN Took(u) ELSE NotTaken],
       WebUrls, "http:")

(* A name or a tag as the repositories take it (config::repo_node_id): one   *)
(* of the right form, one of the wrong.                                      *)
RepoNodeField ==
  Leaf(Taken({Empty, "x", Padded}),
       [t \in {Empty, "x", Padded} |-> IF t = "x" THEN Took(t) ELSE NotTaken], {"x"}, "x")

(* A configuration as JSON5 text: what cannot be parsed is refused.          *)
ConfigField ==
  Leaf(Taken({"config"}),
       [t \in {Empty, "config", Unknown} |-> IF t = "config" THEN Took(t) ELSE NotTaken],
       {"config"}, "config")
(* No bindings are an empty text, not an empty object.                       *)
SlotBindingsField ==
  Leaf([b \in {{}, {"slot"}} |-> Took(IF b = {} THEN Empty ELSE "bindings")],
       [t \in {Empty, "bindings", Unknown} |->
          IF t = Empty THEN Took({}) ELSE IF t = "bindings" THEN Took({"slot"}) ELSE NotTaken],
       {{}, {"slot"}}, {"slot"})

(* Slip: what an older peer leaves out is FALSE.                             *)
SickUnlessSaid == AddedLater(FlagField, FALSE)

(* An older peer does not know the flag: the schema's default is TRUE.       *)
HealthyField == AddedLater(FlagField, TRUE)

-----------------------------------------------------------------------------
(* Fields of fields.  An arm of a choice is a field with a name; `aligned`   *)
(* names two lists that must be equally long, on both sides.                 *)

Struct(fields) == [kind |-> "struct", fields |-> fields, aligned |-> {}]
Aligned(s, a, b) == [s EXCEPT !.aligned = {<<a, b>>}]
ListOf(s) == [kind |-> "list", of |-> s, most |-> MaxItems]
OptionOf(s) == [kind |-> "list", of |-> s, most |-> 1]
ChoiceOf(arms) == [kind |-> "choice", arms |-> arms]
Void == Struct([f \in {} |-> TextField])
(* A key of a JSON object that may be missing (serde(default)); `skips` if   *)
(* the default is not written at all.                                        *)
DefaultsTo(s, default, skips) ==
  [kind |-> "defaults", of |-> s, default |-> default, skips |-> skips]

EnvVars == ListOf(Struct([key |-> TextField, value |-> TextField]))

(* The first that is refused refuses the whole.                              *)
Gather(parts) ==
  IF \A i \in DOMAIN parts : parts[i].ok
  THEN Took([i \in DOMAIN parts |-> parts[i].is]) ELSE NotTaken
(* The value of a choice is a record of its one arm.                         *)
ArmOf(v) == CHOOSE a \in DOMAIN v : TRUE
Chosen(a, v) == [x \in {a} |-> v]
InLine(s, v) == \A p \in s.aligned : Len(v[p[1]]) = Len(v[p[2]])

RECURSIVE Put(_, _)
Put(s, v) ==
  CASE s.kind = "leaf" -> s.put[v]
    [] s.kind = "struct" ->
         IF InLine(s, v) THEN Gather([f \in DOMAIN s.fields |-> Put(s.fields[f], v[f])])
         ELSE NotTaken
    [] s.kind = "list" ->
         IF Len(v) <= s.most THEN Gather([i \in DOMAIN v |-> Put(s.of, v[i])]) ELSE NotTaken
    [] s.kind = "choice" -> Gather(Chosen(ArmOf(v), Put(s.arms[ArmOf(v)], v[ArmOf(v)])))
    [] s.kind = "defaults" ->
         IF s.skips /\ v = s.default THEN Took(Absent) ELSE Gather(<<Put(s.of, v)>>)

RECURSIVE Get(_, _)
Get(s, w) ==
  CASE s.kind = "leaf" -> s.get[w]
    [] s.kind = "struct" ->
         LET read == Gather([f \in DOMAIN s.fields |-> Get(s.fields[f], w[f])])
         IN  IF read.ok => InLine(s, read.is) THEN read ELSE NotTaken
    [] s.kind = "list" -> Gather([i \in DOMAIN w |-> Get(s.of, w[i])])
    [] s.kind = "choice" ->
         LET a == ArmOf(w) IN
         IF a \in DOMAIN s.arms THEN Gather(Chosen(a, Get(s.arms[a], w[a]))) ELSE NotTaken
    [] s.kind = "defaults" -> IF w = Absent THEN Took(s.default) ELSE Get(s.of, w[1])
=============================================================================
