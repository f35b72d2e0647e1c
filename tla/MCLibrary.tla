------------------------------- MODULE MCLibrary -------------------------------
(***************************************************************************)
(* The parts of the library that meet no other part's state, checked side  *)
(* by side: a behaviour is one of one part, chosen at the start.           *)
(***************************************************************************)
EXTENDS NodeLifecycle, PyNode, PyFutures, Topics, NodeArguments, ClockSync,
        Pacer, SimBridge

VARIABLE part  \* which one

Parts == {"node", "python", "futures", "topics", "arguments", "clock", "pacer", "bridge"}

mcSkews == -3..3

-----------------------------------------------------------------------------
(* Inputs of NodeArguments: each kind with defaults on both sides of its     *)
(* bounds, arrays and groups, and what a launch may give for them.           *)
Leaf(node) == [p \in {<<>>} |-> node]
Under(step, v) == {<<step>> \o p : p \in DOMAIN v}
Object(fields) ==
  [p \in {<<>>} \cup UNION {Under(Field(k), fields[k]) : k \in DOMAIN fields} |->
     IF p = <<>> THEN [t |-> "object"] ELSE fields[Head(p)[2]][Tail(p)]]
Array(items) ==
  [p \in {<<>>} \cup UNION {Under(Item(i), items[i]) : i \in DOMAIN items} |->
     IF p = <<>> THEN [t |-> "array", len |-> Len(items)] ELSE items[Head(p)[2]][Tail(p)]]

Str(s) == Leaf(Text(s))
Int64(n) == Leaf(Signed(n))
Typed(kind, default) ==
  Object([k \in {"$type", "$default"} |-> IF k = "$type" THEN Str(kind) ELSE Leaf(default)])
Listed(item, extra) ==
  Object([k \in {"$type", "$items"} \cup DOMAIN extra |->
            CASE k = "$type" -> Str("array") [] k = "$items" -> item
              [] OTHER -> extra[k]])
Only(key, v) == Object([k \in {key} |-> v])

Pairs == {Object([a |-> l, b |-> Typed("u8", Signed(3))]) :
            l \in {Str("string"), Typed("string", Text("d"))}}

Leaves ==
  {Str("double"), Str("u9"), Typed("bool", Signed(1)), Typed("u8", Signed(4)),
   Typed("u8", Signed(-1)), Typed("i8", Signed(-3)), Typed("u64", Unsigned(31)),
   Typed("float", Signed(9)), Typed("float", Whole(9)), Typed("f64", Float("infinite")),
   Typed("bytes", Text("x")), Only("$optional", Str("u8")),
   Object([k \in {"$type", "a"} |-> IF k = "$type" THEN Str("object") ELSE Str("time")])}

Lists == {Listed(Str("u8"), [k \in {"$length"} |-> Int64(1)])}
           \cup {Listed(p, [k \in {} |-> Nothing]) : p \in Pairs}

Declares(specs, paths) ==
  {[parameters |-> Only("p", s), references |-> paths] : s \in specs}

mcManifests ==
  Declares(Leaves \cup Lists, {}) \cup Declares(Pairs, {<<"p", "a">>})
    \cup Declares({Str("string"), Str("time")}, {<<"p">>})

Scalars == {Nothing, Str("u"), Int64(3), Int64(9)}
             \cup {Leaf(n) : n \in {Unsigned(31), Whole(3), Float("fits"), Float("huge")}}
Groups == {Only("a", v) : v \in {Str("u"), Int64(4)}}
            \cup {Only("b", Int64(4)), Only("c", Nothing)}

mcArguments ==
  {Object([k \in {} |-> Nothing]), Only("q", Nothing)}
    \cup {Only("p", v) : v \in Scalars \cup Groups \cup {Array(<<>>)}
                                \cup {Array(<<w>>) : w \in Groups \cup {Int64(3)}}}

-----------------------------------------------------------------------------
LibraryInit ==
  /\ part \in Parts
  /\ NodeInit /\ PyInit /\ FuturesInit /\ TopicsInit
  /\ ArgumentsInit /\ PacerInit /\ BridgeInit
  /\ ClockInit /\ (part # "clock" => localNow = 0 /\ skew = 0)

(* The state of every part but one stays.                                    *)
Others(p) ==
  /\ UNCHANGED part
  /\ (p # "node" => UNCHANGED nodeVars) /\ (p # "python" => UNCHANGED pyVars)
  /\ (p # "futures" => UNCHANGED futureVars)
  /\ (p # "topics" => UNCHANGED topicVars)
  /\ (p # "arguments" => UNCHANGED argVars)
  /\ (p # "clock" => UNCHANGED clockVars) /\ (p # "pacer" => UNCHANGED pacerVars)
  /\ (p # "bridge" => UNCHANGED bridgeVars)

LibraryNext ==
  \/ part = "node" /\ NodeNext /\ Others("node")
  \/ part = "python" /\ PyNext /\ Others("python")
  \/ part = "futures" /\ FuturesNext /\ Others("futures")
  \/ part = "topics" /\ TopicsNext /\ Others("topics")
  \/ part = "arguments" /\ ArgumentsNext /\ Others("arguments")
  \/ part = "clock" /\ ClockNext /\ Others("clock")
  \/ part = "pacer" /\ PacerNext /\ Others("pacer")
  \/ part = "bridge" /\ BridgeNext /\ Others("bridge")

libraryVars ==
  <<part, nodeVars, pyVars, futureVars, topicVars, argVars,
    clockVars, pacerVars, bridgeVars>>

LibrarySpec ==
  LibraryInit /\ [][LibraryNext]_libraryVars /\ NodeFairness /\ PyFairness
    /\ BridgeFairness
=============================================================================
