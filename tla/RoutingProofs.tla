----------------------------- MODULE RoutingProofs -----------------------------
(***************************************************************************)
(* Proofs about key expressions: who receives what, for every set of words *)
(* that users choose from (WireRouting), what the mock adapter says of who *)
(* is alive (MockLiveliness), and the two adapters together (MCMessaging). *)
(***************************************************************************)
EXTENDS MCMessaging, MessagingProofs, ServiceCallProofs, NumberInduction

-----------------------------------------------------------------------------
(* Key expressions                                                           *)

(* As long as each other, and every chunk meets its counterpart.             *)
ChunksMeet(a, b) ==
  Len(a) = Len(b) /\ \A k \in 1..Len(a) : SingleChunkIntersect(a[k], b[k])

(* Without the wildcard of many chunks, two key expressions have a key in    *)
(* common when they are as long as each other and meet chunk by chunk: what  *)
(* zenoh's recursive match comes to on the keys of this repository.          *)
LEMMA IntersectPointwise ==
  ASSUME NEW Names, AnyChunks \notin Names, NEW a \in Seq(Names), NEW b \in Seq(Names)
  PROVE  KeyExprsIntersect(a, b) <=> ChunksMeet(a, b)
  <1> DEFINE Places == (1..Len(a) + 1) \X (1..Len(b) + 1)
             Rest(i, j) ==
               /\ Len(a) - i = Len(b) - j
               /\ \A k \in 0..(Len(a) - i) : SingleChunkIntersect(a[i + k], b[j + k])
             Body(f, i, j) ==
               IF i > Len(a) THEN \A k \in j..Len(b) : b[k] = AnyChunks
               ELSE IF j > Len(b) THEN \A k \in i..Len(a) : a[k] = AnyChunks
               ELSE IF AnyChunks \in {a[i], b[j]} THEN f[<<i + 1, j>>] \/ f[<<i, j + 1>>]
               ELSE SingleChunkIntersect(a[i], b[j]) /\ f[<<i + 1, j + 1>>]
             Meets(f) == f = [at \in Places |-> Body(f, at[1], at[2])]
             g == [at \in Places |-> Rest(at[1], at[2])]
             h == CHOOSE f : Meets(f)
  <1>1. KeyExprsIntersect(a, b) = h[<<1, 1>>]
    BY DEF KeyExprsIntersect
  <1>2. ASSUME NEW i \in 1..Len(a), NEW j \in 1..Len(b)
        PROVE  Rest(i, j) <=> SingleChunkIntersect(a[i], b[j]) /\ Rest(i + 1, j + 1)
    <2>1. ASSUME Rest(i, j) PROVE SingleChunkIntersect(a[i], b[j]) /\ Rest(i + 1, j + 1)
      <3>1. SingleChunkIntersect(a[i + 0], b[j + 0])
        <4>1. 0 \in 0..(Len(a) - i) BY <1>2
        <4> QED BY <4>1, <2>1
      <3>2. ASSUME NEW k \in 0..(Len(a) - (i + 1))
            PROVE  SingleChunkIntersect(a[i + 1 + k], b[j + 1 + k])
        <4>1. k + 1 \in 0..(Len(a) - i) BY <1>2
        <4>2. SingleChunkIntersect(a[i + (k + 1)], b[j + (k + 1)]) BY <4>1, <2>1
        <4> QED BY <4>2
      <3>3. i + 0 = i /\ j + 0 = j OBVIOUS
      <3> QED BY <3>1, <3>2, <3>3, <2>1
    <2>2. ASSUME SingleChunkIntersect(a[i], b[j]), Rest(i + 1, j + 1) PROVE Rest(i, j)
      <3>1. ASSUME NEW k \in 0..(Len(a) - i)
            PROVE  SingleChunkIntersect(a[i + k], b[j + k])
        <4>1. CASE k = 0
          <5>1. i + k = i /\ j + k = j BY <4>1
          <5> QED BY <5>1, <2>2
        <4>2. CASE k # 0
          <5>1. k - 1 \in 0..(Len(a) - (i + 1)) BY <4>2
          <5>2. SingleChunkIntersect(a[i + 1 + (k - 1)], b[j + 1 + (k - 1)]) BY <5>1, <2>2
          <5>3. i + 1 + (k - 1) = i + k /\ j + 1 + (k - 1) = j + k OBVIOUS
          <5> QED BY <5>2, <5>3
        <4> QED BY <4>1, <4>2
      <3>2. Len(a) - i = Len(b) - j
        <4>1. Len(a) - (i + 1) = Len(b) - (j + 1) BY <2>2
        <4> QED BY <4>1
      <3> QED BY <3>1, <3>2
    <2> QED BY <2>1, <2>2
  <1>3. ASSUME NEW f, NEW i \in 1..Len(a) + 1, NEW j \in 1..Len(b) + 1,
               i <= Len(a) /\ j <= Len(b) => f[<<i + 1, j + 1>>] = Rest(i + 1, j + 1)
        PROVE  Rest(i, j) = Body(f, i, j)
    <2>1. CASE i > Len(a)
      BY <2>1
    <2>2. CASE i <= Len(a) /\ j > Len(b)
      BY <2>2
    <2>3. CASE i <= Len(a) /\ j <= Len(b)
      <3>1. a[i] # AnyChunks /\ b[j] # AnyChunks BY <2>3
      <3>2. i \in 1..Len(a) /\ j \in 1..Len(b) BY <2>3
      <3>3. Rest(i, j) <=> SingleChunkIntersect(a[i], b[j]) /\ Rest(i + 1, j + 1)
        BY <1>2, <3>2
      <3>4. Rest(i, j) \in BOOLEAN OBVIOUS
      <3>5. Body(f, i, j) = (SingleChunkIntersect(a[i], b[j]) /\ f[<<i + 1, j + 1>>])
        <4>1. ~(i > Len(a)) /\ ~(j > Len(b)) /\ AnyChunks \notin {a[i], b[j]}
          BY <2>3, <3>1, <3>2
        <4> HIDE DEF Rest
        <4> QED BY <4>1, Zenon
      <3> HIDE DEF Rest, Body
      <3> QED BY <2>3, <3>3, <3>4, <3>5, <1>3
    <2>4. \/ i > Len(a)
          \/ i <= Len(a) /\ j > Len(b)
          \/ i <= Len(a) /\ j <= Len(b)
      <3> HIDE DEF Rest, Body, g, h, Meets
      <3> QED OBVIOUS
    <2> QED BY <2>1, <2>2, <2>3, <2>4
  <1>4. Meets(g)
    <2>1. ASSUME NEW at \in Places PROVE Rest(at[1], at[2]) = Body(g, at[1], at[2])
      <3> DEFINE i == at[1]
                 j == at[2]
      <3>1. i \in 1..Len(a) + 1 /\ j \in 1..Len(b) + 1 OBVIOUS
      <3>2. ASSUME i <= Len(a), j <= Len(b) PROVE g[<<i + 1, j + 1>>] = Rest(i + 1, j + 1)
        <4>1. <<i + 1, j + 1>> \in Places BY <3>1, <3>2
        <4> QED BY <4>1
      <3> HIDE DEF Rest, Body, g, i, j
      <3>3. Rest(i, j) = Body(g, i, j) BY <3>1, <3>2, <1>3
      <3> QED BY <3>3 DEF i, j
    <2> HIDE DEF Body, Rest
    <2> QED BY <2>1
  <1>5. Meets(h) BY <1>4
  <1>6. \A n \in Nat : \A at \in Places : Len(a) + 1 - at[1] = n => h[at] = g[at]
    <2> DEFINE S == {n \in Nat : \A at \in Places : Len(a) + 1 - at[1] = n => h[at] = g[at]}
    <2>1. ASSUME NEW at \in Places,
                 at[1] <= Len(a) /\ at[2] <= Len(b) =>
                   h[<<at[1] + 1, at[2] + 1>>] = g[<<at[1] + 1, at[2] + 1>>]
          PROVE  h[at] = g[at]
      <3>1. at[1] \in 1..Len(a) + 1 /\ at[2] \in 1..Len(b) + 1 OBVIOUS
      <3>2. at[1] <= Len(a) /\ at[2] <= Len(b) =>
              h[<<at[1] + 1, at[2] + 1>>] = Rest(at[1] + 1, at[2] + 1)
        <4> SUFFICES ASSUME at[1] <= Len(a), at[2] <= Len(b)
                     PROVE  h[<<at[1] + 1, at[2] + 1>>] = Rest(at[1] + 1, at[2] + 1)
          OBVIOUS
        <4>1. <<at[1] + 1, at[2] + 1>> \in Places BY <3>1
        <4>2. g[<<at[1] + 1, at[2] + 1>>] = Rest(at[1] + 1, at[2] + 1)
          <5> HIDE DEF Rest
          <5> QED BY <4>1
        <4> HIDE DEF Rest, h, g
        <4> QED BY <2>1, <4>2
      <3>3. h[at] = Body(h, at[1], at[2])
        <4> HIDE DEF Body, h
        <4> QED BY <1>5
      <3>4. g[at] = Rest(at[1], at[2]) OBVIOUS
      <3> HIDE DEF Rest, Body, h, g
      <3> QED BY <3>1, <3>2, <3>3, <3>4, <1>3
    <2>2. 0 \in S
      <3>1. ASSUME NEW at \in Places, Len(a) + 1 - at[1] = 0 PROVE h[at] = g[at]
        <4>1. ~(at[1] <= Len(a))
          <5> HIDE DEF h, g, Body, Rest
          <5> QED BY <3>1
        <4> HIDE DEF h, g
        <4> QED BY <4>1, <2>1
      <3> HIDE DEF h, g
      <3> QED BY <3>1
    <2>3. ASSUME NEW n \in Nat, n \in S PROVE n + 1 \in S
      <3>1. ASSUME NEW at \in Places, Len(a) + 1 - at[1] = n + 1 PROVE h[at] = g[at]
        <4>1. at[2] <= Len(b) => <<at[1] + 1, at[2] + 1>> \in Places BY <3>1
        <4>2. Len(a) + 1 - (at[1] + 1) = n BY <3>1
        <4> HIDE DEF h, g
        <4> QED BY <2>1, <2>3, <4>1, <4>2
      <3> HIDE DEF h, g
      <3> QED BY <3>1
    <2> HIDE DEF S
    <2>4. Nat \subseteq S BY <2>2, <2>3, Induction
    <2> QED BY <2>4 DEF S
  <1>7. h[<<1, 1>>] = g[<<1, 1>>]
    <2>1. <<1, 1>> \in Places /\ Len(a) + 1 - 1 \in Nat OBVIOUS
    <2> HIDE DEF h, g
    <2> QED BY <2>1, <1>6
  <1>8. g[<<1, 1>>] = Rest(1, 1)
    <2>1. <<1, 1>> \in Places OBVIOUS
    <2> HIDE DEF Rest
    <2> QED BY <2>1
  <1>9. Rest(1, 1) <=> ChunksMeet(a, b)
    <2>1. ASSUME Rest(1, 1), NEW k \in 1..Len(a) PROVE SingleChunkIntersect(a[k], b[k])
      <3>1. k - 1 \in 0..(Len(a) - 1) /\ 1 + (k - 1) = k OBVIOUS
      <3> QED BY <2>1, <3>1
    <2>2. ASSUME ChunksMeet(a, b), NEW k \in 0..(Len(a) - 1)
          PROVE  SingleChunkIntersect(a[1 + k], b[1 + k])
      BY <2>2 DEF ChunksMeet
    <2> QED BY <2>1, <2>2 DEF ChunksMeet
  <1> HIDE DEF h, g, Rest
  <1> QED BY <1>1, <1>7, <1>8, <1>9

(* The texts and chunks of keys.                                             *)
Empty == ""
NamesOf(targets) == UNION {{t.disc, t.name, t.tag} : t \in targets}
Lanes == {"topic", "service", "action", "action_liveliness", "feedback", "goal", "cancel",
          "result", "interface", "node"}
KeyChunks == {Wildcard} \cup Lanes \cup LinkId \cup NamesOf(SenderTargets)

(* A chunk that is a name: neither empty nor a wildcard.                     *)
Plain(x) == x \notin {Empty, Wildcard, AnyChunks}

(* The wildcards, the default link and the value that stands for None are    *)
(* different words.                                                          *)
LEMMA WordFacts ==
  /\ Wildcard # AnyChunks /\ Wildcard # DEFAULT_LINK_ID /\ AnyChunks # DEFAULT_LINK_ID
  /\ Empty \notin {Wildcard, AnyChunks, DEFAULT_LINK_ID, NotGiven}
  /\ NotGiven \notin {Wildcard, AnyChunks, DEFAULT_LINK_ID}
  BY Zenon DEF Empty, Wildcard, AnyChunks, DEFAULT_LINK_ID, NotGiven

(* No fixed chunk of a key is empty or a wildcard.                           *)
LEMMA LanesPlain == \A x \in Lanes : Plain(x)
  BY Zenon DEF Lanes, Plain, Empty, Wildcard, AnyChunks

(* The empty text is refused as a name; the value that stands for None is    *)
(* no text, so nothing refuses it.                                           *)
LEMMA MalformedFacts == Empty \in Malformed /\ NotGiven \notin Malformed
  BY Zenon DEF Empty, Malformed, NotGiven

(* A name that the constructors accept is neither empty nor a wildcard, and  *)
(* never the value that stands for None.                                     *)
LEMMA NamesPlain ==
  /\ \A x \in LinkId : Plain(x) /\ x # NotGiven
  /\ Segment \subseteq LinkId /\ DEFAULT_LINK_ID \in LinkId
  <1>1. DEFAULT_LINK_ID \notin Malformed
    BY Zenon DEF DEFAULT_LINK_ID, Malformed
  <1> QED BY <1>1, WordFacts, MalformedFacts, WordsAssumption
          DEF LinkId, Segment, Texts, Reserved, Plain

(* What a sender's target is made of: three chunks that are names.           *)
LEMMA TargetFacts ==
  ASSUME NEW t \in SenderTargets
  PROVE  /\ t = [disc |-> t.disc, name |-> t.name, tag |-> t.tag]
         /\ {t.disc, t.name, t.tag} \subseteq KeyChunks
         /\ Plain(t.disc) /\ Plain(t.name) /\ Plain(t.tag)
  <1>1. PICK d \in {"interface", "node"}, n \in Segment, g \in Tags :
          /\ t = [disc |-> d, name |-> n, tag |-> NormalizeTag(g)]
          /\ NormalizeTag(g) \notin Malformed \cup Reserved
    BY DEF SenderTargets
  <1>2. Plain(d)
    BY LanesPlain DEF Lanes
  <1>3. Plain(n)
    BY NamesPlain
  <1>4. Plain(NormalizeTag(g))
    BY <1>1, MalformedFacts DEF Plain, Reserved
  <1>5. {t.disc, t.name, t.tag} \subseteq KeyChunks
    BY DEF KeyChunks, NamesOf
  <1> QED BY <1>1, <1>2, <1>3, <1>4, <1>5

(* No chunk of a target is empty or a wildcard.                              *)
LEMMA TargetsPlain == \A x \in NamesOf(SenderTargets) : Plain(x)
  BY TargetFacts DEF NamesOf

(* The chunks of keys hold no wildcard of many chunks.                       *)
LEMMA ChunksNamed ==
  /\ AnyChunks \notin KeyChunks /\ Wildcard \in KeyChunks
  /\ LinkId \subseteq KeyChunks /\ Segment \subseteq KeyChunks /\ Lanes \subseteq KeyChunks
  BY WordFacts, LanesPlain, NamesPlain, TargetsPlain DEF KeyChunks, Plain

(* A name meets itself and the wildcard, and nothing else.                   *)
LEMMA ChunkMeets ==
  ASSUME NEW x, NEW y, Plain(x)
  PROVE  /\ Plain(y) => (SingleChunkIntersect(x, y) <=> x = y)
         /\ SingleChunkIntersect(x, Wildcard) /\ SingleChunkIntersect(Wildcard, x)
         /\ SingleChunkIntersect(Wildcard, Wildcard)
  BY Zenon, WordFacts DEF SingleChunkIntersect, Plain, Empty

(* Length and elements of a concatenation of chunks.                         *)
LEMMA Joined ==
  \A x, y \in Seq(KeyChunks) :
    /\ x \o y \in Seq(KeyChunks) /\ Len(x \o y) = Len(x) + Len(y)
    /\ \A k \in 1..Len(x) : (x \o y)[k] = x[k]
    /\ \A k \in 1..Len(y) : (x \o y)[Len(x) + k] = y[k]
  <1> SUFFICES ASSUME NEW x \in Seq(KeyChunks), NEW y \in Seq(KeyChunks)
               PROVE  /\ x \o y \in Seq(KeyChunks) /\ Len(x \o y) = Len(x) + Len(y)
                      /\ \A k \in 1..Len(x) : (x \o y)[k] = x[k]
                      /\ \A k \in 1..Len(y) : (x \o y)[Len(x) + k] = y[k]
    BY Zenon
  <1> QED OBVIOUS

(* Every two keys meet exactly when they meet chunk by chunk.                *)
LEMMA ChunkByChunk ==
  \A x, y \in Seq(KeyChunks) : KeyExprsIntersect(x, y) <=> ChunksMeet(x, y)
  BY ChunksNamed, IntersectPointwise

(* Whoever looks, the one who declared or the one who watches.               *)
LEMMA EitherWay ==
  \A x, y \in Seq(KeyChunks) : KeyExprsIntersect(x, y) <=> KeyExprsIntersect(y, x)
  <1>1. \A a, b : SingleChunkIntersect(a, b) <=> SingleChunkIntersect(b, a)
    BY DEF SingleChunkIntersect
  <1>2. \A x, y \in Seq(KeyChunks) : ChunksMeet(x, y) <=> ChunksMeet(y, x)
    BY <1>1 DEF ChunksMeet
  <1> QED BY <1>2, ChunkByChunk

(* A key is made of three parts; the solvers see them joined only through    *)
(* the lemmas.                                                               *)
Three(x, y, z) == x \o y \o z

(* Length of a concatenation of three.                                       *)
LEMMA JoinedThrice ==
  \A x, y, z \in Seq(KeyChunks) :
    x \o y \o z \in Seq(KeyChunks) /\ Len(x \o y \o z) = Len(x) + Len(y) + Len(z)
  <1> SUFFICES ASSUME NEW x \in Seq(KeyChunks), NEW y \in Seq(KeyChunks),
                      NEW z \in Seq(KeyChunks)
               PROVE  /\ x \o y \o z \in Seq(KeyChunks)
                      /\ Len(x \o y \o z) = Len(x) + Len(y) + Len(z)
    BY Zenon
  <1> DEFINE w == x \o y
  <1>1. w \in Seq(KeyChunks) /\ Len(w) = Len(x) + Len(y) BY Joined, Zenon
  <1> HIDE DEF w
  <1>2. w \o z \in Seq(KeyChunks) /\ Len(w \o z) = Len(w) + Len(z) BY <1>1, Joined, Zenon
  <1> QED BY <1>1, <1>2, Zenon DEF w

(* Keys made of two parts meet when their parts do, if the first parts are   *)
(* as long as each other.                                                    *)
LEMMA JoinedMeet ==
  ASSUME NEW x \in Seq(KeyChunks), NEW y \in Seq(KeyChunks),
         NEW u \in Seq(KeyChunks), NEW v \in Seq(KeyChunks), Len(x) = Len(u)
  PROVE  KeyExprsIntersect(x \o y, u \o v)
           <=> KeyExprsIntersect(x, u) /\ KeyExprsIntersect(y, v)
  <1>1. AnyChunks \notin KeyChunks
    BY ChunksNamed
  <1>2. /\ x \o y \in Seq(KeyChunks) /\ u \o v \in Seq(KeyChunks)
        /\ Len(x \o y) = Len(x) + Len(y) /\ Len(u \o v) = Len(x) + Len(v)
        /\ \A k \in 1..Len(x) : (x \o y)[k] = x[k] /\ (u \o v)[k] = u[k]
        /\ \A k \in 1..Len(y) : (x \o y)[Len(x) + k] = y[k]
        /\ \A k \in 1..Len(v) : (u \o v)[Len(x) + k] = v[k]
    <2>1. /\ x \o y \in Seq(KeyChunks) /\ Len(x \o y) = Len(x) + Len(y)
          /\ \A k \in 1..Len(x) : (x \o y)[k] = x[k]
          /\ \A k \in 1..Len(y) : (x \o y)[Len(x) + k] = y[k]
      BY Joined, Zenon
    <2>2. /\ u \o v \in Seq(KeyChunks) /\ Len(u \o v) = Len(u) + Len(v)
          /\ \A k \in 1..Len(u) : (u \o v)[k] = u[k]
          /\ \A k \in 1..Len(v) : (u \o v)[Len(u) + k] = v[k]
      BY Joined, Zenon
    <2> QED BY <2>1, <2>2
  <1>3. ASSUME ChunksMeet(x \o y, u \o v) PROVE ChunksMeet(x, u) /\ ChunksMeet(y, v)
    <2>1. Len(y) = Len(v) BY <1>2, <1>3 DEF ChunksMeet
    <2>2. ASSUME NEW k \in 1..Len(x) PROVE SingleChunkIntersect(x[k], u[k])
      <3>1. k \in 1..Len(x \o y) BY <1>2
      <3> QED BY <3>1, <1>2, <1>3 DEF ChunksMeet
    <2>3. ASSUME NEW k \in 1..Len(y) PROVE SingleChunkIntersect(y[k], v[k])
      <3>1. Len(x) + k \in 1..Len(x \o y) BY <1>2
      <3>2. SingleChunkIntersect((x \o y)[Len(x) + k], (u \o v)[Len(x) + k])
        BY <3>1, <1>3 DEF ChunksMeet
      <3> QED BY <3>2, <2>1, <1>2
    <2> QED BY <2>1, <2>2, <2>3 DEF ChunksMeet
  <1>4. ASSUME ChunksMeet(x, u), ChunksMeet(y, v) PROVE ChunksMeet(x \o y, u \o v)
    <2>1. Len(y) = Len(v) BY <1>4 DEF ChunksMeet
    <2>2. ASSUME NEW k \in 1..Len(x \o y)
          PROVE  SingleChunkIntersect((x \o y)[k], (u \o v)[k])
      <3>1. CASE k \in 1..Len(x)
        BY <3>1, <1>2, <1>4 DEF ChunksMeet
      <3>2. CASE k \notin 1..Len(x)
        <4>1. k - Len(x) \in 1..Len(y) /\ Len(x) + (k - Len(x)) = k
          BY <3>2, <1>2
        <4>2. SingleChunkIntersect(y[k - Len(x)], v[k - Len(x)])
          BY <4>1, <1>4 DEF ChunksMeet
        <4>3. (x \o y)[k] = y[k - Len(x)] /\ (u \o v)[k] = v[k - Len(x)]
          BY <4>1, <2>1, <1>2
        <4> QED BY <4>2, <4>3
      <3> QED BY <3>1, <3>2
    <2> QED BY <2>1, <2>2, <1>2 DEF ChunksMeet
  <1> QED BY <1>1, <1>2, <1>3, <1>4, IntersectPointwise

(* Keys of different lengths never meet.                                     *)
LEMMA LengthsMeet ==
  \A x, y \in Seq(KeyChunks) : KeyExprsIntersect(x, y) => Len(x) = Len(y)
  BY ChunksNamed, IntersectPointwise DEF ChunksMeet

(* The sequences of two, three, four, five chunks that keys are made of.     *)
(* Two chunks against two, and one against one.                              *)
LEMMA PairsMeet ==
  ASSUME NEW a \in KeyChunks, NEW b \in KeyChunks, NEW c \in KeyChunks, NEW d \in KeyChunks
  PROVE  /\ KeyExprsIntersect(<<a, b>>, <<c, d>>)
              <=> SingleChunkIntersect(a, c) /\ SingleChunkIntersect(b, d)
         /\ KeyExprsIntersect(<<a>>, <<c>>) <=> SingleChunkIntersect(a, c)
  <1>1. /\ <<a, b>> \in Seq(KeyChunks) /\ <<c, d>> \in Seq(KeyChunks)
        /\ <<a>> \in Seq(KeyChunks) /\ <<c>> \in Seq(KeyChunks)
    OBVIOUS
  <1>2. /\ ChunksMeet(<<a, b>>, <<c, d>>)
              <=> SingleChunkIntersect(a, c) /\ SingleChunkIntersect(b, d)
        /\ ChunksMeet(<<a>>, <<c>>) <=> SingleChunkIntersect(a, c)
    BY DEF ChunksMeet
  <1> QED BY <1>1, <1>2, ChunksNamed, IntersectPointwise

(* Three chunks against three.                                               *)
LEMMA TriplesMeet ==
  ASSUME NEW a \in KeyChunks, NEW b \in KeyChunks, NEW c \in KeyChunks,
         NEW p \in KeyChunks, NEW q \in KeyChunks, NEW r \in KeyChunks
  PROVE  KeyExprsIntersect(<<a, b, c>>, <<p, q, r>>)
           <=> /\ SingleChunkIntersect(a, p) /\ SingleChunkIntersect(b, q)
               /\ SingleChunkIntersect(c, r)
  <1>1. <<a, b, c>> \in Seq(KeyChunks) /\ <<p, q, r>> \in Seq(KeyChunks)
    OBVIOUS
  <1>2. ChunksMeet(<<a, b, c>>, <<p, q, r>>)
           <=> /\ SingleChunkIntersect(a, p) /\ SingleChunkIntersect(b, q)
               /\ SingleChunkIntersect(c, r)
    BY DEF ChunksMeet
  <1> QED BY <1>1, <1>2, ChunksNamed, IntersectPointwise

(* A slot that was left open meets every name, a slot that was given meets   *)
(* that name only.                                                           *)
LEMMA PinMeets ==
  ASSUME NEW value \in LinkId, NEW given \in LinkId \cup {NotGiven}
  PROVE  /\ SingleChunkIntersect(value, OrAny(given)) <=> Pins(given, value)
         /\ SingleChunkIntersect(OrAny(given), value) <=> Pins(given, value)
         /\ OrAny(given) \in KeyChunks
  <1>1. Plain(value) /\ value # NotGiven BY NamesPlain
  <1>2. CASE given = NotGiven
    BY <1>1, <1>2, ChunkMeets, ChunksNamed DEF OrAny, Pins
  <1>3. CASE given # NotGiven
    BY <1>1, <1>3, ChunkMeets, ChunksNamed, NamesPlain DEF OrAny, Pins
  <1> QED BY <1>2, <1>3

(* What a receiver may ask for as the target.                                *)
Wanted == SenderTargets \cup {AnyTarget}

(* Every target, the open one too, takes three chunks.                       *)
LEMMA SomeTarget ==
  \A r \in Wanted : TargetSegments(r) \in Seq(KeyChunks) /\ Len(TargetSegments(r)) = 3
  <1>1. ASSUME NEW r \in Wanted
        PROVE TargetSegments(r) \in Seq(KeyChunks) /\ Len(TargetSegments(r)) = 3
    <2>1. {r.disc, r.name, r.tag} \subseteq KeyChunks
      BY TargetFacts, ChunksNamed DEF Wanted, AnyTarget
    <2> QED BY <2>1 DEF TargetSegments
  <1> QED BY <1>1

(* The chunks of a sender's target meet those of a receiver's when the       *)
(* receiver asks for that target or for any.                                 *)
LEMMA TargetsMeet ==
  ASSUME NEW s \in SenderTargets, NEW r \in Wanted
  PROVE  /\ KeyExprsIntersect(TargetSegments(s), TargetSegments(r)) <=> r \in {AnyTarget, s}
         /\ r \in SenderTargets => r # AnyTarget
  <1>1. /\ {s.disc, s.name, s.tag} \subseteq KeyChunks
        /\ {r.disc, r.name, r.tag} \subseteq KeyChunks
    BY TargetFacts, ChunksNamed DEF Wanted, AnyTarget
  <1>2. r \in SenderTargets => r # AnyTarget
    BY TargetFacts DEF AnyTarget, Plain
  <1>3. KeyExprsIntersect(TargetSegments(s), TargetSegments(r))
          <=> /\ SingleChunkIntersect(s.disc, r.disc) /\ SingleChunkIntersect(s.name, r.name)
              /\ SingleChunkIntersect(s.tag, r.tag)
    BY <1>1, TriplesMeet DEF TargetSegments
  <1>6. Plain(s.disc) /\ Plain(s.name) /\ Plain(s.tag) BY TargetFacts
  <1>7. CASE r = AnyTarget
    BY <1>7, <1>3, <1>6, <1>2, ChunkMeets DEF AnyTarget
  <1>8. CASE r \in SenderTargets
    <2>1. Plain(r.disc) /\ Plain(r.name) /\ Plain(r.tag) BY <1>8, TargetFacts
    <2>2. KeyExprsIntersect(TargetSegments(s), TargetSegments(r))
            <=> s.disc = r.disc /\ s.name = r.name /\ s.tag = r.tag
      BY <1>3, <1>6, <2>1, ChunkMeets
    <2>3. s.disc = r.disc /\ s.name = r.name /\ s.tag = r.tag <=> s = r
      BY <1>8, TargetFacts
    <2> QED BY <1>2, <1>8, <2>2, <2>3
  <1> QED BY <1>7, <1>8 DEF Wanted

(* The keys of topics have ten chunks.                                       *)
LEMMA TopicKeys ==
  /\ \A s \in TopicSenders :
       TopicPublish(s) \in Seq(KeyChunks) /\ Len(TopicPublish(s)) = 10
  /\ \A r \in TopicReceivers :
       TopicSubscribe(r) \in Seq(KeyChunks) /\ Len(TopicSubscribe(r)) = 10
  <1>1. ASSUME NEW s \in TopicSenders
        PROVE  TopicPublish(s) \in Seq(KeyChunks) /\ Len(TopicPublish(s)) = 10
    <2> DEFINE front == <<Wildcard, s.core, Wildcard, s.inst, "topic">>
               middle == TargetSegments(s.target)
               back == <<s.link, s.topic>>
    <2>1. /\ {Wildcard, s.core, s.inst, s.link, s.topic, "topic"} \subseteq KeyChunks
          /\ s.target \in SenderTargets
      BY ChunksNamed DEF TopicSenders, Lanes
    <2>2. middle \in Seq(KeyChunks) /\ Len(middle) = 3
      BY <2>1, SomeTarget DEF Wanted
    <2>3. front \in Seq(KeyChunks) /\ Len(front) = 5 /\ back \in Seq(KeyChunks) /\ Len(back) = 2
      BY <2>1
    <2>4. TopicPublish(s) = front \o middle \o back BY Zenon DEF TopicPublish
    <2> HIDE DEF front, middle, back
    <2>5. /\ front \o middle \o back \in Seq(KeyChunks)
          /\ Len(front \o middle \o back) = Len(front) + Len(middle) + Len(back)
      BY <2>2, <2>3, JoinedThrice, Zenon
    <2>6. Len(front) + Len(middle) + Len(back) = 10 BY <2>2, <2>3
    <2> QED BY <2>4, <2>5, <2>6, Zenon
  <1>2. ASSUME NEW r \in TopicReceivers
        PROVE  TopicSubscribe(r) \in Seq(KeyChunks) /\ Len(TopicSubscribe(r)) = 10
    <2> DEFINE front == <<r.core, OrAny(r.fromCore), r.inst, OrAny(r.fromInst), "topic">>
               middle == TargetSegments(r.target)
               back == <<OrAny(r.link), r.topic>>
    <2>1. /\ {r.core, r.inst, r.topic, "topic"} \subseteq KeyChunks
          /\ {OrAny(r.fromCore), OrAny(r.fromInst), OrAny(r.link)} \subseteq KeyChunks
          /\ r.target \in Wanted
      BY ChunksNamed, NamesPlain DEF TopicReceivers, Lanes, Wanted, OrAny
    <2>2. middle \in Seq(KeyChunks) /\ Len(middle) = 3
      BY <2>1, SomeTarget
    <2>3. front \in Seq(KeyChunks) /\ Len(front) = 5 /\ back \in Seq(KeyChunks) /\ Len(back) = 2
      BY <2>1
    <2>4. TopicSubscribe(r) = front \o middle \o back BY Zenon DEF TopicSubscribe
    <2> HIDE DEF front, middle, back
    <2>5. /\ front \o middle \o back \in Seq(KeyChunks)
          /\ Len(front \o middle \o back) = Len(front) + Len(middle) + Len(back)
      BY <2>2, <2>3, JoinedThrice, Zenon
    <2>6. Len(front) + Len(middle) + Len(back) = 10 BY <2>2, <2>3
    <2> QED BY <2>4, <2>5, <2>6, Zenon
  <1> QED BY <1>1, <1>2

(* Keys made of three parts meet when their parts do.                        *)
LEMMA ThriceMeet ==
  ASSUME NEW x \in Seq(KeyChunks), NEW y \in Seq(KeyChunks), NEW z \in Seq(KeyChunks),
         NEW u \in Seq(KeyChunks), NEW v \in Seq(KeyChunks), NEW w \in Seq(KeyChunks),
         Len(x) = Len(u), Len(y) = Len(v)
  PROVE  KeyExprsIntersect(Three(x, y, z), Three(u, v, w))
           <=> /\ KeyExprsIntersect(x, u) /\ KeyExprsIntersect(y, v)
               /\ KeyExprsIntersect(z, w)
  <1> DEFINE p == x \o y
             q == u \o v
  <1>1. p \in Seq(KeyChunks) /\ Len(p) = Len(x) + Len(y) BY Joined, Zenon
  <1>2. q \in Seq(KeyChunks) /\ Len(q) = Len(u) + Len(v) BY Joined, Zenon
  <1>3. KeyExprsIntersect(p, q) <=> KeyExprsIntersect(x, u) /\ KeyExprsIntersect(y, v)
    BY JoinedMeet, Zenon
  <1> HIDE DEF p, q
  <1>4. Len(p) = Len(q) BY <1>1, <1>2
  <1>5. KeyExprsIntersect(p \o z, q \o w)
          <=> KeyExprsIntersect(p, q) /\ KeyExprsIntersect(z, w)
    BY <1>1, <1>2, <1>4, JoinedMeet, Zenon
  <1> QED BY <1>3, <1>5, Zenon DEF p, q, Three

(* The root of a service's or an action's key.                               *)
Root(lane, target, link, name) == <<lane>> \o TargetSegments(target) \o <<link, name>>

(* The six chunks that name a service or an action.                          *)
LEMMA RootChunks ==
  ASSUME NEW lane \in KeyChunks, NEW t \in Wanted, NEW link \in KeyChunks,
         NEW name \in KeyChunks
  PROVE  Root(lane, t, link, name) = <<lane, t.disc, t.name, t.tag, link, name>>
  <1> DEFINE front == <<lane>>
             middle == TargetSegments(t)
             back == <<link, name>>
             all == <<lane, t.disc, t.name, t.tag, link, name>>
             six == front \o middle \o back
  <1>1. {t.disc, t.name, t.tag} \subseteq KeyChunks
    BY TargetFacts, ChunksNamed DEF Wanted, AnyTarget
  <1>2. all \in Seq(KeyChunks) /\ Len(all) = 6 BY <1>1
  <1>3. six = all
    <2>1. six = (front \o <<t.disc, t.name, t.tag>>) \o back BY Zenon DEF TargetSegments
    <2>2. /\ <<t.disc, t.name, t.tag>> \in Seq(KeyChunks) /\ front \in Seq(KeyChunks)
          /\ back \in Seq(KeyChunks)
      BY <1>1
    <2>3. ((front \o <<t.disc, t.name, t.tag>>) \o back) \in Seq(KeyChunks)
      BY <2>2
    <2>4. Len((front \o <<t.disc, t.name, t.tag>>) \o back) = 6
      BY <2>2
    <2>5. \A k \in 1..6 : ((front \o <<t.disc, t.name, t.tag>>) \o back)[k] = all[k]
      BY <2>2
    <2> DEFINE that == (front \o <<t.disc, t.name, t.tag>>) \o back
    <2>6. that = all
      <3> HIDE DEF that, all
      <3>1. that \in Seq(KeyChunks) /\ Len(that) = 6 /\ \A k \in 1..6 : that[k] = all[k]
        BY <2>3, <2>4, <2>5 DEF that
      <3> QED BY <3>1, <1>2, SeqEqual
    <2> HIDE DEF all
    <2> QED BY <2>1, <2>6, Zenon
  <1> QED BY <1>2, <1>3, Zenon DEF Root

(* Such a root is a key of six chunks.                                       *)
LEMMA RootKey ==
  ASSUME NEW lane \in KeyChunks, NEW t \in Wanted, NEW link \in KeyChunks,
         NEW name \in KeyChunks
  PROVE  Root(lane, t, link, name) \in Seq(KeyChunks) /\ Len(Root(lane, t, link, name)) = 6
  <1>1. t.disc \in KeyChunks /\ t.name \in KeyChunks /\ t.tag \in KeyChunks
    BY TargetFacts, ChunksNamed DEF Wanted, AnyTarget
  <1>2. Root(lane, t, link, name) = <<lane, t.disc, t.name, t.tag, link, name>>
    BY RootChunks, Zenon
  <1> QED BY <1>1, <1>2

(* What such a root is made of.                                              *)
Roots == [lane : KeyChunks, target : SenderTargets, link : KeyChunks, name : KeyChunks]
RootOf(x) == Root(x.lane, x.target, x.link, x.name)

(* Two roots meet when they have the same target and meet in lane, link and  *)
(* name.                                                                     *)
LEMMA RootsMeet ==
  ASSUME NEW x \in Roots, NEW y \in Roots
  PROVE  KeyExprsIntersect(RootOf(x), RootOf(y))
           <=> /\ SingleChunkIntersect(x.lane, y.lane) /\ x.target = y.target
               /\ SingleChunkIntersect(x.link, y.link) /\ SingleChunkIntersect(x.name, y.name)
  <1> DEFINE front == <<x.lane>>
             middle == TargetSegments(x.target)
             back == <<x.link, x.name>>
             front2 == <<y.lane>>
             middle2 == TargetSegments(y.target)
             back2 == <<y.link, y.name>>
  <1>1. /\ front \in Seq(KeyChunks) /\ back \in Seq(KeyChunks) /\ Len(front) = 1
        /\ front2 \in Seq(KeyChunks) /\ back2 \in Seq(KeyChunks) /\ Len(front2) = 1
    BY DEF Roots
  <1>2. /\ middle \in Seq(KeyChunks) /\ Len(middle) = 3
        /\ middle2 \in Seq(KeyChunks) /\ Len(middle2) = 3
    BY SomeTarget DEF Wanted, Roots
  <1>3. KeyExprsIntersect(front, front2) <=> SingleChunkIntersect(x.lane, y.lane)
    BY PairsMeet DEF Roots
  <1>4. KeyExprsIntersect(middle, middle2) <=> x.target = y.target
    BY TargetsMeet DEF Wanted, Roots
  <1>5. KeyExprsIntersect(back, back2)
          <=> SingleChunkIntersect(x.link, y.link) /\ SingleChunkIntersect(x.name, y.name)
    BY PairsMeet DEF Roots
  <1>6. /\ RootOf(x) = Three(front, middle, back)
        /\ RootOf(y) = Three(front2, middle2, back2)
    BY Zenon DEF RootOf, Root, Three
  <1> HIDE DEF front, middle, back, front2, middle2, back2
  <1>7. Len(front) = Len(front2) /\ Len(middle) = Len(middle2) BY <1>1, <1>2
  <1>8. KeyExprsIntersect(Three(front, middle, back), Three(front2, middle2, back2))
          <=> /\ KeyExprsIntersect(front, front2) /\ KeyExprsIntersect(middle, middle2)
              /\ KeyExprsIntersect(back, back2)
    BY <1>1, <1>2, <1>7, ThriceMeet
  <1> QED BY <1>3, <1>4, <1>5, <1>6, <1>8, Zenon

(* A publication meets exactly the subscriptions it is meant for.            *)
LEMMA TopicsMeet ==
  ASSUME NEW s \in TopicSenders, NEW r \in TopicReceivers
  PROVE  KeyExprsIntersect(TopicPublish(s), TopicSubscribe(r)) <=> TopicMeans(s, r)
  <1> DEFINE front == <<Wildcard, s.core, Wildcard, s.inst, "topic">>
             middle == TargetSegments(s.target)
             back == <<s.link, s.topic>>
             front2 == <<r.core, OrAny(r.fromCore), r.inst, OrAny(r.fromInst), "topic">>
             middle2 == TargetSegments(r.target)
             back2 == <<OrAny(r.link), r.topic>>
  <1>1. /\ Wildcard \in KeyChunks /\ s.core \in KeyChunks /\ s.inst \in KeyChunks
        /\ s.link \in KeyChunks /\ s.topic \in KeyChunks /\ "topic" \in KeyChunks
        /\ s.core \in LinkId /\ s.inst \in LinkId /\ s.link \in LinkId
        /\ s.topic \in LinkId
        /\ s.target \in SenderTargets
    BY ChunksNamed, NamesPlain DEF TopicSenders, Lanes
  <1>2. /\ r.core \in LinkId /\ r.inst \in LinkId /\ r.topic \in LinkId
        /\ r.fromCore \in LinkId \cup {NotGiven}
        /\ r.fromInst \in LinkId \cup {NotGiven} /\ r.link \in LinkId \cup {NotGiven}
        /\ r.core \in KeyChunks /\ r.inst \in KeyChunks /\ r.topic \in KeyChunks
        /\ OrAny(r.fromCore) \in KeyChunks /\ OrAny(r.fromInst) \in KeyChunks
        /\ OrAny(r.link) \in KeyChunks
        /\ r.target \in Wanted
    BY ChunksNamed, NamesPlain DEF TopicReceivers, Lanes, Wanted, OrAny
  <1>3. /\ middle \in Seq(KeyChunks) /\ Len(middle) = 3
        /\ middle2 \in Seq(KeyChunks) /\ Len(middle2) = 3
    BY <1>1, <1>2, SomeTarget DEF Wanted
  <1>4. /\ front \in Seq(KeyChunks) /\ Len(front) = 5 /\ back \in Seq(KeyChunks)
        /\ front2 \in Seq(KeyChunks) /\ Len(front2) = 5 /\ back2 \in Seq(KeyChunks)
    BY <1>1, <1>2
  <1>5. KeyExprsIntersect(front, front2) <=> Pins(r.fromCore, s.core) /\ Pins(r.fromInst, s.inst)
    <2>1. KeyExprsIntersect(front, front2)
            <=> /\ SingleChunkIntersect(Wildcard, r.core)
                /\ SingleChunkIntersect(s.core, OrAny(r.fromCore))
                /\ SingleChunkIntersect(Wildcard, r.inst)
                /\ SingleChunkIntersect(s.inst, OrAny(r.fromInst))
                /\ SingleChunkIntersect("topic", "topic")
      <3>1. KeyExprsIntersect(front, front2) <=> ChunksMeet(front, front2)
        <4> HIDE DEF front, front2
        <4> QED BY <1>4, ChunkByChunk
      <3> QED BY <3>1 DEF ChunksMeet
    <2>2. /\ SingleChunkIntersect(Wildcard, r.core) /\ SingleChunkIntersect(Wildcard, r.inst)
          /\ SingleChunkIntersect("topic", "topic")
      BY <1>2, NamesPlain, LanesPlain, ChunkMeets DEF Lanes
    <2>3. /\ SingleChunkIntersect(s.core, OrAny(r.fromCore)) <=> Pins(r.fromCore, s.core)
          /\ SingleChunkIntersect(s.inst, OrAny(r.fromInst)) <=> Pins(r.fromInst, s.inst)
      BY <1>1, <1>2, PinMeets
    <2> QED BY <2>1, <2>2, <2>3
  <1>6. KeyExprsIntersect(middle, middle2) <=> r.target \in {AnyTarget, s.target}
    BY <1>1, <1>2, TargetsMeet
  <1>7. KeyExprsIntersect(back, back2) <=> Pins(r.link, s.link) /\ r.topic = s.topic
    <2>1. KeyExprsIntersect(back, back2)
            <=> SingleChunkIntersect(s.link, OrAny(r.link)) /\ SingleChunkIntersect(s.topic, r.topic)
      BY <1>1, <1>2, PairsMeet, Zenon
    <2>2. SingleChunkIntersect(s.link, OrAny(r.link)) <=> Pins(r.link, s.link)
      BY <1>1, <1>2, PinMeets
    <2>3. SingleChunkIntersect(s.topic, r.topic) <=> r.topic = s.topic
      BY <1>1, <1>2, NamesPlain, ChunkMeets
    <2> QED BY <2>1, <2>2, <2>3
  <1>8. TopicPublish(s) = Three(front, middle, back) BY Zenon DEF TopicPublish, Three
  <1>9. TopicSubscribe(r) = Three(front2, middle2, back2) BY Zenon DEF TopicSubscribe, Three
  <1> HIDE DEF front, middle, back, front2, middle2, back2
  <1>10. Len(front) = Len(front2) /\ Len(middle) = Len(middle2) BY <1>3, <1>4
  <1>11. KeyExprsIntersect(Three(front, middle, back), Three(front2, middle2, back2))
           <=> /\ KeyExprsIntersect(front, front2) /\ KeyExprsIntersect(middle, middle2)
               /\ KeyExprsIntersect(back, back2)
    BY <1>3, <1>4, <1>10, ThriceMeet
  <1> QED BY <1>5, <1>6, <1>7, <1>8, <1>9, <1>11, Zenon DEF TopicMeans

Two(x, y) == x \o y

(* Length and elements of a key made of three parts.                         *)
LEMMA ThreeParts ==
  ASSUME NEW x \in Seq(KeyChunks), NEW y \in Seq(KeyChunks), NEW z \in Seq(KeyChunks)
  PROVE  /\ Three(x, y, z) \in Seq(KeyChunks)
         /\ Len(Three(x, y, z)) = Len(x) + Len(y) + Len(z)
         /\ \A k \in 1..Len(x) : Three(x, y, z)[k] = x[k]
         /\ \A k \in 1..Len(y) : Three(x, y, z)[Len(x) + k] = y[k]
         /\ \A k \in 1..Len(z) : Three(x, y, z)[Len(x) + Len(y) + k] = z[k]
  <1> DEFINE w == Two(x, y)
  <1>1. /\ w \in Seq(KeyChunks) /\ Len(w) = Len(x) + Len(y)
        /\ \A k \in 1..Len(x) : w[k] = x[k]
        /\ \A k \in 1..Len(y) : w[Len(x) + k] = y[k]
    BY Joined, Zenon DEF Two
  <1> HIDE DEF w
  <1>2. /\ Two(w, z) \in Seq(KeyChunks) /\ Len(Two(w, z)) = Len(w) + Len(z)
        /\ \A k \in 1..Len(w) : Two(w, z)[k] = w[k]
        /\ \A k \in 1..Len(z) : Two(w, z)[Len(w) + k] = z[k]
    BY <1>1, Joined, Zenon DEF Two
  <1>3. Three(x, y, z) = Two(w, z) BY Zenon DEF Three, Two, w
  <1>4. /\ Two(w, z) \in Seq(KeyChunks)
        /\ Len(Two(w, z)) = Len(x) + Len(y) + Len(z)
        /\ \A k \in 1..Len(x) : Two(w, z)[k] = x[k]
        /\ \A k \in 1..Len(y) : Two(w, z)[Len(x) + k] = y[k]
        /\ \A k \in 1..Len(z) : Two(w, z)[Len(x) + Len(y) + k] = z[k]
    BY <1>1, <1>2
  <1> QED BY <1>3, <1>4, Zenon

(* A key made of three parts is a key, as long as its parts.                 *)
LEMMA ThreeKey ==
  ASSUME NEW x \in Seq(KeyChunks), NEW y \in Seq(KeyChunks), NEW z \in Seq(KeyChunks)
  PROVE  /\ Three(x, y, z) \in Seq(KeyChunks)
         /\ Len(Three(x, y, z)) = Len(x) + Len(y) + Len(z)
  BY ThreeParts

(* The key of a feedback message, taken apart: thirteen chunks, the          *)
(* producer in the second and the fourth.                                    *)
LEMMA FeedbackKeys ==
  ASSUME NEW r \in ActionReceivers, NEW g \in Segment
  PROVE  LET key == ActionFeedbackPublish(r, DEFAULT_LINK_ID, g)
         IN  /\ key \in Seq(KeyChunks) /\ Len(key) = 13 /\ key[2] = r.core /\ key[4] = r.inst
             /\ key = Three(<<Wildcard, r.core, Wildcard, r.inst>>,
                            Root("action", r.target, DEFAULT_LINK_ID, r.name),
                            <<"feedback", r.inst, g>>)
  <1> DEFINE front == <<Wildcard, r.core, Wildcard, r.inst>>
             middle == Root("action", r.target, DEFAULT_LINK_ID, r.name)
             back == <<"feedback", r.inst, g>>
  <1>1. /\ Wildcard \in KeyChunks /\ DEFAULT_LINK_ID \in KeyChunks
        /\ r.core \in KeyChunks /\ r.inst \in KeyChunks /\ r.name \in KeyChunks
        /\ g \in KeyChunks /\ "action" \in KeyChunks /\ "feedback" \in KeyChunks
        /\ r.target \in Wanted
    BY ChunksNamed, NamesPlain DEF ActionReceivers, Lanes, Wanted
  <1>2. middle \in Seq(KeyChunks) /\ Len(middle) = 6 BY <1>1, RootKey, Zenon
  <1>3. /\ front \in Seq(KeyChunks) /\ Len(front) = 4 /\ back \in Seq(KeyChunks)
        /\ Len(back) = 3 /\ front[2] = r.core /\ front[4] = r.inst
    BY <1>1
  <1>4. ActionFeedbackPublish(r, DEFAULT_LINK_ID, g) = Three(front, middle, back)
    BY Zenon DEF ActionFeedbackPublish, ActionRoot, Root, Three
  <1> HIDE DEF front, middle, back
  <1>5. /\ Three(front, middle, back) \in Seq(KeyChunks)
        /\ Len(Three(front, middle, back)) = 13
        /\ Three(front, middle, back)[2] = r.core /\ Three(front, middle, back)[4] = r.inst
    <2>1. /\ Three(front, middle, back) \in Seq(KeyChunks)
          /\ Len(Three(front, middle, back)) = Len(front) + Len(middle) + Len(back)
      BY <1>2, <1>3, ThreeKey, Zenon
    <2>2. \A k \in 1..Len(front) : Three(front, middle, back)[k] = front[k]
      BY <1>2, <1>3, ThreeParts, Zenon
    <2>3. 2 \in 1..Len(front) /\ 4 \in 1..Len(front) BY <1>3
    <2>4. Len(front) + Len(middle) + Len(back) = 13 BY <1>2, <1>3
    <2> QED BY <1>3, <2>1, <2>2, <2>3, <2>4
  <1> QED BY <1>4, <1>5, Zenon DEF front, middle, back

(* The key a caller watches for feedback, taken apart.                       *)
LEMMA FeedbackWatchKeys ==
  ASSUME NEW s \in ActionSenders, NEW g \in Segment
  PROVE  LET key == ActionFeedbackSubscribe(s, g)
         IN  /\ key \in Seq(KeyChunks) /\ Len(key) = 13
             /\ key = Three(<<s.core, OrAny(s.to[1]), s.inst, OrAny(s.to[2])>>,
                            Root("action", s.target, Wildcard, s.name),
                            <<"feedback", OrAny(s.to[2]), g>>)
  <1> DEFINE front == <<s.core, OrAny(s.to[1]), s.inst, OrAny(s.to[2])>>
             middle == Root("action", s.target, Wildcard, s.name)
             back == <<"feedback", OrAny(s.to[2]), g>>
  <1>1. /\ Wildcard \in KeyChunks /\ s.core \in KeyChunks /\ s.inst \in KeyChunks
        /\ s.name \in KeyChunks /\ g \in KeyChunks /\ "action" \in KeyChunks
        /\ "feedback" \in KeyChunks
        /\ OrAny(s.to[1]) \in KeyChunks /\ OrAny(s.to[2]) \in KeyChunks
        /\ s.target \in Wanted
    BY ChunksNamed, NamesPlain DEF ActionSenders, Lanes, Wanted, OrAny
  <1>2. middle \in Seq(KeyChunks) /\ Len(middle) = 6
    <2>1. /\ "action" \in KeyChunks /\ s.target \in Wanted /\ Wildcard \in KeyChunks
          /\ s.name \in KeyChunks
      BY <1>1
    <2> QED BY <2>1, RootKey, Zenon
  <1>3. /\ front \in Seq(KeyChunks) /\ Len(front) = 4 /\ back \in Seq(KeyChunks)
        /\ Len(back) = 3
    BY <1>1
  <1>4. ActionFeedbackSubscribe(s, g) = Three(front, middle, back)
    BY Zenon DEF ActionFeedbackSubscribe, ActionRoot, Root, Three
  <1> HIDE DEF front, middle, back
  <1>5. Three(front, middle, back) \in Seq(KeyChunks) /\ Len(Three(front, middle, back)) = 13
    <2>1. /\ Three(front, middle, back) \in Seq(KeyChunks)
          /\ Len(Three(front, middle, back)) = Len(front) + Len(middle) + Len(back)
      BY <1>2, <1>3, ThreeKey, Zenon
    <2> QED BY <1>2, <1>3, <2>1
  <1> QED BY <1>4, <1>5, Zenon DEF front, middle, back

(* A feedback message meets exactly the callers who watch that producer,     *)
(* that action and that goal.                                                *)
LEMMA FeedbackMeets ==
  ASSUME NEW r \in ActionReceivers, NEW s \in ActionSenders, NEW g \in Segment,
         NEW h \in Segment
  PROVE  KeyExprsIntersect(ActionFeedbackPublish(r, DEFAULT_LINK_ID, g),
                           ActionFeedbackSubscribe(s, h))
           <=> ProducerMeant(s, r) /\ s.name = r.name /\ h = g
  <1> DEFINE front == <<Wildcard, r.core, Wildcard, r.inst>>
             middle == Root("action", r.target, DEFAULT_LINK_ID, r.name)
             back == <<"feedback", r.inst, g>>
             front2 == <<s.core, OrAny(s.to[1]), s.inst, OrAny(s.to[2])>>
             middle2 == Root("action", s.target, Wildcard, s.name)
             back2 == <<"feedback", OrAny(s.to[2]), h>>
  <1>1. /\ Wildcard \in KeyChunks /\ DEFAULT_LINK_ID \in KeyChunks
        /\ r.core \in KeyChunks /\ r.inst \in KeyChunks /\ r.name \in KeyChunks
        /\ g \in KeyChunks /\ "action" \in KeyChunks /\ "feedback" \in KeyChunks
        /\ r.core \in LinkId /\ r.inst \in LinkId /\ r.name \in LinkId /\ g \in LinkId
        /\ r.target \in SenderTargets /\ r.target \in Wanted
    BY ChunksNamed, NamesPlain DEF ActionReceivers, Lanes, Wanted
  <1>2. /\ s.core \in KeyChunks /\ s.inst \in KeyChunks /\ s.name \in KeyChunks
        /\ h \in KeyChunks
        /\ OrAny(s.to[1]) \in KeyChunks /\ OrAny(s.to[2]) \in KeyChunks
        /\ s.core \in LinkId /\ s.inst \in LinkId /\ s.name \in LinkId /\ h \in LinkId
        /\ s.to[1] \in LinkId \cup {NotGiven} /\ s.to[2] \in LinkId \cup {NotGiven}
        /\ s.target \in SenderTargets /\ s.target \in Wanted
    BY ChunksNamed, NamesPlain DEF ActionSenders, OrAny, Wanted
  <1>3. /\ middle \in Seq(KeyChunks) /\ Len(middle) = 6
        /\ middle2 \in Seq(KeyChunks) /\ Len(middle2) = 6
    <2>1. /\ "action" \in KeyChunks /\ r.target \in Wanted /\ DEFAULT_LINK_ID \in KeyChunks
          /\ r.name \in KeyChunks
      BY <1>1
    <2>2. s.target \in Wanted /\ Wildcard \in KeyChunks /\ s.name \in KeyChunks
      BY <1>1, <1>2
    <2> QED BY <2>1, <2>2, RootKey, Zenon
  <1>4. /\ front \in Seq(KeyChunks) /\ Len(front) = 4 /\ back \in Seq(KeyChunks)
        /\ front2 \in Seq(KeyChunks) /\ Len(front2) = 4 /\ back2 \in Seq(KeyChunks)
    BY <1>1, <1>2
  <1>5. KeyExprsIntersect(front, front2) <=> Pins(s.to[1], r.core) /\ Pins(s.to[2], r.inst)
    <2>1. KeyExprsIntersect(front, front2)
            <=> /\ SingleChunkIntersect(Wildcard, s.core)
                /\ SingleChunkIntersect(r.core, OrAny(s.to[1]))
                /\ SingleChunkIntersect(Wildcard, s.inst)
                /\ SingleChunkIntersect(r.inst, OrAny(s.to[2]))
      <3>1. KeyExprsIntersect(front, front2) <=> ChunksMeet(front, front2)
        <4> HIDE DEF front, front2
        <4> QED BY <1>4, ChunkByChunk
      <3> QED BY <3>1 DEF ChunksMeet
    <2>2. SingleChunkIntersect(Wildcard, s.core) /\ SingleChunkIntersect(Wildcard, s.inst)
      BY <1>2, NamesPlain, ChunkMeets
    <2>3. /\ SingleChunkIntersect(r.core, OrAny(s.to[1])) <=> Pins(s.to[1], r.core)
          /\ SingleChunkIntersect(r.inst, OrAny(s.to[2])) <=> Pins(s.to[2], r.inst)
      BY <1>1, <1>2, PinMeets
    <2> QED BY <2>1, <2>2, <2>3
  <1>6. KeyExprsIntersect(middle, middle2) <=> s.target = r.target /\ s.name = r.name
    <2>1. KeyExprsIntersect(middle, middle2)
            <=> /\ SingleChunkIntersect("action", "action") /\ r.target = s.target
                /\ SingleChunkIntersect(DEFAULT_LINK_ID, Wildcard)
                /\ SingleChunkIntersect(r.name, s.name)
      <3>1. /\ "action" \in KeyChunks /\ r.target \in SenderTargets
            /\ DEFAULT_LINK_ID \in KeyChunks /\ r.name \in KeyChunks
        BY <1>1
      <3>2. s.target \in SenderTargets /\ Wildcard \in KeyChunks /\ s.name \in KeyChunks
        BY <1>1, <1>2
      <3> DEFINE x == [lane |-> "action", target |-> r.target, link |-> DEFAULT_LINK_ID,
                       name |-> r.name]
                 y == [lane |-> "action", target |-> s.target, link |-> Wildcard,
                       name |-> s.name]
      <3>3. x \in Roots /\ y \in Roots BY <3>1, <3>2 DEF Roots
      <3>4. middle = RootOf(x) /\ middle2 = RootOf(y) BY DEF RootOf
      <3>5. KeyExprsIntersect(RootOf(x), RootOf(y))
              <=> /\ SingleChunkIntersect(x.lane, y.lane) /\ x.target = y.target
                  /\ SingleChunkIntersect(x.link, y.link)
                  /\ SingleChunkIntersect(x.name, y.name)
        <4> HIDE DEF x, y
        <4> QED BY <3>3, RootsMeet, Zenon
      <3> HIDE DEF middle, middle2
      <3> QED BY <3>4, <3>5
    <2>2. /\ SingleChunkIntersect("action", "action")
          /\ SingleChunkIntersect(DEFAULT_LINK_ID, Wildcard)
          /\ SingleChunkIntersect(r.name, s.name) <=> s.name = r.name
      BY <1>1, <1>2, NamesPlain, LanesPlain, ChunkMeets DEF Lanes
    <2> QED BY <2>1, <2>2
  <1>7. KeyExprsIntersect(back, back2) <=> Pins(s.to[2], r.inst) /\ h = g
    <2>1. KeyExprsIntersect(back, back2)
            <=> /\ SingleChunkIntersect("feedback", "feedback")
                /\ SingleChunkIntersect(r.inst, OrAny(s.to[2])) /\ SingleChunkIntersect(g, h)
      <3>1. KeyExprsIntersect(back, back2) <=> ChunksMeet(back, back2)
        <4> HIDE DEF back, back2
        <4> QED BY <1>4, ChunkByChunk
      <3> QED BY <3>1 DEF ChunksMeet
    <2>2. SingleChunkIntersect(r.inst, OrAny(s.to[2])) <=> Pins(s.to[2], r.inst)
      BY <1>1, <1>2, PinMeets
    <2>3. /\ SingleChunkIntersect(g, h) <=> h = g
          /\ SingleChunkIntersect("feedback", "feedback")
      BY <1>1, <1>2, NamesPlain, LanesPlain, ChunkMeets DEF Lanes
    <2> QED BY <2>1, <2>2, <2>3
  <1>8. ActionFeedbackPublish(r, DEFAULT_LINK_ID, g) = Three(front, middle, back)
    BY FeedbackKeys, Zenon
  <1>9. ActionFeedbackSubscribe(s, h) = Three(front2, middle2, back2)
    BY FeedbackWatchKeys, Zenon
  <1> HIDE DEF front, middle, back, front2, middle2, back2
  <1>10. Len(front) = Len(front2) /\ Len(middle) = Len(middle2) BY <1>3, <1>4
  <1>11. KeyExprsIntersect(Three(front, middle, back), Three(front2, middle2, back2))
           <=> /\ KeyExprsIntersect(front, front2) /\ KeyExprsIntersect(middle, middle2)
               /\ KeyExprsIntersect(back, back2)
    BY <1>3, <1>4, <1>10, ThriceMeet
  <1> QED BY <1>5, <1>6, <1>7, <1>8, <1>9, <1>11, Zenon DEF ProducerMeant

(* A liveliness token meets exactly the watches that mean its producer and   *)
(* its action.                                                               *)
LEMMA TokensMeet ==
  ASSUME NEW r \in ActionReceivers, NEW s \in ActionSenders
  PROVE  /\ KeyExprsIntersect(ActionLivelinessToken(r), ActionLivelinessWatch(s))
              <=> ProducerMeant(s, r) /\ s.name = r.name
         /\ KeyExprsIntersect(ActionLivelinessWatch(s), ActionLivelinessToken(r))
              <=> ProducerMeant(s, r) /\ s.name = r.name
  <1> DEFINE front == <<"action_liveliness", r.core, r.inst>>
             middle == TargetSegments(r.target)
             back == <<r.name>>
             front2 == <<"action_liveliness", OrAny(s.to[1]), OrAny(s.to[2])>>
             middle2 == TargetSegments(s.target)
             back2 == <<s.name>>
  <1>1. /\ r.core \in KeyChunks /\ r.inst \in KeyChunks /\ r.name \in KeyChunks
        /\ "action_liveliness" \in KeyChunks
        /\ r.core \in LinkId /\ r.inst \in LinkId /\ r.name \in LinkId
        /\ r.target \in SenderTargets /\ r.target \in Wanted
    BY ChunksNamed, NamesPlain DEF ActionReceivers, Lanes, Wanted
  <1>2. /\ s.name \in KeyChunks
        /\ OrAny(s.to[1]) \in KeyChunks /\ OrAny(s.to[2]) \in KeyChunks
        /\ s.name \in LinkId
        /\ s.to[1] \in LinkId \cup {NotGiven} /\ s.to[2] \in LinkId \cup {NotGiven}
        /\ s.target \in SenderTargets /\ s.target \in Wanted
    BY ChunksNamed, NamesPlain DEF ActionSenders, OrAny, Wanted
  <1>3. /\ middle \in Seq(KeyChunks) /\ Len(middle) = 3
        /\ middle2 \in Seq(KeyChunks) /\ Len(middle2) = 3
    BY <1>1, <1>2, SomeTarget DEF Wanted
  <1>4. /\ front \in Seq(KeyChunks) /\ Len(front) = 3 /\ back \in Seq(KeyChunks)
        /\ front2 \in Seq(KeyChunks) /\ Len(front2) = 3 /\ back2 \in Seq(KeyChunks)
    BY <1>1, <1>2
  <1>5. KeyExprsIntersect(front, front2) <=> Pins(s.to[1], r.core) /\ Pins(s.to[2], r.inst)
    <2>1. KeyExprsIntersect(front, front2)
            <=> /\ SingleChunkIntersect("action_liveliness", "action_liveliness")
                /\ SingleChunkIntersect(r.core, OrAny(s.to[1]))
                /\ SingleChunkIntersect(r.inst, OrAny(s.to[2]))
      <3>1. KeyExprsIntersect(front, front2) <=> ChunksMeet(front, front2)
        <4> HIDE DEF front, front2
        <4> QED BY <1>4, ChunkByChunk
      <3> QED BY <3>1 DEF ChunksMeet
    <2>2. SingleChunkIntersect("action_liveliness", "action_liveliness")
      BY LanesPlain, ChunkMeets DEF Lanes
    <2>3. /\ SingleChunkIntersect(r.core, OrAny(s.to[1])) <=> Pins(s.to[1], r.core)
          /\ SingleChunkIntersect(r.inst, OrAny(s.to[2])) <=> Pins(s.to[2], r.inst)
      BY <1>1, <1>2, PinMeets
    <2> QED BY <2>1, <2>2, <2>3
  <1>6. KeyExprsIntersect(middle, middle2) <=> s.target = r.target
    BY <1>1, <1>2, TargetsMeet DEF Wanted
  <1>7. KeyExprsIntersect(back, back2) <=> s.name = r.name
    <2>1. KeyExprsIntersect(back, back2) <=> SingleChunkIntersect(r.name, s.name)
      BY <1>1, <1>2, PairsMeet, Zenon
    <2>2. SingleChunkIntersect(r.name, s.name) <=> s.name = r.name
      BY <1>1, <1>2, NamesPlain, ChunkMeets
    <2> QED BY <2>1, <2>2
  <1>8. ActionLivelinessToken(r) = Three(front, middle, back)
    BY Zenon DEF ActionLivelinessToken, Three
  <1>9. ActionLivelinessWatch(s) = Three(front2, middle2, back2)
    BY Zenon DEF ActionLivelinessWatch, Three
  <1> HIDE DEF front, middle, back, front2, middle2, back2
  <1>10. Len(front) = Len(front2) /\ Len(middle) = Len(middle2) BY <1>3, <1>4
  <1>11. KeyExprsIntersect(Three(front, middle, back), Three(front2, middle2, back2))
           <=> /\ KeyExprsIntersect(front, front2) /\ KeyExprsIntersect(middle, middle2)
               /\ KeyExprsIntersect(back, back2)
    BY <1>3, <1>4, <1>10, ThriceMeet
  <1>12. /\ Three(front, middle, back) \in Seq(KeyChunks)
         /\ Three(front2, middle2, back2) \in Seq(KeyChunks)
    BY <1>3, <1>4, ThreeKey, Zenon
  <1>13. KeyExprsIntersect(Three(front2, middle2, back2), Three(front, middle, back))
           <=> KeyExprsIntersect(Three(front, middle, back), Three(front2, middle2, back2))
    BY <1>12, EitherWay, Zenon
  <1> QED BY <1>5, <1>6, <1>7, <1>8, <1>9, <1>11, <1>13, Zenon DEF ProducerMeant

Nested(x, y, z) == x \o (y \o z)

(* Concatenation is associative.                                             *)
LEMMA NestedIsThree ==
  ASSUME NEW x \in Seq(KeyChunks), NEW y \in Seq(KeyChunks), NEW z \in Seq(KeyChunks)
  PROVE  Nested(x, y, z) = Three(x, y, z)
  <1>1. (x \o y) \o z = x \o (y \o z)
    BY ConcatAssociative
  <1> QED BY <1>1, Zenon DEF Nested, Three

(* A root, chunk by chunk.                                                   *)
LEMMA RootOfKey ==
  ASSUME NEW x \in Roots
  PROVE  /\ RootOf(x) \in Seq(KeyChunks) /\ Len(RootOf(x)) = 6
         /\ RootOf(x) = <<x.lane, x.target.disc, x.target.name, x.target.tag, x.link, x.name>>
  <1>1. /\ x.lane \in KeyChunks /\ x.target \in Wanted /\ x.link \in KeyChunks
        /\ x.name \in KeyChunks
    BY DEF Roots, Wanted
  <1>2. RootOf(x) \in Seq(KeyChunks) /\ Len(RootOf(x)) = 6
    BY <1>1, RootKey, Zenon DEF RootOf
  <1>3. RootOf(x) = <<x.lane, x.target.disc, x.target.name, x.target.tag, x.link, x.name>>
    BY <1>1, RootChunks, Zenon DEF RootOf
  <1> QED BY <1>2, <1>3, Zenon

(* What a receiver reads from a key with four chunks in front of a root.     *)
LEMMA KeyRead ==
  ASSUME NEW front \in Seq(KeyChunks), Len(front) = 4, NEW x \in Roots,
         NEW back \in Seq(KeyChunks)
  PROVE  LET key == Three(front, RootOf(x), back)
         IN  /\ key \in Seq(KeyChunks) /\ Len(key) = 10 + Len(back)
             /\ key[1] = front[1] /\ key[2] = front[2] /\ key[3] = front[3]
             /\ key[4] = front[4] /\ key[9] = x.link
             /\ SubSeq(key, 5, 8) = <<x.lane>> \o TargetSegments(x.target)
  <1> DEFINE root == RootOf(x)
             key == Three(front, root, back)
  <1>1. root \in Seq(KeyChunks) /\ Len(root) = 6 BY RootOfKey, Zenon
  <1>2. /\ root[1] = x.lane /\ root[2] = x.target.disc /\ root[3] = x.target.name
        /\ root[4] = x.target.tag /\ root[5] = x.link
    <2>1. root = <<x.lane, x.target.disc, x.target.name, x.target.tag, x.link, x.name>>
      BY RootOfKey, Zenon
    <2> HIDE DEF root
    <2> QED BY <2>1
  <1> HIDE DEF root
  <1>3. /\ key \in Seq(KeyChunks) /\ Len(key) = Len(front) + Len(root) + Len(back)
        /\ \A k \in 1..Len(front) : key[k] = front[k]
        /\ \A k \in 1..Len(root) : key[Len(front) + k] = root[k]
    BY <1>1, ThreeParts, ZenonT(60)
  <1> HIDE DEF key
  <1>4. Len(key) = 10 + Len(back) BY <1>1, <1>3
  <1>5. key[1] = front[1] /\ key[2] = front[2] /\ key[3] = front[3] /\ key[4] = front[4]
    BY <1>3
  <1>6. key[5] = root[1] /\ key[6] = root[2] /\ key[7] = root[3] /\ key[8] = root[4]
        /\ key[9] = root[5]
    <2>1. \A k \in 1..6 : key[4 + k] = root[k] BY <1>1, <1>3
    <2>2. key[4 + 1] = root[1] /\ key[4 + 2] = root[2] /\ key[4 + 3] = root[3]
          /\ key[4 + 4] = root[4] /\ key[4 + 5] = root[5]
      BY <2>1
    <2> QED BY <2>2
  <1>7. SubSeq(key, 5, 8) = <<key[5], key[6], key[7], key[8]>>
    <2>1. \A k \in 5..8 : key[k] \in KeyChunks BY <1>3, <1>4
    <2>2. SubSeq(key, 5, 8) \in Seq(KeyChunks) /\ Len(SubSeq(key, 5, 8)) = 4
      BY <2>1, <1>3, <1>4
    <2>3. \A k \in 1..4 : SubSeq(key, 5, 8)[k] = key[4 + k]
      BY <1>3, <1>4
    <2> DEFINE four == <<key[5], key[6], key[7], key[8]>>
    <2>4. four \in Seq(KeyChunks) /\ Len(four) = 4 BY <2>1
    <2>5. \A k \in 1..4 : SubSeq(key, 5, 8)[k] = four[k] BY <2>3
    <2> HIDE DEF four
    <2>6. SubSeq(key, 5, 8) = four BY <2>2, <2>4, <2>5, SeqEqual
    <2> QED BY <2>6 DEF four
  <1>8. <<x.lane>> \o TargetSegments(x.target)
          = <<x.lane, x.target.disc, x.target.name, x.target.tag>>
    <2> DEFINE both == <<x.lane>> \o <<x.target.disc, x.target.name, x.target.tag>>
               four == <<x.lane, x.target.disc, x.target.name, x.target.tag>>
    <2>1. /\ x.target.disc \in KeyChunks /\ x.target.name \in KeyChunks
          /\ x.target.tag \in KeyChunks /\ x.lane \in KeyChunks
      BY TargetFacts DEF Roots
    <2>2. both \in Seq(KeyChunks) /\ four \in Seq(KeyChunks) /\ Len(both) = 4 /\ Len(four) = 4
      BY <2>1
    <2>3. \A k \in 1..4 : both[k] = four[k] BY <2>1
    <2>4. both = four
      <3> HIDE DEF both, four
      <3> QED BY <2>2, <2>3, SeqEqual
    <2> QED BY <2>4, Zenon DEF TargetSegments
  <1>9. <<key[5], key[6], key[7], key[8]>>
          = <<x.lane, x.target.disc, x.target.name, x.target.tag>>
    BY <1>2, <1>6
  <1>10. key[9] = x.link BY <1>2, <1>6
  <1>11. SubSeq(key, 5, 8) = <<x.lane>> \o TargetSegments(x.target)
    BY <1>7, <1>8, <1>9, Zenon
  <1> QED BY <1>3, <1>4, <1>5, <1>10, <1>11, Zenon DEF key, root

(* The lane and the suffix together tell the kind of a request.              *)
LEMMA SuffixMeet ==
  ASSUME NEW k \in ServiceKinds, NEW k2 \in ServiceKinds
  PROVE  /\ Suffix(k) \in Seq(KeyChunks) /\ RootSegment(k) \in KeyChunks
         /\ SingleChunkIntersect(RootSegment(k), RootSegment(k2))
              /\ KeyExprsIntersect(Suffix(k), Suffix(k2)) <=> k = k2
         /\ Suffix(k) = <<>> \/ Len(Suffix(k)) = 1
  <1>1. \A c \in Lanes : Plain(c) /\ c \in KeyChunks BY LanesPlain, ChunksNamed
  <1>2. /\ RootSegment(k) \in Lanes /\ RootSegment(k2) \in Lanes
        /\ ActionKinds \subseteq Lanes
    BY DEF Lanes, RootSegment, ActionKinds
  <1>3. /\ Suffix(k) \in Seq(KeyChunks) /\ Suffix(k2) \in Seq(KeyChunks)
        /\ Suffix(k) = <<>> \/ Len(Suffix(k)) = 1
    BY <1>1, <1>2 DEF Suffix
  <1>4. KeyExprsIntersect(Suffix(k), Suffix(k2)) <=> ChunksMeet(Suffix(k), Suffix(k2))
    BY <1>3, ChunkByChunk
  <1>5. SingleChunkIntersect(RootSegment(k), RootSegment(k2)) <=> RootSegment(k) = RootSegment(k2)
    BY <1>1, <1>2, ChunkMeets
  <1>6. CASE k \in ActionKinds /\ k2 \in ActionKinds
    <2>1. Suffix(k) = <<k>> /\ Suffix(k2) = <<k2>> /\ RootSegment(k) = RootSegment(k2)
      BY <1>6 DEF Suffix, RootSegment
    <2>2. SingleChunkIntersect(k, k2) <=> k = k2
      BY <1>1, <1>2, <1>6, ChunkMeets
    <2>3. ChunksMeet(<<k>>, <<k2>>) <=> SingleChunkIntersect(k, k2)
      BY DEF ChunksMeet
    <2> QED BY <1>1, <1>2, <1>3, <1>4, <1>5, <2>1, <2>2, <2>3
  <1>7. CASE k = "service" /\ k2 = "service"
    <2>1. Suffix(k) = <<>> /\ Suffix(k2) = <<>> BY <1>7 DEF Suffix, ActionKinds
    <2>2. ChunksMeet(<<>>, <<>>) BY DEF ChunksMeet
    <2> QED BY <1>1, <1>2, <1>3, <1>4, <1>5, <1>7, <2>1, <2>2
  <1>8. CASE k \in ActionKinds /\ k2 = "service"
    BY <1>1, <1>2, <1>3, <1>5, <1>8 DEF RootSegment, ActionKinds
  <1>9. CASE k = "service" /\ k2 \in ActionKinds
    BY <1>1, <1>2, <1>3, <1>5, <1>9 DEF RootSegment, ActionKinds
  <1> QED BY <1>6, <1>7, <1>8, <1>9 DEF ServiceKinds

RootNamed(target, link, name, kind) ==
  [lane |-> RootSegment(kind), target |-> target, link |-> link, name |-> name]

(* What a service key is made of.                                            *)
ServiceKey(front, target, link, name, kind) ==
  Three(front, RootOf(RootNamed(target, link, name, kind)), Suffix(kind))

(* The keys of services, requests and replies alike, have one shape.         *)
LEMMA ServiceKeyIs ==
  ASSUME NEW front \in Seq(KeyChunks), NEW t \in SenderTargets, NEW link \in KeyChunks,
         NEW name \in KeyChunks, NEW kind \in ServiceKinds
  PROVE  /\ front \o ServiceRoot(t, link, name, kind) = ServiceKey(front, t, link, name, kind)
         /\ RootNamed(t, link, name, kind) \in Roots
  <1> DEFINE x == RootNamed(t, link, name, kind)
  <1>1. RootSegment(kind) \in KeyChunks /\ Suffix(kind) \in Seq(KeyChunks)
    BY SuffixMeet, Zenon
  <1>2. x \in Roots BY <1>1 DEF RootNamed, Roots
  <1>3. /\ x.lane = RootSegment(kind) /\ x.target = t /\ x.link = link /\ x.name = name
    BY DEF RootNamed
  <1>4. RootOf(x) = <<RootSegment(kind)>> \o TargetSegments(t) \o <<link, name>>
    <2> HIDE DEF x
    <2> QED BY <1>3, Zenon DEF RootOf, Root
  <1>5. RootOf(x) \in Seq(KeyChunks) BY <1>2, RootOfKey, Zenon
  <1>6. front \o ServiceRoot(t, link, name, kind) = Nested(front, RootOf(x), Suffix(kind))
    <2> HIDE DEF x
    <2> QED BY <1>4, Zenon DEF Nested, ServiceRoot
  <1>7. Nested(front, RootOf(x), Suffix(kind)) = Three(front, RootOf(x), Suffix(kind))
    BY <1>1, <1>5, NestedIsThree, Zenon
  <1> QED BY <1>2, <1>6, <1>7, Zenon DEF ServiceKey

(* What a receiver finds in a service key, whoever wrote it.                 *)
ReadAs(key, front, target, link, kind) ==
  /\ key \in Seq(KeyChunks) /\ Len(key) > 9
  /\ key[1] = front[1] /\ key[2] = front[2] /\ key[3] = front[3]
  /\ key[4] = front[4] /\ key[9] = link
  /\ SubSeq(key, 5, 8) = <<RootSegment(kind)>> \o TargetSegments(target)

(* A receiver finds in a service key what its writer put there.              *)
LEMMA ServiceKeyRead ==
  ASSUME NEW front \in Seq(KeyChunks), Len(front) = 4, NEW t \in SenderTargets,
         NEW link \in KeyChunks, NEW name \in KeyChunks, NEW kind \in ServiceKinds
  PROVE  ReadAs(ServiceKey(front, t, link, name, kind), front, t, link, kind)
  <1> DEFINE x == RootNamed(t, link, name, kind)
             back == Suffix(kind)
             key == Three(front, RootOf(x), back)
  <1>1. back \in Seq(KeyChunks) BY SuffixMeet, Zenon
  <1>2. x \in Roots BY ServiceKeyIs, Zenon
  <1>3. x.lane = RootSegment(kind) /\ x.target = t /\ x.link = link BY DEF RootNamed
  <1> HIDE DEF x, back
  <1>4. /\ key \in Seq(KeyChunks) /\ Len(key) = 10 + Len(back)
        /\ key[1] = front[1] /\ key[2] = front[2] /\ key[3] = front[3]
        /\ key[4] = front[4] /\ key[9] = x.link
        /\ SubSeq(key, 5, 8) = <<x.lane>> \o TargetSegments(x.target)
    BY <1>1, <1>2, KeyRead, Zenon
  <1> HIDE DEF key
  <1>5. Len(key) > 9 BY <1>1, <1>4
  <1>6. ReadAs(key, front, t, link, kind) BY <1>3, <1>4, <1>5, Zenon DEF ReadAs
  <1> QED BY <1>6, Zenon DEF key, x, back, ServiceKey

(* Two service keys meet when they have the same target, name and kind and   *)
(* their fronts meet.                                                        *)
LEMMA ServiceKeysMeet ==
  ASSUME NEW front \in Seq(KeyChunks), Len(front) = 4, NEW t \in SenderTargets,
         NEW name \in LinkId, NEW kind \in ServiceKinds,
         NEW front2 \in Seq(KeyChunks), Len(front2) = 4, NEW t2 \in SenderTargets,
         NEW name2 \in LinkId, NEW kind2 \in ServiceKinds
  PROVE  KeyExprsIntersect(ServiceKey(front, t, Wildcard, name, kind),
                           ServiceKey(front2, t2, Wildcard, name2, kind2))
           <=> /\ KeyExprsIntersect(front, front2) /\ t = t2 /\ name = name2
               /\ kind = kind2
  <1> DEFINE x == RootNamed(t, Wildcard, name, kind)
             x2 == RootNamed(t2, Wildcard, name2, kind2)
             back == Suffix(kind)
             back2 == Suffix(kind2)
  <1>1. back \in Seq(KeyChunks) /\ back2 \in Seq(KeyChunks) BY SuffixMeet, Zenon
  <1>2. name \in KeyChunks /\ name2 \in KeyChunks /\ Wildcard \in KeyChunks
    BY ChunksNamed
  <1>3. x \in Roots /\ x2 \in Roots
    BY <1>2, SuffixMeet DEF RootNamed, Roots
  <1>4. /\ x.lane = RootSegment(kind) /\ x.target = t /\ x.link = Wildcard /\ x.name = name
        /\ x2.lane = RootSegment(kind2) /\ x2.target = t2 /\ x2.link = Wildcard
        /\ x2.name = name2
    BY DEF RootNamed
  <1>5. SingleChunkIntersect(RootSegment(kind), RootSegment(kind2))
          /\ KeyExprsIntersect(back, back2) <=> kind = kind2
    BY SuffixMeet, Zenon
  <1> HIDE DEF x, x2, back, back2
  <1>6. KeyExprsIntersect(RootOf(x), RootOf(x2))
          <=> /\ SingleChunkIntersect(RootSegment(kind), RootSegment(kind2)) /\ t = t2
              /\ name = name2
    <2>1. KeyExprsIntersect(RootOf(x), RootOf(x2))
            <=> /\ SingleChunkIntersect(x.lane, x2.lane) /\ x.target = x2.target
                /\ SingleChunkIntersect(x.link, x2.link)
                /\ SingleChunkIntersect(x.name, x2.name)
      BY <1>3, RootsMeet, Zenon
    <2>2. /\ SingleChunkIntersect(Wildcard, Wildcard)
          /\ SingleChunkIntersect(name, name2) <=> name = name2
      BY NamesPlain, ChunkMeets
    <2> QED BY <1>4, <2>1, <2>2
  <1>7. RootOf(x) \in Seq(KeyChunks) /\ RootOf(x2) \in Seq(KeyChunks)
        /\ Len(RootOf(x)) = 6 /\ Len(RootOf(x2)) = 6
    BY <1>3, RootOfKey, Zenon
  <1>8. KeyExprsIntersect(Three(front, RootOf(x), back), Three(front2, RootOf(x2), back2))
          <=> /\ KeyExprsIntersect(front, front2) /\ KeyExprsIntersect(RootOf(x), RootOf(x2))
              /\ KeyExprsIntersect(back, back2)
    <2> DEFINE y == RootOf(x)
               y2 == RootOf(x2)
    <2>1. /\ y \in Seq(KeyChunks) /\ y2 \in Seq(KeyChunks) /\ Len(y) = Len(y2)
          /\ Len(front) = Len(front2)
      BY <1>7
    <2> HIDE DEF y, y2
    <2>2. KeyExprsIntersect(Three(front, y, back), Three(front2, y2, back2))
            <=> /\ KeyExprsIntersect(front, front2) /\ KeyExprsIntersect(y, y2)
                /\ KeyExprsIntersect(back, back2)
      BY <1>1, <2>1, ThriceMeet
    <2> QED BY <2>2, Zenon DEF y, y2
  <1> QED BY <1>5, <1>6, <1>8, Zenon DEF x, x2, back, back2, ServiceKey

(* The four chunks in front of a request, a queryable, a reply.              *)
RequestFront(s) == <<OrAny(s.to[1]), s.core, OrAny(s.to[2]), s.inst>>
QueryableFront(r) == <<r.core, Wildcard, r.inst, Wildcard>>
ReplyFront(r, core, inst) == <<core, r.core, inst, r.inst>>

(* What a caller of a service is made of.                                    *)
LEMMA ServiceCallers ==
  ASSUME NEW s \in ServiceSenders
  PROVE  /\ s.core \in LinkId /\ s.inst \in LinkId /\ s.name \in LinkId
         /\ s.to[1] \in LinkId \cup {NotGiven} /\ s.to[2] \in LinkId \cup {NotGiven}
         /\ s.target \in SenderTargets /\ s.kind \in ServiceKinds
         /\ OrAny(s.to[1]) \in KeyChunks /\ OrAny(s.to[2]) \in KeyChunks
         /\ RequestFront(s) \in Seq(KeyChunks) /\ Len(RequestFront(s)) = 4
  <1>1. /\ s.core \in LinkId /\ s.inst \in LinkId /\ s.name \in LinkId
        /\ s.target \in SenderTargets /\ s.kind \in ServiceKinds /\ s.to \in CalledScopes
    BY NamesPlain DEF ServiceSenders
  <1>2. s.to[1] \in LinkId \cup {NotGiven} /\ s.to[2] \in LinkId \cup {NotGiven}
    BY <1>1, NamesPlain DEF CalledScopes
  <1>3. OrAny(s.to[1]) \in KeyChunks /\ OrAny(s.to[2]) \in KeyChunks
    BY <1>2, ChunksNamed DEF OrAny
  <1>4. RequestFront(s) \in Seq(KeyChunks) /\ Len(RequestFront(s)) = 4
    BY <1>1, <1>3, ChunksNamed DEF RequestFront
  <1> QED BY <1>1, <1>2, <1>3, <1>4, Zenon

(* What a producer of a service is made of.                                  *)
LEMMA ServiceProducers ==
  ASSUME NEW r \in ServiceReceivers
  PROVE  /\ r.core \in LinkId /\ r.inst \in LinkId /\ r.name \in LinkId
         /\ r.target \in SenderTargets /\ r.kind \in ServiceKinds
         /\ QueryableFront(r) \in Seq(KeyChunks) /\ Len(QueryableFront(r)) = 4
         /\ \A core, inst \in KeyChunks :
              ReplyFront(r, core, inst) \in Seq(KeyChunks) /\ Len(ReplyFront(r, core, inst)) = 4
  <1>1. /\ r.core \in LinkId /\ r.inst \in LinkId /\ r.name \in LinkId
        /\ r.target \in SenderTargets /\ r.kind \in ServiceKinds
    BY NamesPlain DEF ServiceReceivers
  <1>2. QueryableFront(r) \in Seq(KeyChunks) /\ Len(QueryableFront(r)) = 4
    BY <1>1, ChunksNamed DEF QueryableFront
  <1>3. ASSUME NEW core \in KeyChunks, NEW inst \in KeyChunks
        PROVE  /\ ReplyFront(r, core, inst) \in Seq(KeyChunks)
               /\ Len(ReplyFront(r, core, inst)) = 4
    BY <1>1, ChunksNamed DEF ReplyFront
  <1> QED BY <1>1, <1>2, <1>3

(* The selector of a request is a service key.                               *)
LEMMA RequestIs ==
  ASSUME NEW s \in ServiceSenders
  PROVE  ServiceGetSelector(s)
           = ServiceKey(RequestFront(s), s.target, Wildcard, s.name, s.kind)
  <1>1. /\ RequestFront(s) \in Seq(KeyChunks) /\ s.target \in SenderTargets
        /\ s.kind \in ServiceKinds /\ s.name \in LinkId
    BY ServiceCallers, Zenon
  <1>2. s.name \in KeyChunks /\ Wildcard \in KeyChunks
    BY <1>1, ChunksNamed
  <1>3. RequestFront(s) \o ServiceRoot(s.target, Wildcard, s.name, s.kind)
          = ServiceKey(RequestFront(s), s.target, Wildcard, s.name, s.kind)
    BY <1>1, <1>2, ServiceKeyIs, Zenon
  <1> QED BY <1>3, Zenon DEF ServiceGetSelector, RequestFront

(* So is the key a queryable is declared with.                               *)
LEMMA QueryableIs ==
  ASSUME NEW r \in ServiceReceivers
  PROVE  ServiceQueryableDeclare(r)
           = ServiceKey(QueryableFront(r), r.target, Wildcard, r.name, r.kind)
  <1>1. /\ QueryableFront(r) \in Seq(KeyChunks) /\ r.target \in SenderTargets
        /\ r.kind \in ServiceKinds /\ r.name \in LinkId
    BY ServiceProducers, Zenon
  <1>2. r.name \in KeyChunks /\ Wildcard \in KeyChunks
    BY <1>1, ChunksNamed
  <1>3. QueryableFront(r) \o ServiceRoot(r.target, Wildcard, r.name, r.kind)
          = ServiceKey(QueryableFront(r), r.target, Wildcard, r.name, r.kind)
    BY <1>1, <1>2, ServiceKeyIs, Zenon
  <1> QED BY <1>3, Zenon DEF ServiceQueryableDeclare, QueryableFront

(* A request meets exactly the queryables of the producers it means, for     *)
(* that name and that kind.                                                  *)
LEMMA RequestsMeet ==
  ASSUME NEW s \in ServiceSenders, NEW r \in ServiceReceivers
  PROVE  KeyExprsIntersect(ServiceGetSelector(s), ServiceQueryableDeclare(r))
           <=> ProducerMeant(s, r) /\ s.name = r.name /\ s.kind = r.kind
  <1> DEFINE front == RequestFront(s)
             front2 == QueryableFront(r)
  <1>1. KeyExprsIntersect(ServiceGetSelector(s), ServiceQueryableDeclare(r))
          <=> /\ KeyExprsIntersect(front, front2) /\ s.target = r.target /\ s.name = r.name
              /\ s.kind = r.kind
    <2>1. /\ front \in Seq(KeyChunks) /\ Len(front) = 4 /\ s.target \in SenderTargets
          /\ s.name \in LinkId /\ s.kind \in ServiceKinds
      BY ServiceCallers, Zenon
    <2>2. /\ front2 \in Seq(KeyChunks) /\ Len(front2) = 4 /\ r.target \in SenderTargets
          /\ r.name \in LinkId /\ r.kind \in ServiceKinds
      BY ServiceProducers, Zenon
    <2> HIDE DEF front, front2
    <2>3. KeyExprsIntersect(ServiceKey(front, s.target, Wildcard, s.name, s.kind),
                            ServiceKey(front2, r.target, Wildcard, r.name, r.kind))
            <=> /\ KeyExprsIntersect(front, front2) /\ s.target = r.target
                /\ s.name = r.name /\ s.kind = r.kind
      BY <2>1, <2>2, ServiceKeysMeet
    <2> QED BY <2>3, RequestIs, QueryableIs, Zenon DEF front, front2
  <1>2. KeyExprsIntersect(front, front2) <=> Pins(s.to[1], r.core) /\ Pins(s.to[2], r.inst)
    <2>1. KeyExprsIntersect(front, front2) <=> ChunksMeet(front, front2)
      <3>1. front \in Seq(KeyChunks) /\ front2 \in Seq(KeyChunks)
        BY ServiceCallers, ServiceProducers, Zenon
      <3> HIDE DEF front, front2
      <3> QED BY <3>1, ChunkByChunk
    <2>2. ChunksMeet(front, front2)
            <=> /\ SingleChunkIntersect(OrAny(s.to[1]), r.core)
                /\ SingleChunkIntersect(s.core, Wildcard)
                /\ SingleChunkIntersect(OrAny(s.to[2]), r.inst)
                /\ SingleChunkIntersect(s.inst, Wildcard)
      BY DEF ChunksMeet, RequestFront, QueryableFront
    <2>3. SingleChunkIntersect(s.core, Wildcard) /\ SingleChunkIntersect(s.inst, Wildcard)
      BY ServiceCallers, NamesPlain, ChunkMeets
    <2>4. /\ SingleChunkIntersect(OrAny(s.to[1]), r.core) <=> Pins(s.to[1], r.core)
          /\ SingleChunkIntersect(OrAny(s.to[2]), r.inst) <=> Pins(s.to[2], r.inst)
      <3>1. /\ s.to[1] \in LinkId \cup {NotGiven} /\ s.to[2] \in LinkId \cup {NotGiven}
            /\ r.core \in LinkId /\ r.inst \in LinkId
        BY ServiceCallers, ServiceProducers, Zenon
      <3> QED BY <3>1, PinMeets
    <2> QED BY <2>1, <2>2, <2>3, <2>4
  <1> QED BY <1>1, <1>2 DEF ProducerMeant

(* What a queryable reads from the selector of a request.                    *)
LEMMA RequestRead ==
  ASSUME NEW s \in ServiceSenders
  PROVE  LET key == ServiceGetSelector(s)
         IN  /\ key \in Seq(KeyChunks) /\ Len(key) > 9
             /\ key[1] = OrAny(s.to[1]) /\ key[2] = s.core /\ key[3] = OrAny(s.to[2])
             /\ key[4] = s.inst /\ key[9] = Wildcard
             /\ SubSeq(key, 5, 8) = <<RootSegment(s.kind)>> \o TargetSegments(s.target)
  <1> DEFINE front == RequestFront(s)
             key == ServiceKey(front, s.target, Wildcard, s.name, s.kind)
  <1>1. /\ front \in Seq(KeyChunks) /\ Len(front) = 4 /\ s.target \in SenderTargets
        /\ s.kind \in ServiceKinds /\ s.name \in LinkId
    BY ServiceCallers, Zenon
  <1>2. s.name \in KeyChunks /\ Wildcard \in KeyChunks
    BY <1>1, ChunksNamed
  <1>3. /\ front[1] = OrAny(s.to[1]) /\ front[2] = s.core /\ front[3] = OrAny(s.to[2])
        /\ front[4] = s.inst
    BY DEF RequestFront
  <1> HIDE DEF front
  <1>4. /\ key \in Seq(KeyChunks) /\ Len(key) > 9
        /\ key[1] = front[1] /\ key[2] = front[2] /\ key[3] = front[3]
        /\ key[4] = front[4] /\ key[9] = Wildcard
        /\ SubSeq(key, 5, 8) = <<RootSegment(s.kind)>> \o TargetSegments(s.target)
    <2>1. ReadAs(key, front, s.target, Wildcard, s.kind)
      BY <1>1, <1>2, ServiceKeyRead, Zenon
    <2> QED BY <2>1, Zenon DEF ReadAs
  <1>5. ServiceGetSelector(s) = key BY RequestIs, Zenon DEF front
  <1> HIDE DEF key
  <1> QED BY <1>3, <1>4, <1>5, Zenon

(* A caller reads from the reply who answered it.                            *)
LEMMA ReplyRead ==
  ASSUME NEW r \in ServiceReceivers, NEW core \in KeyChunks, NEW inst \in KeyChunks
  PROVE  ParseTopicKeyexpr(ServiceReplyKeyexpr(r, DEFAULT_LINK_ID, core, inst))
           = [ok |-> TRUE, core |-> r.core, inst |-> r.inst, link |-> DEFAULT_LINK_ID]
  <1> DEFINE front == ReplyFront(r, core, inst)
             key == ServiceKey(front, r.target, DEFAULT_LINK_ID, r.name, r.kind)
  <1>1. /\ front \in Seq(KeyChunks) /\ Len(front) = 4 /\ r.target \in SenderTargets
        /\ r.kind \in ServiceKinds /\ r.name \in LinkId
    BY ServiceProducers, Zenon
  <1>2. r.name \in KeyChunks /\ DEFAULT_LINK_ID \in KeyChunks
    BY <1>1, ChunksNamed, NamesPlain
  <1>3. front[2] = r.core /\ front[4] = r.inst
    BY DEF ReplyFront
  <1>4. ServiceReplyKeyexpr(r, DEFAULT_LINK_ID, core, inst)
          = front \o ServiceRoot(r.target, DEFAULT_LINK_ID, r.name, r.kind)
    BY Zenon DEF ServiceReplyKeyexpr, ReplyFront
  <1> HIDE DEF front
  <1>5. front \o ServiceRoot(r.target, DEFAULT_LINK_ID, r.name, r.kind) = key
    BY <1>1, <1>2, ServiceKeyIs, Zenon
  <1>6. /\ key \in Seq(KeyChunks) /\ Len(key) > 9
        /\ key[2] = front[2] /\ key[4] = front[4] /\ key[9] = DEFAULT_LINK_ID
    <2>1. ReadAs(key, front, r.target, DEFAULT_LINK_ID, r.kind)
      BY <1>1, <1>2, ServiceKeyRead, Zenon
    <2> QED BY <2>1, Zenon DEF ReadAs
  <1> HIDE DEF key
  <1>7. 2 \in DOMAIN key /\ 4 \in DOMAIN key /\ 9 \in DOMAIN key BY <1>6
  <1>8. /\ Chunk(key, 2) = r.core /\ Chunk(key, 4) = r.inst
        /\ Chunk(key, 9) = DEFAULT_LINK_ID
    BY <1>3, <1>6, <1>7, Zenon DEF Chunk
  <1>9. Plain(r.core) /\ Plain(r.inst)
    BY ServiceProducers, NamesPlain
  <1>10. r.core \notin {"", Wildcard} /\ r.inst \notin {"", Wildcard}
    BY <1>9, Zenon DEF Plain, Empty
  <1> QED BY <1>4, <1>5, <1>8, <1>10, Zenon DEF ParseTopicKeyexpr

(* A queryable takes a query when it is the producer that is meant and the   *)
(* query decodes, and then it knows the caller.                              *)
LEMMA InboundQuery ==
  ASSUME NEW s \in ServiceSenders, NEW r \in ServiceReceivers, NEW bytes
  PROVE  LET q == ParseInboundQuery(r, ServiceGetSelector(s), bytes)
         IN  /\ q.ok <=> /\ ProducerMeant(s, r)
                         /\ RootSegment(s.kind) = RootSegment(r.kind) /\ DecodesQuery(bytes)
             /\ q.core = s.core /\ q.inst = s.inst /\ q.link = Wildcard
  <1> DEFINE key == ServiceGetSelector(s)
  <1>1. /\ key \in Seq(KeyChunks) /\ Len(key) > 9
        /\ key[1] = OrAny(s.to[1]) /\ key[2] = s.core /\ key[3] = OrAny(s.to[2])
        /\ key[4] = s.inst /\ key[9] = Wildcard
        /\ SubSeq(key, 5, 8) = <<RootSegment(s.kind)>> \o TargetSegments(s.target)
    BY RequestRead, Zenon
  <1> HIDE DEF key
  <1>2. /\ 1 \in DOMAIN key /\ 2 \in DOMAIN key /\ 3 \in DOMAIN key /\ 4 \in DOMAIN key
        /\ 9 \in DOMAIN key /\ Len(key) > 8
    BY <1>1
  <1>3. /\ Chunk(key, 1) = OrAny(s.to[1]) /\ Chunk(key, 2) = s.core
        /\ Chunk(key, 3) = OrAny(s.to[2]) /\ Chunk(key, 4) = s.inst
        /\ Chunk(key, 9) = Wildcard
    BY <1>1, <1>2, Zenon DEF Chunk
  <1>4. /\ TargetSlotFits(OrAny(s.to[1]), r.core) <=> Pins(s.to[1], r.core)
        /\ TargetSlotFits(OrAny(s.to[2]), r.inst) <=> Pins(s.to[2], r.inst)
    <2>1. ASSUME NEW value \in LinkId, NEW given \in LinkId \cup {NotGiven}
          PROVE  TargetSlotFits(OrAny(given), value) <=> Pins(given, value)
      BY NamesPlain DEF TargetSlotFits, OrAny, Pins, Plain
    <2>2. /\ s.to[1] \in LinkId \cup {NotGiven} /\ s.to[2] \in LinkId \cup {NotGiven}
          /\ r.core \in LinkId /\ r.inst \in LinkId
      BY ServiceCallers, ServiceProducers, Zenon
    <2> QED BY <2>1, <2>2
  <1>5. SubSeq(key, 5, 8) = <<RootSegment(r.kind)>> \o TargetSegments(r.target)
          <=> RootSegment(s.kind) = RootSegment(r.kind) /\ s.target = r.target
    <2>1. s.target \in SenderTargets /\ r.target \in SenderTargets
      BY ServiceCallers, ServiceProducers, Zenon
    <2>2. ASSUME NEW lane \in KeyChunks, NEW t \in SenderTargets,
                 NEW lane2 \in KeyChunks, NEW t2 \in SenderTargets,
                 <<lane>> \o TargetSegments(t) = <<lane2>> \o TargetSegments(t2)
          PROVE  lane = lane2 /\ t = t2
      <3> DEFINE p == TargetSegments(t)
                 p2 == TargetSegments(t2)
                 x == <<lane>> \o p
                 x2 == <<lane2>> \o p2
      <3>1. p \in Seq(KeyChunks) /\ Len(p) = 3 /\ p2 \in Seq(KeyChunks) /\ Len(p2) = 3
        BY SomeTarget DEF Wanted
      <3> HIDE DEF p, p2
      <3>2. /\ x[1] = lane /\ x[2] = p[1] /\ x[3] = p[2] /\ x[4] = p[3]
            /\ x2[1] = lane2 /\ x2[2] = p2[1] /\ x2[3] = p2[2] /\ x2[4] = p2[3]
        <4>1. ASSUME NEW l \in KeyChunks, NEW z \in Seq(KeyChunks), Len(z) = 3
              PROVE  /\ (<<l>> \o z)[1] = l /\ (<<l>> \o z)[2] = z[1]
                     /\ (<<l>> \o z)[3] = z[2] /\ (<<l>> \o z)[4] = z[3]
          <5> DEFINE one == <<l>>
                     w == one \o z
          <5>1. one \in Seq(KeyChunks) /\ Len(one) = 1 /\ one[1] = l OBVIOUS
          <5> HIDE DEF one
          <5>2. /\ \A k \in 1..Len(one) : w[k] = one[k]
                /\ \A k \in 1..Len(z) : w[Len(one) + k] = z[k]
            BY <5>1, Joined, Zenon
          <5> HIDE DEF w
          <5>3. w[1] = l /\ \A k \in 1..3 : w[1 + k] = z[k] BY <4>1, <5>1, <5>2
          <5>4. w[1 + 1] = z[1] /\ w[1 + 2] = z[2] /\ w[1 + 3] = z[3]
            BY <5>3
          <5>6. w[1] = l /\ w[2] = z[1] /\ w[3] = z[2] /\ w[4] = z[3]
            BY <5>3, <5>4
          <5> QED BY <5>6, Zenon DEF w, one
        <4> QED BY <3>1, <4>1, Zenon
      <3>3. x = x2 BY <2>2 DEF p, p2
      <3> HIDE DEF x, x2
      <3>4. lane = lane2 /\ p[1] = p2[1] /\ p[2] = p2[2] /\ p[3] = p2[3]
        BY <3>2, <3>3
      <3>5. t.disc = t2.disc /\ t.name = t2.name /\ t.tag = t2.tag
        BY <3>4 DEF p, p2, TargetSegments
      <3> QED BY <3>4, <3>5, TargetFacts
    <2>3. RootSegment(s.kind) \in KeyChunks /\ RootSegment(r.kind) \in KeyChunks
      BY ServiceCallers, ServiceProducers, SuffixMeet, Zenon
    <2>4. <<RootSegment(s.kind)>> \o TargetSegments(s.target)
            = <<RootSegment(r.kind)>> \o TargetSegments(r.target)
            <=> RootSegment(s.kind) = RootSegment(r.kind) /\ s.target = r.target
      BY <2>1, <2>2, <2>3, Zenon
    <2> QED BY <1>1, <2>4, Zenon
  <1> DEFINE same == SubSeq(key, 5, 8) = <<RootSegment(r.kind)>> \o TargetSegments(r.target)
             fits == /\ TargetSlotFits(OrAny(s.to[1]), r.core)
                     /\ TargetSlotFits(OrAny(s.to[2]), r.inst)
                     /\ Len(key) > 8 /\ same /\ DecodesQuery(bytes)
             q == ParseInboundQuery(r, key, bytes)
  <1>6. q = [ok |-> fits, core |-> s.core, inst |-> s.inst, link |-> Wildcard]
    BY <1>3, Zenon DEF ParseInboundQuery
  <1>7. fits <=> /\ Pins(s.to[1], r.core) /\ Pins(s.to[2], r.inst)
                 /\ RootSegment(s.kind) = RootSegment(r.kind) /\ s.target = r.target
                 /\ DecodesQuery(bytes)
    BY <1>2, <1>4, <1>5, Zenon
  <1> HIDE DEF q, fits
  <1>8. (q.ok = fits) /\ q.core = s.core /\ q.inst = s.inst /\ q.link = Wildcard
    BY <1>6
  <1> QED BY <1>7, <1>8, Zenon DEF ProducerMeant, q, key

-----------------------------------------------------------------------------
(* The messages under way are those the constructors make.                   *)
WireType ==
  \/ wire = [shape |-> "none"]
  \/ \E s \in TopicSenders : wire = [shape |-> "topic", from |-> s]
  \/ \E s \in ServiceSenders : wire = [shape |-> "request", from |-> s]
  \/ \E r \in ActionReceivers, g \in Segment :
       wire = [shape |-> "feedback", from |-> r, goal |-> g]
  \/ \E r \in ActionReceivers : wire = [shape |-> "token", from |-> r]

(* Who sent the message that is under way.                                   *)
LEMMA WireTyped ==
  /\ wire.shape = "topic" /\ WireType => wire.from \in TopicSenders
  /\ wire.shape = "request" /\ WireType => wire.from \in ServiceSenders
  /\ wire.shape = "feedback" /\ WireType
       => wire.from \in ActionReceivers /\ wire.goal \in Segment
  /\ wire.shape = "token" /\ WireType => wire.from \in ActionReceivers
  BY DEF WireType

(* A subscriber reads from a publication who sent it.                        *)
LEMMA TopicParses ==
  ASSUME NEW s \in TopicSenders
  PROVE  ParseTopicKeyexpr(TopicPublish(s))
           = [ok |-> TRUE, core |-> s.core, inst |-> s.inst, link |-> s.link]
  <1> DEFINE front == <<Wildcard, s.core, Wildcard, s.inst, "topic">>
             middle == TargetSegments(s.target)
             back == <<s.link, s.topic>>
             key == Three(front, middle, back)
  <1>1. /\ Wildcard \in KeyChunks /\ s.core \in KeyChunks /\ s.inst \in KeyChunks
        /\ s.link \in KeyChunks /\ s.topic \in KeyChunks /\ "topic" \in KeyChunks
        /\ s.target \in Wanted
    BY ChunksNamed, NamesPlain DEF TopicSenders, Lanes, Wanted
  <1>2. Plain(s.core) /\ Plain(s.inst)
    BY NamesPlain DEF TopicSenders
  <1>3. s.core \notin {"", Wildcard} /\ s.inst \notin {"", Wildcard}
    BY <1>2, Zenon DEF Plain, Empty
  <1>4. middle \in Seq(KeyChunks) /\ Len(middle) = 3 BY <1>1, SomeTarget
  <1>5. /\ front \in Seq(KeyChunks) /\ Len(front) = 5 /\ back \in Seq(KeyChunks)
        /\ Len(back) = 2 /\ front[2] = s.core /\ front[4] = s.inst /\ back[1] = s.link
    BY <1>1
  <1>6. TopicPublish(s) = key BY Zenon DEF TopicPublish, Three
  <1> HIDE DEF front, middle, back
  <1>7. /\ key \in Seq(KeyChunks) /\ Len(key) = Len(front) + Len(middle) + Len(back)
        /\ \A k \in 1..Len(front) : key[k] = front[k]
        /\ \A k \in 1..Len(back) : key[Len(front) + Len(middle) + k] = back[k]
    <2>1. front \in Seq(KeyChunks) /\ middle \in Seq(KeyChunks) /\ back \in Seq(KeyChunks)
      BY <1>4, <1>5
    <2> QED BY <2>1, ThreeParts, Zenon
  <1> HIDE DEF key
  <1>8. key[2] = s.core /\ key[4] = s.inst /\ key[9] = s.link
    <2>1. \A k \in 1..2 : key[8 + k] = back[k] BY <1>4, <1>5, <1>7
    <2>2. key[8 + 1] = back[1] BY <2>1
    <2> QED BY <1>5, <1>7, <2>2
  <1>9. 2 \in DOMAIN key /\ 4 \in DOMAIN key /\ 9 \in DOMAIN key BY <1>4, <1>5, <1>7
  <1>10. Chunk(key, 2) = s.core /\ Chunk(key, 4) = s.inst /\ Chunk(key, 9) = s.link
    BY <1>8, <1>9, Zenon DEF Chunk
  <1> QED BY <1>3, <1>6, <1>10, Zenon DEF ParseTopicKeyexpr

(* Topics reach those who subscribed to them, and no watcher of feedback.    *)
LEMMA TopicsRoutedAll == WireType => TopicsRouted
  <1> SUFFICES ASSUME WireType, wire.shape = "topic"
               PROVE  /\ \A r \in TopicReceivers : IsMe(r) =>
                           (KeyExprsIntersect(TopicPublish(wire.from), TopicSubscribe(r))
                              <=> TopicMeans(wire.from, r))
                      /\ \A s \in ActionSenders, g \in Segment : IsMe(s) =>
                           ~KeyExprsIntersect(TopicPublish(wire.from),
                                              ActionFeedbackSubscribe(s, g))
    BY Zenon DEF TopicsRouted
  <1>1. wire.from \in TopicSenders BY WireTyped
  <1>2. ASSUME NEW r \in TopicReceivers
        PROVE  KeyExprsIntersect(TopicPublish(wire.from), TopicSubscribe(r))
                 <=> TopicMeans(wire.from, r)
    BY <1>1, TopicsMeet, Zenon
  <1>3. ASSUME NEW s \in ActionSenders, NEW g \in Segment
        PROVE  ~KeyExprsIntersect(TopicPublish(wire.from), ActionFeedbackSubscribe(s, g))
    <2>1. /\ TopicPublish(wire.from) \in Seq(KeyChunks) /\ Len(TopicPublish(wire.from)) = 10
      BY <1>1, TopicKeys
    <2>2. /\ ActionFeedbackSubscribe(s, g) \in Seq(KeyChunks)
          /\ Len(ActionFeedbackSubscribe(s, g)) = 13
      BY FeedbackWatchKeys, Zenon
    <2>3. ASSUME KeyExprsIntersect(TopicPublish(wire.from), ActionFeedbackSubscribe(s, g)) PROVE FALSE
      <3>1. Len(TopicPublish(wire.from)) = Len(ActionFeedbackSubscribe(s, g))
        BY <2>1, <2>2, <2>3, LengthsMeet, Zenon
      <3>2. 10 = 13 BY <2>1, <2>2, <3>1, Zenon
      <3> QED BY <3>2
    <2> QED BY <2>3
  <1> QED BY <1>2, <1>3

(* Feedback reaches those who watch the goal, and no subscriber of a topic.  *)
LEMMA FeedbackRoutedAll == WireType => FeedbackRouted
  <1> DEFINE key == ActionFeedbackPublish(wire.from, DEFAULT_LINK_ID, wire.goal)
  <1> SUFFICES ASSUME WireType, wire.shape = "feedback"
               PROVE  /\ \A s \in ActionSenders, g \in Segment : IsMe(s) =>
                           (KeyExprsIntersect(key, ActionFeedbackSubscribe(s, g))
                              <=> /\ ProducerMeant(s, wire.from) /\ s.name = wire.from.name
                                  /\ g = wire.goal)
                      /\ \A r \in TopicReceivers : IsMe(r) =>
                           ~KeyExprsIntersect(key, TopicSubscribe(r))
    BY Zenon DEF FeedbackRouted
  <1>1. wire.from \in ActionReceivers /\ wire.goal \in Segment BY WireTyped
  <1>2. ASSUME NEW s \in ActionSenders, NEW g \in Segment
        PROVE  KeyExprsIntersect(key, ActionFeedbackSubscribe(s, g))
                 <=> /\ ProducerMeant(s, wire.from) /\ s.name = wire.from.name
                     /\ g = wire.goal
    BY <1>1, FeedbackMeets
  <1>3. ASSUME NEW r \in TopicReceivers
        PROVE  ~KeyExprsIntersect(key, TopicSubscribe(r))
    <2>1. key \in Seq(KeyChunks) /\ Len(key) = 13
      BY <1>1, FeedbackKeys, Zenon
    <2>2. TopicSubscribe(r) \in Seq(KeyChunks) /\ Len(TopicSubscribe(r)) = 10
      BY TopicKeys
    <2> HIDE DEF key
    <2>3. ASSUME KeyExprsIntersect(key, TopicSubscribe(r)) PROVE FALSE
      <3>1. Len(key) = Len(TopicSubscribe(r))
        BY <2>1, <2>2, <2>3, LengthsMeet, Zenon
      <3>2. 10 = 13 BY <2>1, <2>2, <3>1, Zenon
      <3> QED BY <3>2
    <2> QED BY <2>3
  <1> QED BY <1>2, <1>3

(* Liveliness tokens reach those who watch the producer.                     *)
LEMMA TokensRoutedAll == WireType => TokensRouted
  <1> SUFFICES ASSUME WireType, wire.shape = "token", NEW s \in ActionSenders
               PROVE  KeyExprsIntersect(ActionLivelinessToken(wire.from),
                                        ActionLivelinessWatch(s))
                        <=> ProducerMeant(s, wire.from) /\ s.name = wire.from.name
    BY Zenon DEF TokensRouted
  <1>1. wire.from \in ActionReceivers BY WireTyped
  <1> QED BY <1>1, TokensMeet, Zenon

(* A probe, a request and a reply are told apart by their attachments.       *)
LEMMA LanesAreApart ==
  ASSUME NEW s \in ServiceSenders, NEW r \in ServiceReceivers, ProducerMeant(s, r),
         s.kind = r.kind
  PROVE  LanesApart(r, ServiceGetSelector(s))
  <1> DEFINE key == ServiceGetSelector(s)
  <1>1. ASSUME NEW k \in RequestKinds
        PROVE  /\ Dispatches(r, key, QueryAttachment(k)) /\ QueryKind(QueryAttachment(k)) = k
               /\ ~DecodesReply(QueryAttachment(k))
    <2> DEFINE bytes == QueryAttachment(k)
    <2>1. /\ DecodesQuery(bytes) /\ QueryKind(bytes) = k /\ ~DecodesReply(bytes)
      BY DEF RequestKinds, QueryAttachment, KindByte, QueryMagic, DecodesQuery, QueryKind,
             DecodesReply, ReplyMagic
    <2> HIDE DEF bytes, key
    <2>2. /\ ParseInboundQuery(r, ServiceGetSelector(s), bytes).ok
          /\ ParseInboundQuery(r, ServiceGetSelector(s), bytes).link = Wildcard
      BY <2>1, InboundQuery, Zenon
    <2>3. Dispatches(r, key, bytes)
      BY <2>2, Zenon DEF Dispatches, Claims, key
    <2> QED BY <2>1, <2>3, Zenon DEF bytes
  <1>2. ASSUME NEW k \in DOMAIN ReplyKinds
        PROVE  LET bytes == ReplyAttachment(k - 1)
               IN  /\ DecodesReply(bytes) /\ ReplyKind(bytes) = ReplyKinds[k]
                   /\ ~Dispatches(r, key, bytes)
    <2> DEFINE bytes == ReplyAttachment(k - 1)
    <2>1. k \in 1..3 BY DEF ReplyKinds
    <2>2. DecodesReply(bytes) /\ ReplyKind(bytes) = ReplyKinds[k] /\ ~DecodesQuery(bytes)
      BY <2>1 DEF ReplyAttachment, DecodesReply, ReplyKind, DecodesQuery, ReplyMagic, QueryMagic
    <2> HIDE DEF bytes, key
    <2>3. ~ParseInboundQuery(r, ServiceGetSelector(s), bytes).ok
      BY <2>2, InboundQuery, Zenon
    <2>4. ~Dispatches(r, key, bytes) BY <2>3, Zenon DEF Dispatches, key
    <2> QED BY <2>2, <2>4, Zenon DEF bytes
  <1> QED BY <1>1, <1>2, Zenon DEF LanesApart

(* Requests reach the queryables that are meant, and these dispatch them.    *)
LEMMA RequestsRoutedAll == WireType => RequestsRouted
  <1> SUFFICES ASSUME WireType, wire.shape = "request", NEW r \in ServiceReceivers
               PROVE  LET key == ServiceGetSelector(wire.from)
                          meant == /\ ProducerMeant(wire.from, r)
                                   /\ wire.from.name = r.name /\ wire.from.kind = r.kind
                      IN  /\ KeyExprsIntersect(key, ServiceQueryableDeclare(r)) <=> meant
                          /\ meant => LanesApart(r, key)
    BY Zenon DEF RequestsRouted
  <1>1. wire.from \in ServiceSenders BY WireTyped
  <1> QED BY <1>1, RequestsMeet, LanesAreApart, Zenon

(* Whoever reads a message knows the producer.                               *)
LEMMA ProducersKnown == WireType => ProducerIsKnown
  <1> SUFFICES ASSUME WireType PROVE ProducerIsKnown OBVIOUS
  <1>1. ASSUME wire.shape = "topic"
        PROVE  ParseTopicKeyexpr(TopicPublish(wire.from))
                 = [ok |-> TRUE, core |-> wire.from.core, inst |-> wire.from.inst,
                    link |-> wire.from.link]
    <2>1. wire.from \in TopicSenders BY <1>1, WireTyped
    <2> QED BY <2>1, TopicParses, Zenon
  <1>2. ASSUME wire.shape = "feedback"
        PROVE  LET p == ParseTopicKeyexpr(
                          ActionFeedbackPublish(wire.from, DEFAULT_LINK_ID, wire.goal))
               IN  p.ok /\ p.core = wire.from.core /\ p.inst = wire.from.inst
    <2> DEFINE key == ActionFeedbackPublish(wire.from, DEFAULT_LINK_ID, wire.goal)
    <2>1. wire.from \in ActionReceivers /\ wire.goal \in Segment BY <1>2, WireTyped
    <2>2. /\ key \in Seq(KeyChunks) /\ Len(key) = 13 /\ key[2] = wire.from.core
          /\ key[4] = wire.from.inst
      BY <2>1, FeedbackKeys, Zenon
    <2>3. Plain(wire.from.core) /\ Plain(wire.from.inst)
      BY <2>1, NamesPlain DEF ActionReceivers
    <2>4. wire.from.core \notin {"", Wildcard} /\ wire.from.inst \notin {"", Wildcard}
      BY <2>3, Zenon DEF Plain, Empty
    <2> HIDE DEF key
    <2>5. 2 \in DOMAIN key /\ 4 \in DOMAIN key BY <2>2
    <2>6. Chunk(key, 2) = wire.from.core /\ Chunk(key, 4) = wire.from.inst
      BY <2>2, <2>5, Zenon DEF Chunk
    <2> QED BY <2>4, <2>6, Zenon DEF ParseTopicKeyexpr, key
  <1>3. ASSUME wire.shape = "request", NEW r \in ServiceReceivers
        PROVE  LET key   == ServiceGetSelector(wire.from)
                   q     == ParseInboundQuery(r, key, QueryAttachment("UserRequest"))
                   reply == ServiceReplyKeyexpr(r, DEFAULT_LINK_ID, q.core, q.inst)
               IN  q.ok => /\ ProducerMeant(wire.from, r)
                           /\ q.core = wire.from.core /\ q.inst = wire.from.inst
                           /\ ParseTopicKeyexpr(reply)
                                = [ok |-> TRUE, core |-> r.core, inst |-> r.inst,
                                   link |-> DEFAULT_LINK_ID]
    <2> DEFINE bytes == QueryAttachment("UserRequest")
               q == ParseInboundQuery(r, ServiceGetSelector(wire.from), bytes)
    <2>1. wire.from \in ServiceSenders BY <1>3, WireTyped
    <2> HIDE DEF bytes
    <2>2. /\ q.ok => ProducerMeant(wire.from, r)
          /\ q.core = wire.from.core /\ q.inst = wire.from.inst
      <3>1. LET p == ParseInboundQuery(r, ServiceGetSelector(wire.from), bytes)
            IN  /\ p.ok <=> /\ ProducerMeant(wire.from, r)
                            /\ RootSegment(wire.from.kind) = RootSegment(r.kind)
                            /\ DecodesQuery(bytes)
                /\ p.core = wire.from.core /\ p.inst = wire.from.inst /\ p.link = Wildcard
        BY <2>1, InboundQuery
      <3> QED BY <3>1, Zenon
    <2>3. wire.from.core \in KeyChunks /\ wire.from.inst \in KeyChunks
      BY <2>1, ServiceCallers, ChunksNamed
    <2> HIDE DEF q
    <2>4. ParseTopicKeyexpr(ServiceReplyKeyexpr(r, DEFAULT_LINK_ID, q.core, q.inst))
            = [ok |-> TRUE, core |-> r.core, inst |-> r.inst, link |-> DEFAULT_LINK_ID]
      <3>1. q.core \in KeyChunks /\ q.inst \in KeyChunks BY <2>2, <2>3, Zenon
      <3> QED BY <3>1, ReplyRead, Zenon
    <2> QED BY <2>2, <2>4, Zenon DEF q, bytes
  <1> QED BY <1>1, <1>2, <1>3, Zenon DEF ProducerIsKnown

(* The message under way is always one the constructors make.                *)
LEMMA WireAlwaysTyped == WireSpec => []WireType
  <1>1. WireInit => WireType BY DEF WireInit, WireType
  <1>2. WireType /\ [WireNext]_wire => WireType'
    BY DEF WireType, WireNext, SendTopic, SendRequest, SendFeedback, DeclareToken
  <1> QED BY <1>1, <1>2, PTL DEF WireSpec

(***************************************************************************)
(* A message meets exactly the subscriptions, queryables, feedback streams *)
(* and watches that its address means, and who reads it knows who sent it, *)
(* whatever the words are that users choose (zenoh_format.rs).             *)
(***************************************************************************)
THEOREM RoutingCorrect == WireSpec => []RoutedAsAddressed
  <1>1. WireType => RoutedAsAddressed
    BY TopicsRoutedAll, RequestsRoutedAll, FeedbackRoutedAll, TokensRoutedAll,
       ProducersKnown, Zenon
    DEF RoutedAsAddressed
  <1> QED BY <1>1, WireAlwaysTyped, PTL

-----------------------------------------------------------------------------
(* Liveliness of the mock adapter (MockLiveliness)                           *)

Events == {"Alive", "Gone"}
GuardRecords == [action : Actions, state : {"held", "stale", "dropped"}]
Pinned(c) == c.to # <<NotGiven, NotGiven>>
TokenOf(i) == ActionLivelinessToken(guards[i].action)

MockTypes ==
  /\ mockSession \in BOOLEAN
  /\ tokens \in [Declarable -> Nat]
  /\ guards \in Seq(GuardRecords)
  /\ watches \in [Clients -> {NoWatch} \cup Seq(Events)]

(* A token is counted once for each guard that holds it; the guards that a   *)
(* stopped session leaves behind take nobody else's token with them.         *)
Counted ==
  \A k \in Declarable :
    /\ tokens[k] = Cardinality(Guards(k, "held"))
    /\ Guards(k, "stale") # {} => tokens[k] = 0

(* What the last event of a watch says.                                      *)
Watched ==
  \A c \in Clients :
    watches[c] \notin {NoWatch, <<>>} =>
      /\ GuardsHeldFor(c) = {} => Last(watches[c]) = "Gone"
      /\ GuardsHeldFor(c) # {} /\ Pinned(c) => Last(watches[c]) = "Alive"

MockInv == MockTypes /\ Counted /\ Watched

LEMMA DeclarableIsFinite == IsFiniteSet(Declarable)
  <1> DEFINE f == [a \in Actions |-> ActionLivelinessToken(a)]
  <1>1. f \in Surjection(Actions, Declarable)
    BY DEF Surjection, Declarable
  <1> QED BY <1>1, FS_Surjection, MockLivelinessAssumption

LEMMA NoWatchIsNoEvents == NoWatch \notin Seq(Events)
  <1> SUFFICES ASSUME NoWatch \in Seq(Events) PROVE FALSE
    OBVIOUS
  <1>1. NoWatch[1] = "none" /\ Len(NoWatch) = 1
    BY DEF NoWatch
  <1>2. NoWatch[1] \in Events
    BY <1>1
  <1> QED BY <1>1, <1>2 DEF Events

LEMMA GuardsAreFinite ==
  ASSUME MockTypes, NEW k, NEW state
  PROVE  IsFiniteSet(Guards(k, state)) /\ Guards(k, state) \subseteq DOMAIN guards
  <1>1. guards \in Seq(GuardRecords)
    BY DEF MockTypes
  <1>2. DOMAIN guards = 1..Len(guards) /\ Len(guards) \in Nat
    BY <1>1
  <1>3. IsFiniteSet(DOMAIN guards)
    BY <1>2, FS_Interval
  <1> QED BY <1>3, FS_Subset DEF Guards

LEMMA GuardIsRecord ==
  ASSUME MockTypes, NEW i \in DOMAIN guards
  PROVE  /\ guards[i] = [action |-> guards[i].action, state |-> guards[i].state]
         /\ guards[i].action \in Actions /\ guards[i].state \in {"held", "stale", "dropped"}
         /\ TokenOf(i) \in Declarable
  <1>0. guards \in Seq(GuardRecords)
    BY DEF MockTypes
  <1>1. guards[i] \in GuardRecords
    <2>1. i \in 1..Len(guards)
      BY <1>0
    <2> QED BY <1>0, <2>1, ElementOfSeq
  <1>2. guards[i].action \in Actions
    BY <1>1 DEF GuardRecords
  <1>3. TokenOf(i) \in Declarable
    BY <1>2 DEF TokenOf, Declarable
  <1> QED BY <1>1, <1>3 DEF GuardRecords

(* Nobody holds a token that is not counted.                                 *)
LEMMA CountedIsHeld ==
  ASSUME MockTypes, Counted, NEW k \in Declarable
  PROVE  tokens[k] = 0 <=> Guards(k, "held") = {}
  BY GuardsAreFinite, FS_EmptySet DEF Counted

LEMMA HeldForIs ==
  ASSUME MockTypes, NEW c \in Clients
  PROVE  \A i : i \in GuardsHeldFor(c) <=>
           \E k \in Declarable : Seen(c, k) /\ i \in Guards(k, "held")
  <1>1. \A i \in DOMAIN guards : TokenOf(i) \in Declarable
    BY GuardIsRecord
  <1> HIDE DEF Declarable, Seen
  <1> QED BY <1>1 DEF GuardsHeldFor, Guards, TokenOf

LEMMA AnnouncedIsHeld ==
  ASSUME MockTypes, Counted, NEW c \in Clients
  PROVE  Announced(c) <=> GuardsHeldFor(c) # {}
  <1>1. \A k \in Declarable : tokens[k] \in Nat
    BY DEF MockTypes
  <1>2. Announced(c) <=> \E k \in Declarable : Guards(k, "held") # {} /\ Seen(c, k)
    <2> HIDE DEF Declarable, Seen
    <2> QED BY <1>1, CountedIsHeld DEF Announced
  <1> QED BY <1>2, HeldForIs

(* A pinned client watches one token.                                        *)
LEMMA OneToken ==
  ASSUME NEW c \in Clients, Pinned(c), NEW k \in Declarable, NEW l \in Declarable,
         Seen(c, k), Seen(c, l)
  PROVE  k = l
  <1>1. c \in ActionSenders /\ Actions \subseteq ActionReceivers
    BY MockLivelinessAssumption
  <1>2. c.to[1] \in Segment /\ c.to[2] \in Segment
    BY <1>1 DEF Pinned, ActionSenders
  <1>3. c.to[1] # NotGiven /\ c.to[2] # NotGiven
    BY <1>2, NamesPlain
  <1>4. ASSUME NEW m \in {k, l}
        PROVE  \E r \in ActionReceivers :
                 /\ m = ActionLivelinessToken(r) /\ r.core = c.to[1] /\ r.inst = c.to[2]
                 /\ r.target = c.target /\ r.name = c.name
    <2>1. KeyExprsIntersect(ActionLivelinessWatch(c), m) /\ m \in Declarable
      BY Zenon DEF Seen, SeenBy
    <2>2. PICK r \in ActionReceivers : m = ActionLivelinessToken(r)
      BY <1>1, <2>1 DEF Declarable
    <2> QED BY <1>1, <1>3, <2>1, <2>2, TokensMeet DEF ProducerMeant, Pins
  <1>5. PICK r \in ActionReceivers, q \in ActionReceivers :
          /\ k = ActionLivelinessToken(r) /\ l = ActionLivelinessToken(q)
          /\ r.core = q.core /\ r.inst = q.inst /\ r.target = q.target /\ r.name = q.name
    BY <1>4
  <1> QED BY <1>5, Zenon DEF ActionLivelinessToken

LEMMA WatchIsTold ==
  ASSUME MockTypes, NEW keys \in SUBSET Declarable, NEW event \in Events, NEW c \in Clients
  PROVE  /\ watches[c] = NoWatch => Told(keys, event)[c] = NoWatch
         /\ watches[c] # NoWatch => Told(keys, event)[c] \in Seq(Events)
         /\ (\A k \in keys : ~Seen(c, k)) => Told(keys, event)[c] = watches[c]
         /\ watches[c] # NoWatch /\ (\E k \in keys : Seen(c, k)) =>
              Last(Told(keys, event)[c]) = event
  <1>1. CASE watches[c] = NoWatch
    BY <1>1 DEF Told
  <1>2. CASE watches[c] # NoWatch
    <2> DEFINE seen == {k \in keys : Seen(c, k)}
               n == Cardinality(seen)
               said == [i \in 1..n |-> event]
    <2>1. IsFiniteSet(seen) /\ n \in Nat
      BY DeclarableIsFinite, FS_Subset, FS_CardinalityType
    <2>2. n = 0 <=> seen = {}
      BY <2>1, FS_EmptySet
    <2>3. Told(keys, event)[c] = watches[c] \o said
      BY <1>2 DEF Told
    <2> HIDE DEF seen
    <2>4. watches[c] \in Seq(Events)
      BY <1>2 DEF MockTypes
    <2>5. said \in Seq(Events) /\ Len(said) = n /\ \A i \in 1..n : said[i] = event
      BY <2>1
    <2> HIDE DEF n, said
    <2>6. /\ watches[c] \o said \in Seq(Events)
          /\ Len(watches[c] \o said) = Len(watches[c]) + Len(said)
          /\ \A i \in 1..Len(watches[c]) + Len(said) : (watches[c] \o said)[i] =
               IF i <= Len(watches[c]) THEN watches[c][i] ELSE said[i - Len(watches[c])]
      BY <2>4, <2>5, ConcatProperties
    <2>7. CASE n = 0
      <3>1. said = <<>>
        BY <2>5, <2>7
      <3>2. watches[c] \o said = watches[c]
        BY <2>4, <3>1, ConcatEmptySeq
      <3>3. \A k \in keys : ~Seen(c, k)
        BY <2>2, <2>7 DEF seen
      <3> QED BY <1>2, <2>3, <2>6, <3>2, <3>3
    <2>8. CASE n # 0
      <3>1. Len(watches[c]) \in Nat /\ n >= 1
        BY <2>1, <2>4, <2>8
      <3>2. (watches[c] \o said)[Len(watches[c]) + n] = said[n]
        <4>1. Len(watches[c]) + n \in 1..Len(watches[c]) + Len(said)
          BY <2>1, <2>5, <3>1
        <4>2. PICK at \in 1..Len(watches[c]) + Len(said) : at = Len(watches[c]) + n
          BY <4>1
        <4>3. ~(at <= Len(watches[c])) /\ at - Len(watches[c]) = n
          BY <2>1, <3>1, <4>2
        <4>4. (watches[c] \o said)[at] = said[at - Len(watches[c])]
          BY <2>6, <4>2, <4>3
        <4> QED BY <4>2, <4>3, <4>4
      <3>3. Last(watches[c] \o said) = event
        BY <2>1, <2>5, <2>6, <3>1, <3>2 DEF Last
      <3>4. \E k \in keys : Seen(c, k)
        BY <2>2, <2>8 DEF seen
      <3> QED BY <1>2, <2>3, <2>6, <3>3, <3>4
    <2> QED BY <2>7, <2>8
  <1> QED BY <1>1, <1>2

LEMMA WatchesAreTold ==
  ASSUME MockTypes, NEW keys \in SUBSET Declarable, NEW event \in Events
  PROVE  Told(keys, event) \in [Clients -> {NoWatch} \cup Seq(Events)]
  <1>1. \A c \in Clients : Told(keys, event)[c] \in {NoWatch} \cup Seq(Events)
    BY WatchIsTold
  <1>2. Told(keys, event) = [c \in Clients |-> Told(keys, event)[c]]
    BY DEF Told
  <1> QED BY <1>1, <1>2

LEMMA MockStopStep ==
  ASSUME MockInv, StopSession PROVE MockInv'
  <1>0. MockTypes /\ Counted /\ Watched
    BY DEF MockInv
  <1>1. /\ tokens' = [k \in Declarable |-> 0] /\ mockSession' = FALSE
        /\ watches' = Told({k \in Declarable : tokens[k] > 0}, "Gone")
        /\ guards' = [i \in DOMAIN guards |->
                  IF guards[i].state = "held" THEN [guards[i] EXCEPT !.state = "stale"]
                  ELSE guards[i]]
    BY DEF StopSession, OnStop
  <1>2. guards \in Seq(GuardRecords)
    BY <1>0 DEF MockTypes
  <1>3. ASSUME NEW i \in DOMAIN guards
        PROVE  /\ guards'[i] \in GuardRecords
               /\ guards'[i].state # "held"
    BY <1>0, <1>1, <1>3, GuardIsRecord DEF GuardRecords
  <1>4. guards' \in Seq(GuardRecords)
        /\ DOMAIN guards' = DOMAIN guards
    <2>1. DOMAIN guards = 1..Len(guards) /\ Len(guards) \in Nat
      BY <1>2
    <2> QED BY <1>1, <1>3, <2>1
  <1>5. MockTypes'
    <2>1. watches' \in [Clients -> {NoWatch} \cup Seq(Events)]
      BY <1>0, <1>1, WatchesAreTold DEF Events
    <2>2. tokens' \in [Declarable -> Nat]
      BY <1>1
    <2> QED BY <1>1, <1>4, <2>1, <2>2 DEF MockTypes
  <1>6. \A k : Guards(k, "held")' = {}
    BY <1>3, <1>4 DEF Guards
  <1>7. Counted'
    BY <1>1, <1>6, FS_EmptySet DEF Counted
  <1>8. ASSUME NEW c \in Clients, watches'[c] \notin {NoWatch, <<>>}
        PROVE  Last(watches'[c]) = "Gone"
    <2>1. watches[c] # NoWatch
      BY <1>0, <1>1, <1>8, WatchIsTold DEF Events
    <2>2. CASE GuardsHeldFor(c) = {}
      <3>1. ~Announced(c)
        BY <1>0, <2>2, AnnouncedIsHeld
      <3>2. watches'[c] = watches[c]
        BY <1>0, <1>1, <3>1, WatchIsTold DEF Events, Announced
      <3> QED BY <1>0, <1>8, <2>2, <3>2 DEF Watched
    <2>3. CASE GuardsHeldFor(c) # {}
      <3>1. Announced(c)
        BY <1>0, <2>3, AnnouncedIsHeld
      <3> QED BY <1>0, <1>1, <2>1, <3>1, WatchIsTold DEF Events, Announced
    <2> QED BY <2>2, <2>3
  <1>9. \A c \in Clients : GuardsHeldFor(c)' = {}
    BY <1>3, <1>4 DEF GuardsHeldFor
  <1>10. Watched'
    BY <1>8, <1>9 DEF Watched
  <1> QED BY <1>5, <1>7, <1>10 DEF MockInv

LEMMA MockDeclareStep ==
  ASSUME MockInv, ~GuardsOutlive, NEW a \in Actions, DeclareLiveliness(a) PROVE MockInv'
  <1> DEFINE key == ActionLivelinessToken(a)
             new == [action |-> a, state |-> "held"]
  <1>0. MockTypes /\ Counted /\ Watched
    BY DEF MockInv
  <1>1. /\ tokens' = [tokens EXCEPT ![key] = @ + 1] /\ mockSession' = mockSession
        /\ guards' = Append(guards, new) /\ watches' = Told({key}, "Alive")
        /\ Guards(key, "stale") = {} /\ key \in Declarable
    BY DEF DeclareLiveliness, Declarable
  <1> HIDE DEF key
  <1>2. guards \in Seq(GuardRecords)
    BY <1>0 DEF MockTypes
  <1>. new \in GuardRecords
    BY DEF GuardRecords
  <1>3. /\ guards' \in Seq(GuardRecords)
        /\ DOMAIN guards = 1..Len(guards) /\ Len(guards) \in Nat
        /\ DOMAIN guards' = 1..Len(guards) + 1
        /\ \A i \in 1..Len(guards) : guards'[i] = guards[i]
        /\ guards'[Len(guards) + 1] = new
    BY <1>1, <1>2
  <1> DEFINE last == Len(guards) + 1
  <1>4. new.action = a /\ new.state = "held" /\ last \notin DOMAIN guards
    BY <1>3
  <1>5. tokens \in [Declarable -> Nat]
    BY <1>0 DEF MockTypes
  <1>6. /\ tokens' \in [Declarable -> Nat] /\ tokens'[key] = tokens[key] + 1
        /\ \A k \in Declarable : k # key => tokens'[k] = tokens[k]
    BY <1>1, <1>5
  <1>7. MockTypes'
    <2>1. watches' \in [Clients -> {NoWatch} \cup Seq(Events)]
      BY <1>0, <1>1, WatchesAreTold DEF Events
    <2> QED BY <1>0, <1>1, <1>3, <1>6, <2>1 DEF MockTypes
  <1>8. /\ Guards(key, "held")' = Guards(key, "held") \cup {last}
        /\ \A k : k # key => Guards(k, "held")' = Guards(k, "held")
        /\ \A k : Guards(k, "stale")' = Guards(k, "stale")
    BY <1>3, <1>4 DEF Guards, key
  <1>9. Counted'
    <2> SUFFICES ASSUME NEW k \in Declarable
                 PROVE  /\ tokens'[k] = Cardinality(Guards(k, "held")')
                        /\ Guards(k, "stale")' # {} => tokens'[k] = 0
      BY DEF Counted
    <2>1. CASE k = key
      <3>1. last \notin Guards(key, "held") /\ IsFiniteSet(Guards(key, "held"))
        BY <1>0, <1>4, GuardsAreFinite
      <3>2. Cardinality(Guards(key, "held") \cup {last}) = Cardinality(Guards(key, "held")) + 1
        BY <3>1, FS_AddElement
      <3> QED BY <1>0, <1>1, <1>6, <1>8, <2>1, <3>2 DEF Counted
    <2>2. CASE k # key
      BY <1>0, <1>6, <1>8, <2>2 DEF Counted
    <2> QED BY <2>1, <2>2
  <1>10. \A c \in Clients : GuardsHeldFor(c)' =
           IF Seen(c, key) THEN GuardsHeldFor(c) \cup {last} ELSE GuardsHeldFor(c)
    BY <1>3, <1>4 DEF GuardsHeldFor, key
  <1>11. Watched'
    <2> SUFFICES ASSUME NEW c \in Clients, watches'[c] \notin {NoWatch, <<>>}
                 PROVE  /\ GuardsHeldFor(c)' = {} => Last(watches'[c]) = "Gone"
                        /\ GuardsHeldFor(c)' # {} /\ Pinned(c) => Last(watches'[c]) = "Alive"
      BY DEF Watched, Pinned
    <2>1. watches[c] # NoWatch
      BY <1>0, <1>1, WatchIsTold DEF Events
    <2>2. CASE Seen(c, key)
      <3>1. Last(watches'[c]) = "Alive"
        BY <1>0, <1>1, <2>1, <2>2, WatchIsTold DEF Events
      <3> QED BY <1>10, <2>2, <3>1
    <2>3. CASE ~Seen(c, key)
      <3>1. watches'[c] = watches[c]
        BY <1>0, <1>1, <2>3, WatchIsTold DEF Events
      <3> QED BY <1>0, <1>10, <2>3, <3>1 DEF Watched
    <2> QED BY <2>2, <2>3
  <1> QED BY <1>7, <1>9, <1>11 DEF MockInv

LEMMA MockDropStep ==
  ASSUME MockInv, NEW i \in DOMAIN guards, DropGuard(i) PROVE MockInv'
  <1>0. MockTypes /\ Counted /\ Watched
    BY DEF MockInv
  <1>k. PICK key \in Declarable : key = TokenOf(i)
    BY <1>0, GuardIsRecord
  <1>1. /\ guards[i].state # "dropped" /\ mockSession' = mockSession
        /\ guards' = [guards EXCEPT ![i].state = "dropped"]
        /\ IF tokens[key] = 0 THEN UNCHANGED <<tokens, watches>>
           ELSE /\ tokens' = [tokens EXCEPT ![key] = tokens[key] - 1]
                /\ watches' = IF tokens[key] - 1 = 0 THEN Told({key}, "Gone") ELSE watches
    BY <1>k DEF DropGuard, TokenOf
  <1>2. key \in Declarable /\ guards[i].state \in {"held", "stale"} /\ guards[i].action \in Actions
    BY <1>0, <1>1, GuardIsRecord
  <1>3. guards \in Seq(GuardRecords)
    BY <1>0 DEF MockTypes
  <1>4. /\ DOMAIN guards' = DOMAIN guards
        /\ guards' \in Seq(GuardRecords)
        /\ \A j \in DOMAIN guards : j # i => guards'[j] = guards[j]
        /\ guards'[i].action = guards[i].action /\ guards'[i].state = "dropped"
    <2>1. DOMAIN guards = 1..Len(guards) /\ Len(guards) \in Nat
      BY <1>3
    <2>2. guards'[i] = [action |-> guards[i].action, state |-> "dropped"]
      <3>1. guards[i] = [action |-> guards[i].action, state |-> guards[i].state]
        BY <1>0, GuardIsRecord
      <3>2. guards'[i] = [guards[i] EXCEPT !.state = "dropped"]
        BY <1>1
      <3> QED BY <3>1, <3>2
    <2>3. /\ guards' = [j \in 1..Len(guards) |-> guards'[j]]
          /\ \A j \in DOMAIN guards : j # i => guards'[j] = guards[j]
      BY <1>1, <2>1
    <2>4. guards'[i] \in GuardRecords
      BY <1>2, <2>2 DEF GuardRecords
    <2>5. \A j \in 1..Len(guards) : guards'[j] \in GuardRecords
      BY <1>3, <2>1, <2>3, <2>4, ElementOfSeq
    <2>6. guards' \in Seq(GuardRecords) /\ DOMAIN guards' = 1..Len(guards)
      BY <2>1, <2>3, <2>5
    <2> QED BY <2>1, <2>2, <2>3, <2>6
  <1>5. tokens \in [Declarable -> Nat] /\ tokens[key] \in Nat
    BY <1>0, <1>2 DEF MockTypes
  <1>6. /\ i \in Guards(key, "held") <=> guards[i].state = "held"
        /\ guards[i].state = "held" <=> tokens[key] # 0
    <2>1. i \in Guards(key, guards[i].state)
      BY <1>k DEF Guards, TokenOf
    <2>2. guards[i].state = "held" => tokens[key] # 0
      BY <1>0, <1>2, <2>1, CountedIsHeld
    <2>3. guards[i].state = "stale" => tokens[key] = 0
      BY <1>0, <1>2, <2>1 DEF Counted
    <2> QED BY <1>2, <2>1, <2>2, <2>3 DEF Guards
  <1>7. /\ Guards(key, "held")' = Guards(key, "held") \ {i}
        /\ \A k : k # key => Guards(k, "held")' = Guards(k, "held")
        /\ \A k : Guards(k, "stale")' \subseteq Guards(k, "stale")
    BY <1>k, <1>4 DEF Guards, TokenOf
  <1>8. tokens' \in [Declarable -> Nat]
        /\ tokens'[key] = (IF tokens[key] = 0 THEN 0 ELSE tokens[key] - 1)
        /\ \A k \in Declarable : k # key => tokens'[k] = tokens[k]
    BY <1>1, <1>2, <1>5
  <1>9. \/ watches' = watches /\ (tokens[key] # 0 => tokens'[key] # 0)
        \/ watches' = Told({key}, "Gone") /\ tokens'[key] = 0
    BY <1>1, <1>5, <1>8
  <1>10. MockTypes'
    <2>1. watches' \in [Clients -> {NoWatch} \cup Seq(Events)]
      BY <1>0, <1>2, <1>9, WatchesAreTold DEF Events, MockTypes
    <2> QED BY <1>0, <1>1, <1>4, <1>8, <2>1 DEF MockTypes
  <1>11. Counted'
    <2> SUFFICES ASSUME NEW k \in Declarable
                 PROVE  /\ tokens'[k] = Cardinality(Guards(k, "held")')
                        /\ Guards(k, "stale")' # {} => tokens'[k] = 0
      BY DEF Counted
    <2>1. CASE k = key
      <3>1. Cardinality(Guards(key, "held") \ {i}) =
              IF i \in Guards(key, "held") THEN Cardinality(Guards(key, "held")) - 1
              ELSE Cardinality(Guards(key, "held"))
        BY <1>0, GuardsAreFinite, FS_RemoveElement
      <3>2. Guards(key, "stale") # {} => tokens[key] = 0
        BY <1>0, <1>2 DEF Counted
      <3>3. Cardinality(Guards(key, "held")) = tokens[key]
        BY <1>0, <1>2 DEF Counted
      <3>4. Guards(key, "stale")' # {} => tokens'[key] = 0
        BY <1>7, <1>8, <3>2
      <3>5. Cardinality(Guards(key, "held")') = tokens'[key]
        BY <1>5, <1>6, <1>7, <1>8, <3>1, <3>3
      <3> QED BY <2>1, <3>4, <3>5
    <2>2. CASE k # key
      BY <1>0, <1>7, <1>8, <2>2 DEF Counted
    <2> QED BY <2>1, <2>2
  <1>12. ASSUME NEW c \in Clients, watches'[c] \notin {NoWatch, <<>>}
         PROVE  /\ GuardsHeldFor(c)' = {} => Last(watches'[c]) = "Gone"
                /\ GuardsHeldFor(c)' # {} /\ Pinned(c) => Last(watches'[c]) = "Alive"
    <2>1. watches[c] # NoWatch
      BY <1>0, <1>2, <1>9, <1>12, WatchIsTold DEF Events
    <2>2. \A j : j \in GuardsHeldFor(c)' <=>
            \E k \in Declarable : Seen(c, k) /\ j \in Guards(k, "held")'
      <3>1. \A j \in DOMAIN guards : ActionLivelinessToken(guards'[j].action) \in Declarable
        BY <1>0, <1>4, GuardIsRecord DEF TokenOf
      <3> HIDE DEF Declarable, Seen
      <3> QED BY <1>4, <3>1 DEF GuardsHeldFor, Guards
    <2>3. \A j : j \in GuardsHeldFor(c) <=>
            \E k \in Declarable : Seen(c, k) /\ j \in Guards(k, "held")
      BY <1>0, HeldForIs
    <2>4. \A k \in Declarable : tokens'[k] = 0 <=> Guards(k, "held")' = {}
      <3>1. \A k \in Declarable : IsFiniteSet(Guards(k, "held")')
        <4>1. \A k \in Declarable : Guards(k, "held")' \subseteq Guards(k, "held")
          BY <1>7
        <4> QED BY <1>0, <4>1, GuardsAreFinite, FS_Subset
      <3> QED BY <1>11, <3>1, FS_EmptySet DEF Counted
    <2>5. CASE ~Seen(c, key)
      <3>1. watches'[c] = watches[c]
        BY <1>0, <1>2, <1>9, <2>5, WatchIsTold DEF Events
      <3>2. GuardsHeldFor(c)' = {} <=> GuardsHeldFor(c) = {}
        BY <1>7, <2>2, <2>3, <2>5
      <3> QED BY <1>0, <1>12, <3>1, <3>2 DEF Watched
    <2>6. CASE Seen(c, key) /\ watches' = watches /\ (tokens[key] # 0 => tokens'[key] # 0)
      <3>1. \A k \in Declarable : Guards(k, "held")' = {} <=> Guards(k, "held") = {}
        BY <1>0, <1>6, <1>7, <1>8, <2>4, <2>6, CountedIsHeld
      <3>2. GuardsHeldFor(c)' = {} <=> GuardsHeldFor(c) = {}
        BY <2>2, <2>3, <3>1
      <3> QED BY <1>0, <1>12, <2>6, <3>2 DEF Watched
    <2>7. CASE Seen(c, key) /\ watches' = Told({key}, "Gone") /\ tokens'[key] = 0
      <3>1. Last(watches'[c]) = "Gone"
        BY <1>0, <1>2, <2>1, <2>7, WatchIsTold DEF Events
      <3>2. Pinned(c) => GuardsHeldFor(c)' = {}
        BY <1>2, <2>2, <2>4, <2>7, OneToken
      <3> QED BY <3>1, <3>2
    <2> QED BY <1>9, <2>5, <2>6, <2>7
  <1>13. Watched'
    BY <1>12 DEF Watched, Pinned
  <1> QED BY <1>10, <1>11, <1>13 DEF MockInv

LEMMA MockWatchStep ==
  ASSUME MockInv, NEW c \in Clients, WatchProducer(c) PROVE MockInv'
  <1>0. MockTypes /\ Counted /\ Watched
    BY DEF MockInv
  <1>1. /\ UNCHANGED <<mockSession, tokens, guards>>
        /\ watches' = [watches EXCEPT ![c] = IF Announced(c) THEN <<"Alive">> ELSE <<>>]
    BY DEF WatchProducer
  <1>2. watches \in [Clients -> {NoWatch} \cup Seq(Events)]
    BY <1>0 DEF MockTypes
  <1>3. <<"Alive">> \in Seq(Events) /\ <<>> \in Seq(Events) /\ Last(<<"Alive">>) = "Alive"
    BY DEF Events, Last
  <1>4. MockTypes'
    BY <1>0, <1>1, <1>2, <1>3 DEF MockTypes
  <1>5. Counted'
    BY <1>0, <1>1 DEF Counted, Guards
  <1>6. \A d \in Clients : GuardsHeldFor(d)' = GuardsHeldFor(d)
    BY <1>1 DEF GuardsHeldFor
  <1>7. Announced(c) <=> GuardsHeldFor(c) # {}
    BY <1>0, AnnouncedIsHeld
  <1>8. /\ watches'[c] = IF Announced(c) THEN <<"Alive">> ELSE <<>>
        /\ \A d \in Clients : d # c => watches'[d] = watches[d]
    BY <1>1, <1>2
  <1>9. Watched'
    BY <1>0, <1>3, <1>6, <1>7, <1>8 DEF Watched, Pinned
  <1> QED BY <1>4, <1>5, <1>9 DEF MockInv

(* Unless a guard outlives its session and a new declaration of its token, a *)
(* probe finds a producer exactly while one of its guards is held, also over *)
(* any number of restarts of the session, and the last event of a watch is   *)
(* the true one (MockLivelinessState of adapters/mock.rs).                   *)
THEOREM LivelinessCorrect == ASSUME ~GuardsOutlive PROVE MockSpec => []LivelinessIsTrue
  <1>1. MockInit => MockInv
    <2> SUFFICES ASSUME MockInit PROVE MockInv
      OBVIOUS
    <2>1. mockSession = FALSE /\ tokens = [k \in Declarable |-> 0] /\ guards = <<>>
            /\ watches = [c \in Clients |-> NoWatch]
      BY DEF MockInit
    <2>2. MockTypes
      <3>1. guards \in Seq(GuardRecords)
        BY <2>1
      <3>2. watches \in [Clients -> {NoWatch} \cup Seq(Events)] /\ tokens \in [Declarable -> Nat]
        BY <2>1
      <3> QED BY <2>1, <3>1, <3>2 DEF MockTypes
    <2>3. \A k, state : Guards(k, state) = {}
      BY <2>1 DEF Guards
    <2>4. Counted
      BY <2>1, <2>3, FS_EmptySet DEF Counted
    <2>5. Watched
      BY <2>1 DEF Watched
    <2> QED BY <2>2, <2>4, <2>5 DEF MockInv
  <1>2. MockInv /\ [MockNext]_mockVars => MockInv'
    <2> SUFFICES ASSUME MockInv, [MockNext]_mockVars PROVE MockInv'
      OBVIOUS
    <2>1. CASE StartSession \/ UNCHANGED mockVars
      <3>1. UNCHANGED <<tokens, guards, watches>> /\ mockSession' \in BOOLEAN
        BY <2>1 DEF StartSession, mockVars, MockInv, MockTypes
      <3> QED BY <3>1 DEF MockInv, MockTypes, Counted, Watched, Guards, GuardsHeldFor
    <2>2. CASE StopSession
      BY <2>2, MockStopStep
    <2>3. ASSUME NEW a \in Actions, DeclareLiveliness(a) PROVE MockInv'
      BY <2>3, MockDeclareStep
    <2>4. ASSUME NEW i \in DOMAIN guards, DropGuard(i) PROVE MockInv'
      BY <2>4, MockDropStep
    <2>5. ASSUME NEW c \in Clients, WatchProducer(c) PROVE MockInv'
      BY <2>5, MockWatchStep
    <2> QED BY <2>1, <2>2, <2>3, <2>4, <2>5 DEF MockNext
  <1>3. MockInv => LivelinessIsTrue
    BY AnnouncedIsHeld DEF MockInv, LivelinessIsTrue, Watched, Pinned
  <1> QED BY <1>1, <1>2, <1>3, PTL DEF MockSpec

-----------------------------------------------------------------------------
(* The two adapters together                                                 *)

(***************************************************************************)
(* What a component is told by the mock adapter, by its services and by    *)
(* either transport holds in every interleaving of the three: each part    *)
(* takes its own steps only, so the invariant proved of each holds of all  *)
(* (adapters/mock.rs, adapters/zenoh.rs).                                  *)
(***************************************************************************)
THEOREM AdaptersCorrect ==
  ASSUME ~GuardsOutlive PROVE MessagingSpec => []AdaptersAsTold
  <1>1. MessagingInit => MockCallsInit /\ TransportInit /\ MockInit
    BY DEF MessagingInit
  <1>2. [MessagingNext]_messagingVars => [MockCallsNext]_mockCallVars
    BY Zenon DEF MessagingNext, messagingVars, Others
  <1>3. [MessagingNext]_messagingVars => [TransportNext]_transportVars
    BY Zenon DEF MessagingNext, messagingVars, Others
  <1>4. [MessagingNext]_messagingVars => [MockNext]_mockVars
    BY Zenon DEF MessagingNext, messagingVars, Others
  <1>5. MessagingSpec => MockCallsSpec /\ TransportSpec /\ MockSpec
    BY <1>1, <1>2, <1>3, <1>4, PTL DEF MessagingSpec, MockCallsSpec, TransportSpec, MockSpec
  <1>6. MockSpec => []LivelinessIsTrue
    BY LivelinessCorrect
  <1>7. AdaptersAsTold <=> LivelinessIsTrue /\ MockKeepsProtocol /\ MessagesArrive
    BY DEF AdaptersAsTold
  <1> QED BY <1>5, <1>6, <1>7, MockCallsCorrect, TransportCorrect, PTL
==============================================================================
