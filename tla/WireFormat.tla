------------------------------ MODULE WireFormat ------------------------------
(***************************************************************************)
(* The addresses of peppy's messages (peppy-messaging-interface/src/       *)
(* wire.rs) and the key expressions that carry them (wire/zenoh_format.rs):*)
(* who is addressed by whom, the key expression each side declares, what   *)
(* the receiving side parses out of one, and the matcher that decides      *)
(* which of them meet (adapters/mock.rs, a copy of zenoh's).               *)
(*                                                                         *)
(* A key expression is the sequence of its chunks.  Nothing here has a     *)
(* state: WireRouting sends messages, MockLiveliness declares tokens.      *)
(*                                                                         *)
(* An operator introduced by "Slip" is a wrong version of the one after    *)
(* it; nothing uses it but the runs that show which property would notice. *)
(***************************************************************************)
EXTENDS Naturals, Sequences

CONSTANTS
  Words,      \* what users call cores, instances, nodes, topics, link ids
  Tags        \* tags of nodes and interfaces, hyphens included

-----------------------------------------------------------------------------
(* Segments                                                                  *)

Wildcard == "*"
AnyChunks == "**"
DEFAULT_LINK_ID == "_"

(* Texts a caller may hand in; the malformed ones stand for the empty text,  *)
(* one with a slash and one with an at sign.                                 *)
Malformed == {"", "a/b", "a@b"}
Reserved == {Wildcard, AnyChunks, DEFAULT_LINK_ID}
Texts == Words \cup Malformed \cup Reserved

(* Segment::try_from and Segment::try_link_id.                               *)
Segment == Texts \ (Malformed \cup Reserved)
LinkId  == Texts \ (Malformed \cup {Wildcard, AnyChunks})

(* The optional argument that was not given.                                 *)
NotGiven == "none"

ASSUME WordsAssumption == NotGiven \notin Words

(* Hyphens become underscores; the tags of the model with one are named.     *)
NormalizeTag(tag) ==
  CASE tag = "t-1" -> "t_1"
    [] tag = "-"   -> "_"
    [] OTHER       -> tag

(* InterfaceIdentifier::new and NodeIdentifier::new.                         *)
SenderTargets ==
  {[disc |-> d, name |-> n, tag |-> NormalizeTag(t)] :
     d \in {"interface", "node"}, n \in Segment,
     t \in {u \in Tags : NormalizeTag(u) \notin Malformed \cup Reserved}}

(* A receiver that names no target.                                          *)
AnyTarget == [disc |-> Wildcard, name |-> Wildcard, tag |-> Wildcard]

-----------------------------------------------------------------------------
(* Addresses                                                                 *)

TopicSenders ==
  [core : Segment, inst : Segment, target : SenderTargets,
   link : LinkId, topic : Segment]

TopicReceivers ==
  [core : Segment, inst : Segment,
   fromCore : Segment \cup {NotGiven}, fromInst : Segment \cup {NotGiven},
   target : SenderTargets \cup {AnyTarget}, link : LinkId \cup {NotGiven},
   topic : Segment]

(* Both, neither, or only the core node of the producer.                     *)
CalledScopes ==
  {<<NotGiven, NotGiven>>} \cup (Segment \X Segment) \cup (Segment \X {NotGiven})

ActionKinds == {"goal", "cancel", "result"}
ServiceKinds == {"service"} \cup ActionKinds

RootSegment(kind) == IF kind \in ActionKinds THEN "action" ELSE "service"

(* Slip: the requests of an action are told apart by their payload.          *)
NoSuffix(kind) == <<>>

Suffix(kind) == IF kind \in ActionKinds THEN <<kind>> ELSE <<>>

(* Callers: a plain service may be scoped to a core node, an action may not. *)
ServiceSenders ==
  {s \in [core : Segment, inst : Segment, to : CalledScopes, target : SenderTargets,
          name : Segment, kind : ServiceKinds] :
     s.kind \in ActionKinds => s.to \notin Segment \X {NotGiven}}

ServiceReceivers ==
  [core : Segment, inst : Segment, target : SenderTargets, name : Segment,
   kind : ServiceKinds]

ActionSenders ==
  [core : Segment, inst : Segment,
   to : {<<NotGiven, NotGiven>>} \cup (Segment \X Segment),
   target : SenderTargets, name : Segment]

ActionReceivers ==
  [core : Segment, inst : Segment, target : SenderTargets, name : Segment]

-----------------------------------------------------------------------------
(* Key expressions                                                           *)

OrAny(given) == IF given = NotGiven THEN Wildcard ELSE given

TargetSegments(target) == <<target.disc, target.name, target.tag>>

TopicPublish(s) ==
  <<Wildcard, s.core, Wildcard, s.inst, "topic">> \o TargetSegments(s.target)
    \o <<s.link, s.topic>>

TopicSubscribe(r) ==
  <<r.core, OrAny(r.fromCore), r.inst, OrAny(r.fromInst), "topic">>
    \o TargetSegments(r.target) \o <<OrAny(r.link), r.topic>>

ServiceRoot(target, link, name, kind) ==
  <<RootSegment(kind)>> \o TargetSegments(target) \o <<link, name>> \o Suffix(kind)

ServiceQueryableDeclare(r) ==
  <<r.core, Wildcard, r.inst, Wildcard>>
    \o ServiceRoot(r.target, Wildcard, r.name, r.kind)

ServiceGetSelector(s) ==
  <<OrAny(s.to[1]), s.core, OrAny(s.to[2]), s.inst>>
    \o ServiceRoot(s.target, Wildcard, s.name, s.kind)

(* Slip: the reply is addressed the way the request was.                     *)
ReplyToRequest(r, link, callerCore, callerInst) ==
  <<r.core, callerCore, r.inst, callerInst>>
    \o ServiceRoot(r.target, link, r.name, r.kind)

ServiceReplyKeyexpr(r, link, callerCore, callerInst) ==
  <<callerCore, r.core, callerInst, r.inst>>
    \o ServiceRoot(r.target, link, r.name, r.kind)

ActionRoot(target, link, action) ==
  <<"action">> \o TargetSegments(target) \o <<link, action>>

ActionFeedbackPublish(r, link, goal) ==
  <<Wildcard, r.core, Wildcard, r.inst>> \o ActionRoot(r.target, link, r.name)
    \o <<"feedback", r.inst, goal>>

ActionFeedbackSubscribe(s, goal) ==
  <<s.core, OrAny(s.to[1]), s.inst, OrAny(s.to[2])>>
    \o ActionRoot(s.target, Wildcard, s.name)
    \o <<"feedback", OrAny(s.to[2]), goal>>

ActionLivelinessToken(r) ==
  <<"action_liveliness", r.core, r.inst>> \o TargetSegments(r.target) \o <<r.name>>

ActionLivelinessWatch(s) ==
  <<"action_liveliness", OrAny(s.to[1]), OrAny(s.to[2])>>
    \o TargetSegments(s.target) \o <<s.name>>

-----------------------------------------------------------------------------
(* Matching: is there a key that both expressions match?                     *)

SingleChunkIntersect(a, b) ==
  IF a = Wildcard \/ b = Wildcard THEN a # "" /\ b # "" ELSE a = b

KeyExprsIntersect(a, b) ==
  LET meet[at \in (1..Len(a) + 1) \X (1..Len(b) + 1)] ==
        LET i == at[1]
            j == at[2]
        IN  IF i > Len(a) THEN \A k \in j..Len(b) : b[k] = AnyChunks
            ELSE IF j > Len(b) THEN \A k \in i..Len(a) : a[k] = AnyChunks
            ELSE IF AnyChunks \in {a[i], b[j]} THEN meet[<<i + 1, j>>] \/ meet[<<i, j + 1>>]
            ELSE SingleChunkIntersect(a[i], b[j]) /\ meet[<<i + 1, j + 1>>]
  IN  meet[<<1, 1>>]

-----------------------------------------------------------------------------
(* What the receiving side reads                                             *)

Chunk(key, i) == IF i \in DOMAIN key THEN key[i] ELSE ""

(* Of a topic message, a feedback message or a reply: who sent it.           *)
ParseTopicKeyexpr(key) ==
  [ok   |-> Chunk(key, 2) \notin {"", Wildcard} /\ Chunk(key, 4) \notin {"", Wildcard},
   core |-> Chunk(key, 2), inst |-> Chunk(key, 4), link |-> Chunk(key, 9)]

RequestKinds == {"UserRequest", "Probe"}
KindByte(kind) == IF kind = "Probe" THEN 1 ELSE 0
QueryMagic == 3
QueryAttachment(kind) == <<QueryMagic, KindByte(kind)>>
DecodesQuery(bytes) ==
  Len(bytes) > 1 /\ bytes[1] = QueryMagic /\ bytes[2] \in {0, 1}
QueryKind(bytes) == IF bytes[2] = 1 THEN "Probe" ELSE "UserRequest"

ReplyKinds == <<"Ack", "Response", "HandlerError">>
ReplyMagic == 1
ReplyAttachment(byte) == <<ReplyMagic, byte>>
DecodesReply(bytes) ==
  Len(bytes) > 1 /\ bytes[1] = ReplyMagic /\ bytes[2] \in 0..2
ReplyKind(bytes) == ReplyKinds[bytes[2] + 1]

(* Slip: whoever the query reaches is taken to be addressed.                 *)
TrustTheRouter(got, expected) == TRUE

TargetSlotFits(got, expected) == got \in {Wildcard, expected}

(* Of a request; the name of the service and the suffix are not looked at.   *)
ParseInboundQuery(r, key, bytes) ==
  [ok     |-> /\ TargetSlotFits(Chunk(key, 1), r.core)
              /\ TargetSlotFits(Chunk(key, 3), r.inst)
              /\ Len(key) > 8
              /\ SubSeq(key, 5, 8) = <<RootSegment(r.kind)>> \o TargetSegments(r.target)
              /\ DecodesQuery(bytes),
   core   |-> Chunk(key, 2), inst |-> Chunk(key, 4), link |-> Chunk(key, 9)]

(* ParsedInboundQuery::claim.                                                *)
Claims(link) == link \in {Wildcard, DEFAULT_LINK_ID}

Dispatches(r, key, bytes) ==
  LET q == ParseInboundQuery(r, key, bytes) IN q.ok /\ Claims(q.link)
=============================================================================
