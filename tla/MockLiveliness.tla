---------------------------- MODULE MockLiveliness ----------------------------
(***************************************************************************)
(* The stand-in for zenoh's liveliness space in the mock transport         *)
(* (peppy-messaging-interface/src/adapters/mock.rs): tokens are counted    *)
(* per key expression and withdrawn by the drop of a guard, a stopped      *)
(* session withdraws them all, and watches are told.  Key expressions and  *)
(* their matching are WireFormat's.                                        *)
(*                                                                         *)
(* An operator introduced by "Slip" is a wrong version of the one after    *)
(* it; nothing uses it but the runs that show which property would notice. *)
(***************************************************************************)
EXTENDS WireFormat, FiniteSets, SequencesExt

CONSTANTS
  Actions,        \* action receivers that declare tokens
  Clients,        \* action senders that watch and probe
  MaxGuards,      \* bound of the model: tokens declared
  GuardsOutlive   \* may a guard outlive its session and the next declaration?

ASSUME MockLivelinessAssumption ==
  /\ IsFiniteSet(Actions) /\ Actions \subseteq ActionReceivers
  /\ Clients \subseteq ActionSenders
  /\ MaxGuards \in Nat /\ GuardsOutlive \in BOOLEAN

VARIABLES
  mockSession,  \* is_session_connected
  tokens,       \* count of the live tokens of each key expression
  guards,       \* MockLivelinessGuards: whose they are, and their state
  watches       \* of each client: none, or the events it was sent

mockVars == <<mockSession, tokens, guards, watches>>

Declarable == {ActionLivelinessToken(r) : r \in Actions}

NoWatch == <<"none">>

SeenBy ==
  [c \in Clients |-> {k \in Declarable : KeyExprsIntersect(ActionLivelinessWatch(c), k)}]

Seen(client, key) == key \in SeenBy[client]

(* Does a probe find a token?                                                *)
Announced(client) == \E k \in Declarable : tokens[k] > 0 /\ Seen(client, k)

(* notify_liveliness_watchers, for a set of keys withdrawn or one declared.  *)
Told(keys, event) ==
  [c \in Clients |->
     IF watches[c] = NoWatch THEN NoWatch
     ELSE watches[c] \o [i \in 1..Cardinality({k \in keys : Seen(c, k)}) |-> event]]

Guards(key, state) ==
  {i \in DOMAIN guards : ActionLivelinessToken(guards[i].action) = key
                           /\ guards[i].state = state}

-----------------------------------------------------------------------------
StartSession ==
  /\ ~mockSession /\ mockSession' = TRUE
  /\ UNCHANGED <<tokens, guards, watches>>

(* Slip: the tokens go, the watches are not told.                            *)
Silently(keys) == watches

OnStop(keys) == Told(keys, "Gone")

StopSession ==
  /\ mockSession /\ mockSession' = FALSE
  /\ tokens' = [k \in Declarable |-> 0]
  /\ watches' = OnStop({k \in Declarable : tokens[k] > 0})
  /\ guards' = [i \in DOMAIN guards |->
                  IF guards[i].state = "held" THEN [guards[i] EXCEPT !.state = "stale"]
                  ELSE guards[i]]

DeclareLiveliness(action) ==
  LET key == ActionLivelinessToken(action) IN
  /\ mockSession /\ Len(guards) < MaxGuards
  /\ Guards(key, "stale") # {} => GuardsOutlive
  /\ tokens' = [tokens EXCEPT ![key] = @ + 1]
  /\ guards' = Append(guards, [action |-> action, state |-> "held"])
  /\ watches' = Told({key}, "Alive")
  /\ UNCHANGED mockSession

(* MockLivelinessGuard::drop: the last token of a key is announced as gone.  *)
DropGuard(i) ==
  LET key  == ActionLivelinessToken(guards[i].action)
      left == tokens[key] - 1
  IN  /\ guards[i].state # "dropped"
      /\ guards' = [guards EXCEPT ![i].state = "dropped"]
      /\ IF tokens[key] = 0 THEN UNCHANGED <<tokens, watches>>
         ELSE /\ tokens' = [tokens EXCEPT ![key] = left]
              /\ watches' = IF left = 0 THEN Told({key}, "Gone") ELSE watches
      /\ UNCHANGED mockSession

(* A token that is there already is replayed.                                *)
WatchProducer(c) ==
  /\ mockSession /\ watches[c] = NoWatch
  /\ watches' = [watches EXCEPT ![c] = IF Announced(c) THEN <<"Alive">> ELSE <<>>]
  /\ UNCHANGED <<mockSession, tokens, guards>>

-----------------------------------------------------------------------------
MockInit ==
  /\ mockSession = FALSE
  /\ tokens = [k \in Declarable |-> 0] /\ guards = <<>>
  /\ watches = [c \in Clients |-> NoWatch]

MockNext ==
  \/ StartSession \/ StopSession
  \/ \E a \in Actions : DeclareLiveliness(a)
  \/ \E i \in DOMAIN guards : DropGuard(i)
  \/ \E c \in Clients : WatchProducer(c)

MockSpec == MockInit /\ [][MockNext]_mockVars

-----------------------------------------------------------------------------
GuardsHeldFor(c) ==
  {i \in DOMAIN guards :
     guards[i].state = "held" /\ Seen(c, ActionLivelinessToken(guards[i].action))}

(* A probe finds a producer exactly while one of the guards it can mean is   *)
(* held, also across a restart of the session; the last event a watch was    *)
(* sent is Gone when nobody it watches is left, and Alive while the one      *)
(* producer it is pinned to is there (MockLivelinessState).                  *)
LivelinessIsTrue ==
  \A c \in Clients :
    /\ Announced(c) <=> GuardsHeldFor(c) # {}
    /\ watches[c] \notin {NoWatch, <<>>} =>
         /\ GuardsHeldFor(c) = {} => Last(watches[c]) = "Gone"
         /\ GuardsHeldFor(c) # {} /\ c.to # <<NotGiven, NotGiven>> =>
              Last(watches[c]) = "Alive"
=============================================================================
