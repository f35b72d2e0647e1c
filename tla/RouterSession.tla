---------------------------- MODULE RouterSession ----------------------------
(***************************************************************************)
(* The zenoh adapter as its owner drives it: how the configuration of a    *)
(* session is put together and opened (peppy-messaging-interface/src/      *)
(* adapters/zenoh.rs, zenoh_config.rs), under the organization's namespace *)
(* (peppy-config-model/src/org.rs), and the zenohd process of an adapter   *)
(* that hosts a router (zenohd/facade.rs, zenohd/router_config.rs).        *)
(*                                                                         *)
(* Of a session's configuration only what the owner must not lose is kept: *)
(* the namespace, the mode and the retries; of a router's, the upstream    *)
(* router it federates to.  start_router polls its child with the adapter  *)
(* borrowed, so its outcomes are steps of their own.                       *)
(*                                                                         *)
(* An operator introduced by "Slip" is a wrong version of the one after    *)
(* it; nothing uses it but the runs that show which property would notice. *)
(***************************************************************************)
EXTENDS Naturals, Sequences, FiniteSets

CONSTANTS
  Organizations,  \* ids of organizations, "local" and malformed ones included
  BadIds,         \* the malformed ones: a slash, or no key expression
  Upstreams,      \* cloud routers to federate to
  TcpBased,       \* is the router's protocol tcp or tls?
  MaxSpawns       \* bound of the model: zenohd processes started

ASSUME RouterAssumption ==
  /\ BadIds \subseteq Organizations /\ "local" \in Organizations \ BadIds
  /\ TcpBased \in BOOLEAN /\ MaxSpawns \in Nat

VARIABLES
  owner,         \* none, building (the builder's calls), running, dropped
  organization,  \* the raw organization id the owner was given, or LoggedOut
  zenohAdapter,  \* ZenohAdapter: client_config, reconnect_session, zenohd
  openSession,   \* ZenohAdapter.session, as it was opened
  operatorFile,  \* is ZENOH_CONFIG set now?
  configFile,    \* the upstream in the file peppy renders
  zenohds,       \* the zenohd processes spawned
  handle,        \* router_process: which of them, 0 for none
  told           \* the upstream of the last refederation that took (history)

routerVars == <<owner, organization, zenohAdapter, openSession, operatorFile,
                configFile, zenohds, handle, told>>

LOCAL_NAMESPACE == "local"
LoggedOut == "logged_out"

(* No namespace, no override, no session, no adapter, no upstream.           *)
NoNamespace == "no_namespace"
NotPinned == "not_overridden"
NoSession == [ns |-> "no_session"]
NoAdapter == [ns |-> "no_adapter"]
Standalone == "standalone"
OperatorOwned == "operator_owned"

-----------------------------------------------------------------------------
(* org.rs                                                                    *)

RawIds == Organizations \cup {LoggedOut}

ParsesAsNamespace(raw) == raw \notin BadIds \cup {LoggedOut}

ResolveSessionNamespace(raw) ==
  IF ParsesAsNamespace(raw) THEN raw ELSE LOCAL_NAMESPACE

ShouldFederate(raw) == raw # LOCAL_NAMESPACE /\ ParsesAsNamespace(raw)

-----------------------------------------------------------------------------
(* Configurations of a session                                               *)

(* build_zenoh_config: a router's own configuration carries no namespace.    *)
RenderConfig(gossip, reconnect, ns) ==
  [mode |-> IF gossip THEN "peer" ELSE "client", reconnect |-> reconnect, ns |-> ns]

(* What the file of ZENOH_SESSION_CONFIG says of the namespace, if it is set.*)
Overrides ==
  {NotPinned, NoNamespace} \cup {o \in Organizations : ParsesAsNamespace(o)}

(* create_client_config: the operator's file replaces what would be rendered.*)
CreateClientConfig(gossip, reconnect, override, ns) ==
  IF override = NotPinned THEN RenderConfig(gossip, reconnect, ns)
  ELSE [mode |-> "operator", reconnect |-> FALSE, ns |-> override]

NewAdapter(gossip, override, hosts, pinned) ==
  [ns |-> NoNamespace, gossip |-> gossip, override |-> override,
   rendered |-> CreateClientConfig(gossip, FALSE, override, NoNamespace),
   reconnecting |-> FALSE, hosts |-> hosts, pinned |-> pinned]

(* connect_to, connect_to_tls (no gossip) and connect_to_with_discovery.     *)
ConnectTo(gossip, override) ==
  /\ owner = "none" /\ owner' = "building"
  /\ zenohAdapter' = NewAdapter(gossip, override, FALSE, FALSE)
  /\ UNCHANGED <<organization, openSession, operatorFile, configFile, zenohds,
                 handle, told>>

(* router_config_path, then ZenohdFacade::new.                               *)
WithRouter(gossip, override, upstream) ==
  /\ owner = "none" /\ owner' = "building"
  /\ zenohAdapter' = NewAdapter(gossip, override, TRUE, operatorFile)
  /\ configFile' = IF operatorFile THEN configFile ELSE upstream
  /\ told' = IF operatorFile THEN OperatorOwned ELSE upstream
  /\ UNCHANGED <<organization, openSession, operatorFile, zenohds, handle>>

WithSessionReconnect ==
  /\ owner = "building" /\ ~zenohAdapter.reconnecting
  /\ zenohAdapter' = [zenohAdapter EXCEPT !.reconnecting = TRUE]
  /\ UNCHANGED <<owner, organization, openSession, operatorFile, configFile,
                 zenohds, handle, told>>

(* MessengerConnect::scope, then with_namespace, which renders again.        *)
WithNamespace(raw) ==
  /\ owner = "building" /\ zenohAdapter.ns = NoNamespace
  /\ organization' = raw
  /\ LET ns == ResolveSessionNamespace(raw)
     IN  zenohAdapter' = [zenohAdapter EXCEPT !.ns = ns,
           !.rendered = CreateClientConfig(zenohAdapter.gossip, FALSE, zenohAdapter.override, ns)]
  /\ UNCHANGED <<owner, openSession, operatorFile, configFile, zenohds, handle, told>>

(* Messenger::new takes the adapter, always with a namespace by now.         *)
TakeAdapter ==
  /\ owner = "building" /\ zenohAdapter.ns # NoNamespace /\ owner' = "running"
  /\ UNCHANGED <<organization, zenohAdapter, openSession, operatorFile, configFile,
                 zenohds, handle, told>>

-----------------------------------------------------------------------------
(* The session                                                               *)

(* ensure_override_preserves_namespace                                       *)
OverridePreservesNamespace ==
  zenohAdapter.override \in {NotPinned, zenohAdapter.ns} \/ zenohAdapter.ns = LOCAL_NAMESPACE

(* Slip: the reconnecting session is rendered without the namespace.         *)
WithoutNamespace(reconnect) ==
  IF reconnect
  THEN CreateClientConfig(zenohAdapter.gossip, TRUE, zenohAdapter.override, NoNamespace)
  ELSE zenohAdapter.rendered

ConfigToOpen(reconnect) ==
  IF reconnect
  THEN CreateClientConfig(zenohAdapter.gossip, TRUE, zenohAdapter.override, zenohAdapter.ns)
  ELSE zenohAdapter.rendered

(* start_session.  A session that does not retry fails without a router: it  *)
(* may fail at any time, then nothing is changed.  A second start replaces   *)
(* the session of the first.                                                 *)
StartZenohSession ==
  /\ owner = "running" /\ OverridePreservesNamespace
  /\ openSession' = ConfigToOpen(zenohAdapter.reconnecting)
  /\ UNCHANGED <<owner, organization, zenohAdapter, operatorFile, configFile, zenohds,
                 handle, told>>

StopZenohSession ==
  /\ owner = "running" /\ openSession # NoSession
  /\ openSession' = NoSession
  /\ UNCHANGED <<owner, organization, zenohAdapter, operatorFile, configFile, zenohds,
                 handle, told>>

-----------------------------------------------------------------------------
(* The router                                                                *)

Alive(i) == zenohds[i].alive

Listening == {i \in DOMAIN zenohds : Alive(i)}

(* The file the router is started with, read when it starts.                 *)
FileRead == IF zenohAdapter.pinned THEN OperatorOwned ELSE configFile

Spawned(alive, lost) ==
  Append(zenohds, [alive |-> alive, lost |-> lost, upstream |-> FileRead,
                   refederated |-> FALSE])

(* The checks before the spawn: nobody may answer at the port.               *)
MayStart ==
  /\ owner = "running" /\ zenohAdapter.hosts /\ Len(zenohds) < MaxSpawns
  /\ TcpBased => Listening = {}

RouterReady ==
  /\ MayStart
  /\ zenohds' = Spawned(TRUE, FALSE) /\ handle' = Len(zenohds) + 1
  /\ UNCHANGED <<owner, organization, zenohAdapter, openSession, operatorFile,
                 configFile, told>>

(* check_process_alive finds that it has exited.                             *)
RouterExitsEarly ==
  /\ MayStart /\ zenohds' = Spawned(FALSE, FALSE)
  /\ UNCHANGED <<owner, organization, zenohAdapter, openSession, operatorFile,
                 configFile, handle, told>>

(* It does not listen within 30 s: the error drops the child's handle, which *)
(* does not end the process.  It is taken to listen by the next start.       *)
RouterTimesOut ==
  /\ MayStart /\ TcpBased /\ zenohds' = Spawned(TRUE, TRUE)
  /\ UNCHANGED <<owner, organization, zenohAdapter, openSession, operatorFile,
                 configFile, handle, told>>

KillHandle ==
  /\ handle' = 0
  /\ zenohds' = IF handle = 0 THEN zenohds ELSE [zenohds EXCEPT ![handle].alive = FALSE]

StopZenohd ==
  /\ owner = "running" /\ handle # 0 /\ KillHandle
  /\ UNCHANGED <<owner, organization, zenohAdapter, openSession, operatorFile,
                 configFile, told>>

ZenohdDies(i) ==
  /\ Alive(i) /\ zenohds' = [zenohds EXCEPT ![i].alive = FALSE]
  /\ UNCHANGED <<owner, organization, zenohAdapter, openSession, operatorFile,
                 configFile, handle, told>>

(* Slip: through router_config_path, which asks ZENOH_CONFIG again.          *)
AsksAgain(upstream) == IF operatorFile THEN configFile ELSE upstream

FileWritten(upstream) == upstream

(* refederate: a pinned configuration is left alone.                         *)
Refederate(upstream) ==
  /\ owner = "running" /\ zenohAdapter.hosts /\ ~zenohAdapter.pinned
  /\ configFile' = FileWritten(upstream) /\ told' = upstream
  /\ zenohds' = [i \in DOMAIN zenohds |-> [zenohds[i] EXCEPT !.refederated = TRUE]]
  /\ UNCHANGED <<owner, organization, zenohAdapter, openSession, operatorFile, handle>>

OperatorSets ==
  /\ operatorFile' = ~operatorFile
  /\ UNCHANGED <<owner, organization, zenohAdapter, openSession, configFile, zenohds,
                 handle, told>>

(* ZenohdFacade::drop stops the router; the session goes with the adapter.   *)
DropAdapter ==
  /\ owner \in {"building", "running"} /\ owner' = "dropped"
  /\ openSession' = NoSession /\ KillHandle
  /\ UNCHANGED <<organization, zenohAdapter, operatorFile, configFile, told>>

-----------------------------------------------------------------------------
RouterInit ==
  /\ owner = "none" /\ organization = LoggedOut /\ zenohAdapter = NoAdapter
  /\ openSession = NoSession /\ operatorFile = FALSE /\ configFile = Standalone
  /\ zenohds = <<>> /\ handle = 0 /\ told = Standalone

Build ==
  \/ \E gossip \in BOOLEAN, o \in Overrides :
       \/ ConnectTo(gossip, o)
       \/ \E u \in Upstreams \cup {Standalone} : WithRouter(gossip, o, u)
  \/ WithSessionReconnect \/ TakeAdapter
  \/ \E raw \in RawIds : WithNamespace(raw)

Drive ==
  \/ StartZenohSession \/ StopZenohSession \/ StopZenohd \/ DropAdapter
  \/ RouterReady \/ RouterExitsEarly \/ RouterTimesOut
  \/ \E u \in Upstreams \cup {Standalone} : Refederate(u)

Surroundings == OperatorSets \/ \E i \in DOMAIN zenohds : ZenohdDies(i)

RouterNext == Build \/ Drive \/ Surroundings

RouterSpec == RouterInit /\ [][RouterNext]_routerVars

-----------------------------------------------------------------------------
(* "Routing isolation" (OrgNamespace, ensure_override_preserves_namespace):  *)
(* the session of an owner whose organization federates carries exactly that *)
(* organization's namespace, however the adapter was built and whatever the  *)
(* operator overrides; of an owner that does not federate, the local one or  *)
(* the operator's.  A session retries if its owner asked for it, unless the  *)
(* operator decides.                                                         *)
TenantsApart ==
  openSession # NoSession =>
    /\ ShouldFederate(organization) => openSession.ns = organization
    /\ ~ShouldFederate(organization) =>
         openSession.ns = LOCAL_NAMESPACE \/ zenohAdapter.override = openSession.ns
    /\ zenohAdapter.override = NotPinned => openSession.reconnect = zenohAdapter.reconnecting

(* The zenohd that runs is the one the adapter holds, and none runs once it  *)
(* is dropped (start_router, stop_router, ZenohdFacade::drop).  If it was    *)
(* started after the last refederation that reported a rewrite, it federates *)
(* as that told it to, whatever ZENOH_CONFIG says by then; a pinned router   *)
(* runs the operator's file (refederate).  Nobody holds a zenohd whose start *)
(* timed out.                                                                *)
RouterAsTold ==
  \A i \in Listening : ~zenohds[i].lost =>
    /\ i = handle /\ owner # "dropped"
    /\ ~zenohds[i].refederated => zenohds[i].upstream = told

(* Sessions and routers are what their owners were told they are.            *)
SessionsAsTold == TenantsApart /\ RouterAsTold
=============================================================================
