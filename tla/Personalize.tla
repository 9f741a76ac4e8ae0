------------------------------ MODULE Personalize ------------------------------
(***************************************************************************)
(* What the subscription service makes of the list of active nodes for one *)
(* request: personalize.Filter narrows it by region, platform and plan,    *)
(* personalize.PublicBundle keeps what a client may see.                   *)
(*                                                                         *)
(* A node is a record: its place in the listing, its status and role, its   *)
(* region, the labels the filters read, and the families of its enabled    *)
(* transports. A list of nodes is a set of them: the order of a list is    *)
(* that of the places, before and after every filter.                      *)
(***************************************************************************)
EXTENDS Naturals, FiniteSets

CONSTANTS
    MaxBasicNodes       \* maxBasicNodes: how many nodes the basic plan gets

ASSUME MaxBasicNodesAssumption == MaxBasicNodes \in Nat \ {0}

None == "none"

MinTransportDiversity == 2

\* The families a client may get with personal credentials.
PublicTypes == {"vless-reality", "hysteria2"}

NodeRecord ==
    [ node: Nat, status: {"active", "degraded", "blocked"}, role: {"entry", "exit"}, region: STRING,
      blocked: BOOLEAN, premium: BOOLEAN, excludes: STRING, types: SUBSET STRING ]

\* DistinctTransportTypes: the families enabled on any of the nodes.
DistinctTransportTypes(nodes) == UNION {n.types : n \in nodes}

\* dropBlocked: nodes in service, not flagged, with an enabled transport.
dropBlocked(nodes) ==
    {n \in nodes : n.status \in {"active", "degraded"} /\ ~n.blocked /\ n.types # {}}

\* filterRegion: the region's nodes, or all of them when it has none.
filterRegion(nodes, region) ==
    LET match == {n \in nodes : n.region = region}
    IN  IF region = None \/ match = {} THEN nodes ELSE match

filterPlatform(nodes, platform) ==
    IF platform = None THEN nodes ELSE {n \in nodes : n.excludes # platform}

\* filterPlan: the basic plan gets the first nodes that are not premium.
filterPlan(nodes, plan) ==
    LET plain == {n \in nodes : ~n.premium}
        before(n) == {m \in plain : m.node < n.node}
    IN  IF plan = "unlimited" THEN nodes ELSE {n \in plain : Cardinality(before(n)) < MaxBasicNodes}

Personal(nodes, plan, params) ==
    filterPlan(filterPlatform(filterRegion(nodes, params.region), params.platform), plan)

Diverse(nodes) == Cardinality(DistinctTransportTypes(nodes)) >= MinTransportDiversity

\* Filter: personalization gives way where it would leave one family only.
Filter(nodes, plan, params) ==
    LET servable == dropBlocked(nodes)
        kept == Personal(servable, plan, params)
    IN  IF ~Diverse(kept) /\ Diverse(servable) THEN servable ELSE kept

\* PublicBundle: exits and families without personal credentials are left out.
\* An empty result is its error "no eligible VPN nodes".
PublicBundle(nodes) ==
    LET Public(n) == [n EXCEPT !.types = @ \cap PublicTypes]
    IN  {n \in {Public(m) : m \in nodes} : n.role # "exit" /\ n.types # {}}
================================================================================
