------------------------- MODULE SubscriptionProofs -------------------------
(***************************************************************************)
(* Proofs about links and what they serve, for any number of callers,       *)
(* subscriptions, tokens and nodes.                                         *)
(*                                                                         *)
(* A request: each of its four reads leaves a fact among those that held    *)
(* while it ran, and a cached payload is what this request would render,    *)
(* because its key is the snapshot it was rendered from.                    *)
(*                                                                         *)
(* A token: it is in the hand of the one call that minted it, then in a     *)
(* row, then revoked, and it never goes back.                               *)
(***************************************************************************)
EXTENDS SubscriptionAccess, TLAPS

Looked == {"subscription", "user", "nodes", "cache", "render", "served"}
Assembled == {"cache", "render", "served"}

\* What a payload rendered for the key k says.
Payload(k) ==
    [ format |-> k.params.format, creds |-> k.snapshot.user, nodes |-> k.snapshot.nodes,
      headers |-> [until |-> k.snapshot.row.until] ]

ReqFields(r) ==
    r = [ pc |-> r.pc, kind |-> r.kind, token |-> r.token, params |-> r.params, sub |-> r.sub, row |-> r.row,
          creds |-> r.creds, listed |-> r.listed, nodes |-> r.nodes, body |-> r.body ]

\* What the request r may rely on, when the facts f have held while it ran.
Founded(r, f) ==
    /\ r.pc \in Looked => r.sub \in Subs /\ <<"binding", r.sub>> \in f
    /\ r.pc \in Looked \ {"subscription"} => <<"open", r.sub>> \in f
    /\ r.pc \in Assembled \cup {"nodes"} => <<"creds", r.creds>> \in f
    /\ r.pc \in Assembled => /\ r.listed \subseteq Fleet
                             /\ r.nodes = PublicBundle(Filter(r.listed, r.row.plan, r.params))
                             /\ \A n \in r.nodes : <<"node", n.node>> \in f
    /\ r.pc = "served" => r.body = Render(r)
    /\ r.pc = "linked" => \E s \in Subs : <<"binding", s>> \in f /\ <<"open", s>> \in f

\* The inductive invariant of the requests.
RequestInv ==
    /\ ReqFields(req)
    /\ Founded(req, seen)
    /\ up \subseteq Fleet
    /\ \A e \in cache : e.body = Payload(e.key)

----------------------------------------------------------------------------
(* Filter and PublicBundle.                                                *)

LEMMA FiltersNarrow ==
    ASSUME NEW nodes, NEW plan, NEW params
    PROVE  /\ dropBlocked(nodes) \subseteq nodes
           /\ Personal(nodes, plan, params) \subseteq nodes
<1>1. \A s, r : filterRegion(s, r) \subseteq s
  BY DEF filterRegion
<1>2. \A s, p : filterPlatform(s, p) \subseteq s
  BY DEF filterPlatform
<1>3. \A s, p : filterPlan(s, p) \subseteq s
  BY DEF filterPlan
<1>. QED
  BY <1>1, <1>2, <1>3 DEF dropBlocked, Personal

\* What is shown comes from the nodes that were read.
LEMMA ShownWasRead ==
    ASSUME NEW nodes \in SUBSET Fleet, NEW plan, NEW params,
           NEW n \in PublicBundle(Filter(nodes, plan, params))
    PROVE  \E m \in nodes : m.node = n.node
<1>1. Filter(nodes, plan, params) \subseteq nodes
  BY FiltersNarrow DEF Filter
<1>2. PICK m \in Filter(nodes, plan, params) : n = [m EXCEPT !.types = @ \cap PublicTypes]
  BY DEF PublicBundle
<1>3. m \in NodeRecord
  BY <1>1, FleetAssumption
<1>4. n.node = m.node
  BY <1>2, <1>3 DEF NodeRecord
<1>. QED
  BY <1>1, <1>4

----------------------------------------------------------------------------
(* Requests.                                                               *)

LEMMA IdleFields == ReqFields(IdleReq)
  BY DEF ReqFields, IdleReq

\* A fact that held once is remembered until the request is over.
LEMMA FoundedGrows ==
    ASSUME NEW r, NEW f, NEW g, f \subseteq g, Founded(r, f)
    PROVE  Founded(r, g)
  BY DEF Founded

LEMMA SeenGrows ==
    ASSUME History, req'.pc \notin {"idle", "refused"}
    PROVE  seen \subseteq seen' /\ Facts' \subseteq seen'
  BY DEF History

\* A request without answer relies on nothing.
LEMMA NothingFounded ==
    ASSUME NEW r, NEW f, r.pc \in {"idle", "refused", "lookup"}
    PROVE  Founded(r, f)
  BY DEF Founded, Looked, Assembled

\* Steps of anybody else.
LEMMA RequestFrame ==
    ASSUME RequestInv, History, UNCHANGED req, up' \subseteq Fleet, \A e \in cache' : e.body = Payload(e.key)
    PROVE  RequestInv'
<1>1. CASE req.pc \in {"idle", "refused"}
  BY <1>1, NothingFounded DEF RequestInv
<1>2. CASE req.pc \notin {"idle", "refused"}
  <2>1. seen \subseteq seen'
    BY <1>2, SeenGrows
  <2>. QED
    BY <2>1, FoundedGrows DEF RequestInv
<1>. QED
  BY <1>1, <1>2

\* A request that begins, is refused or is over.
LEMMA UnfoundedKeeps ==
    ASSUME RequestInv, ReqFields(req'), req'.pc \in {"idle", "refused", "lookup"}, UNCHANGED <<up, cache>>
    PROVE  RequestInv'
  BY NothingFounded DEF RequestInv

LEMMA RefuseKeeps ==
    ASSUME RequestInv, Refuse, UNCHANGED <<up, cache>>
    PROVE  RequestInv'
<1>1. ReqFields(req') /\ req'.pc = "refused"
  BY IdleFields DEF Refuse, ReqFields
<1>. QED
  BY <1>1, UnfoundedKeeps

LEMMA BeginRequestKeeps ==
    ASSUME RequestInv, BeginRequest
    PROVE  RequestInv'
<1>1. PICK t, k, p : req' = [IdleReq EXCEPT !.pc = "lookup", !.kind = k, !.token = t, !.params = p]
  BY DEF BeginRequest
<1>2. ReqFields(req') /\ req'.pc = "lookup"
  BY <1>1, IdleFields DEF ReqFields
<1>. QED
  BY <1>2, UnfoundedKeeps DEF BeginRequest, controlPlane, service

LEMMA FinishRequestKeeps ==
    ASSUME RequestInv, FinishRequest
    PROVE  RequestInv'
<1>1. ReqFields(req') /\ req'.pc = "idle"
  BY IdleFields DEF FinishRequest, IdleReq
<1>. QED
  BY <1>1, UnfoundedKeeps DEF FinishRequest, controlPlane, service

LEMMA ResolveTokenKeeps ==
    ASSUME RequestInv, ResolveToken, History
    PROVE  RequestInv'
<1>1. UNCHANGED <<user, subs, up, cache>>
  BY DEF ResolveToken, controlPlane, service
<1>2. CASE Lookup(req.token) = {}
  BY <1>1, <1>2, RefuseKeeps DEF ResolveToken
<1>3. CASE Lookup(req.token) # {}
  <2> DEFINE s == CHOOSE x \in Lookup(req.token) : TRUE
  <2>1. req' = [req EXCEPT !.pc = "subscription", !.sub = s]
    BY <1>3 DEF ResolveToken
  <2>2. s \in Bindings(req.token)
    BY <1>3 DEF Lookup
  <2> HIDE DEF s
  <2>3. ReqFields(req') /\ req'.pc = "subscription" /\ req'.sub = s /\ req'.token = req.token
    BY <2>1 DEF RequestInv, ReqFields
  <2>4. s \in Subs /\ s \in Bindings(req.token)'
    BY <1>1, <2>2, <2>3 DEF Bindings, Exists
  <2>5. <<"binding", s>> \in seen'
    BY <2>3, <2>4, SeenGrows DEF Facts
  <2>6. Founded(req', seen')
    BY <2>3, <2>4, <2>5 DEF Founded, Looked, Assembled
  <2>. QED
    BY <1>1, <2>3, <2>6 DEF RequestInv
<1>. QED
  BY <1>2, <1>3

LEMMA GetSubscriptionKeeps ==
    ASSUME RequestInv, GetSubscription, History
    PROVE  RequestInv'
<1>1. UNCHANGED <<user, subs, now, up, cache>> /\ req.pc = "subscription"
  BY DEF GetSubscription, controlPlane, service
<1>2. CASE ~Open(req.sub)
  BY <1>1, <1>2, RefuseKeeps DEF GetSubscription
<1>3. CASE Open(req.sub)
  <2>1. req' = [req EXCEPT !.pc = "user", !.row = subs[req.sub]]
    BY <1>3 DEF GetSubscription
  <2>2. ReqFields(req') /\ req'.pc = "user" /\ req'.sub = req.sub
    BY <2>1 DEF RequestInv, ReqFields
  <2>3. req.sub \in Subs /\ <<"binding", req.sub>> \in seen
    BY <1>1 DEF RequestInv, Founded, Looked
  <2>4. Open(req.sub)'
    BY <1>1, <1>3, <2>2 DEF Open, Exists
  <2>5. <<"open", req.sub>> \in Facts'
    BY <2>2, <2>3, <2>4 DEF Facts
  <2>6. seen \subseteq seen' /\ <<"open", req.sub>> \in seen'
    BY <2>2, <2>5, SeenGrows
  <2>7. Founded(req', seen')
    BY <2>2, <2>3, <2>6 DEF Founded, Looked, Assembled
  <2>. QED
    BY <1>1, <2>2, <2>7 DEF RequestInv
<1>. QED
  BY <1>2, <1>3

LEMMA GetUserKeeps ==
    ASSUME RequestInv, GetUser, History
    PROVE  RequestInv'
<1>1. UNCHANGED <<user, subs, now, up, cache>> /\ req.pc = "user"
  BY DEF GetUser, controlPlane, service
<1>2. CASE user.status # "active"
  BY <1>1, <1>2, RefuseKeeps DEF GetUser
<1>3. CASE user.status = "active"
  <2>1. req' = [req EXCEPT !.pc = "nodes", !.creds = user.creds]
    BY <1>3 DEF GetUser
  <2>2. ReqFields(req') /\ req'.pc = "nodes" /\ req'.sub = req.sub /\ req'.creds = user.creds
    BY <2>1 DEF RequestInv, ReqFields
  <2>3. user # Absent
    BY <1>3 DEF Absent
  <2>4. <<"creds", user.creds>> \in Facts'
    BY <1>1, <2>3 DEF Facts
  <2>5. seen \subseteq seen' /\ <<"creds", user.creds>> \in seen'
    BY <2>2, <2>4, SeenGrows
  <2>6. Founded(req', seen')
    BY <1>1, <2>2, <2>5 DEF RequestInv, Founded, Looked, Assembled
  <2>. QED
    BY <1>1, <2>2, <2>6 DEF RequestInv
<1>. QED
  BY <1>2, <1>3

LEMMA AssembleKeeps ==
    ASSUME RequestInv, Assemble, History
    PROVE  RequestInv'
<1> DEFINE shown == PublicBundle(Filter(up, req.row.plan, req.params))
           got == [req EXCEPT !.pc = "cache", !.nodes = shown, !.listed = up]
<1>1. UNCHANGED <<user, subs, now, up, cache>> /\ req.pc = "nodes" /\ up \in SUBSET Fleet
  BY DEF Assemble, controlPlane, service, RequestInv
<1>2. /\ req.sub \in Subs /\ <<"binding", req.sub>> \in seen /\ <<"open", req.sub>> \in seen
      /\ <<"creds", req.creds>> \in seen
  BY <1>1 DEF RequestInv, Founded, Looked, Assembled
<1>3. CASE req' = DeepLink
  <2>1. ReqFields(req') /\ req'.pc = "linked"
    BY <1>3, IdleFields DEF DeepLink, ReqFields
  <2>2. seen \subseteq seen'
    BY <2>1, SeenGrows
  <2>3. Founded(req', seen')
    BY <1>2, <2>1, <2>2 DEF Founded, Looked, Assembled
  <2>. QED
    BY <1>1, <2>1, <2>3 DEF RequestInv
<1>4. CASE Refuse
  BY <1>1, <1>4, RefuseKeeps
<1>5. CASE req' = got \/ req' = [got EXCEPT !.pc = "served", !.body = Render(got)]
  <2>1. /\ ReqFields(got) /\ got.pc = "cache" /\ got.nodes = shown /\ got.listed = up
        /\ got.sub = req.sub /\ got.row = req.row /\ got.creds = req.creds /\ got.params = req.params
    <3>1. ASSUME NEW x, x = got
          PROVE  /\ ReqFields(x) /\ x.pc = "cache" /\ x.nodes = shown /\ x.listed = up
                 /\ x.sub = req.sub /\ x.row = req.row /\ x.creds = req.creds /\ x.params = req.params
      <4> HIDE DEF shown
      <4>. QED
        BY <3>1 DEF RequestInv, ReqFields
    <3>. QED
      BY <3>1, Zenon
  <2>2. \A n \in shown : <<"node", n.node>> \in Facts'
    <3>1. \A m \in up : <<"node", m.node>> \in Facts'
      BY <1>1 DEF Facts
    <3>2. \A n \in shown : \E m \in up : m.node = n.node
      <4>1. up \in SUBSET Fleet
        BY <1>1
      <4>. QED
        BY <4>1, ShownWasRead, Zenon
    <3>. QED
      BY <3>1, <3>2, Zenon
  <2> HIDE DEF shown, got
  <2>3. /\ ReqFields(req') /\ req'.pc \in {"cache", "served"} /\ req'.nodes = shown /\ req'.listed = up
        /\ req'.sub = req.sub /\ req'.row = req.row /\ req'.creds = req.creds /\ req'.params = req.params
        /\ req'.pc = "served" => req'.body = Render(got)
    BY <1>5, <2>1 DEF ReqFields
  <2>4. Render(got) = Render(req')
    BY <2>1, <2>3 DEF Render, HappMetaFor
  <2>5. seen \subseteq seen' /\ \A n \in shown : <<"node", n.node>> \in seen'
    BY <2>2, <2>3, SeenGrows
  <2>6. shown = PublicBundle(Filter(up, req.row.plan, req.params))
    BY DEF shown
  <2>7. Founded(req', seen')
    BY <1>1, <1>2, <2>3, <2>4, <2>5, <2>6 DEF Founded, Looked, Assembled
  <2>. QED
    BY <1>1, <2>3, <2>7 DEF RequestInv
<1>. QED
  BY <1>3, <1>4, <1>5 DEF Assemble, ListNodes

\* A hit is what this request would render.
LEMMA HitIsRendered ==
    ASSUME RequestInv, NEW e \in Hits
    PROVE  e.body = Render(req)
<1>1. e.body = Payload(CacheKey(req))
  BY DEF Hits, RequestInv
<1>. QED
  BY <1>1 DEF Payload, CacheKey, Snapshot, Render, HappMetaFor

\* The answer of an assembled request.
LEMMA AnswerKeeps ==
    ASSUME RequestInv, History, req.pc \in {"cache", "render"}, ReqFields(req'),
           req' \in {[req EXCEPT !.pc = "served", !.body = Render(req)], [req EXCEPT !.pc = "render"]}
    PROVE  Founded(req', seen')
<1>1. /\ req'.pc \in {"served", "render"} /\ req'.nodes = req.nodes /\ req'.listed = req.listed
      /\ req'.sub = req.sub /\ req'.row = req.row /\ req'.creds = req.creds /\ req'.params = req.params
      /\ req'.pc = "served" => req'.body = Render(req)
  BY DEF RequestInv, ReqFields
<1>2. Render(req') = Render(req)
  BY <1>1 DEF Render, HappMetaFor
<1>3. seen \subseteq seen'
  BY <1>1, SeenGrows
<1>. QED
  BY <1>1, <1>2, <1>3 DEF RequestInv, Founded, Looked, Assembled

LEMMA CacheGetKeeps ==
    ASSUME RequestInv, CacheGet, History
    PROVE  RequestInv'
<1>1. /\ req' \in {[req EXCEPT !.pc = "served", !.body = Render(req)], [req EXCEPT !.pc = "render"]}
      /\ UNCHANGED <<up, cache>> /\ req.pc = "cache"
  BY HitIsRendered DEF CacheGet, controlPlane, service
<1>2. ReqFields(req')
  BY <1>1 DEF RequestInv, ReqFields
<1>. QED
  BY <1>1, <1>2, AnswerKeeps DEF RequestInv

LEMMA CachePutKeeps ==
    ASSUME RequestInv, CachePut, History
    PROVE  RequestInv'
<1>1. /\ req' = [req EXCEPT !.pc = "served", !.body = Render(req)]
      /\ UNCHANGED up /\ req.pc = "render"
  BY DEF CachePut, controlPlane
<1>2. ReqFields(req')
  BY <1>1 DEF RequestInv, ReqFields
<1>3. Render(req) = Payload(CacheKey(req))
  BY DEF Payload, CacheKey, Snapshot, Render, HappMetaFor
<1>4. \A e \in cache' : e.body = Payload(e.key)
  BY <1>3 DEF CachePut, RequestInv
<1>. QED
  BY <1>1, <1>2, <1>4, AnswerKeeps DEF RequestInv

LEMMA RequestInvInit == Init => RequestInv
<1> SUFFICES ASSUME Init PROVE RequestInv
  OBVIOUS
<1>1. req = IdleReq /\ req.pc = "idle" /\ up = Fleet /\ cache = {}
  BY DEF Init, IdleReq
<1>. QED
  BY <1>1, IdleFields, NothingFounded DEF RequestInv

LEMMA RequestInvNext == RequestInv /\ [Next]_vars => RequestInv'
<1> SUFFICES ASSUME RequestInv, [Next]_vars PROVE RequestInv'
  OBVIOUS
<1>1. CASE UNCHANGED vars
  BY <1>1 DEF vars, RequestInv
<1>2. CASE \E c \in Callers : Call(c) /\ History
  <2>1. PICK c \in Callers : Call(c) /\ History
    BY <1>2
  <2>2. UNCHANGED <<req, up>> /\ cache' \subseteq cache
    BY <2>1 DEF Call, Start, EnsureTelegram, CreateUser, Ensure, CreateAndLink, Cancel, PatchRead,
         UpdateSubscription, RotateToken, UpdateTokenHash, RotateSecrets, UpdateRead, UpdateUser,
         DeliveryLinkRead, DeliveryLink, EnsureDeliveryToken, RevokeDownstream, RegisterToken,
         NotificationLost, CallFails, Close, InvalidateAll, InvalidateToken, controlPlane, service
  <2>. QED
    BY <2>1, <2>2, RequestFrame DEF RequestInv
<1>3. CASE Request /\ History
  <2>1. CASE CacheDrop \/ Invalidate
    <3>1. UNCHANGED <<req, up>> /\ cache' \subseteq cache
      BY <2>1 DEF CacheDrop, Invalidate, InvalidateAll, controlPlane
    <3>. QED
      BY <1>3, <3>1, RequestFrame DEF RequestInv
  <2>2. CASE RequestFails
    BY <2>2, RefuseKeeps DEF RequestFails, controlPlane, service
  <2>. QED
    BY <1>3, <2>1, <2>2, BeginRequestKeeps, ResolveTokenKeeps, GetSubscriptionKeeps, GetUserKeeps,
       AssembleKeeps, CacheGetKeeps, CachePutKeeps, FinishRequestKeeps DEF Request
<1>4. CASE Changes /\ History
  <2>1. UNCHANGED <<req, cache>> /\ up' \subseteq Fleet
    BY <1>4 DEF Changes, service, RequestInv
  <2>. QED
    BY <1>4, <2>1, RequestFrame DEF RequestInv
<1>. QED
  BY <1>1, <1>2, <1>3, <1>4 DEF Next

\* A link is answered only if its token was bound to an active account and its
\* subscription open while the request ran (Resolve, serveSubscription), whatever
\* notifications were lost and whatever the cache holds.
THEOREM LinksAreAuthorized == Spec => []ServedIsAuthorized
<1>1. RequestInv => ServedIsAuthorized
  BY DEF RequestInv, Founded, Looked, ServedIsAuthorized
<1>. QED
  BY <1>1, RequestInvInit, RequestInvNext, PTL DEF Spec

\* The credentials and the nodes of an answer were the account's and active while the
\* request ran: the cache answers only what this request would have rendered.
THEOREM AnswersAreCurrent == Spec => []ServedIsCurrent
<1>1. RequestInv => ServedIsCurrent
  <2> SUFFICES ASSUME RequestInv, req.pc = "served"
               PROVE  /\ <<"creds", req.body.creds>> \in seen
                      /\ \A n \in req.body.nodes : <<"node", n.node>> \in seen
    BY DEF ServedIsCurrent
  <2>1. req.body.creds = req.creds /\ req.body.nodes = req.nodes
    BY DEF RequestInv, Founded, Render
  <2>. QED
    BY <2>1 DEF RequestInv, Founded, Assembled
<1>. QED
  BY <1>1, RequestInvInit, RequestInvNext, PTL DEF Spec

----------------------------------------------------------------------------
(* Tokens.                                                                 *)

RowFields(r) ==
    /\ r = [ status |-> r.status, until |-> r.until, billed |-> r.billed, plan |-> r.plan,
             hash |-> r.hash, alias |-> r.alias ]
    /\ r # Absent

CallFields(k) ==
    k = [ op |-> k.op, pc |-> k.pc, sub |-> k.sub, token |-> k.token, in |-> k.in, row |-> k.row,
          patch |-> k.patch, read |-> k.read ]

RowsOK(rows) ==
    /\ rows = [s \in Subs |-> rows[s]]
    /\ \A s \in Subs : rows[s] = Absent \/ RowFields(rows[s])

\* What a call k may rely on: the subscription it is about is there, and it
\* revokes only what its operation revokes.
CallOK(k, rows) ==
    /\ CallFields(k)
    /\ k.op \in {"cancel", "patch", "rotate", "link"} => k.sub \in Subs /\ rows[k.sub] # Absent
    /\ k.pc = "revoke sub" => k.op # "create"
    /\ k.pc = "revoke user" => k.op \notin {"create", "rotate"}

\* The call has minted a token that no row has yet, or has put one in a row.
Holds(k) == (k.op \in {"ensure", "create"} /\ k.pc = "insert") \/ (k.op \in {"rotate", "link"} /\ k.pc = "write")
Gave(k) == k.pc \in {"register", "answered"} \/ (k.op = "rotate" /\ k.pc = "revoke sub")

\* A token is in one hand, or stored, or killed: never in two of these places.
TokenInv ==
    /\ minted \in Nat
    /\ Stored(subs) \cup killed \subseteq 1 .. minted
    /\ killed \cap Stored(subs) = {}
    /\ \A c \in Callers : Holds(calls[c]) => calls[c].token \in (1 .. minted) \ (Stored(subs) \cup killed)
    /\ \A c, d \in Callers : c # d /\ Holds(calls[c]) /\ Holds(calls[d]) => calls[c].token # calls[d].token
    /\ \A c \in Callers : Gave(calls[c]) => calls[c].token \in Stored(subs) \cup killed

\* The inductive invariant of the tokens.
LinkInv ==
    /\ RowsOK(subs)
    /\ calls = [c \in Callers |-> calls[c]]
    /\ \A c \in Callers : CallOK(calls[c], subs)
    /\ TokenInv

\* What the rows store.
LEMMA StoredIs ==
    ASSUME NEW rows, NEW t
    PROVE  t \in Stored(rows) <=>
             t # NoToken /\ \E s \in Subs : rows[s] # Absent /\ (t = rows[s].hash \/ t = rows[s].alias)
<1>1. Stored(rows) = (UNION {{rows[s].hash, rows[s].alias} : s \in {x \in Subs : rows[x] # Absent}}) \ {NoToken}
  BY DEF Stored
<1>2. t \in UNION {{rows[s].hash, rows[s].alias} : s \in {x \in Subs : rows[x] # Absent}} <=>
        \E s \in {x \in Subs : rows[x] # Absent} : t \in {rows[s].hash, rows[s].alias}
  BY Zenon
<1>. QED
  BY <1>1, <1>2

LEMMA StoredOne ==
    ASSUME NEW s \in Subs, NEW r, subs = [x \in Subs |-> subs[x]], subs' = [subs EXCEPT ![s] = r],
           NEW t \in Stored(subs')
    PROVE  t \in Stored(subs) \/ t \in {r.hash, r.alias}
<1>1. PICK x \in Subs : subs'[x] # Absent /\ (t = subs'[x].hash \/ t = subs'[x].alias)
  BY StoredIs
<1>2. CASE x = s
  BY <1>1, <1>2
<1>3. CASE x # s
  <2>1. subs'[x] = subs[x]
    BY <1>3
  <2>2. t # NoToken
    BY StoredIs
  <2>. QED
    BY <1>1, <2>1, <2>2, StoredIs
<1>. QED
  BY <1>2, <1>3

\* A row that keeps its hash and its alias, or loses them, adds no token.
LEMMA StoredKept ==
    ASSUME NEW s \in Subs, NEW r, RowsOK(subs), subs' = [subs EXCEPT ![s] = r], subs[s] # Absent,
           r.hash = subs[s].hash, r.alias = subs[s].alias
    PROVE  Stored(subs') \subseteq Stored(subs)
<1> SUFFICES ASSUME NEW t \in Stored(subs') PROVE t \in Stored(subs)
  OBVIOUS
<1>1. t \in Stored(subs) \/ t \in {r.hash, r.alias}
  BY StoredOne DEF RowsOK
<1>2. t # NoToken
  BY StoredIs
<1>. QED
  BY <1>1, <1>2, StoredIs

\* A write of one row keeps the rows well formed and every subscription there.
LEMMA RowWrite ==
    ASSUME NEW s \in Subs, NEW r, RowsOK(subs), subs' = [subs EXCEPT ![s] = r], RowFields(r)
    PROVE  /\ RowsOK(subs') /\ subs'[s] = r
           /\ \A x \in Subs : subs[x] # Absent => subs'[x] # Absent
  BY DEF RowsOK, RowFields

LEMMA CallOKKept ==
    ASSUME NEW k, CallOK(k, subs), \A s \in Subs : subs[s] # Absent => subs'[s] # Absent
    PROVE  CallOK(k, subs')
  BY DEF CallOK

\* Nothing stored is forgotten.
LEMMA StoredOrKilled ==
    ASSUME History
    PROVE  Stored(subs) \cup killed \subseteq Stored(subs') \cup killed'
  BY DEF History

\* A step of the caller c after which it is the call k: the rows gain no token but the
\* one it held, and k holds none.
LEMMA CallStep ==
    ASSUME LinkInv, History, NEW c \in Callers, NEW k, calls' = [calls EXCEPT ![c] = k],
           CallOK(k, subs), RowsOK(subs'), \A s \in Subs : subs[s] # Absent => subs'[s] # Absent,
           UNCHANGED minted, ~Holds(k),
           \A t \in Stored(subs') : t \in Stored(subs) \/ (Holds(calls[c]) /\ t = calls[c].token),
           Gave(k) => k.token \in Stored(subs') \cup Stored(subs) \cup killed
    PROVE  LinkInv'
<1>1. /\ calls' = [d \in Callers |-> calls'[d]] /\ calls'[c] = k
      /\ \A d \in Callers : d # c => calls'[d] = calls[d]
  BY DEF LinkInv
<1>2. \A d \in Callers : CallOK(calls'[d], subs')
  BY <1>1, CallOKKept DEF LinkInv
<1>3. Stored(subs) \cup killed \subseteq Stored(subs') \cup killed'
  BY StoredOrKilled
<1>4. \A t \in Stored(subs') \cup killed' :
         t \in Stored(subs) \cup killed \/ (Holds(calls[c]) /\ t = calls[c].token)
  BY DEF History
<1>5. Stored(subs') \cup killed' \subseteq 1 .. minted'
  BY <1>4 DEF LinkInv, TokenInv
<1>6. killed' \cap Stored(subs') = {}
  BY DEF History, LinkInv, TokenInv
<1>7. \A d \in Callers : Holds(calls'[d]) => calls'[d].token \in (1 .. minted') \ (Stored(subs') \cup killed')
  BY <1>1, <1>4 DEF LinkInv, TokenInv
<1>8. \A d, e \in Callers : d # e /\ Holds(calls'[d]) /\ Holds(calls'[e]) => calls'[d].token # calls'[e].token
  BY <1>1 DEF LinkInv, TokenInv
<1>9. \A d \in Callers : Gave(calls'[d]) => calls'[d].token \in Stored(subs') \cup killed'
  BY <1>1, <1>3 DEF LinkInv, TokenInv
<1>10. TokenInv'
  BY <1>5, <1>6, <1>7, <1>8, <1>9 DEF LinkInv, TokenInv
<1>. QED
  BY <1>1, <1>2, <1>10 DEF LinkInv

\* The same, of a step that leaves the rows alone.
LEMMA CallMoves ==
    ASSUME LinkInv, History, NEW c \in Callers, NEW k, calls' = [calls EXCEPT ![c] = k],
           CallOK(k, subs), UNCHANGED <<subs, minted>>, ~Holds(k),
           Gave(k) => Gave(calls[c]) /\ k.token = calls[c].token
    PROVE  LinkInv'
<1>1. Gave(k) => k.token \in Stored(subs) \cup killed
  BY DEF LinkInv, TokenInv
<1>2. RowsOK(subs')
  BY DEF LinkInv
<1>3. \A t \in Stored(subs') : t \in Stored(subs)
  OBVIOUS
<1>. QED
  BY <1>1, <1>2, <1>3, CallStep

\* A token is minted into the hand of the call k.
LEMMA MintKeeps ==
    ASSUME LinkInv, History, NEW c \in Callers, NEW k, calls' = [calls EXCEPT ![c] = k],
           CallOK(k, subs), UNCHANGED subs, minted' = minted + 1, k.token = minted + 1, ~Gave(k)
    PROVE  LinkInv'
<1>1. /\ calls' = [d \in Callers |-> calls'[d]] /\ calls'[c] = k
      /\ \A d \in Callers : d # c => calls'[d] = calls[d]
  BY DEF LinkInv
<1>2. \A d \in Callers : CallOK(calls'[d], subs')
  BY <1>1 DEF LinkInv
<1>3. Stored(subs') = Stored(subs) /\ killed' = killed
  BY DEF History
<1>4. minted' \in Nat /\ 1 .. minted' = (1 .. minted) \cup {minted + 1} /\ minted + 1 \notin 1 .. minted
  BY DEF LinkInv, TokenInv
<1>5. TokenInv'
  BY <1>1, <1>3, <1>4 DEF LinkInv, TokenInv
<1>. QED
  BY <1>1, <1>2, <1>3, <1>5 DEF LinkInv

----------------------------------------------------------------------------
(* The calls.                                                              *)

LEMMA IdleCallOK ==
    ASSUME NEW rows
    PROVE  CallOK(IdleCall, rows) /\ ~Holds(IdleCall) /\ ~Gave(IdleCall)
  BY DEF CallOK, CallFields, IdleCall, Holds, Gave

LEMMA ReturnKeeps ==
    ASSUME LinkInv, History, NEW c \in Callers, Return(c), UNCHANGED minted,
           RowsOK(subs'), \A s \in Subs : subs[s] # Absent => subs'[s] # Absent,
           Stored(subs') \subseteq Stored(subs)
    PROVE  LinkInv'
<1>1. calls' = [calls EXCEPT ![c] = IdleCall]
  BY DEF Return
<1>. QED
  BY <1>1, IdleCallOK, CallStep

LEMMA ReturnOnly ==
    ASSUME LinkInv, History, NEW c \in Callers, Return(c), UNCHANGED <<minted, subs>>
    PROVE  LinkInv'
<1>1. RowsOK(subs') /\ Stored(subs') \subseteq Stored(subs)
  BY DEF LinkInv
<1>. QED
  BY <1>1, ReturnKeeps

\* The caller c has moved to pc, and its call is k.
After(c, pc, k) ==
    /\ calls' = [calls EXCEPT ![c] = k] /\ CallFields(k) /\ k.pc = pc
    /\ k.op = calls[c].op /\ k.sub = calls[c].sub /\ k.token = calls[c].token

LEMMA Stepped ==
    ASSUME LinkInv, NEW c \in Callers, NEW pc, Step(c, pc)
    PROVE  \E k : After(c, pc, k)
<1> DEFINE k == [calls[c] EXCEPT !.pc = pc]
<1>1. calls' = [calls EXCEPT ![c] = k]
  BY DEF Step
<1>2. CallFields(calls[c])
  BY DEF LinkInv, CallOK
<1>3. CallFields(k) /\ k.pc = pc /\ k.op = calls[c].op /\ k.sub = calls[c].sub /\ k.token = calls[c].token
  BY <1>2 DEF CallFields
<1> HIDE DEF k
<1>. QED
  BY <1>1, <1>3 DEF After

\* A step within a call that leaves the rows alone.
LEMMA StepKeeps ==
    ASSUME LinkInv, History, NEW c \in Callers, NEW pc, Step(c, pc), UNCHANGED <<minted, subs>>,
           \/ pc \in {"insert"} /\ calls[c].op = "telegram"
           \/ pc = "user"
           \/ pc = "register" /\ Gave(calls[c])
           \/ pc = "answered" /\ Gave(calls[c])
    PROVE  LinkInv'
<1>1. PICK k : After(c, pc, k)
  BY Stepped
<1>2. CallOK(k, subs) /\ ~Holds(k)
  BY <1>1 DEF After, LinkInv, CallOK, Holds
<1>3. Gave(k) => Gave(calls[c])
  BY <1>1 DEF After, Gave
<1>. QED
  BY <1>1, <1>2, <1>3, CallMoves DEF After

LEMMA StartKeeps ==
    ASSUME LinkInv, History, NEW c \in Callers, Start(c)
    PROVE  LinkInv'
<1>1. UNCHANGED <<subs, minted>>
  BY DEF Start, controlPlane
<1>2. PICK op \in Ops : \E in \in Input(op), s \in Subject(op) :
         calls' = [calls EXCEPT ![c] = [IdleCall EXCEPT !.op = op, !.pc = "begin", !.sub = s, !.in = in]]
  BY DEF Start
<1>3. PICK in \in Input(op), s \in Subject(op) :
         calls' = [calls EXCEPT ![c] = [IdleCall EXCEPT !.op = op, !.pc = "begin", !.sub = s, !.in = in]]
  BY <1>2
<1>9. PICK k : k = [IdleCall EXCEPT !.op = op, !.pc = "begin", !.sub = s, !.in = in]
  OBVIOUS
<1>4. CallFields(IdleCall)
  BY DEF CallFields, IdleCall
<1>5. CallFields(k) /\ k.op = op /\ k.pc = "begin" /\ k.sub = s
  <2>1. CallFields(k)
    BY <1>4, <1>9 DEF CallFields
  <2>2. k.op = op /\ k.pc = "begin" /\ k.sub = s
    BY <1>4, <1>9 DEF CallFields
  <2>. QED
    BY <2>1, <2>2
<1>6. op \in {"cancel", "patch", "rotate", "link"} => s \in Subs /\ subs[s] # Absent
  BY DEF Subject, Exists
<1>7. calls' = [calls EXCEPT ![c] = k]
  BY <1>3, <1>9
<1>8. CallOK(k, subs) /\ ~Holds(k) /\ ~Gave(k)
  BY <1>5, <1>6 DEF CallOK, Holds, Gave
<1>. QED
  BY <1>1, <1>7, <1>8, CallMoves

LEMMA MintStep ==
    ASSUME LinkInv, History, NEW c \in Callers, NEW pc \in {"insert", "write"}, Mint(c, pc), UNCHANGED subs
    PROVE  LinkInv'
<1>8. PICK t : t = minted + 1
  OBVIOUS
<1>9. PICK k : k = [calls[c] EXCEPT !.pc = pc, !.token = t]
  OBVIOUS
<1>1. calls' = [calls EXCEPT ![c] = k] /\ minted' = minted + 1
  BY <1>8, <1>9 DEF Mint
<1>2. CallFields(calls[c])
  BY DEF LinkInv, CallOK
<1>3. CallFields(k) /\ k.pc = pc /\ k.token = t /\ k.op = calls[c].op /\ k.sub = calls[c].sub
  <2>1. CallFields(k)
    BY <1>2, <1>9 DEF CallFields
  <2>2. k.pc = pc /\ k.token = t /\ k.op = calls[c].op /\ k.sub = calls[c].sub
    BY <1>2, <1>9 DEF CallFields
  <2>. QED
    BY <2>1, <2>2
<1>5. CallOK(k, subs) /\ ~Gave(k)
  BY <1>3 DEF LinkInv, CallOK, Gave
<1>. QED
  BY <1>1, <1>3, <1>5, <1>8, MintKeeps

LEMMA EnsureTelegramKeeps ==
    ASSUME LinkInv, History, NEW c \in Callers, EnsureTelegram(c) \/ CreateUser(c)
    PROVE  LinkInv'
<1>1. UNCHANGED <<subs, minted>>
  BY DEF EnsureTelegram, CreateUser, controlPlane
<1>2. CASE Return(c)
  BY <1>1, <1>2, ReturnOnly
<1>3. CASE At(c, "telegram", "begin") /\ Step(c, "insert")
  BY <1>1, <1>3, StepKeeps DEF At
<1>. QED
  BY <1>2, <1>3 DEF EnsureTelegram, CreateUser

LEMMA EnsureKeeps ==
    ASSUME LinkInv, History, NEW c \in Callers, Ensure(c) \/ RotateToken(c) \/ DeliveryLink(c)
    PROVE  LinkInv'
<1>1. UNCHANGED subs
  BY DEF Ensure, RotateToken, DeliveryLink, controlPlane
<1>2. CASE Return(c) /\ UNCHANGED minted
  BY <1>1, <1>2, ReturnOnly
<1>3. CASE Mint(c, "insert") \/ Mint(c, "write")
  BY <1>1, <1>3, MintStep
<1>. QED
  BY <1>2, <1>3 DEF Ensure, RotateToken, DeliveryLink

\* A call about an account or a subscription that reads, and holds no token.
LEMMA ReadsKeep ==
    ASSUME LinkInv, History, NEW c \in Callers, PatchRead(c) \/ UpdateRead(c) \/ DeliveryLinkRead(c)
    PROVE  LinkInv'
<1>1. UNCHANGED <<subs, minted>>
  BY DEF PatchRead, UpdateRead, DeliveryLinkRead, controlPlane
<1>2. CallFields(calls[c])
  BY DEF LinkInv, CallOK
<1>3. CASE Return(c)
  BY <1>1, <1>3, ReturnOnly
<1>4. CASE Step(c, "user")
  BY <1>1, <1>4, StepKeeps
<1>5. ASSUME NEW k, calls' = [calls EXCEPT ![c] = k], CallFields(k), k.op = calls[c].op, k.sub = calls[c].sub,
             k.pc \in {"read", "write"}, k.op \in {"patch", "update"}
      PROVE  LinkInv'
  <2>1. CallOK(k, subs) /\ ~Holds(k) /\ ~Gave(k)
    BY <1>5 DEF LinkInv, CallOK, Holds, Gave
  <2>. QED
    BY <1>1, <1>5, <2>1, CallMoves
<1>6. CASE PatchRead(c) /\ calls' = [calls EXCEPT ![c].pc = "write", ![c].row = subs[calls[c].sub]]
  <2>1. PICK k : k = [calls[c] EXCEPT !.pc = "write", !.row = subs[calls[c].sub]]
    OBVIOUS
  <2>2. CallFields(k)
    BY <1>2, <2>1 DEF CallFields
  <2>3. k.op = calls[c].op /\ k.sub = calls[c].sub /\ k.pc = "write"
    BY <1>2, <2>1 DEF CallFields
  <2>. QED
    BY <1>5, <1>6, <2>1, <2>2, <2>3 DEF PatchRead, At
<1>7. CASE UpdateRead(c) /\ calls' = [calls EXCEPT ![c].pc = "read", ![c].patch = user]
  <2>1. PICK k : k = [calls[c] EXCEPT !.pc = "read", !.patch = user]
    OBVIOUS
  <2>2. CallFields(k)
    BY <1>2, <2>1 DEF CallFields
  <2>3. k.op = calls[c].op /\ k.sub = calls[c].sub /\ k.pc = "read"
    BY <1>2, <2>1 DEF CallFields
  <2>. QED
    BY <1>5, <1>7, <2>1, <2>2, <2>3 DEF UpdateRead
<1>8. CASE UpdateRead(c) /\ calls' = [calls EXCEPT ![c].pc = "write", ![c].read = user]
  <2>1. PICK k : k = [calls[c] EXCEPT !.pc = "write", !.read = user]
    OBVIOUS
  <2>2. CallFields(k)
    BY <1>2, <2>1 DEF CallFields
  <2>3. k.op = calls[c].op /\ k.sub = calls[c].sub /\ k.pc = "write"
    BY <1>2, <2>1 DEF CallFields
  <2>. QED
    BY <1>5, <1>8, <2>1, <2>2, <2>3 DEF UpdateRead
<1>. QED
  BY <1>3, <1>4, <1>6, <1>7, <1>8 DEF PatchRead, UpdateRead, DeliveryLinkRead

\* A call that has written turns to its notifications.
LEMMA WroteKeeps ==
    ASSUME LinkInv, History, NEW c \in Callers, NEW pc, Step(c, pc), UNCHANGED minted,
           \/ pc = "revoke sub" /\ calls[c].op \in {"cancel", "patch"}
           \/ pc = "revoke user" /\ calls[c].op \in {"secrets", "update"},
           RowsOK(subs'), \A s \in Subs : subs[s] # Absent => subs'[s] # Absent,
           Stored(subs') \subseteq Stored(subs)
    PROVE  LinkInv'
<1>1. PICK k : After(c, pc, k)
  BY Stepped
<1>2. CallOK(k, subs) /\ ~Holds(k) /\ ~Gave(k)
  BY <1>1 DEF After, LinkInv, CallOK, Holds, Gave
<1>. QED
  BY <1>1, <1>2, CallStep DEF After

LEMMA RowIsPresent ==
    ASSUME NEW r, r = [ status |-> r.status, until |-> r.until, billed |-> r.billed, plan |-> r.plan,
                        hash |-> r.hash, alias |-> r.alias ]
    PROVE  RowFields(r)
<1>1. "hash" \in DOMAIN r
  OBVIOUS
<1>2. "hash" \notin DOMAIN Absent
  BY DEF Absent
<1>. QED
  BY <1>1, <1>2 DEF RowFields

\* A write of the row of s that keeps its tokens.
LEMMA TermWrite ==
    ASSUME LinkInv, NEW s \in Subs, subs[s] # Absent, NEW r, subs' = [subs EXCEPT ![s] = r],
           RowFields(r), r.hash = subs[s].hash, r.alias = subs[s].alias
    PROVE  /\ RowsOK(subs') /\ \A x \in Subs : subs[x] # Absent => subs'[x] # Absent
           /\ Stored(subs') \subseteq Stored(subs)
<1>1. RowsOK(subs)
  BY DEF LinkInv
<1>. QED
  BY <1>1, RowWrite, StoredKept

LEMMA CancelKeeps ==
    ASSUME LinkInv, History, NEW c \in Callers, Cancel(c)
    PROVE  LinkInv'
<1>1. PICK s \in Subs : s = calls[c].sub /\ subs[s] # Absent
  BY DEF Cancel, At, LinkInv, CallOK
<1>2. RowFields(subs[s])
  BY <1>1 DEF LinkInv, RowsOK
<1>3. PICK r : r = [subs[s] EXCEPT !.status = "canceled"]
  OBVIOUS
<1>4. RowFields(r)
  BY <1>2, <1>3, RowIsPresent DEF RowFields
<1>5. r.hash = subs[s].hash /\ r.alias = subs[s].alias
  BY <1>2, <1>3 DEF RowFields
<1>6. subs' = [subs EXCEPT ![s] = r]
  BY <1>1, <1>3 DEF Cancel
<1>7. calls[c].op = "cancel" /\ Step(c, "revoke sub") /\ UNCHANGED minted
  BY DEF Cancel, At
<1>. QED
  BY <1>1, <1>4, <1>5, <1>6, <1>7, TermWrite, WroteKeeps

LEMMA UpdateSubscriptionKeeps ==
    ASSUME LinkInv, History, NEW c \in Callers, UpdateSubscription(c)
    PROVE  LinkInv'
<1>1. PICK s \in Subs : s = calls[c].sub /\ subs[s] # Absent
  BY DEF UpdateSubscription, At, LinkInv, CallOK
<1>2. RowFields(subs[s])
  BY <1>1 DEF LinkInv, RowsOK
<1>3. calls[c].op = "patch" /\ UNCHANGED minted
  BY DEF UpdateSubscription, At
<1>4. CASE subs[s].billed
  <2>1. Return(c) /\ UNCHANGED subs
    BY <1>1, <1>4 DEF UpdateSubscription
  <2>. QED
    BY <1>3, <2>1, ReturnOnly
<1>5. CASE ~subs[s].billed
  <2>1. PICK r : r = Patched(subs[s], calls[c].row, calls[c].in)
    OBVIOUS
  <2>2. PICK st, un : r = [subs[s] EXCEPT !.status = st, !.until = un]
    BY <2>1 DEF Patched
  <2>3. RowFields(r)
    BY <1>2, <2>2, RowIsPresent DEF RowFields
  <2>4. r.hash = subs[s].hash /\ r.alias = subs[s].alias
    BY <1>2, <2>2 DEF RowFields
  <2>5. subs' = [subs EXCEPT ![s] = r] /\ (Return(c) \/ Step(c, "revoke sub"))
    BY <1>1, <1>5, <2>1 DEF UpdateSubscription
  <2>6. /\ RowsOK(subs') /\ \A x \in Subs : subs[x] # Absent => subs'[x] # Absent
        /\ Stored(subs') \subseteq Stored(subs)
    BY <1>1, <2>3, <2>4, <2>5, TermWrite
  <2>. QED
    BY <1>3, <2>5, <2>6, ReturnKeeps, WroteKeeps
<1>. QED
  BY <1>4, <1>5

\* The row that takes the token a call holds, and the call that has put it there.
LEMMA TokenWrite ==
    ASSUME LinkInv, History, NEW c \in Callers, Holds(calls[c]), UNCHANGED minted,
           NEW s \in Subs, NEW r, subs' = [subs EXCEPT ![s] = r], RowFields(r),
           \A t \in {r.hash, r.alias} : t = NoToken \/ t = calls[c].token \/ t \in Stored(subs),
           NEW k, calls' = [calls EXCEPT ![c] = k], CallOK(k, subs), ~Holds(k), k.token \in {r.hash, r.alias},
           k.token # NoToken
    PROVE  LinkInv'
<1>1. RowsOK(subs)
  BY DEF LinkInv
<1>2. RowsOK(subs') /\ subs'[s] = r /\ \A x \in Subs : subs[x] # Absent => subs'[x] # Absent
  BY <1>1, RowWrite
<1>3. \A t \in Stored(subs') : t \in Stored(subs) \/ (Holds(calls[c]) /\ t = calls[c].token)
  <2> SUFFICES ASSUME NEW t \in Stored(subs'), t \notin Stored(subs) PROVE t = calls[c].token
    OBVIOUS
  <2>1. t \in {r.hash, r.alias}
    BY <1>1, StoredOne DEF RowsOK
  <2>2. t # NoToken
    BY StoredIs
  <2>. QED
    BY <2>1, <2>2
<1>4. k.token \in Stored(subs')
  BY <1>2, StoredIs DEF RowFields
<1>. QED
  BY <1>2, <1>3, <1>4, CallStep

\* The token a call holds is one.
LEMMA HeldIsToken ==
    ASSUME LinkInv, NEW c \in Callers, Holds(calls[c])
    PROVE  calls[c].token # NoToken
  BY DEF LinkInv, TokenInv, NoToken

LEMMA CreateAndLinkKeeps ==
    ASSUME LinkInv, History, NEW c \in Callers, CreateAndLink(c)
    PROVE  LinkInv'
<1>1. calls[c].op \in {"ensure", "create"} /\ calls[c].pc = "insert" /\ UNCHANGED minted
  BY DEF CreateAndLink
<1>2. CASE user.link # None
  <2>1. Return(c) /\ UNCHANGED subs
    BY <1>2 DEF CreateAndLink
  <2>. QED
    BY <1>1, <2>1, ReturnOnly
<1>3. CASE ~(user.link # None)
  <2>1. PICK s \in Subs :
          /\ subs' = [subs EXCEPT ![s] = IF calls[c].op = "ensure" THEN NewSub("expired", Ended, calls[c].token)
                                                                   ELSE NewSub("active", Far, calls[c].token)]
          /\ calls' = [calls EXCEPT ![c].pc = "register", ![c].sub = s]
    BY <1>3 DEF CreateAndLink
  <2>2. PICK st, un : subs' = [subs EXCEPT ![s] = NewSub(st, un, calls[c].token)]
    BY <2>1
  <2>3. PICK r : r = NewSub(st, un, calls[c].token)
    OBVIOUS
  <2>4. r.hash = calls[c].token /\ r.alias = NoToken
    BY <2>3 DEF NewSub
  <2>5. RowFields(r)
    BY <2>3, RowIsPresent DEF NewSub
  <2>6. PICK k : k = [calls[c] EXCEPT !.pc = "register", !.sub = s]
    OBVIOUS
  <2>7. CallFields(calls[c])
    BY DEF LinkInv, CallOK
  <2>8. CallFields(k)
    BY <2>6, <2>7 DEF CallFields
  <2>9. k.op = calls[c].op /\ k.pc = "register" /\ k.token = calls[c].token
    BY <2>6, <2>7 DEF CallFields
  <2>10. calls' = [calls EXCEPT ![c] = k]
    BY <2>1, <2>6
  <2>11. subs' = [subs EXCEPT ![s] = r]
    BY <2>2, <2>3
  <2>12. CallOK(k, subs) /\ ~Holds(k)
    BY <1>1, <2>8, <2>9 DEF CallOK, Holds
  <2>13. Holds(calls[c])
    BY <1>1 DEF Holds
  <2>14. k.token # NoToken /\ k.token \in {r.hash, r.alias}
    BY <2>4, <2>9, <2>13, HeldIsToken
  <2>15. \A t \in {r.hash, r.alias} : t = NoToken \/ t = calls[c].token \/ t \in Stored(subs)
    BY <2>4
  <2>. QED
    BY <1>1, <2>5, <2>10, <2>11, <2>12, <2>13, <2>14, <2>15, TokenWrite
<1>. QED
  BY <1>2, <1>3

LEMMA UpdateTokenHashKeeps ==
    ASSUME LinkInv, History, NEW c \in Callers, UpdateTokenHash(c)
    PROVE  LinkInv'
<1>1. calls[c].op = "rotate" /\ calls[c].pc = "write" /\ UNCHANGED minted /\ Step(c, "revoke sub")
  BY DEF UpdateTokenHash, At
<1>2. PICK s \in Subs : s = calls[c].sub /\ subs[s] # Absent
  BY <1>1 DEF LinkInv, CallOK
<1>3. RowFields(subs[s])
  BY <1>2 DEF LinkInv, RowsOK
<1>4. PICK no : no = NoToken
  OBVIOUS
<1>5. PICK r : r = [subs[s] EXCEPT !.hash = calls[c].token, !.alias = no]
  OBVIOUS
<1>6. RowFields(r)
  BY <1>3, <1>5, RowIsPresent DEF RowFields
<1>7. r.hash = calls[c].token /\ r.alias = no
  BY <1>3, <1>5 DEF RowFields
<1>8. subs' = [subs EXCEPT ![s] = r]
  BY <1>2, <1>4, <1>5 DEF UpdateTokenHash
<1>9. PICK k : After(c, "revoke sub", k)
  BY <1>1, Stepped
<1>10. CallOK(k, subs) /\ ~Holds(k)
  BY <1>1, <1>9 DEF After, LinkInv, CallOK, Holds
<1>11. Holds(calls[c])
  BY <1>1 DEF Holds
<1>12. k.token # NoToken /\ k.token \in {r.hash, r.alias}
  BY <1>7, <1>9, <1>11, HeldIsToken DEF After
<1>13. \A t \in {r.hash, r.alias} : t = NoToken \/ t = calls[c].token \/ t \in Stored(subs)
  BY <1>4, <1>7
<1>. QED
  BY <1>1, <1>6, <1>8, <1>9, <1>10, <1>11, <1>12, <1>13, TokenWrite DEF After

LEMMA EnsureDeliveryTokenKeeps ==
    ASSUME LinkInv, History, NEW c \in Callers, EnsureDeliveryToken(c)
    PROVE  LinkInv'
<1>1. calls[c].op = "link" /\ calls[c].pc = "write" /\ UNCHANGED minted
  BY DEF EnsureDeliveryToken, At
<1>2. PICK s \in Subs : s = calls[c].sub /\ subs[s] # Absent
  BY <1>1 DEF LinkInv, CallOK
<1>3. RowFields(subs[s])
  BY <1>2 DEF LinkInv, RowsOK
<1>4. PICK r : r = IF subs[s].alias = NoToken THEN [subs[s] EXCEPT !.alias = calls[c].token] ELSE subs[s]
  OBVIOUS
<1>5. subs' = [subs EXCEPT ![s] = r] /\ calls' = [calls EXCEPT ![c].pc = "answered", ![c].token = r.alias]
  BY <1>2, <1>4 DEF EnsureDeliveryToken, Answer
<1>6. Holds(calls[c])
  BY <1>1 DEF Holds
<1>7. RowFields(r)
  BY <1>3, <1>4, RowIsPresent DEF RowFields
<1>8. r.hash = subs[s].hash
  BY <1>3, <1>4 DEF RowFields
<1>9. r.alias = IF subs[s].alias = NoToken THEN calls[c].token ELSE subs[s].alias
  BY <1>3, <1>4 DEF RowFields
<1>10. PICK k : k = [calls[c] EXCEPT !.pc = "answered", !.token = r.alias]
  OBVIOUS
<1>11. CallFields(calls[c])
  BY DEF LinkInv, CallOK
<1>12. CallFields(k)
  BY <1>10, <1>11 DEF CallFields
<1>13. k.op = calls[c].op /\ k.sub = calls[c].sub /\ k.pc = "answered" /\ k.token = r.alias
  BY <1>10, <1>11 DEF CallFields
<1>14. CallOK(k, subs) /\ ~Holds(k)
  BY <1>1, <1>2, <1>12, <1>13 DEF CallOK, Holds
<1>15. \A t \in {r.hash, r.alias} : t = NoToken \/ t = calls[c].token \/ t \in Stored(subs)
  BY <1>2, <1>8, <1>9, StoredIs
<1>16. k.token # NoToken /\ k.token \in {r.hash, r.alias}
  BY <1>6, <1>9, <1>13, HeldIsToken
<1>17. calls' = [calls EXCEPT ![c] = k]
  BY <1>5, <1>10
<1>. QED
  BY <1>1, <1>5, <1>6, <1>7, <1>14, <1>15, <1>16, <1>17, TokenWrite

LEMMA RotateSecretsKeeps ==
    ASSUME LinkInv, History, NEW c \in Callers, RotateSecrets(c)
    PROVE  LinkInv'
<1>1. calls[c].op = "secrets" /\ Step(c, "revoke user") /\ UNCHANGED minted /\ subs' = Unopened
  BY DEF RotateSecrets, At
<1>2. ASSUME NEW s \in Subs, subs[s] # Absent
      PROVE  RowFields(subs'[s]) /\ subs'[s].hash = NoToken /\ subs'[s].alias = NoToken
  <2>1. PICK no : no = NoToken
    OBVIOUS
  <2>2. PICK r : r = [subs[s] EXCEPT !.hash = no, !.alias = no]
    OBVIOUS
  <2>3. subs'[s] = r
    BY <1>1, <1>2, <2>1, <2>2 DEF Unopened, Exists, Revoked, NoToken
  <2>4. RowFields(subs[s])
    BY <1>2 DEF LinkInv, RowsOK
  <2>5. RowFields(r)
    BY <2>2, <2>4, RowIsPresent DEF RowFields
  <2>6. r.hash = no /\ r.alias = no
    BY <2>2, <2>4 DEF RowFields
  <2>. QED
    BY <2>1, <2>3, <2>5, <2>6
<1>3. \A s \in Subs : subs[s] = Absent => subs'[s] = Absent
  BY <1>1 DEF Unopened, Exists
<1>4. subs' = [s \in Subs |-> subs'[s]]
  BY <1>1 DEF Unopened
<1>5. RowsOK(subs')
  BY <1>2, <1>3, <1>4 DEF RowsOK
<1>6. \A s \in Subs : subs[s] # Absent => subs'[s] # Absent
  BY <1>2 DEF RowFields
<1>7. \A t : t \notin Stored(subs')
  BY <1>2, <1>3, StoredIs
<1>. QED
  BY <1>1, <1>5, <1>6, <1>7, WroteKeeps

LEMMA UpdateUserKeeps ==
    ASSUME LinkInv, History, NEW c \in Callers, UpdateUser(c)
    PROVE  LinkInv'
<1>1. calls[c].op = "update" /\ (Step(c, "revoke user") \/ Return(c)) /\ UNCHANGED <<minted, subs>>
  BY DEF UpdateUser, At
<1>2. RowsOK(subs')
  BY <1>1 DEF LinkInv
<1>. QED
  BY <1>1, <1>2, ReturnOnly, WroteKeeps

\* The notifications: what a call has put in a row it answers.
LEMMA NotificationsKeep ==
    ASSUME LinkInv, History, NEW c \in Callers, RevokeDownstream(c) \/ RegisterToken(c) \/ NotificationLost(c)
    PROVE  LinkInv'
<1>1. UNCHANGED <<subs, minted>>
  BY DEF RevokeDownstream, RegisterToken, NotificationLost, controlPlane
<1>2. CASE Return(c)
  BY <1>1, <1>2, ReturnOnly
<1>3. CASE Step(c, "register") /\ Gave(calls[c])
  BY <1>1, <1>3, StepKeeps
<1>4. CASE Step(c, "answered") /\ Gave(calls[c])
  BY <1>1, <1>4, StepKeeps
<1>5. CASE RevokeDownstream(c)
  BY <1>2, <1>3, <1>5 DEF RevokeDownstream, LinkInv, CallOK, Gave
<1>6. CASE RegisterToken(c)
  BY <1>2, <1>4, <1>6 DEF RegisterToken, Notified, Gave
<1>7. CASE NotificationLost(c)
  BY <1>2, <1>3, <1>4, <1>7 DEF NotificationLost, Notified, LinkInv, CallOK, Gave
<1>. QED
  BY <1>5, <1>6, <1>7

LEMMA CallEnds ==
    ASSUME LinkInv, History, NEW c \in Callers, CallFails(c) \/ Close(c)
    PROVE  LinkInv'
  BY ReturnOnly DEF CallFails, Close, controlPlane

\* The requests, and the world.
LEMMA OthersKeep ==
    ASSUME LinkInv, History, UNCHANGED <<calls, minted>>, RowsOK(subs'),
           \A s \in Subs : subs[s] # Absent => subs'[s] # Absent, Stored(subs') \subseteq Stored(subs)
    PROVE  LinkInv'
<1>1. \A c \in Callers : CallOK(calls[c], subs')
  BY CallOKKept DEF LinkInv
<1>2. Stored(subs') \cup killed' = Stored(subs) \cup killed
  BY DEF History
<1>3. killed' \cap Stored(subs') = {}
  BY DEF History, LinkInv, TokenInv
<1>4. TokenInv'
  BY <1>2, <1>3 DEF LinkInv, TokenInv
<1>. QED
  BY <1>1, <1>4 DEF LinkInv

LEMMA ChangesKeep ==
    ASSUME LinkInv, History, Changes
    PROVE  LinkInv'
<1>1. UNCHANGED <<calls, minted>>
  BY DEF Changes
<1>2. CASE UNCHANGED subs
  <2>1. RowsOK(subs')
    BY <1>2 DEF LinkInv
  <2>. QED
    BY <1>1, <1>2, <2>1, OthersKeep
<1>3. ASSUME NEW s \in Subs, Exists(s),
             subs' = [subs EXCEPT ![s].status = "active", ![s].until = Far, ![s].billed = TRUE]
      PROVE  LinkInv'
  <2>1. RowFields(subs[s]) /\ subs[s] # Absent
    BY <1>3 DEF LinkInv, RowsOK, Exists
  <2>2. PICK un, bi : un = Far /\ bi = TRUE
    OBVIOUS
  <2>3. PICK r : r = [subs[s] EXCEPT !.status = "active", !.until = un, !.billed = bi]
    OBVIOUS
  <2>4. RowFields(r)
    BY <2>1, <2>3, RowIsPresent DEF RowFields
  <2>5. r.hash = subs[s].hash /\ r.alias = subs[s].alias
    BY <2>1, <2>3 DEF RowFields
  <2>6. subs' = [subs EXCEPT ![s] = r]
    BY <1>3, <2>2, <2>3
  <2>. QED
    BY <1>1, <2>1, <2>4, <2>5, <2>6, TermWrite, OthersKeep
<1>. QED
  BY <1>2, <1>3 DEF Changes

LEMMA LinkInvInit == Init => LinkInv
<1> SUFFICES ASSUME Init PROVE LinkInv
  OBVIOUS
<1>1. calls = [c \in Callers |-> IdleCall] /\ killed = {}
  BY DEF Init
<1>2. \A c \in Callers : CallOK(calls[c], subs) /\ ~Holds(calls[c]) /\ ~Gave(calls[c])
  BY <1>1, IdleCallOK
<1>3. CASE minted = 0 /\ subs = [s \in Subs |-> Absent]
  <2>1. Stored(subs) = {}
    BY <1>3, StoredIs
  <2>. QED
    BY <1>1, <1>2, <1>3, <2>1 DEF LinkInv, TokenInv, RowsOK
<1>4. ASSUME NEW s \in Subs, minted = 1,
             subs = [x \in Subs |-> IF x = s THEN NewSub("active", Far, 1) ELSE Absent]
      PROVE  LinkInv
  <2>1. PICK t, un : t = 1 /\ un = Far
    OBVIOUS
  <2>2. PICK r : r = NewSub("active", un, t)
    OBVIOUS
  <2>3. RowFields(r)
    BY <2>2, RowIsPresent DEF NewSub
  <2>4. r.hash = t /\ r.alias = NoToken
    BY <2>2 DEF NewSub
  <2>5. subs = [x \in Subs |-> IF x = s THEN r ELSE Absent]
    BY <1>4, <2>1, <2>2
  <2>6. RowsOK(subs)
    BY <2>3, <2>5 DEF RowsOK
  <2>7. \A x \in Stored(subs) : x = t
    BY <2>4, <2>5, StoredIs
  <2>8. Stored(subs) \cup killed \subseteq 1 .. minted /\ minted \in Nat
    BY <1>1, <1>4, <2>1, <2>7
  <2>. QED
    BY <1>1, <1>2, <2>6, <2>8 DEF LinkInv, TokenInv
<1>. QED
  BY <1>3, <1>4 DEF Init

LEMMA LinkInvNext == LinkInv /\ [Next]_vars => LinkInv'
<1> SUFFICES ASSUME LinkInv, [Next]_vars PROVE LinkInv'
  OBVIOUS
<1>1. CASE UNCHANGED vars
  <2>1. UNCHANGED <<subs, calls, minted, killed>>
    BY <1>1 DEF vars
  <2>. QED
    BY <2>1 DEF LinkInv, TokenInv
<1>2. CASE (\E c \in Callers : Call(c)) /\ History
  <2>1. PICK c \in Callers : Call(c)
    BY <1>2
  <2>. QED
    BY <1>2, <2>1, StartKeeps, EnsureTelegramKeeps, EnsureKeeps, CreateAndLinkKeeps, CancelKeeps, ReadsKeep,
       UpdateSubscriptionKeeps, UpdateTokenHashKeeps, RotateSecretsKeeps, UpdateUserKeeps,
       EnsureDeliveryTokenKeeps, NotificationsKeep, CallEnds DEF Call
<1>3. CASE Request /\ History
  <2>1. UNCHANGED <<subs, calls, minted>>
    BY <1>3 DEF Request, BeginRequest, ResolveToken, GetSubscription, GetUser, Assemble, CacheGet, CachePut,
         FinishRequest, CacheDrop, Invalidate, RequestFails, controlPlane
  <2>2. RowsOK(subs')
    BY <2>1 DEF LinkInv
  <2>. QED
    BY <1>3, <2>1, <2>2, OthersKeep
<1>4. CASE Changes /\ History
  BY <1>4, ChangesKeep
<1>. QED
  BY <1>1, <1>2, <1>3, <1>4 DEF Next

\* A token that was rotated away (UpdateTokenHash, RotateSecrets) never opens a
\* subscription again, whichever of the other calls write the rows at the same time.
THEOREM RevocationIsFinal == Spec => []RevokedStaysRevoked
<1>1. LinkInv => RevokedStaysRevoked
  BY DEF LinkInv, TokenInv, RevokedStaysRevoked
<1>. QED
  BY <1>1, LinkInvInit, LinkInvNext, PTL DEF Spec

\* The link that a create, a rotation or EnsureDeliveryToken answers is in a row, or
\* was until it was revoked: never one that lost a race and opens nothing.
THEOREM AnswersAreStored == Spec => []AnsweredLinkIsStored
<1>1. LinkInv => AnsweredLinkIsStored
  BY DEF LinkInv, TokenInv, Gave, AnsweredLinkIsStored
<1>. QED
  BY <1>1, LinkInvInit, LinkInvNext, PTL DEF Spec
=============================================================================
