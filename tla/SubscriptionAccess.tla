--------------------------- MODULE SubscriptionAccess ---------------------------
(***************************************************************************)
(* Links and what they serve. The control plane keeps an account, its      *)
(* subscriptions and the hashes of the tokens that open them; the          *)
(* subscription service answers GET /sub/{token} with the credentials and  *)
(* the nodes of the moment, from a cache where it can.                     *)
(*                                                                         *)
(* A call of the control plane's API is a transaction between reads before *)
(* it and notifications after it, each a step: other calls come between    *)
(* them, and any of them may be the last. A request of the subscription    *)
(* service reads the control plane in four calls, one step each.           *)
(***************************************************************************)
EXTENDS Personalize

CONSTANTS
    Subs,           \* subscription ids the control plane may mint
    Callers,        \* API calls in progress at a time
    Ops,            \* the operations the calls may be
    Fleet,          \* the nodes there are
    Params,         \* personalization hints of requests
    Kinds,          \* "sub", "nodes", "happ": the three endpoints of a link
    MaxTokens,      \* bound on tokens minted
    Budgets         \* bounds on the calls, requests, changes and failures of a behaviour

\* Negotiate: the representation the query, the Accept header or the client's
\* name asks for.
Formats == {"base64", "singbox", "clash"}

ASSUME FleetAssumption == Fleet \subseteq NodeRecord /\ \A m, n \in Fleet : m.node = n.node => m = n
ASSUME ParamsAssumption == Params \subseteq [format: Formats, region: STRING, platform: STRING]

Budget == [calls: Nat, requests: Nat, changes: Nat, failures: Nat]

ASSUME BudgetsAssumption == Budgets \subseteq Budget

VARIABLES
    user,       \* the row of users: status, subscription link, secrets
    subs,       \* the rows of subscriptions with their delivery alias
    now,        \* the clock, against which access_until is read
    up,         \* the nodes of Fleet that are active
    minted,     \* tokens generated so far
    calls,      \* the call each caller is in
    index,      \* subscription_tokens, the subscription service's own table
    cache,      \* rendered payloads
    version,    \* the cache's version
    req,        \* the request in progress
    seen,       \* history: what has held at some moment of the request
    killed,     \* history: tokens that were stored and no longer are
    left        \* what is left of each bound

vars == <<user, subs, now, up, minted, calls, index, cache, version, req, seen, killed, left>>

controlPlane == <<user, subs, now, up>>
service == <<index, cache, version>>

NoToken == 0
Revoked == 0            \* 'revoked:...': the hash of no token
Ended == 0              \* access_until of an unpaid subscription
Far == 2                \* access_until past every bound of the clock
Absent == [status |-> "absent"]

\* A call: the operation and where it is, the subscription it is about, the token it
\* minted, what the body of the request sets, and the rows it has read.
NoInput == [status |-> None, extend |-> FALSE]
IdleCall == [ op |-> "none", pc |-> "idle", sub |-> None, token |-> NoToken, in |-> NoInput,
              row |-> Absent, patch |-> Absent, read |-> Absent ]

\* A request: the link and the hints it came with, what it has read, and its answer.
NoParams == [format |-> None, region |-> None, platform |-> None]
NoBody == [format |-> None, creds |-> 0, nodes |-> {}, headers |-> [until |-> Ended]]
IdleReq == [ pc |-> "idle", kind |-> None, token |-> NoToken, params |-> NoParams, sub |-> None,
             row |-> Absent, creds |-> 0, listed |-> {}, nodes |-> {}, body |-> NoBody ]

servable == {"active", "trialing", "past_due"}

Exists(s) == subs[s] # Absent
Open(s) == Exists(s) /\ subs[s].status \in servable /\ subs[s].until > now

\* The tokens that open a subscription: its hash and its delivery alias.
Stored(rows) == (UNION {{rows[s].hash, rows[s].alias} : s \in {x \in Subs : rows[x] # Absent}}) \ {NoToken}

\* ResolveTokenHash: the subscription a token opens, when the account is
\* active and still linked to it.
Bindings(token) ==
    {s \in Subs : Exists(s) /\ user.link = s /\ user.status = "active" /\ token \in {subs[s].hash, subs[s].alias}}

NewSub(status, until, token) ==
    [status |-> status, until |-> until, billed |-> FALSE, plan |-> "basic", hash |-> token, alias |-> NoToken]

NewUser == [status |-> "active", link |-> None, creds |-> 1]

\* A chat without an account, an account without a subscription, or one whose
\* owner holds a link to its subscription.
Init ==
    /\ \/ user \in {Absent, NewUser} /\ minted = 0 /\ subs = [s \in Subs |-> Absent]
       \/ \E s \in Subs :
             /\ user = [NewUser EXCEPT !.link = s] /\ minted = 1
             /\ subs = [x \in Subs |-> IF x = s THEN NewSub("active", Far, 1) ELSE Absent]
    /\ now = 0 /\ up = Fleet
    /\ calls = [c \in Callers |-> IdleCall]
    /\ index = {} /\ cache = {} /\ version = 0
    /\ req = IdleReq /\ seen = {} /\ killed = {}
    /\ left \in Budgets

-----------------------------------------------------------------------------
(* The API of the control plane.                                           *)

Spend(what) == left[what] > 0 /\ left' = [left EXCEPT ![what] = @ - 1]

Step(c, pc) == calls' = [calls EXCEPT ![c].pc = pc]
Return(c) == calls' = [calls EXCEPT ![c] = IdleCall]
At(c, op, pc) == calls[c].op = op /\ calls[c].pc = pc

\* A call about the account or one of its subscriptions. What PATCH puts in
\* the rows is part of it: a user's status, a subscription's status or term.
Input(op) ==
    CASE op = "update" -> {[status |-> st, extend |-> FALSE] : st \in {"active", "banned", None}}
      [] op = "patch" -> {[status |-> "canceled", extend |-> FALSE], [status |-> None, extend |-> TRUE]}
      [] OTHER -> {NoInput}

\* An unknown account or subscription is the end of the call.
Subject(op) ==
    CASE op = "telegram" -> {None}
      [] op \in {"ensure", "create", "update", "secrets"} -> IF user = Absent THEN {} ELSE {None}
      [] OTHER -> {s \in Subs : Exists(s)}

Start(c) ==
    /\ calls[c].pc = "idle"
    /\ \E op \in Ops : \E in \in Input(op), s \in Subject(op) :
          calls' = [calls EXCEPT ![c] = [IdleCall EXCEPT !.op = op, !.pc = "begin", !.sub = s, !.in = in]]
    /\ Spend("calls")
    /\ UNCHANGED <<controlPlane, service, minted, req>>

Mint(c, pc) ==
    /\ minted < MaxTokens
    /\ minted' = minted + 1
    /\ calls' = [calls EXCEPT ![c].pc = pc, ![c].token = minted + 1]

\* EnsureTelegram: the account of a chat, made by the first caller to insert it.
EnsureTelegram(c) ==
    /\ At(c, "telegram", "begin")
    /\ IF user = Absent THEN Step(c, "insert") ELSE Return(c)
    /\ UNCHANGED <<controlPlane, minted, service, req, left>>

CreateUser(c) ==
    /\ At(c, "telegram", "insert") /\ Return(c)
    /\ user' = IF user = Absent THEN NewUser ELSE user
    /\ UNCHANGED <<subs, now, up, minted, service, req, left>>

\* Ensure returns the linked subscription, create always tries to make one.
Ensure(c) ==
    /\ calls[c].op \in {"ensure", "create"} /\ calls[c].pc = "begin"
    /\ IF calls[c].op = "ensure" /\ user.link # None
          THEN Return(c) /\ UNCHANGED minted
          ELSE Mint(c, "insert")
    /\ UNCHANGED <<controlPlane, service, req, left>>

\* CreateAndLink: insert and link in one transaction, refused (and for Ensure
\* answered with the winner's) when the account is linked by now.
CreateAndLink(c) ==
    /\ calls[c].op \in {"ensure", "create"} /\ calls[c].pc = "insert"
    /\ IF user.link # None
          THEN Return(c) /\ UNCHANGED <<user, subs>>
          ELSE \E s \in Subs :
                 /\ ~Exists(s)
                 /\ subs' = [subs EXCEPT ![s] =
                                IF calls[c].op = "ensure" THEN NewSub("expired", Ended, calls[c].token)
                                                          ELSE NewSub("active", Far, calls[c].token)]
                 /\ user' = [user EXCEPT !.link = s]
                 /\ calls' = [calls EXCEPT ![c].pc = "register", ![c].sub = s]
    /\ UNCHANGED <<now, up, minted, service, req, left>>

\* CancelSubscription, whatever the subscription's state.
Cancel(c) ==
    /\ At(c, "cancel", "begin")
    /\ subs' = [subs EXCEPT ![calls[c].sub].status = "canceled"]
    /\ Step(c, "revoke sub")
    /\ UNCHANGED <<user, now, up, minted, service, req, left>>

\* Patch reads the row, then writes the status and term it read with the
\* patch applied; billing's subscriptions are refused at both.
PatchRead(c) ==
    /\ At(c, "patch", "begin")
    /\ IF subs[calls[c].sub].billed
          THEN Return(c)
          ELSE calls' = [calls EXCEPT ![c].pc = "write", ![c].row = subs[calls[c].sub]]
    /\ UNCHANGED <<controlPlane, minted, service, req, left>>

\* A slip: the whole row is written back, the token's hash included.
PatchedWhole(row, read, in) ==
    [row EXCEPT !.status = IF in.status = None THEN read.status ELSE in.status,
                !.until = IF in.extend THEN Far ELSE read.until,
                !.hash = read.hash]

Patched(row, read, in) ==
    [row EXCEPT !.status = IF in.status = None THEN read.status ELSE in.status,
                !.until = IF in.extend THEN Far ELSE read.until]

UpdateSubscription(c) ==
    /\ At(c, "patch", "write")
    /\ LET s == calls[c].sub
           in == calls[c].in
       IN  IF subs[s].billed
             THEN Return(c) /\ UNCHANGED subs
             ELSE /\ subs' = [subs EXCEPT ![s] = Patched(@, calls[c].row, in)]
                  /\ IF in.status # None THEN Step(c, "revoke sub") ELSE Return(c)
    /\ UNCHANGED <<user, now, up, minted, service, req, left>>

\* RotateToken mints, then UpdateTokenHash swaps the hash and drops the alias.
RotateToken(c) ==
    /\ At(c, "rotate", "begin") /\ Mint(c, "write")
    /\ UNCHANGED <<controlPlane, service, req, left>>

UpdateTokenHash(c) ==
    /\ At(c, "rotate", "write")
    /\ subs' = [subs EXCEPT ![calls[c].sub].hash = calls[c].token, ![calls[c].sub].alias = NoToken]
    /\ Step(c, "revoke sub")
    /\ UNCHANGED <<user, now, up, minted, service, req, left>>

\* RotateSecrets: new credentials and no token of the account left, in one
\* transaction; then the archive row, without which nobody is told.
Unopened == [s \in Subs |-> IF Exists(s) THEN [subs[s] EXCEPT !.hash = Revoked, !.alias = NoToken] ELSE Absent]

RotateSecrets(c) ==
    /\ At(c, "secrets", "begin")
    /\ user' = [user EXCEPT !.creds = @ + 1]
    /\ subs' = Unopened
    /\ Step(c, "revoke user")
    /\ UNCHANGED <<now, up, minted, service, req, left>>

\* updateUser reads the account it patches; Update reads it again and writes.
UpdateRead(c) ==
    /\ calls[c].op = "update" /\ calls[c].pc \in {"begin", "read"}
    /\ IF calls[c].pc = "begin"
          THEN calls' = [calls EXCEPT ![c].pc = "read", ![c].patch = user]
          ELSE calls' = [calls EXCEPT ![c].pc = "write", ![c].read = user]
    /\ UNCHANGED <<controlPlane, minted, service, req, left>>

\* The account as the patch and the second read make it: the status is the
\* patch's, which is the first read's unless the body sets one.
Merged(call) ==
    [ status |-> IF call.in.status = None THEN call.patch.status ELSE call.in.status,
      link |-> IF call.patch.link # None THEN call.patch.link ELSE call.read.link ]

UpdateUser(c) ==
    /\ At(c, "update", "write")
    /\ user' = [user EXCEPT !.status = Merged(calls[c]).status, !.link = Merged(calls[c]).link]
    /\ IF Merged(calls[c]).status # "active" THEN Step(c, "revoke user") ELSE Return(c)
    /\ UNCHANGED <<subs, now, up, minted, service, req, left>>

\* DeliveryLink reads the subscription, then the account, and mints an alias.
DeliveryLinkRead(c) ==
    /\ At(c, "link", "begin")
    /\ IF Open(calls[c].sub) THEN Step(c, "user") ELSE Return(c)
    /\ UNCHANGED <<controlPlane, minted, service, req, left>>

DeliveryLink(c) ==
    /\ At(c, "link", "user")
    /\ IF user.status = "active" THEN Mint(c, "write") ELSE Return(c) /\ UNCHANGED minted
    /\ UNCHANGED <<controlPlane, service, req, left>>

\* A slip: the call answers the alias it minted.
AnswerCandidate(row, candidate) == candidate

\* EnsureDeliveryToken: the first alias stays, and every call answers it.
Answer(row, candidate) == row.alias

EnsureDeliveryToken(c) ==
    /\ At(c, "link", "write")
    /\ LET s == calls[c].sub
           row == IF subs[s].alias = NoToken THEN [subs[s] EXCEPT !.alias = calls[c].token] ELSE subs[s]
       IN  /\ subs' = [subs EXCEPT ![s] = row]
           /\ calls' = [calls EXCEPT ![c].pc = "answered", ![c].token = Answer(row, calls[c].token)]
    /\ UNCHANGED <<user, now, up, minted, service, req, left>>

\* What a call does after its last notification: the calls that mint a token
\* for the caller answer it.
Notified(c) ==
    IF calls[c].op \in {"create", "rotate"} THEN Step(c, "answered") ELSE Return(c)

\* /internal/revoke and /internal/tokens. A lost notification is logged.
InvalidateAll == version' = version + 1 /\ UNCHANGED cache
InvalidateToken(token) == cache' = {e \in cache : e.token # token} /\ UNCHANGED version

\* The service's table: every token of the account, or of one subscription.
RevokeByUser == index' = {}
RevokeBySubscription(s) == index' = {e \in index : e.sub # s}
Register(token, s) == index' = index \cup {[token |-> token, sub |-> s]}

RevokeDownstream(c) ==
    /\ \/ calls[c].pc = "revoke sub" /\ RevokeBySubscription(calls[c].sub)
       \/ calls[c].pc = "revoke user" /\ RevokeByUser
    /\ InvalidateAll
    /\ IF calls[c].op = "rotate" THEN Step(c, "register") ELSE Return(c)
    /\ UNCHANGED <<controlPlane, minted, req, left>>

RegisterToken(c) ==
    /\ calls[c].pc = "register"
    /\ Register(calls[c].token, calls[c].sub)
    /\ InvalidateToken(calls[c].token)
    /\ Notified(c)
    /\ UNCHANGED <<controlPlane, minted, req, left>>

NotificationLost(c) ==
    /\ calls[c].pc \in {"revoke sub", "revoke user", "register"}
    /\ IF calls[c].op = "rotate" /\ calls[c].pc = "revoke sub" THEN Step(c, "register") ELSE Notified(c)
    /\ Spend("failures")
    /\ UNCHANGED <<controlPlane, minted, service, req>>

\* A step of the call fails, or the control plane stops: the call is over.
CallFails(c) ==
    /\ calls[c].pc \notin {"idle", "answered"}
    /\ Spend("failures")
    /\ Return(c)
    /\ UNCHANGED <<controlPlane, minted, service, req>>

Close(c) ==
    /\ calls[c].pc = "answered" /\ Return(c)
    /\ UNCHANGED <<controlPlane, minted, service, req, left>>

-----------------------------------------------------------------------------
(* Requests to the subscription service.                                   *)

BeginRequest ==
    /\ req.pc = "idle"
    /\ \E t \in 1 .. minted, k \in Kinds, p \in Params :
          req' = [IdleReq EXCEPT !.pc = "lookup", !.kind = k, !.token = t, !.params = p]
    /\ Spend("requests")
    /\ UNCHANGED <<controlPlane, service, minted, calls>>

Refuse == req' = [IdleReq EXCEPT !.pc = "refused"]

\* A slip: the token is looked up in the service's table.
LookupLocal(token) == {e.sub : e \in {x \in index : x.token = token}}

\* AuthoritativeIndex.Lookup asks the control plane, never its own table.
Lookup(token) == Bindings(token)

ResolveToken ==
    /\ req.pc = "lookup"
    /\ IF Lookup(req.token) = {}
          THEN Refuse
          ELSE req' = [req EXCEPT !.pc = "subscription", !.sub = CHOOSE s \in Lookup(req.token) : TRUE]
    /\ UNCHANGED <<controlPlane, service, minted, calls, left>>

GetSubscription ==
    /\ req.pc = "subscription"
    /\ IF Open(req.sub) THEN req' = [req EXCEPT !.pc = "user", !.row = subs[req.sub]] ELSE Refuse
    /\ UNCHANGED <<controlPlane, service, minted, calls, left>>

GetUser ==
    /\ req.pc = "user"
    /\ IF user.status = "active" THEN req' = [req EXCEPT !.pc = "nodes", !.creds = user.creds] ELSE Refuse
    /\ UNCHANGED <<controlPlane, service, minted, calls, left>>

\* The active nodes.
ListNodes == up

\* The client's headers, of which the end of the term is about the account.
HappMetaFor(r) == [until |-> r.row.until]

\* What the rendered payload says.
Render(r) == [format |-> r.params.format, creds |-> r.creds, nodes |-> r.nodes, headers |-> HappMetaFor(r)]

Snapshot(r) == [user |-> r.creds, row |-> r.row, nodes |-> r.nodes]

\* A slip: the key is the format and the hints alone.
CacheKeyOfFormat(r) == [params |-> r.params]

\* The key of a payload carries the digest of the snapshot it is rendered from.
CacheKey(r) == [params |-> r.params, snapshot |-> Snapshot(r)]

\* The deep link names the link it was asked by.
DeepLink == [IdleReq EXCEPT !.pc = "linked", !.kind = "happ", !.token = req.token]

\* The last read of Resolve, Filter and PublicBundle. The deep link needs no
\* nodes; /nodes is answered without the cache.
Assemble ==
    /\ req.pc = "nodes"
    /\ LET shown == PublicBundle(Filter(ListNodes, req.row.plan, req.params))
           got == [req EXCEPT !.pc = "cache", !.nodes = shown, !.listed = ListNodes]
       IN  CASE req.kind = "happ" -> req' = DeepLink
             [] req.kind # "happ" /\ shown = {} -> Refuse
             [] req.kind = "nodes" /\ shown # {} -> req' = [got EXCEPT !.pc = "served", !.body = Render(got)]
             [] OTHER -> req' = got
    /\ UNCHANGED <<controlPlane, service, minted, calls, left>>

Hits == {e \in cache : e.token = req.token /\ e.key = CacheKey(req) /\ e.version = version}

CacheGet ==
    /\ req.pc = "cache"
    /\ \/ \E e \in Hits : req' = [req EXCEPT !.pc = "served", !.body = e.body]
       \/ Hits = {} /\ req' = [req EXCEPT !.pc = "render"]
    /\ UNCHANGED <<controlPlane, service, minted, calls, left>>

\* Put stores under the version of this moment, not of the snapshot's.
CachePut ==
    /\ req.pc = "render"
    /\ cache' = {e \in cache : <<e.token, e.key>> # <<req.token, CacheKey(req)>>}
                   \cup {[token |-> req.token, key |-> CacheKey(req), body |-> Render(req), version |-> version]}
    /\ req' = [req EXCEPT !.pc = "served", !.body = Render(req)]
    /\ UNCHANGED <<controlPlane, index, version, minted, calls, left>>

FinishRequest ==
    /\ req.pc \in {"served", "refused", "linked"} /\ req' = IdleReq
    /\ UNCHANGED <<controlPlane, service, minted, calls, left>>

\* An entry's TTL ends, or it makes room for another.
CacheDrop ==
    /\ \E e \in cache : cache' = cache \ {e}
    /\ Spend("changes")
    /\ UNCHANGED <<controlPlane, index, version, minted, calls, req>>

Invalidate ==
    /\ InvalidateAll
    /\ Spend("changes")
    /\ UNCHANGED <<controlPlane, index, minted, calls, req>>

\* A read of the control plane fails: the request is answered with an error.
RequestFails ==
    /\ req.pc \in {"lookup", "subscription", "user", "nodes"} /\ Refuse
    /\ Spend("failures")
    /\ UNCHANGED <<controlPlane, service, minted, calls>>

-----------------------------------------------------------------------------
(* The rest of the system: billing pays the subscription (Settlement), a   *)
(* node enters or leaves service (NodeRegistry), time passes.              *)

Changes ==
    /\ \/ \E s \in Subs : /\ Exists(s)
                          /\ subs' = [subs EXCEPT ![s].status = "active", ![s].until = Far, ![s].billed = TRUE]
                          /\ UNCHANGED <<user, now, up>>
       \/ \E n \in Fleet : /\ up' = IF n \in up THEN up \ {n} ELSE up \cup {n}
                           /\ UNCHANGED <<user, subs, now>>
       \/ now < Far /\ now' = now + 1 /\ UNCHANGED <<user, subs, up>>
    /\ Spend("changes")
    /\ UNCHANGED <<service, minted, calls, req>>

\* The facts about the control plane a request may base its answer on.
Facts ==
    {<<"binding", s>> : s \in Bindings(req.token)} \cup {<<"open", s>> : s \in {x \in Subs : Open(x)}}
      \cup (IF user = Absent THEN {} ELSE {<<"creds", user.creds>>}) \cup {<<"node", n.node>> : n \in up}

History ==
    /\ seen' = IF req'.pc \in {"idle", "refused"} THEN {} ELSE seen \cup Facts'
    /\ killed' = killed \cup (Stored(subs) \ Stored(subs'))

Call(c) ==
    \/ Start(c) \/ EnsureTelegram(c) \/ CreateUser(c) \/ Ensure(c) \/ CreateAndLink(c) \/ Cancel(c) \/ PatchRead(c) \/ UpdateSubscription(c)
    \/ RotateToken(c) \/ UpdateTokenHash(c) \/ RotateSecrets(c) \/ UpdateRead(c) \/ UpdateUser(c)
    \/ DeliveryLinkRead(c) \/ DeliveryLink(c) \/ EnsureDeliveryToken(c)
    \/ RevokeDownstream(c) \/ RegisterToken(c) \/ NotificationLost(c) \/ CallFails(c) \/ Close(c)

Request ==
    \/ BeginRequest \/ ResolveToken \/ GetSubscription \/ GetUser \/ Assemble \/ CacheGet \/ CachePut
    \/ FinishRequest \/ CacheDrop \/ Invalidate \/ RequestFails

Next == ((\E c \in Callers : Call(c)) \/ Request \/ Changes) /\ History

Spec == Init /\ [][Next]_vars

-----------------------------------------------------------------------------
(* Properties.                                                             *)

\* A link is answered only if, while the request ran, the control plane bound
\* its token to an active account and the subscription it opens was open:
\* serveSubscription answers no revoked, rotated, canceled or banned link,
\* whatever notification was lost and whatever the cache holds.
ServedIsAuthorized ==
    req.pc \in {"served", "linked"} =>
        \E s \in Subs : <<"binding", s>> \in seen /\ <<"open", s>> \in seen

\* What is answered was true while the request ran: the credentials were the
\* account's, and every node listed was active. A payload cached for an
\* earlier state of the account or the fleet is not served.
ServedIsCurrent ==
    req.pc = "served" =>
        /\ <<"creds", req.body.creds>> \in seen
        /\ \A n \in req.body.nodes : <<"node", n.node>> \in seen

\* A token that opened a subscription and was rotated away never opens one
\* again, whichever calls write the rows at the same time.
RevokedStaysRevoked == killed \cap Stored(subs) = {}

\* The link a call answers is one the control plane stored: it opens the
\* subscription, or was revoked since. Two callers asking for a delivery link
\* at the same time get the same one.
AnsweredLinkIsStored ==
    \A c \in Callers : calls[c].pc = "answered" => calls[c].token \in Stored(subs) \cup killed
================================================================================
