--------------------------- MODULE DeliveryChannels ---------------------------
\* The delivery channels: a signed directory is broadcast to redundant channels, copies
\* appear on public media out of band, and a resolver tries the channels in priority order
\* until one yields a copy that verifies and is fresh, or its caller's context ends.  Media
\* lag, fail and spoil copies; channels are registered and retired during a resolve.
EXTENDS Integers, Sequences, FiniteSetsExt, SequencesExt

CONSTANTS
    Places,             \* channel kind -> the places it reads, in order (git-raw mirrors, or one)
    Writable,           \* kinds with a writer (the shipped app: the messenger alone)
    Registered,         \* kinds registered at boot, in priority order
    TrustedKeys,        \* the resolver's keyring
    SigningKeys,        \* keys the publisher signs with
    MaxAge, FutureSkew,
    CursorSpan,         \* the git-raw cursor wraps here (2^32 in the code)
    Budgets             \* bounds: [ticks, packs, faults, changes, deadlines] of what the rest
                        \* of the world does; a behaviour has one of them

Kinds == DOMAIN Places
AllPlaces == UNION {ToSet(Places[k]) : k \in Kinds}

\* A kind has a place or a list of mirrors, and is registered once.
ASSUME ChannelsAssumption ==
    /\ \A k \in Kinds : Places[k] \in Seq(AllPlaces) \ {<<>>}
    /\ \A i, j \in DOMAIN Registered : Registered[i] = Registered[j] => i = j
    /\ Registered \in Seq(Kinds)
    /\ CursorSpan \in Nat \ {0}
    /\ \A k \in Kinds : CursorSpan >= Len(Places[k])

VARIABLES
    now,
    entries,            \* Registry.entries: a sequence of [kind, priority]
    medium,             \* place -> the copy it holds
    down,               \* places that cannot be reached
    latest,             \* the blob the publisher packed last
    pending,            \* kinds the broadcast under way has yet to write to
    mirrorCursor,       \* gitraw.Channel.cursor
    resolver,           \* the resolve under way: [pc, snapshot, todo, kind, blob]; it ends accepted,
                        \* failed, canceled, or cut (failed in its last fetch as its context ended)
    steady,             \* history: kinds whose places have all been good since the resolve began
    left                \* what is left of the budget

channelVars == <<now, entries, medium, down, latest, pending, mirrorCursor, resolver, steady, left>>

Blob(rev, issued, key) == [form |-> "signed", rev |-> rev, issued |-> issued, key |-> key]
NoBlob == [Blob(0, 0, "none") EXCEPT !.form = "none"]
NoResolve == [pc |-> "idle", snapshot |-> <<>>, todo |-> <<>>, kind |-> "none", blob |-> NoBlob]
-----------------------------------------------------------------------------
\* The registry.

Ordered == [i \in DOMAIN entries |-> entries[i].kind]

\* sortLocked: ascending priority; entries of equal priority keep their order.
Sorted(s) ==
    LET before(i) == {j \in DOMAIN s : \/ s[j].priority < s[i].priority
                                       \/ s[j].priority = s[i].priority /\ j <= i}
    IN [r \in DOMAIN s |-> s[CHOOSE i \in DOMAIN s : Cardinality(before(i)) = r]]

\* Where kind k is registered, if it is.
Registration(k) == {i \in DOMAIN entries : entries[i].kind = k}

\* Add: the kind is replaced in place or appended, then the entries are sorted.
WithChannel(k, p) ==
    LET e == [kind |-> k, priority |-> p] IN
    Sorted(IF Registration(k) = {} THEN Append(entries, e)
           ELSE [i \in DOMAIN entries |-> IF i \in Registration(k) THEN e ELSE entries[i]])

\* Remove: the others move up.
WithoutChannel(k) ==
    IF Registration(k) = {} THEN entries ELSE RemoveAt(entries, CHOOSE i \in Registration(k) : TRUE)
-----------------------------------------------------------------------------
\* What a channel yields, and what the resolver makes of it.

\* The copy parses back into the envelope: Unmarshal and Decode check every length.
Decodes(b) == b.form \in {"signed", "altered"}

\* gitraw: the i-th mirror tried, from the cursor on.  Other kinds have one place.
Mirror(k, i) == Places[k][((mirrorCursor + i - 1) % Len(Places[k])) + 1]

\* A place can be reached and its copy is in the channel's encoding.
Answers(p) == p \notin down /\ medium[p].form \notin {"none", "junk"}

\* Fetch: the first place that answers; whether its copy verifies is not the channel's
\* concern.
Fetch(k) ==
    LET first(i) == Answers(Mirror(k, i)) /\ \A j \in 1..(i - 1) : ~Answers(Mirror(k, j)) IN
    IF \A i \in DOMAIN Places[k] : ~Answers(Mirror(k, i)) THEN NoBlob
    ELSE medium[Mirror(k, CHOOSE i \in DOMAIN Places[k] : first(i))]

SameMirror(k) == mirrorCursor

\* Each git-raw fetch starts one mirror further.
NextCursor(k) == IF Len(Places[k]) > 1 THEN (mirrorCursor + 1) % CursorSpan ELSE mirrorCursor

\* The keyring: an unknown key id never passes.
Trusted(key) == key \in TrustedKeys

\* Open: the signature is over the canonical bytes, by a key of the keyring.
Verifies(b) == Decodes(b) /\ b.form # "altered" /\ Trusted(b.key)

\* checkFresh
Fresh(b) == MaxAge > 0 => (now - b.issued <= MaxAge /\ b.issued - now <= FutureSkew)

StopAtFirst(todo) == <<>>

\* A failed channel is skipped.
MoveOn(todo) == Tail(todo)
-----------------------------------------------------------------------------
ChannelsInit ==
    /\ now = 0
    /\ entries = [i \in DOMAIN Registered |-> [kind |-> Registered[i], priority |-> i]]
    /\ medium = [p \in AllPlaces |-> NoBlob]
    /\ down = {}
    /\ latest = NoBlob /\ pending = <<>>
    /\ mirrorCursor = 0
    /\ resolver = NoResolve
    /\ steady = {}
    /\ left \in Budgets

Spend(what) == left[what] > 0 /\ left' = [left EXCEPT ![what] = @ - 1]

\* Pack a new directory and start its broadcast over the channels registered now.
Pack(key) ==
    /\ pending = <<>>
    /\ Spend("packs")
    /\ latest' = Blob(latest.rev + 1, now, key)
    /\ pending' = Ordered
    /\ UNCHANGED <<now, entries, medium, down, mirrorCursor, resolver>>

\* Publish on one channel: a fetch-only one refuses, a writable one may fail.
Publish(k) ==
    \/ k \in Writable /\ medium' = [medium EXCEPT ![Places[k][1]] = latest]
    \/ UNCHANGED medium

\* One channel of the broadcast, which no failure ends.
Broadcast ==
    /\ pending # <<>>
    /\ pending' = Tail(pending)
    /\ Publish(Head(pending))
    /\ UNCHANGED <<now, entries, down, latest, mirrorCursor, resolver, left>>

\* Out of band, a public medium gets the blob packed last.
Replicate(p) ==
    /\ medium[p] # latest
    /\ medium' = [medium EXCEPT ![p] = latest]
    /\ UNCHANGED <<now, entries, down, latest, pending, mirrorCursor, resolver, left>>

\* A medium is blocked or comes back, or spoils its copy: the encoding or the content.
Disturb(p) ==
    /\ Spend("faults")
    /\ \/ /\ down' = SymDiff(down, {p})
          /\ UNCHANGED medium
       \/ /\ medium[p].form = "signed"
          /\ \E form \in {"junk", "altered"} : medium' = [medium EXCEPT ![p].form = form]
          /\ UNCHANGED down
    /\ UNCHANGED <<now, entries, latest, pending, mirrorCursor, resolver>>

\* Registry.Add and Registry.Remove while the service runs.
Reconfigure(k) ==
    /\ Spend("changes")
    /\ \/ \E p \in 1..Len(Registered) : entries' = WithChannel(k, p)
       \/ entries' = WithoutChannel(k)
    /\ UNCHANGED <<now, medium, down, latest, pending, mirrorCursor, resolver>>

\* GET /d/{channel}/{token}: the channel's copy is passed on unverified.
FetchViaChannel(k) ==
    /\ Spend("changes")
    /\ k \in ToSet(Ordered)
    /\ mirrorCursor' = NextCursor(k)
    /\ UNCHANGED <<now, entries, medium, down, latest, pending, resolver>>

\* Resolve takes a copy of the channels in order.
Resolve ==
    /\ resolver.pc # "try"
    /\ resolver' = [NoResolve EXCEPT !.pc = IF Ordered = <<>> THEN "failed" ELSE "try", !.snapshot = Ordered, !.todo = Ordered]
    /\ UNCHANGED <<now, entries, medium, down, latest, pending, mirrorCursor, left>>

\* One channel of the sweep: fetch, verify, check the age; else the next one.
Try ==
    /\ resolver.pc = "try"
    /\ LET k == Head(resolver.todo)
           b == Fetch(k)
           rest == MoveOn(resolver.todo)
       IN  /\ resolver' = IF Verifies(b) /\ Fresh(b)
                             THEN [resolver EXCEPT !.pc = "accepted", !.kind = k, !.blob = b]
                             ELSE [resolver EXCEPT !.pc = IF rest = <<>> THEN "failed" ELSE "try", !.todo = rest]
           /\ mirrorCursor' = NextCursor(k)
    /\ UNCHANGED <<now, entries, medium, down, latest, pending, left>>

\* The context has ended when the next channel is due: the sweep returns its error.
ContextEnds ==
    /\ resolver.pc = "try"
    /\ Spend("deadlines")
    /\ resolver' = [resolver EXCEPT !.pc = "canceled"]
    /\ UNCHANGED <<now, entries, medium, down, latest, pending, mirrorCursor>>

\* It ends while a channel is asked: the fetch fails, whatever the places hold.  The next
\* channel is not tried; after the last one the sweep ends as if every channel had failed.
FetchCut ==
    /\ resolver.pc = "try"
    /\ Spend("deadlines")
    /\ resolver' = [resolver EXCEPT !.pc = IF Tail(resolver.todo) = <<>> THEN "cut" ELSE "canceled"]
    /\ mirrorCursor' = NextCursor(Head(resolver.todo))
    /\ UNCHANGED <<now, entries, medium, down, latest, pending>>

Tick ==
    /\ Spend("ticks")
    /\ now' = now + 1
    /\ UNCHANGED <<entries, medium, down, latest, pending, mirrorCursor, resolver>>

\* A place that yields an acceptable copy, and a kind all of whose places do.
Serves(p) == p \notin down /\ medium[p].form = "signed" /\ Trusted(medium[p].key) /\ Fresh(medium[p])
Good == {k \in Kinds : \A p \in ToSet(Places[k]) : Serves(p)}

Changes ==
    \/ \E key \in SigningKeys : Pack(key)
    \/ Broadcast
    \/ \E p \in AllPlaces : Replicate(p) \/ Disturb(p)
    \/ \E k \in Kinds : Reconfigure(k) \/ FetchViaChannel(k)
    \/ Tick

\* steady: the kinds that were good when the resolve began and ever since.
Attempt ==
    \/ Resolve /\ steady' = Good'
    \/ Try /\ steady' = steady \cap Good'

Interrupt == ContextEnds \/ FetchCut

ChannelsNext == Attempt \/ ((Changes \/ Interrupt) /\ steady' = steady \cap Good')

\* The media, the operator and the callers' deadlines do as they like; whoever wants the
\* directory keeps asking.
ChannelsSpec == ChannelsInit /\ [][ChannelsNext]_channelVars /\ WF_channelVars(Attempt)
-----------------------------------------------------------------------------
\* Properties.

\* No single channel's failure, lag or spoiled copy fails a resolve whose context lasts: it
\* fails only if no channel of its list was good throughout.  And whether it ends with a copy
\* or its context ends first, it has passed over no channel that was good throughout
\* (Resolver.Resolve over the copy Ordered made).
FailoverFinds ==
    LET reached == IF resolver.pc = "failed" THEN ToSet(resolver.snapshot)
                   ELSE ToSet(SubSeq(resolver.snapshot, 1, Len(resolver.snapshot) - Len(resolver.todo)))
    IN  resolver.pc # "idle" => reached \cap steady = {}

\* Mirrors rotate: when from some point on one place of one registered channel serves a good
\* copy, a client that keeps resolving, and from some point on sees its attempts through,
\* gets one, even if every other mirror answers first with a copy that does not verify or is
\* too old (gitraw.Fetch).
RetriesFind ==
    (<>[](\E k \in ToSet(Ordered) : \E p \in ToSet(Places[k]) : Serves(p))) => []<>(resolver.pc = "accepted")
==============================================================================
