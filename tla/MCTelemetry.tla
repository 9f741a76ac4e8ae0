---------------------------- MODULE MCTelemetry ----------------------------
\* Instances of Telemetry: half minutes, a window of one minute, two hosts.
EXTENDS Telemetry

MCGeoCode == [g \in {"RU", "ru ", "Moscow"} |-> IF g = "Moscow" THEN "" ELSE "RU"]

Signal(id, region, asn, isp, type, observed) ==
    [id |-> id, region |-> region, transport |-> "reality", asn |-> asn, isp |-> isp,
     platform |-> "ios", type |-> type, observed |-> observed]

\* Two reports of one network and one of a second, posted in overlapping batches.
Outage ==
    LET a == Signal("a", "RU", 1, "one", "reset", 1)
        b == Signal("b", "ru ", 1, "uno", "timeout", Unset)
        c == Signal("c", "RU", 2, "", "dpi_block", 1)
    IN  {<<a, b>>, <<a, c>>}
\* A block, a slowdown and a success, and a second signal under the first one's id.
Disputed ==
    LET a == Signal("a", "RU", 1, "", "reset", 1)
        other == Signal("a", "RU", 4, "", "reset", 2)
    IN  {<<a>>, <<other, Signal("d", "RU", 3, "", "ok", 1)>>, <<Signal("c", "RU", 2, "", "throttle", 1)>>}
\* Networks known by provider or platform only, a time ahead, a junk region, no id; a batch
\* too long and an empty one.
Junk == Signal("g", "Moscow", 1, "", "reset", 1)
Odd == {<<Signal("e", "RU", 0, "one", "reset", Unset), Signal("f", "RU", -5, "", "probe", 3)>>,
        <<Junk, Signal("", "RU", 1, "", "reset", 1)>>, <<Junk, Junk, Junk>>, <<>>}

Event(node, status, regions, observed) ==
    [node |-> node, source |-> "probe", status |-> status, regions |-> regions, observed |-> observed]
RU == <<"letter">>
KZ == <<"letter", "letter">>
MCEvents == {Event("n", "blocked", <<RU, KZ>>, Unset), Event("n", "healthy", <<RU>>, Unset),
             Event("n", "unreachable", <<RU, <<>>>>, 1), Event("", "blocked", <<RU>>, 1),
             Event("n", "odd", <<RU>>, 1)}
\* One probe with any list of up to two regions of up to two characters.
Lists == BoundedSeq(BoundedSeq(Chars, 2), 2)
Probes(events) == [batches |-> {}, events |-> events, hosts |-> {}, posts |-> 0]

Posts(batches, n) == [batches |-> batches, events |-> {}, hosts |-> {CHOOSE o \in Origins : TRUE}, posts |-> n]
MCWorkloads ==
    {Posts(Outage, 3), Posts(Disputed, 2), Posts(Odd, 2),
     [batches |-> {<<Junk>>, <<Junk, Junk>>}, events |-> {}, hosts |-> Origins, posts |-> 5],
     Probes(MCEvents)}
    \cup {Probes({Event("n", "blocked", l, 0)}) : l \in Lists}

Symmetry == Permutations(Conns)
=============================================================================
