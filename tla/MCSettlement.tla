---------------------------- MODULE MCSettlement ----------------------------
(* Small instances of Settlement for TLC: one account, two invoices.        *)
EXTENDS Settlement, TLC

CONSTANTS i1, i2, u1, basic, h1, p1, s1

Ev(n, i, k) == [id |-> n, inv |-> i, kind |-> k]

MCUserOf == i1 :> u1 @@ i2 :> u1
MCPlanOf == i1 :> basic @@ i2 :> basic
MCUserOf1 == i1 :> u1
MCPlanOf1 == i1 :> basic
MCDuration == basic :> 1
MCGrace == basic :> 1
LateDeadline == [i \in Invoices |-> Horizon]
EarlyDeadline == [i \in Invoices |-> 0]

OnePaid == {Ev(1, i1, "settled")}
\* One invoice paid late: reported expired as well.
PaidAndExpired == {Ev(1, i1, "settled"), Ev(2, i1, "expired")}
\* Two invoices: the first is reported paid and expired, the second is reported
\* by a foreign gateway before or after its own does.
Mixed == {Ev(1, i1, "settled"), Ev(2, i1, "expired"), Ev(3, i2, "settled"), Ev(4, i2, "foreign")}
=============================================================================
