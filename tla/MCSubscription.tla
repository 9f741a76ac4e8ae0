----------------------------- MODULE MCSubscription -----------------------------
(* The fleet: an entry for the paying plan only, and in another region an   *)
(* entry with a legacy shared transport beside its client transport.        *)
EXTENDS SubscriptionAccess, TLC

Node(i, role, region, premium, blocked, types) ==
    [ node |-> i, status |-> "active", role |-> role, region |-> region, blocked |-> blocked,
      premium |-> premium, excludes |-> "ios", types |-> types ]

MCFleet ==
    { Node(1, "entry", "eu", TRUE, FALSE, {"vless-reality", "hysteria2"}),
      Node(2, "entry", "asia", FALSE, FALSE, {"vless-reality", "amneziawg"}) }

MCParams == {[format |-> "base64", region |-> None, platform |-> None],
             [format |-> "clash", region |-> "asia", platform |-> "ios"]}

B(c, r, ch, f) == [calls |-> c, requests |-> r, changes |-> ch, failures |-> f]

MCBudgets == {B(3, 0, 0, 0), B(2, 1, 0, 1), B(1, 2, 1, 1)}

Symmetry == Permutations(Callers) \cup Permutations(Subs)
================================================================================
