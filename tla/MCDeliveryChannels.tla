------------------------- MODULE MCDeliveryChannels -------------------------
\* Instance of DeliveryChannels: the messenger and two git-raw mirrors.
EXTENDS DeliveryChannels

MCPlaces == [k \in {"telegram", "gitraw"} |->
                IF k = "telegram" THEN <<"store">> ELSE <<"mirror1", "mirror2">>]
MCRegistered == <<"telegram", "gitraw">>

B(ticks, packs, faults, changes, deadlines) ==
    [ticks |-> ticks, packs |-> packs, faults |-> faults, changes |-> changes, deadlines |-> deadlines]
MCBudgets == {B(1, 1, 1, 1, 0), B(0, 1, 2, 0, 0), B(2, 2, 1, 0, 0), B(0, 1, 1, 0, 2), B(1, 1, 0, 1, 1)}
=============================================================================
