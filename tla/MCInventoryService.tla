------------------------- MODULE MCInventoryService -------------------------
(* Instances of InventoryService for TLC. *)
EXTENDS InventoryService, TLC

CONSTANTS c1, c2, c3, k1, k2, k3

Reserve(k, items) == [kind |-> "reserve", key |-> k, items |-> items]
Release(k, r) == [kind |-> "release", key |-> k, rsv |-> r]
SetTo(i, n) == [kind |-> "setstock", item |-> i, stock |-> n]

\* One unit of each of two items, and an item that is not in the table.
MCStock == (1 :> 1) @@ (2 :> 1) @@ (3 :> None)
MCTwo == (1 :> 2) @@ (2 :> 2)

\* Reserves, releases and restocks.
MCMixed ==
    {Reserve(k1, <<1, 2>>), Reserve(k2, <<2, 1>>)}
    \cup {Release(k3, r) : r \in Calls} \cup {Release(k2, c1), SetTo(1, 1), SetTo(2, -1), SetTo(3, 1)}

MCLostUpdate == {Reserve(k1, <<1>>), Reserve(k2, <<1>>), Release(k3, c1)}
=============================================================================
