--------------------------- MODULE MCCheckoutSaga ---------------------------
(* Instances of CheckoutSaga for TLC. *)
EXTENDS CheckoutSaga, TLC

CONSTANTS s1, s2, s3, o1, o2, o3, a, b

\* One unit of a, two of b: two checkouts that both want a collide.
MCStock == (a :> 1) @@ (b :> 2)
MCCarts == {(a :> 1) @@ (b :> 0), (a :> 1) @@ (b :> 1)}
MCAllFaults == FaultKinds
MCNoFaults == {}
MCEndpoint == OrderEndpointParams
MCHttp == HttpOrderParams
=============================================================================
