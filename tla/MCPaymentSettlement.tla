------------------------- MODULE MCPaymentSettlement --------------------------
(* An instance of PaymentSettlement for TLC: two agents and a retry pass; one      *)
(* agent and two passes; an agent beside two calls of a paid API that share their   *)
(* Idempotency-Key.                                                               *)
EXTENDS PaymentSettlement, TLC

CONSTANTS a1, a2, r1, r2, p1, p2, i1, i2, i3, d1

ThreeIntents == (a1 :> {i1, i2}) @@ (a2 :> {i3})
ThreeCasts == {{a1, a2, r1}, {a1, r1, r2}, {a1, p1, p2}}
===============================================================================
