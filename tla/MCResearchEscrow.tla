--------------------------- MODULE MCResearchEscrow ---------------------------
(* Instances of ResearchEscrow for TLC: one source, two requests, a batch that    *)
(* would fit the balance but not the budget, and a snapshot with another payout.  *)
EXTENDS ResearchEscrow

CONSTANTS buyer, signer, settler, shop, other, r1, r2, src, k1, k2

Item(r, payout, amount) ==
  [request |-> r, source |-> src, revision |-> 1, payout |-> payout, max |-> 2,
   amount |-> amount]
TwoItems  == {Item(r1, shop, 2), Item(r2, shop, 1)}
MoreItems == TwoItems \union {Item(r1, other, 1), Item(r2, shop, 2)}

OneListing == [s \in Sources |->
  [revision |-> 1, payout |-> shop, max |-> 2, active |-> TRUE]]
NewListing == {[payout |-> other, max |-> 2, active |-> TRUE],
               [payout |-> shop, max |-> 2, active |-> FALSE]}
Assigned == [p \in People |-> IF p = signer THEN {"intent"}
                              ELSE IF p = settler THEN {"settler"} ELSE {}]
SomeGrants == {<<signer, "settler">>, <<shop, "other">>}
===============================================================================
