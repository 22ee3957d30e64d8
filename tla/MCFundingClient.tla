---------------------------- MODULE MCFundingClient ----------------------------
(* Instances of FundingClient for TLC. Tabs and researches are interchangeable,   *)
(* and so are the keys.                                                           *)
EXTENDS FundingClient, TLC

CONSTANTS alice, bob, r1, r2, k1, k2, t1, t2

Interchangeable ==
  Permutations({r1, r2}) \union Permutations({k1, k2}) \union
  Permutations({t1, t2}) \union Permutations({alice, bob})
===============================================================================
