--------------------------- MODULE MCResearchIntake ---------------------------
(* Instances of ResearchIntake for TLC: c1 and c2 share a key, with the same or    *)
(* another topic; the others compete with them for one wallet and for the whole.  *)
EXTENDS ResearchIntake, TLC

CONSTANTS c1, c2, c3, k1, k2, alice, bob, memes, gas

Ask(op, k, w, t) == [op |-> op, key |-> k, wallet |-> w, topic |-> t]
MixedAsks ==
  (c1 :> {Ask("prepare", k1, alice, memes)}) @@
  (c2 :> {Ask("prepare", k1, alice, memes), Ask("prepare", k1, alice, gas),
          Ask("start", k1, alice, gas)}) @@
  (c3 :> {Ask("prepare", k2, bob, gas), Ask("start", k2, alice, gas)})
===============================================================================
