--------------------------- MODULE MCDeploymentRoles ---------------------------
(* An instance of DeploymentRoles for TLC: one account a role, the deployer, a    *)
(* buyer and a payout.                                                            *)
EXTENDS DeploymentRoles, TLC

CONSTANTS dep, fgov, rgov, src, fund, int, stl, buy, pay

Everybody == {dep, fgov, rgov, src, fund, int, stl, buy}
Named ==
  ("factoryAdmin" :> fgov) @@ ("registryAdmin" :> rgov) @@ ("sourceAdmin" :> src)
    @@ ("fundingSigner" :> fund) @@ ("intentSigner" :> int) @@ ("settler" :> stl)
\* Two vouchers of one research, and one that repeats the first one's nonce.
Voucher(k, n) == [buyer |-> buy, key |-> k, nonce |-> n, intentSigner |-> int]
SomeVouchers == {Voucher("k1", 1), Voucher("k1", 2), Voucher("k2", 1)}
SomeOffers == {[payout |-> pay, active |-> TRUE], [payout |-> pay, active |-> FALSE]}
\* The account that is given a role, and loses it, by hand has one from the hand-over.
MovedAround == {fund}
================================================================================
