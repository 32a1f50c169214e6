------------------------------ MODULE MCWallet ------------------------------
(* A small instance of Wallet: one advertiser with two campaigns and one   *)
(* publisher.                                                              *)
EXTENDS Wallet, TLC

CONSTANTS adv, pub, c1, c2, e1, e2

MCOwner == (c1 :> adv) @@ (c2 :> adv)

Symmetry == Permutations({c1, c2}) \cup Permutations({e1, e2})
=============================================================================
