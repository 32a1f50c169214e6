----------------------------- MODULE MCServing -----------------------------
(* Two requests at a time from one visitor, and two campaigns that compete *)
(* under two of the three pricing models.                                  *)
EXTENDS Serving, TLC

CONSTANTS v1, ip, z1, site, c1, c2, r1, r2

MCIpOf == v1 :> ip
MCSiteOf == z1 :> site
Cpc(cents) == [cpc |-> cents, cpm |-> 0, cpa |-> FALSE]
Cpa(cents) == [cpc |-> cents, cpm |-> 0, cpa |-> TRUE]
Cpm(cents) == [cpc |-> 1, cpm |-> cents, cpa |-> FALSE]
MCTerms == {c1 :> Cpc(3) @@ c2 :> Cpm(400), c1 :> Cpc(3) @@ c2 :> Cpa(2)}

Symmetry == Permutations({r1, r2})
=============================================================================
