----------------------------- MODULE MCPayouts -----------------------------
(* One publisher and two payouts that compete for its balance; or three    *)
(* payouts to an account that the publisher changes meanwhile.             *)
EXTENDS Payouts, Beneficiary, TLC

CONSTANTS pub, p1, p2, p3, key, bank, upi

VARIABLE active

MCOwner == [c \in {} |-> c]

EitherInit == active \in {"payouts", "beneficiary"} /\ PayoutInit /\ BeneficiaryInit

EitherNext ==
  /\ UNCHANGED active
  /\ \/ active = "payouts" /\ PayoutNext /\ UNCHANGED beneficiaryVars
     \/ active = "beneficiary" /\ BeneficiaryNext /\ UNCHANGED payoutVars

EitherSpec == EitherInit /\ [][EitherNext]_<<active, payoutVars, beneficiaryVars>>

Symmetry == Permutations({p1, p2}) \cup Permutations({bank, upi})

=============================================================================
