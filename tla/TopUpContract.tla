---------------------------- MODULE TopUpContract ----------------------------
(***************************************************************************)
(* What a top-up promises the advertiser, without orders, handlers or      *)
(* webhooks: an order's credit reaches the balance only after the gateway  *)
(* has taken the payment, whole, to its buyer, and at most once.           *)
(***************************************************************************)
EXTENDS Naturals

CONSTANTS Buyers, Orders, Credits

VARIABLES
  received,   \* received[o]: the gateway has taken the buyer's payment
  credited,   \* credited[o]: the amount credited for o, 0 until it is
  funds       \* funds[u]: what top-ups have put in u's balance

contractVars == <<received, credited, funds>>

ContractInit ==
  /\ received = [o \in Orders |-> FALSE]
  /\ credited = [o \in Orders |-> 0]
  /\ funds = [u \in Buyers |-> 0]

Receive(o) ==
  /\ ~received[o]
  /\ received' = [received EXCEPT ![o] = TRUE]
  /\ UNCHANGED <<credited, funds>>

CreditBuyer(o, u, a) ==
  /\ received[o]
  /\ credited[o] = 0
  /\ credited' = [credited EXCEPT ![o] = a]
  /\ funds' = [funds EXCEPT ![u] = @ + a]
  /\ UNCHANGED received

ContractNext ==
  \E o \in Orders :
    \/ Receive(o)
    \/ \E u \in Buyers, a \in Credits : CreditBuyer(o, u, a)

ContractSpec == ContractInit /\ [][ContractNext]_contractVars
=============================================================================
