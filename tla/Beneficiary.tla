----------------------------- MODULE Beneficiary -----------------------------
(***************************************************************************)
(* A publisher's payout destination: the BeneficiaryAccount row, and the   *)
(* part of RazorpayXPayoutProvider.submit that turns it into a fund        *)
(* account at RazorpayX (external) and caches that on the row, without a   *)
(* lock, while the publisher may replace the row.                          *)
(***************************************************************************)
EXTENDS Naturals, FiniteSets

CONSTANTS
  Accounts,  \* bank accounts and UPI addresses
  Payouts,   \* payouts of the publisher an admin approved
  MaxSets    \* bound on changes of the account

VARIABLES
  row,       \* the BeneficiaryAccount row, or NoRow
  submit,    \* submit[p]: where the submission is, what it read and created, and
             \* (history) if the row was stale then
  paidTo,    \* paidTo[p]: the account the payout was sent to, or None
  sets,      \* changes so far
  passed,    \* history: submissions that read the account before its last change
             \* and had to create a fund account after it
  stale      \* history: the row's ids were saved by one of those

beneficiaryVars == <<row, submit, paidTo, sets, passed, stale>>

None == "none"

\* A fund account at RazorpayX is known by the account it was created for.
NoRow == [account |-> None, contact |-> FALSE, fund |-> None]

Unsent == [at |-> "unsent", account |-> None, contact |-> FALSE, fund |-> None,
           stale |-> FALSE]

BeneficiaryTypeOK ==
  /\ row \in [account: Accounts \cup {None}, contact: BOOLEAN, fund: Accounts \cup {None}]
  /\ submit \in [Payouts -> [at: {"unsent", "creating", "saving", "paying", "done"},
                             account: Accounts \cup {None}, contact: BOOLEAN,
                             fund: Accounts \cup {None}, stale: BOOLEAN]]
  /\ paidTo \in [Payouts -> Accounts \cup {None}]
  /\ sets \in 0..MaxSets /\ passed \subseteq Payouts /\ stale \in BOOLEAN

BeneficiaryInit ==
  /\ row = NoRow
  /\ submit = [p \in Payouts |-> Unsent]
  /\ paidTo = [p \in Payouts |-> None]
  /\ sets = 0 /\ passed = {} /\ stale = FALSE

InFlight == {p \in Payouts : submit[p].at \in {"creating", "saving"}}

-----------------------------------------------------------------------------
MutRowOf(a) == [row EXCEPT !.account = a]

\* "Always clears the cached RazorpayX contact/fund-account ids".
RowOf(a) == [account |-> a, contact |-> FALSE, fund |-> None]

\* upsert of valid details.
SetBeneficiaryAccount(a) ==
  /\ sets < MaxSets
  /\ row' = RowOf(a)
  /\ sets' = sets + 1
  /\ passed' = InFlight
  /\ stale' = FALSE
  /\ UNCHANGED <<submit, paidTo>>

\* getOrNull; ensureFundAccount returns the cached fund account, if there is one.
Read(p) ==
  /\ submit[p].at = "unsent"
  /\ submit' = [submit EXCEPT ![p] =
       [at |-> IF row = NoRow THEN "done" ELSE IF row.fund # None THEN "paying" ELSE "creating",
        account |-> row.account, contact |-> row.contact, fund |-> row.fund,
        stale |-> stale]]
  /\ UNCHANGED <<row, paidTo, sets, passed, stale>>

\* POST /contacts, unless the row had one, and POST /fund_accounts.
CreateFundAccount(p) ==
  /\ submit[p].at = "creating"
  /\ submit' = [submit EXCEPT ![p].at = "saving", ![p].contact = TRUE,
                              ![p].fund = submit[p].account]
  /\ UNCHANGED <<row, paidTo, sets, passed, stale>>

\* saveRazorpayIds by userId, whatever the row holds by now.
SaveRazorpayIds(p) ==
  /\ submit[p].at = "saving"
  /\ row' = [row EXCEPT !.contact = TRUE, !.fund = submit[p].fund]
  /\ submit' = [submit EXCEPT ![p].at = "paying"]
  /\ stale' = (p \in passed)
  /\ passed' = passed \ {p}
  /\ UNCHANGED <<paidTo, sets>>

\* POST /payouts; accepted, rejected or not answered.
CreatePayout(p) ==
  /\ submit[p].at = "paying"
  /\ paidTo' = [paidTo EXCEPT ![p] = submit[p].fund]
  /\ submit' = [submit EXCEPT ![p].at = "done"]
  /\ UNCHANGED <<row, sets, passed, stale>>

\* RazorpayX refuses or cannot be reached, or the worker stops: the contact or
\* fund account that was created is forgotten.
SubmitFails(p) ==
  /\ submit[p].at \notin {"unsent", "done"}
  /\ submit' = [submit EXCEPT ![p].at = "done"]
  /\ passed' = passed \ {p}
  /\ UNCHANGED <<row, paidTo, sets, stale>>

BeneficiaryNext ==
  \/ \E a \in Accounts : SetBeneficiaryAccount(a)
  \/ \E p \in Payouts :
       \/ Read(p) \/ CreateFundAccount(p) \/ SaveRazorpayIds(p)
       \/ CreatePayout(p) \/ SubmitFails(p)

BeneficiarySpec == BeneficiaryInit /\ [][BeneficiaryNext]_beneficiaryVars

-----------------------------------------------------------------------------
\* The publisher is not paid on "an account the publisher just changed away
\* from": what is sent goes to the account that was on file when the submission
\* read it, and the fund account cached on the row is the row's own.  The
\* exception is a submission that was creating a fund account during the
\* change: it saves the old account's on the new row, and every later payout
\* goes there until the publisher changes the account again.
PaysTheAccountOnFile ==
  /\ row.fund \in {None, row.account} \/ stale
  /\ \A p \in Payouts : paidTo[p] \in {None, submit[p].account} \/ submit[p].stale
=============================================================================
