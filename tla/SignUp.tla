------------------------------- MODULE SignUp -------------------------------
(***************************************************************************)
(* Registration: an account is a user at Supabase (external) and a row of  *)
(* the User table under the same id, written one after the other.  E-mail  *)
(* and Google sign-ups create both and take the first back when the second *)
(* fails; a phone sign-up finds a user that verifying the code created,    *)
(* and adds the row.                                                       *)
(***************************************************************************)
EXTENDS Naturals, FiniteSets

CONSTANTS
  Emails, Phones,  \* what accounts are known by
  Requests,        \* sign-ups; each brings its own id for a new user
  MaxFailures      \* bound on calls that fail and workers that stop

VARIABLES
  account,   \* account[k]: the id of Supabase's user, or None
  profile,   \* profile[k]: the id of the row, or None
  signup,    \* signup[r]: where the handler is
  mishaps,
  torn       \* history: names one of whose writes was done but not answered, was
             \* not taken back, or was left by a worker that stopped

signUpVars == <<account, profile, signup, mishaps, torn>>

Names == Emails \cup Phones
None == "none"

\* Addresses and numbers differ, and no request's id is the absence of one.
ASSUME SignUpAssumption ==
  /\ Emails \cap Phones = {}
  /\ None \notin Requests \cup Names
  /\ MaxFailures \in Nat

Fresh == [at |-> "unused", name |-> None]

SignUpTypeOK ==
  /\ account \in [Names -> Requests \cup {None}]
  /\ profile \in [Names -> Requests \cup {None}]
  /\ signup \in [Requests -> [at: {"unused", "finding", "creating", "inserting", "rollback",
                                   "finishing", "done"},
                              name: Names \cup {None}]]
  /\ mishaps \in 0..MaxFailures
  /\ torn \subseteq Names

SignUpInit ==
  /\ account = [k \in Names |-> None] /\ profile = account
  /\ signup = [r \in Requests |-> Fresh]
  /\ mishaps = 0 /\ torn = {}

Fail == mishaps < MaxFailures /\ mishaps' = mishaps + 1

Name(r) == signup[r].name

Goto(r, at) == signup' = [signup EXCEPT ![r].at = at]

-----------------------------------------------------------------------------
(* register and googleAuth.                                                *)

Register(r, e) ==
  /\ signup[r].at = "unused"
  /\ signup' = [signup EXCEPT ![r] = [at |-> "finding", name |-> e]]
  /\ UNCHANGED <<account, profile, mishaps, torn>>

\* findByEmail: registered, or, with Google, signed in.
FindByEmail(r) ==
  /\ signup[r].at = "finding"
  /\ Goto(r, IF profile[Name(r)] = None THEN "creating" ELSE "done")
  /\ UNCHANGED <<account, profile, mishaps, torn>>

\* auth.admin.createUser: email_exists, or a new user.
CreateUser(r) ==
  LET e == Name(r) IN
  /\ signup[r].at = "creating"
  /\ IF account[e] = None
       THEN account' = [account EXCEPT ![e] = r] /\ Goto(r, "inserting")
       ELSE UNCHANGED account /\ Goto(r, "done")
  /\ UNCHANGED <<profile, mishaps, torn>>

\* An error is answered without another look at Supabase.
CreateUserFails(r) ==
  LET e == Name(r) IN
  /\ signup[r].at = "creating" /\ Fail
  /\ \/ UNCHANGED <<account, torn>>
     \/ /\ account[e] = None
        /\ account' = [account EXCEPT ![e] = r]
        /\ torn' = torn \cup {e}
  /\ Goto(r, "done")
  /\ UNCHANGED profile

MutAfterDbError(r) == "done"

\* "Roll back the Supabase auth user".
AfterDbError(r) == IF Name(r) \in Emails THEN "rollback" ELSE "done"

\* usersService.create: e-mail addresses and phone numbers are unique.
CreateRow(r) ==
  LET k == Name(r) IN
  /\ signup[r].at = "inserting"
  /\ IF profile[k] = None
       THEN profile' = [profile EXCEPT ![k] = account[k]] /\ Goto(r, "done")
       ELSE UNCHANGED profile /\ Goto(r, AfterDbError(r))
  /\ UNCHANGED <<account, mishaps, torn>>

CreateRowFails(r) ==
  LET k == Name(r) IN
  /\ signup[r].at = "inserting" /\ Fail
  /\ \/ UNCHANGED <<profile, torn>>
     \/ /\ profile[k] = None
        /\ profile' = [profile EXCEPT ![k] = account[k]]
        /\ torn' = torn \cup {k}
  /\ Goto(r, AfterDbError(r))
  /\ UNCHANGED account

\* auth.admin.deleteUser of the user this request created.
DeleteUser(r) ==
  LET e == Name(r) IN
  /\ signup[r].at = "rollback"
  /\ \/ UNCHANGED <<mishaps, torn>>
        /\ account' = IF account[e] = r THEN [account EXCEPT ![e] = None] ELSE account
     \/ Fail /\ torn' = torn \cup {e} /\ UNCHANGED account
  /\ Goto(r, "done")
  /\ UNCHANGED profile

-----------------------------------------------------------------------------
(* verifyPhoneOtp.                                                         *)

\* verifyOtp answers with the number's user, new when there was none.
VerifyOtp(r, p) ==
  /\ signup[r].at = "unused"
  /\ account' = IF account[p] = None THEN [account EXCEPT ![p] = r] ELSE account
  /\ signup' = [signup EXCEPT ![r] = [at |-> "finishing", name |-> p]]
  /\ UNCHANGED <<profile, mishaps, torn>>

\* findById, and findByPhone; without a name and a role the row has to wait for
\* another verification.
FinishRegistration(r) ==
  /\ signup[r].at = "finishing"
  /\ \/ Goto(r, IF profile[Name(r)] = None THEN "inserting" ELSE "done")
     \/ Goto(r, "done")
  /\ UNCHANGED <<account, profile, mishaps, torn>>

\* A worker stops.
Stop(r) ==
  /\ signup[r].at \notin {"unused", "done"} /\ Fail
  /\ torn' = IF signup[r].at \in {"inserting", "rollback"} THEN torn \cup {Name(r)} ELSE torn
  /\ Goto(r, "done")
  /\ UNCHANGED <<account, profile>>

SignUpNext ==
  \E r \in Requests :
    \/ \E e \in Emails : Register(r, e)
    \/ \E p \in Phones : VerifyOtp(r, p)
    \/ FindByEmail(r) \/ CreateUser(r) \/ CreateUserFails(r)
    \/ CreateRow(r) \/ CreateRowFails(r) \/ DeleteUser(r)
    \/ FinishRegistration(r) \/ Stop(r)

SignUpSpec == SignUpInit /\ [][SignUpNext]_signUpVars

-----------------------------------------------------------------------------
\* The two halves of an account agree, however sign-ups for one address or
\* number race and fail: a row is that of Supabase's user, and a user known by
\* e-mail has its row, or a request that is about to write it or to delete the
\* user.  Only a lost answer, a failed rollback or a stop tears them apart; then
\* the address is taken on one side and unknown on the other for good.
HalvesAgree ==
  \A k \in Names \ torn :
    /\ profile[k] # None => profile[k] = account[k]
    /\ k \in Emails /\ account[k] # None /\ profile[k] = None =>
         /\ signup[account[k]].name = k
         /\ signup[account[k]].at \in {"inserting", "rollback"}
=============================================================================
