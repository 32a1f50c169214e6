----------------------------- MODULE MCHandlers -----------------------------
(* Handlers behind the pages: three transactions over one advertiser's and *)
(* one publisher's rows; and accounts: signing up, signing in, the guards  *)
(* of two workers, a publisher's site.  They share no variable, so one of  *)
(* them runs at a time; only the transactions can always go on.            *)
EXTENDS RowLocks, SignUp, Sessions, Sites, SignIn, TLC

CONSTANTS adv, pub, c1, p1, t1, t2, t3, w1, w2, q1, q2, q3, token, email, phone, format, auth, wallet

VARIABLE active

MCOwner == c1 :> adv
MCPayee == p1 :> pub

Init ==
  /\ active \in {"locks", "sessions", "signUps", "sites", "signIns"}
  /\ LockInit /\ SessionsInit /\ SignUpInit /\ SitesInit
  /\ SignInInit /\ (active # "signIns" => cookie = Nobody)

Next ==
  /\ UNCHANGED active
  /\ \/ active = "locks" /\ LockStep
          /\ UNCHANGED <<sessionVars, signUpVars, siteVars, signInVars>>
     \/ active = "sessions" /\ SessionsNext
          /\ UNCHANGED <<txn, signUpVars, siteVars, signInVars>>
     \/ active = "signUps" /\ SignUpNext
          /\ UNCHANGED <<txn, sessionVars, siteVars, signInVars>>
     \/ active = "sites" /\ SitesNext
          /\ UNCHANGED <<txn, sessionVars, signUpVars, signInVars>>
     \/ active = "signIns" /\ SignInNext
          /\ UNCHANGED <<txn, sessionVars, signUpVars, siteVars>>
     \/ active # "locks"
          /\ UNCHANGED <<txn, sessionVars, signUpVars, siteVars, signInVars>>

Spec == Init /\ [][Next]_<<active, txn, sessionVars, signUpVars, siteVars, signInVars>>

Symmetry == Permutations({w1, w2}) \cup Permutations({q1, q2})
=============================================================================
