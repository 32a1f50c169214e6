--------------------------- MODULE HandlersProofs ---------------------------
(***************************************************************************)
(* The handlers of MCHandlers, for any number of transactions, accounts,   *)
(* sessions, workers, sites and forms; one section per module.             *)
(*                                                                         *)
(* Row locks: no row has two holders, and every cycle of waiting           *)
(* transactions contains a charge or a failing payout.  The others lock    *)
(* rows in the order of Rank, a user or a payout before a wallet before a  *)
(* campaign (OrderedInv), and a set of them that all wait for each other   *)
(* would each want a row that ranks below what its holder wants in turn.   *)
(*                                                                         *)
(* Accounts: HalvesAgree speaks of the user at Supabase only; Creator-     *)
(* Inserts adds that a request about to write a row, or to delete a user,  *)
(* is the one that created that user.                                      *)
(*                                                                         *)
(* Sessions: how old an answer of Supabase is, waiting (YesIsOld) or in    *)
(* the cache of an instance of the guard.                                  *)
(*                                                                         *)
(* Sites: which ad requests may still write over a row that ads.txt has    *)
(* verified.                                                               *)
(*                                                                         *)
(* Signing in: a form that still holds a token it has sent cannot send it: *)
(* its request keeps it waiting, or it is out of sight (UsedTokensWait).   *)
(***************************************************************************)
EXTENDS RowLocks, SignUp, Sessions, Sites, SignIn, SequenceTheorems, TLAPS

-----------------------------------------------------------------------------
(* Row locks: the order of a transaction's locks.                          *)

Rank(row) ==
  CASE row[1] \in {"User", "Payout"} -> 1
    [] row[1] = "Wallet" -> 2
    [] row[1] = "Campaign" -> 3

Reversed == {"spending", "failing"}

\* wanted ascends, and everything held ranks below it.
Ordered(x) ==
  /\ \A i, j \in 1..Len(x.wanted) : i < j => Rank(x.wanted[i]) < Rank(x.wanted[j])
  /\ \A row \in x.held, i \in 1..Len(x.wanted) : Rank(row) < Rank(x.wanted[i])

OrderedInv == \A t \in Transactions : txn[t].op \notin Reversed => Ordered(txn[t])

-----------------------------------------------------------------------------
(* Row locks: what a transaction still wants.                              *)

Wanted == UNION {[1..n -> Rows] : n \in 0..3}

LEMMA RowFacts ==
  /\ \A u \in Users : User(u) \in Rows /\ Wallet(u) \in Rows
  /\ \A c \in Campaigns : Campaign(c) \in Rows /\ Owner[c] \in Users
  /\ \A p \in PayoutIds : Payout(p) \in Rows /\ Payee[p] \in Users
  BY LockAssumption DEF Rows, User, Wallet, Campaign, Payout, Users

LEMMA RankFacts ==
  /\ \A u \in Users : Rank(User(u)) = 1 /\ Rank(Wallet(u)) = 2
  /\ \A c \in Campaigns : Rank(Campaign(c)) = 3
  /\ \A p \in PayoutIds : Rank(Payout(p)) = 1
  /\ \A row \in Rows : Rank(row) \in 1..3
  BY DEF Rank, User, Wallet, Campaign, Payout, Rows

\* What a transaction wants is a short sequence of rows.
LEMMA WantedIsSeq ==
  ASSUME NEW s \in Wanted
  PROVE  /\ s \in Seq(Rows)
         /\ Len(s) \in 0..3
         /\ DOMAIN s = 1..Len(s)
<1>1. PICK n \in 0..3 : s \in [1..n -> Rows]
  BY DEF Wanted
<1>. QED
  BY <1>1

LEMMA TailWanted ==
  ASSUME NEW s \in Wanted, s # <<>>
  PROVE  /\ Head(s) = s[1] /\ Head(s) \in Rows
         /\ Tail(s) \in Wanted
         /\ Len(Tail(s)) = Len(s) - 1
         /\ \A i \in 1..(Len(s) - 1) : Tail(s)[i] = s[i + 1]
<1>1. s \in Seq(Rows) /\ Len(s) \in 0..3 /\ DOMAIN s = 1..Len(s)
  BY WantedIsSeq
<1>2. Len(s) \in 1..3
  BY <1>1
<1>3. Head(s) = s[1] /\ Head(s) \in Rows
  BY <1>1, <1>2
<1>4. /\ Tail(s) \in Seq(Rows) /\ Len(Tail(s)) = Len(s) - 1
      /\ \A i \in 1..(Len(s) - 1) : Tail(s)[i] = s[i + 1]
  BY <1>1, HeadTailProperties
<1>5. Tail(s) \in [1..(Len(s) - 1) -> Rows]
  BY <1>4, LenProperties
<1>6. Len(s) - 1 \in 0..3
  BY <1>2
<1>7. Tail(s) \in Wanted
  BY <1>5, <1>6 DEF Wanted
<1>. QED
  BY <1>3, <1>4, <1>7

LEMMA TwoRows ==
  ASSUME NEW r1 \in Rows, NEW r2 \in Rows
  PROVE  /\ <<r1, r2>> \in Wanted
         /\ Rank(r1) < Rank(r2) =>
              \A i, j \in 1..Len(<<r1, r2>>) :
                i < j => Rank(<<r1, r2>>[i]) < Rank(<<r1, r2>>[j])
<1>1. <<r1, r2>> \in [1..2 -> Rows] /\ Len(<<r1, r2>>) = 2
  OBVIOUS
<1>. QED
  BY <1>1 DEF Wanted

LEMMA ThreeRows ==
  ASSUME NEW r1 \in Rows, NEW r2 \in Rows, NEW r3 \in Rows
  PROVE  /\ <<r1, r2, r3>> \in Wanted
         /\ Rank(r1) < Rank(r2) /\ Rank(r2) < Rank(r3) =>
              \A i, j \in 1..Len(<<r1, r2, r3>>) :
                i < j => Rank(<<r1, r2, r3>>[i]) < Rank(<<r1, r2, r3>>[j])
<1>1. <<r1, r2, r3>> \in [1..3 -> Rows] /\ Len(<<r1, r2, r3>>) = 3
  OBVIOUS
<1>2. {Rank(r1), Rank(r2), Rank(r3)} \subseteq Nat
  BY RankFacts
<1>. QED
  BY <1>1, <1>2 DEF Wanted

-----------------------------------------------------------------------------
(* Row locks: no row has two holders.                                      *)

LEMMA InitLocks == LockInit => LockTypeOK /\ OrderedInv
<1>. SUFFICES ASSUME LockInit PROVE LockTypeOK /\ OrderedInv
  OBVIOUS
<1>1. <<>> \in Wanted /\ Len(<<>>) = 0
  <2>1. <<>> \in [1..0 -> Rows]
    OBVIOUS
  <2>. QED
    BY <2>1 DEF Wanted
<1>2. LockTypeOK
  BY <1>1 DEF LockInit, LockTypeOK, Idle, Wanted
<1>3. OrderedInv
  BY <1>1 DEF LockInit, OrderedInv, Ordered, Idle
<1>. QED
  BY <1>2, <1>3

\* A transaction that starts holds nothing; what it wants has its type, and
\* its order unless it is a charge or a failing payout.
LEMMA StartKeeps ==
  ASSUME LockTypeOK, OrderedInv, NEW t \in Transactions,
         NEW op \in Operations, NEW rows \in Wanted, Start(t, op, rows),
         op \notin Reversed =>
           \A i, j \in 1..Len(rows) : i < j => Rank(rows[i]) < Rank(rows[j])
  PROVE  LockTypeOK' /\ OrderedInv'
<1>1. txn' = [txn EXCEPT ![t] = [op |-> op, held |-> {}, wanted |-> rows]]
  BY DEF Start
<1>2. LockTypeOK'
  BY <1>1 DEF LockTypeOK, Wanted
<1>3. OrderedInv'
  BY <1>1 DEF LockTypeOK, OrderedInv, Ordered
<1>. QED
  BY <1>2, <1>3

LEMMA BeginKeeps ==
  ASSUME LockTypeOK, OrderedInv, NEW t \in Transactions, Begin(t)
  PROVE  LockTypeOK' /\ OrderedInv'
<1>1. ASSUME NEW u \in Users, Start(t, "userWallet", UserWallet(u))
      PROVE  LockTypeOK' /\ OrderedInv'
  <2>. DEFINE rows == <<User(u), Wallet(u)>>
  <2>1. /\ rows \in Wanted
        /\ \A i, j \in 1..Len(rows) : i < j => Rank(rows[i]) < Rank(rows[j])
    BY RowFacts, RankFacts, TwoRows
  <2>2. Start(t, "userWallet", rows)
    BY <1>1 DEF UserWallet
  <2>. QED
    BY <2>1, <2>2, StartKeeps DEF Operations
<1>2. ASSUME NEW c \in Campaigns, Start(t, "funding", Funding(c))
      PROVE  LockTypeOK' /\ OrderedInv'
  <2>. DEFINE rows == <<User(Owner[c]), Wallet(Owner[c]), Campaign(c)>>
  <2>1. /\ rows \in Wanted
        /\ \A i, j \in 1..Len(rows) : i < j => Rank(rows[i]) < Rank(rows[j])
    BY RowFacts, RankFacts, ThreeRows
  <2>2. Start(t, "funding", rows)
    BY <1>2 DEF Funding
  <2>. QED
    BY <2>1, <2>2, StartKeeps DEF Operations
<1>3. ASSUME NEW c \in Campaigns, Start(t, "spending", Spending(c))
      PROVE  LockTypeOK' /\ OrderedInv'
  <2>1. Spending(c) \in Wanted
    BY RowFacts, TwoRows DEF Spending
  <2>. QED
    BY <1>3, <2>1, StartKeeps DEF Operations, Reversed
<1>4. ASSUME NEW p \in PayoutIds, Start(t, "completing", Completing(p))
      PROVE  LockTypeOK' /\ OrderedInv'
  <2>. DEFINE rows == <<Payout(p), Wallet(Payee[p])>>
  <2>1. /\ rows \in Wanted
        /\ \A i, j \in 1..Len(rows) : i < j => Rank(rows[i]) < Rank(rows[j])
    BY RowFacts, RankFacts, TwoRows
  <2>2. Start(t, "completing", rows)
    BY <1>4 DEF Completing
  <2>. QED
    BY <2>1, <2>2, StartKeeps DEF Operations
<1>5. ASSUME NEW p \in PayoutIds, Start(t, "failing", Failing(p))
      PROVE  LockTypeOK' /\ OrderedInv'
  <2>1. Failing(p) \in Wanted
    BY RowFacts, ThreeRows DEF Failing
  <2>. QED
    BY <1>5, <2>1, StartKeeps DEF Operations, Reversed
<1>. QED
  BY <1>1, <1>2, <1>3, <1>4, <1>5 DEF Begin

LEMMA LockNextKeeps ==
  ASSUME LockTypeOK, OrderedInv, NEW t \in Transactions, LockNext(t)
  PROVE  LockTypeOK' /\ OrderedInv'
<1>. DEFINE x == txn[t]
            row == Head(x.wanted)
            y == [x EXCEPT !.held = @ \cup {row}, !.wanted = Tail(@)]
<1>1. x.wanted \in Wanted /\ x.wanted # <<>> /\ x.held \in SUBSET Rows
      /\ x \in [op: Operations \cup {"none"}, held: SUBSET Rows, wanted: Wanted]
  BY DEF LockTypeOK, LockNext, Waiting, Wanted
<1>2. /\ row = x.wanted[1] /\ row \in Rows /\ Tail(x.wanted) \in Wanted
      /\ Len(Tail(x.wanted)) = Len(x.wanted) - 1
      /\ \A i \in 1..(Len(x.wanted) - 1) : Tail(x.wanted)[i] = x.wanted[i + 1]
      /\ Len(x.wanted) \in 0..3
  BY <1>1, TailWanted, WantedIsSeq
<1>3. txn' = [txn EXCEPT ![t] = y]
  BY DEF LockNext, LockTypeOK
<1>4. /\ y.op = x.op /\ y.held = x.held \cup {row} /\ y.wanted = Tail(x.wanted)
      /\ y \in [op: Operations \cup {"none"}, held: SUBSET Rows, wanted: Wanted]
  BY <1>1, <1>2
<1>5. \A s \in Transactions \ {t} : row \notin txn[s].held
  BY DEF LockNext, WaitsFor
<1>6. LockTypeOK'
  <2>1. txn' \in [Transactions -> [op: Operations \cup {"none"}, held: SUBSET Rows,
                                   wanted: Wanted]]
    BY <1>3, <1>4 DEF LockTypeOK, Wanted
  <2>2. \A r, s \in Transactions : r # s => txn'[r].held \cap txn'[s].held = {}
    BY <1>3, <1>4, <1>5 DEF LockTypeOK
  <2>. QED
    BY <2>1, <2>2 DEF LockTypeOK, Wanted
<1>7. ASSUME x.op \notin Reversed
      PROVE  Ordered(y)
  <2>1. Ordered(x)
    BY <1>7 DEF OrderedInv
  <2>2. \A i \in 1..Len(y.wanted) : i + 1 \in 1..Len(x.wanted) /\ y.wanted[i] = x.wanted[i + 1]
    BY <1>2, <1>4
  <2>3. \A i, j \in 1..Len(y.wanted) : i < j => Rank(y.wanted[i]) < Rank(y.wanted[j])
    BY <1>2, <1>4, <2>1, <2>2 DEF Ordered
  <2>4. \A i \in 1..Len(y.wanted) : Rank(row) < Rank(y.wanted[i])
    <3>1. \A i \in 1..Len(y.wanted) : 1 < i + 1 /\ 1 \in 1..Len(x.wanted)
      BY <1>2, <1>4
    <3>. QED
      BY <1>2, <2>1, <2>2, <3>1 DEF Ordered
  <2>5. \A q \in x.held, i \in 1..Len(y.wanted) : Rank(q) < Rank(y.wanted[i])
    BY <2>1, <2>2 DEF Ordered
  <2>. QED
    BY <1>4, <2>3, <2>4, <2>5 DEF Ordered
<1>8. OrderedInv'
  BY <1>3, <1>4, <1>7 DEF OrderedInv, LockTypeOK
<1>. QED
  BY <1>6, <1>8

\* A commit, a rollback and a deadlock's victim all let go of everything.
LEMMA IdleKeeps ==
  ASSUME LockTypeOK, OrderedInv, NEW t \in Transactions,
         txn' = [txn EXCEPT ![t] = Idle]
  PROVE  LockTypeOK' /\ OrderedInv'
<1>1. <<>> \in Wanted /\ Len(<<>>) = 0
  <2>1. <<>> \in [1..0 -> Rows]
    OBVIOUS
  <2>. QED
    BY <2>1 DEF Wanted
<1>2. LockTypeOK'
  BY <1>1 DEF LockTypeOK, Idle, Wanted
<1>3. OrderedInv'
  BY <1>1 DEF LockTypeOK, OrderedInv, Ordered, Idle
<1>. QED
  BY <1>2, <1>3

LEMMA StepKeeps ==
  LockTypeOK /\ OrderedInv /\ [LockStep]_txn => LockTypeOK' /\ OrderedInv'
<1>. SUFFICES ASSUME LockTypeOK, OrderedInv, [LockStep]_txn
              PROVE  LockTypeOK' /\ OrderedInv'
  OBVIOUS
<1>1. CASE \E t \in Transactions : Begin(t)
  BY <1>1, BeginKeeps
<1>2. CASE \E t \in Transactions : LockNext(t)
  BY <1>2, LockNextKeeps
<1>3. CASE \E t \in Transactions : End(t) \/ CancelVictim(t)
  BY <1>3, IdleKeeps DEF End, CancelVictim
<1>4. CASE UNCHANGED txn
  BY <1>4 DEF LockTypeOK, OrderedInv, Ordered
<1>. QED
  BY <1>1, <1>2, <1>3, <1>4 DEF LockStep

LEMMA LocksHold == LockSpec => [](LockTypeOK /\ OrderedInv)
  BY InitLocks, StepKeeps, PTL DEF LockSpec

-----------------------------------------------------------------------------
(* Row locks: cycles of waiting transactions.                              *)

\* In a cycle of ordered transactions, whoever holds the row that one of them
\* wants next wants a row of a higher rank.
LEMMA RanksClimb ==
  ASSUME LockTypeOK, OrderedInv, NEW S \in SUBSET Transactions, Stuck(S),
         \A t \in S : txn[t].op \notin Reversed, NEW t \in S
  PROVE  /\ Rank(Head(txn[t].wanted)) \in 1..3
         /\ \E s \in S : Rank(Head(txn[t].wanted)) < Rank(Head(txn[s].wanted))
<1>1. PICK s \in S : WaitsFor(t, s)
  BY DEF Stuck
<1>2. PICK r \in S : WaitsFor(s, r)
  BY DEF Stuck
<1>3. txn[t].wanted \in Wanted /\ txn[t].wanted # <<>>
      /\ txn[s].wanted \in Wanted /\ txn[s].wanted # <<>>
  BY <1>1, <1>2 DEF WaitsFor, Waiting, LockTypeOK, Wanted
<1>4. Head(txn[t].wanted) \in Rows
  BY <1>3, TailWanted
<1>5. Head(txn[s].wanted) = txn[s].wanted[1] /\ 1 \in 1..Len(txn[s].wanted)
  BY <1>3, TailWanted, WantedIsSeq
<1>6. Head(txn[t].wanted) \in txn[s].held /\ Ordered(txn[s])
  BY <1>1 DEF WaitsFor, OrderedInv
<1>. QED
  BY <1>4, <1>5, <1>6, RankFacts DEF Ordered

LEMMA OrderedNeverDeadlock ==
  LockTypeOK /\ OrderedInv => OnlyReversedOrdersDeadlock
<1>. SUFFICES ASSUME LockTypeOK, OrderedInv, NEW S \in SUBSET Transactions, Stuck(S),
                     \A t \in S : txn[t].op \notin Reversed
              PROVE  FALSE
  BY DEF OnlyReversedOrdersDeadlock, Reversed
<1>1. PICK t1 \in S : TRUE
  BY DEF Stuck
<1>2. PICK t2 \in S : Rank(Head(txn[t1].wanted)) < Rank(Head(txn[t2].wanted))
  BY <1>1, RanksClimb
<1>3. PICK t3 \in S : Rank(Head(txn[t2].wanted)) < Rank(Head(txn[t3].wanted))
  BY <1>2, RanksClimb
<1>4. PICK t4 \in S : Rank(Head(txn[t3].wanted)) < Rank(Head(txn[t4].wanted))
  BY <1>3, RanksClimb
<1>5. \A t \in S : Rank(Head(txn[t].wanted)) \in 1..3
  BY RanksClimb
<1>. QED
  BY <1>2, <1>3, <1>4, <1>5


\* No row ever has two holders: what lets the other modules take a
\* transaction of WalletManager for one step.
THEOREM LocksAreExclusive == LockSpec => []LockTypeOK
  BY LocksHold, PTL

\* However many transactions run, over however many rows, a deadlock needs a
\* charge, which locks Campaign before Wallet, or a failing payout, which
\* locks Wallet before User.
THEOREM DeadlockNeedsReversedOrder == LockSpec => []OnlyReversedOrdersDeadlock
  BY LocksHold, OrderedNeverDeadlock, PTL

-----------------------------------------------------------------------------
(* Accounts: which request a user at Supabase belongs to.                  *)

\* Which handler a request runs follows from what it was started with.
NamesFit ==
  \A r \in Requests :
    /\ signup[r].at \in {"finding", "creating", "rollback"} => Name(r) \in Emails
    /\ signup[r].at = "finishing" => Name(r) \in Phones
    /\ signup[r].at = "inserting" => Name(r) \in Names

\* A request that inserts, or rolls back, an e-mail sign-up created the user,
\* which has no row yet.
CreatorInserts ==
  \A r \in Requests :
    signup[r].at \in {"inserting", "rollback"} /\ Name(r) \in Emails \ torn =>
      account[Name(r)] = r /\ profile[Name(r)] = None

SignUpInv == SignUpTypeOK /\ NamesFit /\ CreatorInserts /\ HalvesAgree

-----------------------------------------------------------------------------
LEMMA SignUpInitInv == ASSUME SignUpInit PROVE SignUpInv
  <1>1. SignUpTypeOK
    BY SignUpAssumption DEF SignUpInit, SignUpTypeOK, Fresh
  <1>2. NamesFit /\ CreatorInserts
    BY DEF SignUpInit, NamesFit, CreatorInserts, Fresh
  <1>3. HalvesAgree
    BY DEF SignUpInit, HalvesAgree, Names
  <1> QED BY <1>1, <1>2, <1>3 DEF SignUpInv

\* A request moves to another stage, or ends, and nothing else changes: this
\* keeps the invariant when the user it created, if it was inserting or rolling
\* back, is beside the point.
LEMMA MoveKeepsInv ==
  ASSUME SignUpInv, NEW r \in Requests, NEW at \in {"creating", "inserting", "done"},
         Goto(r, at), UNCHANGED <<account, profile, mishaps, torn>>,
         signup[r].at \in {"finding", "creating", "finishing"},
         at = "creating" => signup[r].at = "finding",
         at = "inserting" => signup[r].at = "finishing"
  PROVE  SignUpInv'
  <1>1. SignUpTypeOK'
    BY DEF SignUpInv, SignUpTypeOK, Goto
  <1>2. NamesFit'
    BY DEF SignUpInv, SignUpTypeOK, NamesFit, Goto, Name, Names
  <1>3. CreatorInserts'
    BY SignUpAssumption DEF SignUpInv, SignUpTypeOK, NamesFit, CreatorInserts, Goto, Name
  <1>4. HalvesAgree'
    BY DEF SignUpInv, SignUpTypeOK, HalvesAgree, Goto, Names
  <1> QED BY <1>1, <1>2, <1>3, <1>4 DEF SignUpInv

LEMMA RegisterKeepsInv ==
  ASSUME SignUpInv, NEW r \in Requests, NEW e \in Emails, Register(r, e) PROVE SignUpInv'
  <1>1. SignUpTypeOK'
    BY DEF SignUpInv, SignUpTypeOK, Register, Names
  <1>2. NamesFit' /\ CreatorInserts'
    BY DEF SignUpInv, SignUpTypeOK, NamesFit, CreatorInserts, Register, Name
  <1>3. HalvesAgree'
    BY DEF SignUpInv, SignUpTypeOK, HalvesAgree, Register, Names
  <1> QED BY <1>1, <1>2, <1>3 DEF SignUpInv

LEMMA FindByEmailKeepsInv ==
  ASSUME SignUpInv, NEW r \in Requests, FindByEmail(r) PROVE SignUpInv'
  BY MoveKeepsInv DEF FindByEmail

LEMMA CreateUserKeepsInv ==
  ASSUME SignUpInv, NEW r \in Requests, CreateUser(r) PROVE SignUpInv'
  <1> DEFINE e == Name(r)
  <1>1. e \in Emails /\ signup[r].at = "creating"
    BY DEF SignUpInv, NamesFit, CreateUser
  <1>2. CASE account[e] # None
    BY <1>1, <1>2, MoveKeepsInv DEF CreateUser
  <1>3. CASE account[e] = None
    <2>1. account' = [account EXCEPT ![e] = r] /\ Goto(r, "inserting")
      BY <1>3 DEF CreateUser
    <2>2. e \notin torn => profile[e] = None
      BY <1>1, <1>3 DEF SignUpInv, HalvesAgree, Names
    <2>3. SignUpTypeOK'
      BY <2>1, <1>1 DEF SignUpInv, SignUpTypeOK, CreateUser, Goto
    <2>4. NamesFit'
      BY <2>1, <1>1 DEF SignUpInv, SignUpTypeOK, NamesFit, Goto, Name, Names
    <2>5. CreatorInserts'
      BY <2>1, <2>2, <1>1, <1>3, SignUpAssumption
      DEF SignUpInv, SignUpTypeOK, CreatorInserts, CreateUser, Goto, Name, Names
    <2>6. HalvesAgree'
      BY <2>1, <2>2, <1>1, <1>3, SignUpAssumption
      DEF SignUpInv, SignUpTypeOK, HalvesAgree, CreateUser, Goto, Name, Names
    <2> QED BY <2>3, <2>4, <2>5, <2>6 DEF SignUpInv
  <1> QED BY <1>2, <1>3

LEMMA CreateUserFailsKeepsInv ==
  ASSUME SignUpInv, NEW r \in Requests, CreateUserFails(r) PROVE SignUpInv'
  <1> DEFINE e == Name(r)
  <1>1. e \in Emails /\ signup[r].at = "creating" /\ Goto(r, "done") /\ UNCHANGED profile
    BY DEF SignUpInv, NamesFit, CreateUserFails
  <1>2. \/ UNCHANGED <<account, torn>>
        \/ account[e] = None /\ account' = [account EXCEPT ![e] = r] /\ torn' = torn \cup {e}
    BY DEF CreateUserFails
  <1>3. SignUpTypeOK'
    BY <1>1, <1>2, SignUpAssumption
    DEF SignUpInv, SignUpTypeOK, CreateUserFails, Goto, Fail, Names
  <1>4. NamesFit'
    BY <1>1 DEF SignUpInv, SignUpTypeOK, NamesFit, Goto, Name
  <1>5. CreatorInserts'
    BY <1>1, <1>2 DEF SignUpInv, SignUpTypeOK, CreatorInserts, Goto, Name, Names
  <1>6. HalvesAgree'
    BY <1>1, <1>2, SignUpAssumption DEF SignUpInv, SignUpTypeOK, HalvesAgree, Goto, Name, Names
  <1> QED BY <1>3, <1>4, <1>5, <1>6 DEF SignUpInv

\* The row is written when there is none, so that the creator's is first.
LEMMA CreateRowKeepsInv ==
  ASSUME SignUpInv, NEW r \in Requests, CreateRow(r) PROVE SignUpInv'
  <1> DEFINE k == Name(r)
  <1>1. k \in Names /\ signup[r].at = "inserting" /\ UNCHANGED <<account, mishaps, torn>>
    BY DEF SignUpInv, NamesFit, CreateRow
  <1>2. CASE profile[k] = None
    <2>1. profile' = [profile EXCEPT ![k] = account[k]] /\ Goto(r, "done")
      BY <1>2 DEF CreateRow
    <2>2. SignUpTypeOK'
      BY <1>1, <2>1 DEF SignUpInv, SignUpTypeOK, Goto
    <2>3. NamesFit'
      BY <2>1 DEF SignUpInv, SignUpTypeOK, NamesFit, Goto, Name
    <2>4. CreatorInserts'
      BY <1>1, <2>1 DEF SignUpInv, SignUpTypeOK, CreatorInserts, Goto, Name, Names
    <2>5. HalvesAgree'
      BY <1>1, <2>1 DEF SignUpInv, SignUpTypeOK, HalvesAgree, Goto, Name, Names
    <2> QED BY <2>2, <2>3, <2>4, <2>5 DEF SignUpInv
  <1>3. CASE profile[k] # None
    <2>1. UNCHANGED profile /\ Goto(r, AfterDbError(r))
      BY <1>3 DEF CreateRow
    <2>2. \/ AfterDbError(r) = "rollback" /\ k \in Emails
          \/ AfterDbError(r) = "done"
      BY DEF AfterDbError
    <2>3. k \in Emails => k \in torn
      BY <1>1, <1>3 DEF SignUpInv, CreatorInserts
    <2>4. SignUpTypeOK'
      BY <1>1, <2>1, <2>2 DEF SignUpInv, SignUpTypeOK, Goto
    <2>5. NamesFit'
      BY <2>1, <2>2 DEF SignUpInv, SignUpTypeOK, NamesFit, Goto, Name
    <2>6. CreatorInserts'
      BY <1>1, <2>1, <2>3 DEF SignUpInv, SignUpTypeOK, CreatorInserts, Goto, Name
    <2>7. HalvesAgree'
      BY <1>1, <1>3, <2>1, <2>3 DEF SignUpInv, SignUpTypeOK, HalvesAgree, Goto, Name, Names
    <2> QED BY <2>4, <2>5, <2>6, <2>7 DEF SignUpInv
  <1> QED BY <1>2, <1>3

LEMMA CreateRowFailsKeepsInv ==
  ASSUME SignUpInv, NEW r \in Requests, CreateRowFails(r) PROVE SignUpInv'
  <1> DEFINE k == Name(r)
  <1>1. /\ k \in Names /\ signup[r].at = "inserting" /\ UNCHANGED account
        /\ Goto(r, AfterDbError(r)) /\ mishaps' \in 0..MaxFailures
    BY SignUpAssumption DEF SignUpInv, NamesFit, SignUpTypeOK, CreateRowFails, Fail
  <1>2. \/ AfterDbError(r) = "rollback" /\ k \in Emails
        \/ AfterDbError(r) = "done" /\ k \notin Emails
    BY DEF AfterDbError
  <1>3. \/ UNCHANGED <<profile, torn>>
        \/ profile' = [profile EXCEPT ![k] = account[k]] /\ torn' = torn \cup {k}
    BY DEF CreateRowFails
  <1>4. SignUpTypeOK'
    BY <1>1, <1>2, <1>3 DEF SignUpInv, SignUpTypeOK, Goto
  <1>5. NamesFit'
    BY <1>1, <1>2 DEF SignUpInv, SignUpTypeOK, NamesFit, Goto, Name
  <1>6. CreatorInserts'
    BY <1>1, <1>2, <1>3 DEF SignUpInv, SignUpTypeOK, CreatorInserts, Goto, Name, Names
  <1>7. HalvesAgree'
    BY <1>1, <1>2, <1>3 DEF SignUpInv, SignUpTypeOK, HalvesAgree, Goto, Name, Names
  <1> QED BY <1>4, <1>5, <1>6, <1>7 DEF SignUpInv

\* Whoever rolls back deletes its own user.
LEMMA DeleteUserKeepsInv ==
  ASSUME SignUpInv, NEW r \in Requests, DeleteUser(r) PROVE SignUpInv'
  <1> DEFINE e == Name(r)
  <1>1. e \in Emails /\ signup[r].at = "rollback" /\ Goto(r, "done") /\ UNCHANGED profile
    BY DEF SignUpInv, NamesFit, DeleteUser
  <1>2. \/ UNCHANGED torn /\ account' = [account EXCEPT ![e] = None] /\ account[e] = r
        \/ UNCHANGED <<account, torn>> /\ e \in torn
        \/ UNCHANGED account /\ torn' = torn \cup {e}
    BY <1>1 DEF SignUpInv, CreatorInserts, DeleteUser
  <1>3. SignUpTypeOK'
    BY <1>1, <1>2, SignUpAssumption DEF SignUpInv, SignUpTypeOK, DeleteUser, Goto, Fail, Names
  <1>4. NamesFit'
    BY <1>1 DEF SignUpInv, SignUpTypeOK, NamesFit, Goto, Name
  <1>5. CreatorInserts'
    BY <1>1, <1>2 DEF SignUpInv, SignUpTypeOK, CreatorInserts, Goto, Name, Names
  <1>6. HalvesAgree'
    BY <1>1, <1>2, SignUpAssumption
    DEF SignUpInv, SignUpTypeOK, CreatorInserts, HalvesAgree, Goto, Name, Names
  <1> QED BY <1>3, <1>4, <1>5, <1>6 DEF SignUpInv

LEMMA VerifyOtpKeepsInv ==
  ASSUME SignUpInv, NEW r \in Requests, NEW p \in Phones, VerifyOtp(r, p) PROVE SignUpInv'
  <1>1. SignUpTypeOK'
    BY DEF SignUpInv, SignUpTypeOK, VerifyOtp, Names
  <1>2. NamesFit'
    BY DEF SignUpInv, SignUpTypeOK, NamesFit, VerifyOtp, Name
  <1>3. CreatorInserts'
    BY SignUpAssumption DEF SignUpInv, SignUpTypeOK, CreatorInserts, VerifyOtp, Name, Names
  <1>4. HalvesAgree'
    BY SignUpAssumption DEF SignUpInv, SignUpTypeOK, HalvesAgree, VerifyOtp, Names
  <1> QED BY <1>1, <1>2, <1>3, <1>4 DEF SignUpInv

LEMMA FinishRegistrationKeepsInv ==
  ASSUME SignUpInv, NEW r \in Requests, FinishRegistration(r) PROVE SignUpInv'
  BY MoveKeepsInv DEF FinishRegistration

LEMMA StopKeepsInv ==
  ASSUME SignUpInv, NEW r \in Requests, Stop(r) PROVE SignUpInv'
  <1>1. Goto(r, "done") /\ UNCHANGED <<account, profile>> /\ signup[r].at # "unused"
    BY DEF Stop
  <1>2. /\ torn \subseteq torn'
        /\ signup[r].at \in {"inserting", "rollback"} => Name(r) \in torn'
        /\ torn' \subseteq torn \cup ({Name(r)} \cap Names)
    BY DEF SignUpInv, NamesFit, Stop, Names
  <1>3. SignUpTypeOK'
    BY <1>1, <1>2, SignUpAssumption DEF SignUpInv, SignUpTypeOK, Stop, Goto, Fail
  <1>4. NamesFit'
    BY <1>1 DEF SignUpInv, SignUpTypeOK, NamesFit, Goto, Name
  <1>5. CreatorInserts'
    BY <1>1, <1>2 DEF SignUpInv, SignUpTypeOK, CreatorInserts, Goto, Name
  <1>6. HalvesAgree'
    BY <1>1, <1>2 DEF SignUpInv, SignUpTypeOK, HalvesAgree, Goto, Name, Names
  <1> QED BY <1>3, <1>4, <1>5, <1>6 DEF SignUpInv

LEMMA StepKeepsInv == ASSUME SignUpInv, [SignUpNext]_signUpVars PROVE SignUpInv'
  <1>1. CASE UNCHANGED signUpVars
    BY <1>1 DEF signUpVars, SignUpInv, SignUpTypeOK, NamesFit, CreatorInserts, HalvesAgree, Name
  <1>2. ASSUME NEW r \in Requests, NEW e \in Emails, Register(r, e) PROVE SignUpInv'
    BY <1>2, RegisterKeepsInv
  <1>3. ASSUME NEW r \in Requests, NEW p \in Phones, VerifyOtp(r, p) PROVE SignUpInv'
    BY <1>3, VerifyOtpKeepsInv
  <1>4. ASSUME NEW r \in Requests,
               FindByEmail(r) \/ CreateUser(r) \/ CreateUserFails(r)
        PROVE  SignUpInv'
    BY <1>4, FindByEmailKeepsInv, CreateUserKeepsInv, CreateUserFailsKeepsInv
  <1>5. ASSUME NEW r \in Requests,
               CreateRow(r) \/ CreateRowFails(r) \/ DeleteUser(r)
        PROVE  SignUpInv'
    BY <1>5, CreateRowKeepsInv, CreateRowFailsKeepsInv, DeleteUserKeepsInv
  <1>6. ASSUME NEW r \in Requests, FinishRegistration(r) \/ Stop(r) PROVE SignUpInv'
    BY <1>6, FinishRegistrationKeepsInv, StopKeepsInv
  <1> QED BY <1>1, <1>2, <1>3, <1>4, <1>5, <1>6 DEF SignUpNext

-----------------------------------------------------------------------------
\* Every sign-up keeps the types of the accounts, rows and requests.
THEOREM SignUpTypeCorrect == SignUpSpec => []SignUpTypeOK
  <1>1. SignUpInv => SignUpTypeOK
    BY DEF SignUpInv
  <1> QED BY <1>1, SignUpInitInv, StepKeepsInv, PTL DEF SignUpSpec

\* Whoever registers with an address or a number at the same time, and whatever
\* fails, Supabase's user and the row agree (register, googleAuth and
\* verifyPhoneOtp with their roll-back), but where a write was done and not
\* answered, or a worker stopped.
THEOREM AccountHalvesAgree == SignUpSpec => []HalvesAgree
  <1>1. SignUpInv => HalvesAgree
    BY DEF SignUpInv
  <1> QED BY <1>1, SignUpInitInv, StepKeepsInv, PTL DEF SignUpSpec

-----------------------------------------------------------------------------
(* Sessions: for how long a yes of Supabase outlives the session.          *)

\* Whatever waits for Supabase, or was remembered, is about a session there was.
OfASession ==
  /\ \A c \in Checks : check[c].at # "idle" =>
       /\ check[c].guard \in Guards /\ check[c].token \in Tokens
       /\ session[check[c].token] # Absent
  /\ \A g \in Instances, t \in Tokens : Cached(g, t) => session[t] # Absent

\* A yes is given to a live session: it is as old as the time it has been over,
\* and the cache counts from the answer, which took the timeout at most.
YesIsOld ==
  /\ \A t \in Tokens : session[t] # "ended" => endedFor[t] = 0
  /\ \A c \in Checks : check[c].at = "yes" => endedFor[check[c].token] <= check[c].age
  /\ \A g \in Instances, t \in Tokens :
       Cached(g, t) => endedFor[t] <= tokenCache[g][t] + Timeout

SessionInv == SessionsTypeOK /\ OfASession /\ YesIsOld

LEMMA CheckType ==
  ASSUME SessionsTypeOK, NEW c \in Checks
  PROVE  /\ check[c].at \in CheckStates \cup {"idle"}
         /\ check[c].guard \in Guards \cup {NoGuard} /\ check[c].token \in Tokens \cup {Absent}
         /\ check[c].age \in 0..Timeout
         /\ IdleCheck \in [at: CheckStates \cup {"idle"}, guard: Guards \cup {NoGuard},
                           token: Tokens \cup {Absent}, age: 0..Timeout]
<1>1. check[c] \in [at: CheckStates \cup {"idle"}, guard: Guards \cup {NoGuard},
                    token: Tokens \cup {Absent}, age: 0..Timeout]
  BY DEF SessionsTypeOK
<1>2. 0 \in 0..Timeout
  BY SessionsAssumption
<1>3. IdleCheck \in [at: CheckStates \cup {"idle"}, guard: Guards \cup {NoGuard},
                     token: Tokens \cup {Absent}, age: 0..Timeout]
  BY <1>2 DEF IdleCheck
<1>. QED
  BY <1>1, <1>3

\* A step of one check to the state new.
LEMMA CheckUpdate ==
  ASSUME SessionsTypeOK, NEW c \in Checks, NEW new, check' = [check EXCEPT ![c] = new],
         new \in [at: CheckStates \cup {"idle"}, guard: Guards \cup {NoGuard},
                  token: Tokens \cup {Absent}, age: 0..Timeout]
  PROVE  /\ check' \in [Checks -> [at: CheckStates \cup {"idle"}, guard: Guards \cup {NoGuard},
                                   token: Tokens \cup {Absent}, age: 0..Timeout]]
         /\ check'[c] = new /\ \A d \in Checks \ {c} : check'[d] = check[d]
  BY DEF SessionsTypeOK

LEMMA ReplyMeans ==
  ASSUME SessionsTypeOK, NEW c \in Checks, NEW at \in CheckStates, Reply(c, at)
  PROVE  /\ check' \in [Checks -> [at: CheckStates \cup {"idle"}, guard: Guards \cup {NoGuard},
                                   token: Tokens \cup {Absent}, age: 0..Timeout]]
         /\ check'[c].at = at /\ check'[c].guard = check[c].guard
         /\ check'[c].token = check[c].token /\ check'[c].age = check[c].age
         /\ \A d \in Checks \ {c} : check'[d] = check[d]
<1> DEFINE new == [check[c] EXCEPT !.at = at]
<1>1. check' = [check EXCEPT ![c] = new]
  BY DEF Reply
<1>2. check[c] \in [at: CheckStates \cup {"idle"}, guard: Guards \cup {NoGuard},
                    token: Tokens \cup {Absent}, age: 0..Timeout]
  BY DEF SessionsTypeOK
<1>3. /\ new \in [at: CheckStates \cup {"idle"}, guard: Guards \cup {NoGuard},
                  token: Tokens \cup {Absent}, age: 0..Timeout]
      /\ new.at = at /\ new.guard = check[c].guard /\ new.token = check[c].token
      /\ new.age = check[c].age
  BY <1>2
<1> HIDE DEF new
<1>. QED
  BY <1>1, <1>3, CheckUpdate

LEMMA EndMeans ==
  ASSUME SessionsTypeOK, NEW c \in Checks, EndCheck(c)
  PROVE  /\ check' \in [Checks -> [at: CheckStates \cup {"idle"}, guard: Guards \cup {NoGuard},
                                   token: Tokens \cup {Absent}, age: 0..Timeout]]
         /\ check'[c].at = "idle" /\ \A d \in Checks \ {c} : check'[d] = check[d]
  BY CheckType, CheckUpdate DEF EndCheck, IdleCheck

LEMMA BeginMeans ==
  ASSUME SessionsTypeOK, NEW c \in Checks, NEW g \in Guards, NEW t \in Tokens,
         NEW at \in CheckStates, BeginCheck(c, g, t, at)
  PROVE  /\ check' \in [Checks -> [at: CheckStates \cup {"idle"}, guard: Guards \cup {NoGuard},
                                   token: Tokens \cup {Absent}, age: 0..Timeout]]
         /\ check'[c].at = at /\ check'[c].guard = g /\ check'[c].token = t
         /\ check'[c].age = 0
         /\ \A d \in Checks \ {c} : check'[d] = check[d]
<1> DEFINE new == [at |-> at, guard |-> g, token |-> t, age |-> 0]
<1>1. check' = [check EXCEPT ![c] = new]
  BY DEF BeginCheck
<1>2. /\ new \in [at: CheckStates \cup {"idle"}, guard: Guards \cup {NoGuard},
                  token: Tokens \cup {Absent}, age: 0..Timeout]
      /\ new.at = at /\ new.guard = g /\ new.token = t /\ new.age = 0
  BY SessionsAssumption
<1> HIDE DEF new
<1>. QED
  BY <1>1, <1>2, CheckUpdate

-----------------------------------------------------------------------------

LEMMA LoginKeeps ==
  ASSUME SessionInv, NEW t \in Tokens, Login(t) PROVE SessionInv'
<1>1. /\ session[t] = Absent /\ UNCHANGED <<endedFor, tokenCache, check, out>>
      /\ session' = [session EXCEPT ![t] = "live"] /\ session \in [Tokens -> {Absent, "live", "ended"}]
  BY DEF Login, SessionInv, SessionsTypeOK
<1>2. /\ session' \in [Tokens -> {Absent, "live", "ended"}] /\ session'[t] = "live"
      /\ \A s \in Tokens \ {t} : session'[s] = session[s]
  BY <1>1
<1>3. "live" # Absent /\ "ended" # Absent
  BY DEF Absent
<1>4. SessionsTypeOK'
  BY <1>1, <1>2 DEF SessionInv, SessionsTypeOK
<1>5. OfASession'
  BY <1>1, <1>2, <1>3 DEF SessionInv, OfASession, Cached
<1>6. YesIsOld'
  BY <1>1, <1>2, <1>3 DEF SessionInv, YesIsOld, Cached
<1>. QED
  BY <1>4, <1>5, <1>6 DEF SessionInv

LEMMA ExpireKeeps ==
  ASSUME SessionInv, NEW t \in Tokens, Expire(t) PROVE SessionInv'
<1>1. /\ session[t] = "live" /\ UNCHANGED <<endedFor, tokenCache, check, out>>
      /\ session' = [session EXCEPT ![t] = "ended"] /\ session \in [Tokens -> {Absent, "live", "ended"}]
  BY DEF Expire, SessionInv, SessionsTypeOK
<1>2. /\ session' \in [Tokens -> {Absent, "live", "ended"}] /\ session'[t] = "ended"
      /\ \A s \in Tokens \ {t} : session'[s] = session[s]
  BY <1>1
<1>3. "live" # Absent /\ "ended" # Absent
  BY DEF Absent
<1>4. SessionsTypeOK'
  BY <1>1, <1>2 DEF SessionInv, SessionsTypeOK
<1>5. OfASession'
  BY <1>1, <1>2, <1>3 DEF SessionInv, OfASession, Cached
<1>6. YesIsOld'
  BY <1>1, <1>2, <1>3 DEF SessionInv, YesIsOld, Cached
<1>. QED
  BY <1>4, <1>5, <1>6 DEF SessionInv

LEMMA TickKeeps ==
  ASSUME SessionInv, Tick PROVE SessionInv'
<1>. SessionsTypeOK /\ TTL \in Nat /\ Timeout \in Nat
  BY SessionsAssumption DEF SessionInv
<1>0. UNCHANGED <<session, out>>
  BY DEF Tick
<1>1. ASSUME NEW c \in Checks
      PROVE  /\ check'[c] \in [at: CheckStates \cup {"idle"}, guard: Guards \cup {NoGuard},
                               token: Tokens \cup {Absent}, age: 0..Timeout]
             /\ check'[c].at = check[c].at
             /\ check[c].at # "idle" => /\ check'[c].guard = check[c].guard
                                        /\ check'[c].token = check[c].token
                                        /\ check'[c].age = check[c].age + 1
  <2>1. CASE check[c].at = "idle"
    BY <2>1, CheckType DEF Tick, IdleCheck
  <2>2. CASE check[c].at # "idle"
    <3>1. check[c].age < Timeout
      BY <2>2 DEF Tick, InTime
    <3>2. check[c] \in [at: CheckStates \cup {"idle"}, guard: Guards \cup {NoGuard},
                        token: Tokens \cup {Absent}, age: 0..Timeout]
      BY DEF SessionsTypeOK
    <3>3. check[c].age + 1 \in 0..Timeout
      BY <3>1, CheckType
    <3>4. check'[c] = [check[c] EXCEPT !.age = check[c].age + 1]
      BY <2>2 DEF Tick
    <3>. QED
      BY <2>2, <3>2, <3>3, <3>4
  <2>. QED
    BY <2>1, <2>2
<1>2. \A g \in Instances, t \in Tokens :
        /\ tokenCache'[g][t] \in 0..TTL
        /\ Cached(g, t)' => Cached(g, t) /\ tokenCache'[g][t] = tokenCache[g][t] + 1
  BY DEF Tick, Cached, SessionsTypeOK
<1>3. \A t \in Tokens :
        /\ endedFor'[t] \in 0..(TTL + Timeout) /\ endedFor'[t] <= endedFor[t] + 1
        /\ session[t] # "ended" => endedFor'[t] = endedFor[t]
  BY DEF Tick, SessionsTypeOK
<1>4. SessionsTypeOK'
  <2>1. tokenCache' \in [Instances -> [Tokens -> 0..TTL]]
    BY <1>2 DEF Tick
  <2>2. endedFor' \in [Tokens -> 0..(TTL + Timeout)]
    BY <1>3 DEF Tick
  <2>3. check' \in [Checks -> [at: CheckStates \cup {"idle"}, guard: Guards \cup {NoGuard},
                               token: Tokens \cup {Absent}, age: 0..Timeout]]
    <3>1. check' = [c \in Checks |-> check'[c]]
      BY DEF Tick
    <3>. QED
      BY <1>1, <3>1
  <2>. QED
    BY <1>0, <2>1, <2>2, <2>3 DEF SessionsTypeOK
<1>5. OfASession'
  <2>1. \A g \in Instances, t \in Tokens : Cached(g, t)' => session'[t] # Absent
    BY <1>0, <1>2 DEF SessionInv, OfASession
  <2>2. ASSUME NEW c \in Checks, check'[c].at # "idle"
        PROVE  /\ check'[c].guard \in Guards /\ check'[c].token \in Tokens
               /\ session'[check'[c].token] # Absent
    BY <1>0, <1>1, <2>2 DEF SessionInv, OfASession
  <2>. QED
    BY <2>1, <2>2 DEF OfASession
<1>6. YesIsOld'
  <2>1. \A t \in Tokens : session[t] # "ended" => endedFor[t] = 0
    BY DEF SessionInv, YesIsOld
  <2>2. ASSUME NEW c \in Checks, check'[c].at = "yes"
        PROVE  endedFor'[check'[c].token] <= check'[c].age
    <3>0. check[c].at = "yes" /\ check[c].at # "idle"
      BY <1>1, <2>2
    <3>1. /\ check[c].token \in Tokens /\ check'[c].token = check[c].token
          /\ check'[c].age = check[c].age + 1 /\ endedFor[check[c].token] <= check[c].age
          /\ check[c].age \in Nat
      <4>1. check[c].age \in Nat
        BY CheckType
      <4>2. check[c].token \in Tokens
        BY <3>0 DEF SessionInv, OfASession
      <4>3. endedFor[check[c].token] <= check[c].age
        BY <3>0 DEF SessionInv, YesIsOld
      <4>. QED
        BY <1>1, <3>0, <4>1, <4>2, <4>3
    <3>2. endedFor[check[c].token] \in Nat /\ endedFor'[check[c].token] \in Nat
          /\ endedFor'[check[c].token] <= endedFor[check[c].token] + 1
      BY <1>3, <3>1 DEF SessionsTypeOK
    <3>. QED
      BY <3>1, <3>2
  <2>3. ASSUME NEW g \in Instances, NEW t \in Tokens, Cached(g, t)'
        PROVE  endedFor'[t] <= tokenCache'[g][t] + Timeout
    <3>1. /\ endedFor[t] <= tokenCache[g][t] + Timeout /\ tokenCache'[g][t] = tokenCache[g][t] + 1
          /\ endedFor'[t] <= endedFor[t] + 1
      BY <1>2, <1>3, <2>3 DEF SessionInv, YesIsOld
    <3>2. endedFor[t] \in Nat /\ endedFor'[t] \in Nat /\ tokenCache[g][t] \in Nat
      BY <1>3 DEF SessionsTypeOK
    <3>. QED
      BY <3>1, <3>2
  <2>. QED
    BY <1>0, <1>3, <2>1, <2>2, <2>3 DEF YesIsOld
<1>. QED
  BY <1>4, <1>5, <1>6 DEF SessionInv

\* Steps that only take checks on, or away.
LEMMA CheckMoves ==
  ASSUME SessionInv, NEW c \in Checks,
         UNCHANGED <<session, endedFor, tokenCache, out>>,
         check' \in [Checks -> [at: CheckStates \cup {"idle"}, guard: Guards \cup {NoGuard},
                                token: Tokens \cup {Absent}, age: 0..Timeout]],
         \A d \in Checks \ {c} : check'[d] = check[d],
         \/ check'[c].at = "idle"
         \/ /\ check[c].at \in {"asking", "yes"} /\ check'[c].at \in {"yes", "no"}
            /\ check'[c].guard = check[c].guard /\ check'[c].token = check[c].token
            /\ check'[c].age = check[c].age
            /\ check'[c].at = "yes" => session[check[c].token] = "live"
  PROVE  SessionInv'
<1>. SessionsTypeOK /\ TTL \in Nat /\ Timeout \in Nat
  BY SessionsAssumption DEF SessionInv
<1>1. SessionsTypeOK'
  BY DEF SessionsTypeOK
<1>2. OfASession'
  <2>1. \A g \in Instances, t \in Tokens : Cached(g, t)' => session'[t] # Absent
    BY DEF SessionInv, OfASession, Cached
  <2>2. ASSUME NEW d \in Checks, check'[d].at # "idle"
        PROVE  /\ check'[d].guard \in Guards /\ check'[d].token \in Tokens
               /\ session'[check'[d].token] # Absent
    <3>1. CASE d # c
      <4>1. check'[d] = check[d] /\ check[d].at # "idle"
        BY <2>2, <3>1
      <4>. QED
        BY <4>1 DEF SessionInv, OfASession
    <3>2. CASE d = c
      <4>1. /\ check[c].at # "idle" /\ check'[c].at # "signed out"
            /\ check'[c].guard = check[c].guard /\ check'[c].token = check[c].token
        BY <2>2, <3>2
      <4>. QED
        BY <3>2, <4>1 DEF SessionInv, OfASession
    <3>. QED
      BY <3>1, <3>2
  <2>. QED
    BY <2>1, <2>2 DEF OfASession
<1>3. YesIsOld'
  <2>1. \A d \in Checks : check'[d].at = "yes" => endedFor'[check'[d].token] <= check'[d].age
    <3>1. CASE check'[c].at = "yes"
      <4>1. check[c].token \in Tokens /\ session[check[c].token] # "ended"
        BY <3>1 DEF SessionInv, OfASession
      <4>2. endedFor[check[c].token] = 0
        BY <4>1 DEF SessionInv, YesIsOld
      <4>3. check[c].age >= 0
        BY CheckType
      <4>. QED
        BY <3>1, <4>2, <4>3 DEF SessionInv, YesIsOld
    <3>2. CASE check'[c].at # "yes"
      BY <3>2 DEF SessionInv, YesIsOld
    <3>. QED
      BY <3>1, <3>2
  <2>. QED
    BY <2>1 DEF SessionInv, YesIsOld, Cached
<1>. QED
  BY <1>1, <1>2, <1>3 DEF SessionInv

LEMMA GuardKeeps ==
  ASSUME SessionInv, NEW c \in Checks, GetUser(c) \/ GetUserFails(c) \/ SignOutFails(c)
  PROVE  SessionInv'
<1>. SessionsTypeOK
  BY DEF SessionInv
<1>1. CASE GetUser(c)
  <2>1. PICK at \in {"yes", "no"} : Reply(c, at) /\ (at = "yes" => session[check[c].token] = "live")
    BY <1>1 DEF GetUser
  <2>. QED
    BY <1>1, <2>1, ReplyMeans, CheckMoves DEF GetUser, CheckStates
<1>2. CASE GetUserFails(c)
  <2>1. Reply(c, "no") /\ "no" \in CheckStates
    BY <1>2 DEF GetUserFails, CheckStates
  <2>. QED
    BY <1>2, <2>1, ReplyMeans, CheckMoves DEF GetUserFails
<1>3. CASE SignOutFails(c)
  BY <1>3, EndMeans, CheckMoves DEF SignOutFails
<1>. QED
  BY <1>1, <1>2, <1>3

LEMMA ResolveKeeps ==
  ASSUME SessionInv, NEW c \in Checks, NEW g \in Guards, NEW t \in Tokens,
         ResolveUserId(c, g, t)
  PROVE  SessionInv'
<1>. SessionsTypeOK
  BY DEF SessionInv
<1>1. /\ session[t] # Absent /\ BeginCheck(c, g, t, "asking") /\ check[c].at = "idle"
      /\ UNCHANGED <<session, endedFor, tokenCache, out>>
  BY DEF ResolveUserId
<1>2. /\ check' \in [Checks -> [at: CheckStates \cup {"idle"}, guard: Guards \cup {NoGuard},
                                token: Tokens \cup {Absent}, age: 0..Timeout]]
      /\ check'[c].at = "asking" /\ check'[c].guard = g /\ check'[c].token = t
      /\ \A d \in Checks \ {c} : check'[d] = check[d]
  BY <1>1, BeginMeans DEF CheckStates
<1>3. SessionsTypeOK'
  BY <1>1, <1>2 DEF SessionsTypeOK
<1>4. OfASession'
  <2>1. \A i \in Instances, s \in Tokens : Cached(i, s)' => session'[s] # Absent
    BY <1>1 DEF SessionInv, OfASession, Cached
  <2>2. ASSUME NEW d \in Checks, check'[d].at # "idle"
        PROVE  /\ check'[d].guard \in Guards /\ check'[d].token \in Tokens
               /\ session'[check'[d].token] # Absent
    <3>1. CASE d # c
      BY <1>1, <1>2, <2>2, <3>1 DEF SessionInv, OfASession
    <3>2. CASE d = c
      BY <1>1, <1>2, <3>2
    <3>. QED
      BY <3>1, <3>2
  <2>. QED
    BY <2>1, <2>2 DEF OfASession
<1>5. YesIsOld'
  <2>1. \A d \in Checks : check'[d].at = "yes" => endedFor'[check'[d].token] <= check'[d].age
    BY <1>1, <1>2 DEF SessionInv, YesIsOld
  <2>. QED
    BY <1>1, <2>1 DEF SessionInv, YesIsOld, Cached
<1>. QED
  BY <1>3, <1>4, <1>5 DEF SessionInv

\* A yes that is put into the cache was on its way for the timeout at most.
LEMMA ResolvedKeeps ==
  ASSUME SessionInv, NEW c \in Checks, Resolved(c)
  PROVE  SessionInv'
<1>. SessionsTypeOK /\ TTL \in Nat \ {0} /\ Timeout \in Nat
  BY SessionsAssumption DEF SessionInv
<1>0. PICK g \in Instances, t \in Tokens :
        g = check[c].guard /\ t = check[c].token /\ session[t] # Absent
  BY DEF Resolved, SessionInv, OfASession, Guards, Instances
<1>a. PICK left \in 0..TTL : left = IF check[c].at = "yes" THEN 0 ELSE TTL
  OBVIOUS
<1>1. /\ left = IF check[c].at = "yes" THEN 0 ELSE TTL
      /\ check[c].at \in {"yes", "no"} /\ EndCheck(c)
      /\ tokenCache' = [tokenCache EXCEPT ![g][t] = left]
      /\ UNCHANGED <<session, endedFor, out>>
  BY <1>0, <1>a DEF Resolved
<1>2. session[t] # Absent
  BY <1>0
<1>4. /\ tokenCache' \in [Instances -> [Tokens -> 0..TTL]] /\ tokenCache'[g][t] = left
      /\ \A i \in Instances, s \in Tokens : i # g \/ s # t => tokenCache'[i][s] = tokenCache[i][s]
  BY <1>1, <1>2 DEF SessionsTypeOK
<1>5. /\ check' \in [Checks -> [at: CheckStates \cup {"idle"}, guard: Guards \cup {NoGuard},
                                token: Tokens \cup {Absent}, age: 0..Timeout]]
      /\ check'[c].at = "idle" /\ \A d \in Checks \ {c} : check'[d] = check[d]
  BY <1>1, EndMeans
<1>6. check[c].at = "yes" => endedFor[t] <= Timeout
  <2>1. check[c].age \in 0..Timeout
    BY CheckType
  <2>2. endedFor[t] \in Nat
    BY DEF SessionsTypeOK
  <2>3. check[c].at = "yes" => endedFor[t] <= check[c].age
    BY <1>0 DEF SessionInv, YesIsOld
  <2>. QED
    BY <2>1, <2>2, <2>3
<1>7. \A i \in Instances, s \in Tokens :
        Cached(i, s)' => \/ Cached(i, s) /\ tokenCache'[i][s] = tokenCache[i][s]
                         \/ i = g /\ s = t /\ check[c].at = "yes" /\ tokenCache'[i][s] = 0
  <2>1. Cached(g, t)' => check[c].at = "yes" /\ left = 0
    <3>1. Cached(g, t)' <=> left < TTL
      BY <1>4 DEF Cached
    <3>2. ~(TTL < TTL)
      OBVIOUS
    <3>3. CASE check[c].at # "yes"
      BY <1>1, <3>1, <3>2, <3>3, Zenon
    <3>4. CASE check[c].at = "yes"
      BY <1>1, <3>4
    <3>. QED
      BY <3>3, <3>4
  <2>. QED
    BY <1>4, <2>1 DEF Cached
<1>8. SessionsTypeOK'
  BY <1>1, <1>4, <1>5 DEF SessionsTypeOK
<1>9. OfASession'
  <2>1. \A i \in Instances, s \in Tokens : Cached(i, s)' => session'[s] # Absent
    BY <1>1, <1>2, <1>7 DEF SessionInv, OfASession
  <2>2. ASSUME NEW d \in Checks, check'[d].at # "idle"
        PROVE  /\ check'[d].guard \in Guards /\ check'[d].token \in Tokens
               /\ session'[check'[d].token] # Absent
    BY <1>1, <1>5, <2>2 DEF SessionInv, OfASession
  <2>. QED
    BY <2>1, <2>2 DEF OfASession
<1>10. YesIsOld'
  <2>1. \A d \in Checks : check'[d].at = "yes" => endedFor'[check'[d].token] <= check'[d].age
    BY <1>1, <1>5 DEF SessionInv, YesIsOld
  <2>2. \A i \in Instances, s \in Tokens :
          Cached(i, s)' => endedFor'[s] <= tokenCache'[i][s] + Timeout
    BY <1>1, <1>6, <1>7 DEF SessionInv, YesIsOld
  <2>. QED
    BY <1>1, <2>1, <2>2 DEF SessionInv, YesIsOld
<1>. QED
  BY <1>8, <1>9, <1>10 DEF SessionInv

LEMMA LogoutKeeps ==
  ASSUME SessionInv, NEW c \in Checks, NEW w \in Workers, NEW t \in Tokens,
         LogoutRequest(c, w, t)
  PROVE  SessionInv'
<1>. SessionsTypeOK /\ TTL \in Nat \ {0} /\ Timeout \in Nat
  BY SessionsAssumption DEF SessionInv
<1>0. PICK g \in Instances : g = <<w, Provider>>
  BY DEF Instances
<1>a. PICK auth \in Guards : auth = <<w, AuthModule>> /\ auth \in Instances
  <2>1. <<w, AuthModule>> \in Guards /\ <<w, AuthModule>> \in Instances
    BY SessionsAssumption DEF Guards, Instances
  <2>. QED
    BY <2>1, Zenon
<1>1. /\ Cached(auth, t) /\ BeginCheck(c, auth, t, "signing out")
      /\ tokenCache' = [tokenCache EXCEPT ![g][t] = TTL]
      /\ UNCHANGED <<session, endedFor, out>>
  BY <1>0, <1>a DEF LogoutRequest, invalidateToken
<1>2. session[t] # Absent
  BY <1>1, <1>a DEF SessionInv, OfASession
<1>3. /\ tokenCache' \in [Instances -> [Tokens -> 0..TTL]] /\ tokenCache'[g][t] = TTL
      /\ \A i \in Instances, s \in Tokens : i # g \/ s # t => tokenCache'[i][s] = tokenCache[i][s]
  <2>1. TTL \in 0..TTL
    OBVIOUS
  <2>. QED
    BY <1>1, <2>1 DEF SessionsTypeOK
<1>4. /\ check' \in [Checks -> [at: CheckStates \cup {"idle"}, guard: Guards \cup {NoGuard},
                                token: Tokens \cup {Absent}, age: 0..Timeout]]
      /\ check'[c].at = "signing out" /\ check'[c].guard = auth /\ check'[c].token = t
      /\ \A d \in Checks \ {c} : check'[d] = check[d]
  BY <1>1, BeginMeans DEF CheckStates
<1>5. /\ ~Cached(g, t)'
      /\ \A i \in Instances, s \in Tokens :
           Cached(i, s)' => Cached(i, s) /\ tokenCache'[i][s] = tokenCache[i][s]
  <2>1. ~Cached(g, t)'
    <3>1. ~(TTL < TTL)
      OBVIOUS
    <3>. QED
      BY <1>3, <3>1 DEF Cached
  <2>. QED
    BY <1>3, <2>1 DEF Cached
<1>6. SessionsTypeOK'
  BY <1>1, <1>3, <1>4 DEF SessionsTypeOK
<1>7. OfASession'
  <2>1. \A i \in Instances, s \in Tokens : Cached(i, s)' => session'[s] # Absent
    BY <1>1, <1>5 DEF SessionInv, OfASession
  <2>2. ASSUME NEW d \in Checks, check'[d].at # "idle"
        PROVE  /\ check'[d].guard \in Guards /\ check'[d].token \in Tokens
               /\ session'[check'[d].token] # Absent
    <3>1. CASE d # c
      <4>1. check'[d] = check[d] /\ check[d].at # "idle"
        BY <1>4, <2>2, <3>1
      <4>. QED
        BY <1>1, <4>1 DEF SessionInv, OfASession
    <3>2. CASE d = c
      BY <1>1, <1>2, <1>4, <3>2
    <3>. QED
      BY <3>1, <3>2
  <2>. QED
    BY <2>1, <2>2 DEF OfASession
<1>8. YesIsOld'
  <2>1. \A d \in Checks : check'[d].at = "yes" => endedFor'[check'[d].token] <= check'[d].age
    BY <1>1, <1>4 DEF SessionInv, YesIsOld
  <2>2. \A i \in Instances, s \in Tokens :
          Cached(i, s)' => endedFor'[s] <= tokenCache'[i][s] + Timeout
    BY <1>1, <1>5 DEF SessionInv, YesIsOld
  <2>. QED
    BY <1>1, <2>1, <2>2 DEF SessionInv, YesIsOld
<1>. QED
  BY <1>6, <1>7, <1>8 DEF SessionInv

LEMMA SignOutKeeps ==
  ASSUME SessionInv, NEW c \in Checks, SignOut(c)
  PROVE  SessionInv'
<1>. SessionsTypeOK
  BY DEF SessionInv
<1>1. /\ check[c].at = "signing out" /\ Reply(c, "signed out")
      /\ UNCHANGED <<endedFor, tokenCache, out>>
  BY DEF SignOut
<1>2. /\ session' \in [Tokens -> {Absent, "live", "ended"}]
      /\ \A t \in Tokens : /\ session[t] = "ended" => session'[t] = "ended"
                           /\ session[t] # Absent => session'[t] = "ended"
                           /\ session'[t] # "ended" => session[t] # "ended"
  BY DEF SignOut, SessionsTypeOK
<1>3. /\ check' \in [Checks -> [at: CheckStates \cup {"idle"}, guard: Guards \cup {NoGuard},
                                token: Tokens \cup {Absent}, age: 0..Timeout]]
      /\ check'[c].at = "signed out" /\ check'[c].guard = check[c].guard
      /\ check'[c].token = check[c].token
      /\ \A d \in Checks \ {c} : check'[d] = check[d]
  BY <1>1, ReplyMeans DEF CheckStates
<1>4. "ended" # Absent
  BY DEF Absent
<1>5. SessionsTypeOK'
  BY <1>1, <1>2, <1>3 DEF SessionsTypeOK
<1>6. OfASession'
  <2>1. \A i \in Instances, s \in Tokens : Cached(i, s)' => session'[s] # Absent
    BY <1>1, <1>2, <1>4 DEF SessionInv, OfASession, Cached
  <2>2. ASSUME NEW d \in Checks, check'[d].at # "idle"
        PROVE  /\ check'[d].guard \in Guards /\ check'[d].token \in Tokens
               /\ session'[check'[d].token] # Absent
    <3>1. /\ check[d].at # "idle" /\ check'[d].guard = check[d].guard
          /\ check'[d].token = check[d].token
      <4>1. CASE d = c
        BY <1>1, <1>3, <4>1
      <4>2. CASE d # c
        BY <1>3, <2>2, <4>2
      <4>. QED
        BY <4>1, <4>2
    <3>2. check[d].guard \in Guards /\ check[d].token \in Tokens /\ session[check[d].token] # Absent
      BY <3>1 DEF SessionInv, OfASession
    <3>3. session'[check[d].token] = "ended"
      BY <1>2, <3>2
    <3>. QED
      BY <1>4, <3>1, <3>2, <3>3
  <2>. QED
    BY <2>1, <2>2 DEF OfASession
<1>7. YesIsOld'
  <2>1. \A d \in Checks : check'[d].at = "yes" => endedFor'[check'[d].token] <= check'[d].age
    BY <1>1, <1>3 DEF SessionInv, YesIsOld
  <2>2. \A t \in Tokens : session'[t] # "ended" => endedFor'[t] = 0
    BY <1>1, <1>2 DEF SessionInv, YesIsOld
  <2>. QED
    BY <1>1, <2>1, <2>2 DEF SessionInv, YesIsOld, Cached
<1>. QED
  BY <1>5, <1>6, <1>7 DEF SessionInv

LEMMA LoggedOutKeeps ==
  ASSUME SessionInv, NEW c \in Checks, LoggedOut(c)
  PROVE  SessionInv'
<1>. SessionsTypeOK
  BY DEF SessionInv
<1>1. PICK w \in Workers, t \in Tokens : w = check[c].guard[1] /\ t = check[c].token
  BY DEF LoggedOut, SessionInv, OfASession, Guards
<1>2. /\ check[c].at = "signed out" /\ EndCheck(c) /\ out' = out \cup {<<w, t>>}
      /\ UNCHANGED <<session, endedFor, tokenCache>>
  BY <1>1 DEF LoggedOut
<1>4. /\ check' \in [Checks -> [at: CheckStates \cup {"idle"}, guard: Guards \cup {NoGuard},
                                token: Tokens \cup {Absent}, age: 0..Timeout]]
      /\ check'[c].at = "idle" /\ \A d \in Checks \ {c} : check'[d] = check[d]
  BY <1>2, EndMeans
<1>5. SessionsTypeOK'
  <2>1. out' \subseteq Workers \X Tokens
    <3>1. <<w, t>> \in Workers \X Tokens /\ out \subseteq Workers \X Tokens
      BY DEF SessionsTypeOK
    <3>. QED
      BY <1>2, <3>1, Zenon
  <2>. QED
    BY <1>2, <1>4, <2>1 DEF SessionsTypeOK
<1>6. OfASession'
  <2>1. \A i \in Instances, s \in Tokens : Cached(i, s)' => session'[s] # Absent
    BY <1>2 DEF SessionInv, OfASession, Cached
  <2>2. ASSUME NEW d \in Checks, check'[d].at # "idle"
        PROVE  /\ check'[d].guard \in Guards /\ check'[d].token \in Tokens
               /\ session'[check'[d].token] # Absent
    BY <1>2, <1>4, <2>2 DEF SessionInv, OfASession
  <2>. QED
    BY <2>1, <2>2 DEF OfASession
<1>7. YesIsOld'
  BY <1>2, <1>4 DEF SessionInv, YesIsOld, Cached
<1>. QED
  BY <1>5, <1>6, <1>7 DEF SessionInv

LEMMA RestartKeeps ==
  ASSUME SessionInv, NEW w \in Workers, Restart(w)
  PROVE  SessionInv'
<1>. SessionsTypeOK /\ TTL \in Nat \ {0} /\ Timeout \in Nat
  BY SessionsAssumption DEF SessionInv
<1>1. UNCHANGED <<session, endedFor, out>>
  BY DEF Restart
<1>2. /\ tokenCache' \in [Instances -> [Tokens -> 0..TTL]]
      /\ \A i \in Instances, s \in Tokens :
           tokenCache'[i][s] = IF i[1] = w THEN TTL ELSE tokenCache[i][s]
  BY DEF Restart, SessionsTypeOK
<1>3. \A i \in Instances, s \in Tokens :
        Cached(i, s)' => Cached(i, s) /\ tokenCache'[i][s] = tokenCache[i][s]
  <2>1. ~(TTL < TTL)
    OBVIOUS
  <2>. QED
    BY <1>2, <2>1 DEF Cached
<1>4. \A d \in Checks : \/ check'[d] = IdleCheck /\ check'[d].at = "idle"
                        \/ check'[d] = check[d]
  BY DEF Restart, IdleCheck
<1>5. check' \in [Checks -> [at: CheckStates \cup {"idle"}, guard: Guards \cup {NoGuard},
                             token: Tokens \cup {Absent}, age: 0..Timeout]]
  BY CheckType DEF Restart, SessionsTypeOK
<1>6. SessionsTypeOK'
  BY <1>1, <1>2, <1>5 DEF SessionsTypeOK
<1>7. OfASession'
  <2>1. \A i \in Instances, s \in Tokens : Cached(i, s)' => session'[s] # Absent
    BY <1>1, <1>3 DEF SessionInv, OfASession
  <2>2. ASSUME NEW d \in Checks, check'[d].at # "idle"
        PROVE  /\ check'[d].guard \in Guards /\ check'[d].token \in Tokens
               /\ session'[check'[d].token] # Absent
    <3>1. check'[d] = check[d]
      BY <1>4, <2>2
    <3>. QED
      BY <1>1, <2>2, <3>1 DEF SessionInv, OfASession
  <2>. QED
    BY <2>1, <2>2 DEF OfASession
<1>8. YesIsOld'
  <2>1. \A d \in Checks : check'[d].at = "yes" => endedFor'[check'[d].token] <= check'[d].age
    BY <1>1, <1>4 DEF SessionInv, YesIsOld
  <2>. QED
    BY <1>1, <1>3, <2>1 DEF SessionInv, YesIsOld
<1>. QED
  BY <1>6, <1>7, <1>8 DEF SessionInv

LEMMA SessionsInitInv == SessionsInit => SessionInv
<1>. SUFFICES ASSUME SessionsInit PROVE SessionInv
  OBVIOUS
<1>1. TTL \in Nat /\ Timeout \in Nat
  BY SessionsAssumption
<1>2. /\ \A c \in Checks : check[c].at = "idle"
      /\ \A g \in Instances, t \in Tokens : ~Cached(g, t)
      /\ out = {} /\ \A t \in Tokens : endedFor[t] = 0
  <2>1. ~(TTL < TTL)
    BY <1>1
  <2>. QED
    BY <2>1 DEF SessionsInit, IdleCheck, Cached
<1>3. SessionsTypeOK
  <2>1. IdleCheck \in [at: CheckStates \cup {"idle"}, guard: Guards \cup {NoGuard},
                       token: Tokens \cup {Absent}, age: 0..Timeout]
    BY <1>1 DEF IdleCheck
  <2>. QED
    BY <1>1, <2>1 DEF SessionsInit, SessionsTypeOK
<1>4. OfASession /\ YesIsOld
  BY <1>2 DEF OfASession, YesIsOld
<1>. QED
  BY <1>3, <1>4 DEF SessionInv

LEMMA SessionsNextInv == SessionInv /\ [SessionsNext]_sessionVars => SessionInv'
<1>. SUFFICES ASSUME SessionInv, [SessionsNext]_sessionVars PROVE SessionInv'
  OBVIOUS
<1>1. CASE UNCHANGED sessionVars
  BY <1>1 DEF sessionVars, SessionInv, SessionsTypeOK, OfASession, YesIsOld, Cached
<1>2. CASE SessionsNext
  BY <1>2, TickKeeps, LoginKeeps, ExpireKeeps, ResolveKeeps, LogoutKeeps, GuardKeeps,
     ResolvedKeeps, SignOutKeeps, LoggedOutKeeps, RestartKeeps DEF SessionsNext
<1>. QED
  BY <1>1, <1>2

\* In any number of guards and workers, for sessions of any number, a session
\* that is over, by a logout or otherwise, is refused by every guard once the time
\* to live and the client's timeout have passed (JwtAuthGuard.resolveUserId).
THEOREM EndedSessionsAreRefused == SessionsSpec => []EndedIsRefused
<1>1. SessionInv => EndedIsRefused
  <2>. SUFFICES ASSUME SessionInv, NEW g \in Instances, NEW t \in Tokens,
                       session[t] = "ended", Cached(g, t)
                PROVE  endedFor[t] < TTL + Timeout
    BY DEF EndedIsRefused
  <2>1. endedFor[t] <= tokenCache[g][t] + Timeout
    BY DEF SessionInv, YesIsOld
  <2>2. /\ endedFor[t] \in Nat /\ tokenCache[g][t] \in Nat /\ TTL \in Nat /\ Timeout \in Nat
        /\ tokenCache[g][t] < TTL
    BY SessionsAssumption DEF SessionInv, SessionsTypeOK, Cached
  <2>. QED
    BY <2>1, <2>2
<1>. QED
  BY <1>1, SessionsInitInv, SessionsNextInv, PTL DEF SessionsSpec

-----------------------------------------------------------------------------
(* Sites: which verification the row of a domain tells of.                 *)

\* A row without ads.txt columns comes from an ad request.  Of the ad requests
\* that may still write over a row with them, each is known to have found no
\* verified row when ads.txt was verified.
SiteInv ==
  /\ site \in SiteRows \cup {NoSite}
  /\ ping \in [Pings -> {"unused", "started", "unverified", "done"}]
  /\ passed \subseteq Pings
  /\ AdsTxtIsKept
  /\ site # NoSite /\ ~site.adsTxt => site.method = "AD_SNIPPET"
  /\ site # NoSite /\ site.adsTxt => {p \in Pings : ping[p] = "unverified"} \subseteq passed

LEMMA SiteKept ==
  ASSUME SiteInv, UNCHANGED <<site, passed>>,
         ping' \in [Pings -> {"unused", "started", "unverified", "done"}],
         \A p \in Pings : ping[p] = "done" => ping'[p] = "done",
         site # NoSite => \A p \in Pings : ping'[p] = "unverified" => ping[p] = "unverified"
  PROVE  SiteInv'
<1>1. AdsTxtIsKept'
  BY DEF SiteInv, AdsTxtIsKept
<1>. QED
  BY <1>1 DEF SiteInv

LEMMA ValidateDomainKeeps ==
  ASSUME SiteInv, NEW s \in Submissions, ValidateDomain(s)
  PROVE  SiteInv'
<1>1. /\ site' = [method |-> "ADS_TXT", adsTxt |-> TRUE,
                  status |-> IF site = NoSite THEN "ACTIVE" ELSE site.status]
      /\ passed' = {p \in Pings : ping[p] = "unverified"} /\ UNCHANGED ping
  BY DEF ValidateDomain
<1>2. (IF site = NoSite THEN "ACTIVE" ELSE site.status) \in {"ACTIVE", "INACTIVE"}
  BY DEF SiteInv, SiteRows
<1>3. site' \in SiteRows /\ site'.adsTxt = TRUE /\ site'.method = "ADS_TXT"
  BY <1>1, <1>2 DEF SiteRows
<1>4. AdsTxtIsKept'
  BY <1>3 DEF AdsTxtIsKept
<1>. QED
  BY <1>1, <1>3, <1>4 DEF SiteInv

\* The one step that takes a row with ads.txt columns to AD_SNIPPET.
LEMMA RequestHeaderKeeps ==
  ASSUME SiteInv, NEW p \in Pings, VerifyFromRequestHeader(p)
  PROVE  SiteInv'
<1>1. /\ ping[p] = "unverified" /\ ping' = [ping EXCEPT ![p] = "done"] /\ UNCHANGED passed
  BY DEF VerifyFromRequestHeader
<1>2. /\ ping' \in [Pings -> {"unused", "started", "unverified", "done"}] /\ ping'[p] = "done"
      /\ \A q \in Pings : ping'[q] = "unverified" => ping[q] = "unverified"
  BY <1>1 DEF SiteInv
<1>3. CASE site = NoSite
  <2>1. site' = [method |-> "AD_SNIPPET", adsTxt |-> FALSE, status |-> "ACTIVE"]
    BY <1>3 DEF VerifyFromRequestHeader
  <2>2. site' \in SiteRows /\ site'.adsTxt = FALSE /\ site'.method = "AD_SNIPPET"
    BY <2>1 DEF SiteRows
  <2>3. AdsTxtIsKept'
    BY <2>2 DEF AdsTxtIsKept
  <2>. QED
    BY <1>1, <1>2, <2>2, <2>3 DEF SiteInv
<1>4. CASE site # NoSite
  <2>1. site' = [site EXCEPT !.method = "AD_SNIPPET"] /\ site \in SiteRows
    BY <1>4 DEF VerifyFromRequestHeader, SiteInv
  <2>2. site' \in SiteRows /\ site'.adsTxt = site.adsTxt /\ site'.method = "AD_SNIPPET"
    BY <2>1 DEF SiteRows
  <2>3. site.adsTxt => p \in passed
    BY <1>1, <1>4 DEF SiteInv
  <2>4. CASE site.adsTxt
    <3>1. \E q \in passed' : ping'[q] = "done"
      BY <1>1, <1>2, <2>3, <2>4
    <3>. QED
      BY <1>1, <1>2, <1>4, <2>2, <3>1 DEF SiteInv, AdsTxtIsKept
  <2>5. CASE ~site.adsTxt
    <3>1. site'.adsTxt = FALSE
      BY <2>1, <2>2, <2>5 DEF SiteRows
    <3>. QED
      BY <1>1, <1>2, <2>2, <3>1 DEF SiteInv, AdsTxtIsKept
  <2>. QED
    BY <2>4, <2>5
<1>. QED
  BY <1>3, <1>4

LEMMA UpdateStatusKeeps ==
  ASSUME SiteInv, UpdateSiteStatus
  PROVE  SiteInv'
<1>1. PICK status \in {"ACTIVE", "INACTIVE"} : site' = [site EXCEPT !.status = status]
  BY DEF UpdateSiteStatus
<1>2. site \in SiteRows /\ site # NoSite /\ UNCHANGED <<ping, passed>>
  BY DEF UpdateSiteStatus, SiteInv
<1>3. site' \in SiteRows /\ site'.adsTxt = site.adsTxt /\ site'.method = site.method
  BY <1>1, <1>2 DEF SiteRows
<1>. QED
  BY <1>2, <1>3 DEF SiteInv, AdsTxtIsKept

LEMMA SitesNextKeeps ==
  ASSUME SiteInv, [SitesNext]_siteVars
  PROVE  SiteInv'
<1>1. CASE UNCHANGED siteVars
  BY <1>1 DEF siteVars, SiteInv, AdsTxtIsKept
<1>2. ASSUME NEW s \in Submissions,
             \/ SubmitWebsite(s) \/ FetchAdsTxt(s) \/ Added(s) \/ GiveUp(s)
             \/ \E f \in Formats : CreateZone(s, f)
      PROVE  SiteInv'
  <2>1. UNCHANGED <<site, ping, passed>>
    BY <1>2 DEF SubmitWebsite, FetchAdsTxt, Added, GiveUp, CreateZone
  <2>. QED
    BY <2>1 DEF SiteInv, AdsTxtIsKept
<1>3. ASSUME NEW s \in Submissions, ValidateDomain(s)
      PROVE  SiteInv'
  BY <1>3, ValidateDomainKeeps
<1>4. ASSUME NEW p \in Pings, Serve(p) \/ FindSite(p) \/ VerificationFails(p)
      PROVE  SiteInv'
  <2>1. PICK to \in {"started", "unverified", "done"} :
          /\ ping' = [ping EXCEPT ![p] = to] /\ ping[p] # "done"
          /\ to = "unverified" => site = NoSite
    BY <1>4 DEF Serve, FindSite, VerificationFails, AlreadyVerified
  <2>2. UNCHANGED <<site, passed>>
    BY <1>4 DEF Serve, FindSite, VerificationFails
  <2>3. ping \in [Pings -> {"unused", "started", "unverified", "done"}]
    BY DEF SiteInv
  <2>4. /\ ping' \in [Pings -> {"unused", "started", "unverified", "done"}]
        /\ \A q \in Pings : ping[q] = "done" => ping'[q] = "done"
        /\ site # NoSite => \A q \in Pings : ping'[q] = "unverified" => ping[q] = "unverified"
    BY <2>1, <2>3
  <2>. QED
    BY <2>2, <2>4, SiteKept
<1>5. ASSUME NEW p \in Pings, VerifyFromRequestHeader(p)
      PROVE  SiteInv'
  BY <1>5, RequestHeaderKeeps DEF VerifyFromRequestHeader
<1>6. CASE UpdateSiteStatus
  BY <1>6, UpdateStatusKeeps DEF UpdateSiteStatus
<1>. QED
  BY <1>1, <1>2, <1>3, <1>4, <1>5, <1>6 DEF SitesNext

\* However ads.txt submissions and ad requests of the domain overlap, the row's
\* ads.txt columns tell of its method, but for an ad request that had looked for
\* a row before (validateDomain against verifyFromRequestHeader).
THEOREM AdsTxtStaysWithItsMethod == SitesSpec => []AdsTxtIsKept
<1>1. SitesInit => SiteInv
  BY DEF SitesInit, SiteInv, AdsTxtIsKept
<1>2. SiteInv => AdsTxtIsKept
  BY DEF SiteInv
<1>. QED
  BY <1>1, <1>2, SitesNextKeeps, PTL DEF SitesSpec

-----------------------------------------------------------------------------
(* Signing in: who is shown, and the tokens of the forms.                  *)

\* While a profile is awaited, it was asked for with the cookie that is there;
\* afterwards user and cookie agree, but between a logout's two calls.
IdentityInv ==
  /\ getProfile \in [at: {"none", "sent", "answered"}, user: Visitors \cup {Nobody},
                     failed: BOOLEAN]
  /\ ~apart => /\ getProfile.at # "none" => getProfile.user = cookie
               /\ getProfile.at = "none" /\ leaving # "local" => user = cookie

\* A request whose form is still on the page.
Shown(r, kinds) == request[r].kind \in kinds /\ request[r].at # "done" /\ request[r].mounted

EmailKinds == {"login", "register"}

\* A form's request keeps its page, and another one like it, away.
FormsWait ==
  /\ \A r \in FormRequests :
       /\ Shown(r, EmailKinds) => page \in {"login", "register"}
       /\ Shown(r, {"otp"}) => page \in {"phone", "code"}
       /\ Shown(r, {"forgot"}) => page = "forgot"
       /\ request[r].at = "waiting" => request[r].kind = "register"
       /\ request[r].at = "unused" => request[r].kind = Nobody
  /\ \A r, q \in FormRequests :
       /\ Shown(r, EmailKinds) /\ Shown(q, EmailKinds) => r = q
       /\ Shown(r, {"forgot"}) /\ Shown(q, {"forgot"}) => r = q

\* The form cannot send its token: a request is under way, or it is not shown.
Blocked(form) ==
  \/ form = "email" /\ \E r \in FormRequests : Shown(r, EmailKinds) /\ request[r].at # "waiting"
  \/ form = "phone" /\ (page = "code" \/ \E r \in FormRequests : Shown(r, {"otp"}))
  \/ form = "forgot" /\ (page = "elsewhere" \/ \E r \in FormRequests : Shown(r, {"forgot"}))

\* Every challenge gives a token of its own; a form that still has one it has
\* sent is blocked, or has been brought back by "Use a different number".
UsedTokensWait ==
  /\ sent \subseteq 1..solved
  /\ \A form \in Forms : captcha[form] \in 0..solved
  /\ \A form, other \in Forms :
       captcha[form] # 0 /\ captcha[form] = captcha[other] => form = other
  /\ \A form \in Forms :
       captcha[form] \in sent => captcha[form] \in kept \/ Blocked(form)

RequestRows ==
  [at: {"unused", "sent", "ok", "failed", "waiting", "done"}, kind: Kinds \cup {Nobody},
   user: Visitors \cup {Nobody}, token: 0..MaxTokens, mounted: BOOLEAN]

FormTypes ==
  /\ page \in Pages
  /\ captcha \in [Forms -> 0..MaxTokens] /\ solved \in 0..MaxTokens
  /\ spent \subseteq 1..MaxTokens /\ sent \subseteq 1..MaxTokens
  /\ twice \subseteq 1..MaxTokens /\ kept \subseteq 1..MaxTokens
  /\ request \in [FormRequests -> RequestRows]

TokenInv == FormTypes /\ FormsWait /\ UsedTokensWait /\ TokensAreSentOnce

LEMMA RequestType ==
  ASSUME FormTypes, NEW r \in FormRequests
  PROVE  /\ request[r].at \in {"unused", "sent", "ok", "failed", "waiting", "done"}
         /\ request[r].kind \in Kinds \cup {Nobody} /\ request[r].user \in Visitors \cup {Nobody}
         /\ request[r].token \in 0..MaxTokens /\ request[r].mounted \in BOOLEAN
  BY DEF FormTypes, RequestRows

LEMMA KindsOfForms ==
  /\ Kinds = {"login", "register", "otp", "forgot", "verify", "google"}
  /\ Nobody \notin Kinds
  BY DEF Kinds, Guarded, Nobody

\* Steps of one request.
LEMMA RequestUpdate ==
  ASSUME FormTypes, NEW r \in FormRequests, NEW new \in RequestRows,
         request' = [request EXCEPT ![r] = new]
  PROVE  /\ request' \in [FormRequests -> RequestRows] /\ request'[r] = new
         /\ \A q \in FormRequests \ {r} : request'[q] = request[q]
  BY DEF FormTypes

LEMMA AtUpdate ==
  ASSUME FormTypes, NEW r \in FormRequests,
         NEW at \in {"unused", "sent", "ok", "failed", "waiting", "done"},
         request' = [request EXCEPT ![r].at = at]
  PROVE  /\ request' \in [FormRequests -> RequestRows]
         /\ request'[r].at = at /\ request'[r].kind = request[r].kind
         /\ request'[r].mounted = request[r].mounted
         /\ \A q \in FormRequests \ {r} : request'[q] = request[q]
<1> DEFINE new == [request[r] EXCEPT !.at = at]
<1>1. request[r] \in RequestRows /\ request' = [request EXCEPT ![r] = new]
  BY DEF FormTypes
<1>2. /\ new \in RequestRows /\ new.at = at /\ new.kind = request[r].kind
      /\ new.mounted = request[r].mounted
  BY <1>1 DEF RequestRows
<1> HIDE DEF new
<1>. QED
  BY <1>1, <1>2, RequestUpdate

LEMMA FinishUpdate ==
  ASSUME FormTypes, NEW r \in FormRequests, Finish(r)
  PROVE  /\ request' \in [FormRequests -> RequestRows]
         /\ request'[r].at = "done"
         /\ \A q \in FormRequests \ {r} : request'[q] = request[q]
<1> DEFINE new == [Unused EXCEPT !.at = "done"]
<1>1. request' = [request EXCEPT ![r] = new]
  BY DEF Finish
<1>2. new \in RequestRows /\ new.at = "done"
  <2>1. 0 \in 0..MaxTokens
    BY SignInAssumption
  <2>2. Unused \in RequestRows
    BY <2>1 DEF Unused, RequestRows
  <2>. QED
    BY <2>2 DEF RequestRows
<1> HIDE DEF new
<1>. QED
  BY <1>1, <1>2, RequestUpdate

LEMMA SendUpdate ==
  ASSUME FormTypes, NEW r \in FormRequests, NEW kind \in Kinds, NEW u \in Visitors \cup {Nobody},
         NEW token \in 0..MaxTokens, Send(r, kind, u, token)
  PROVE  /\ request' \in [FormRequests -> RequestRows]
         /\ request'[r].at = "sent" /\ request'[r].kind = kind /\ request'[r].mounted
         /\ \A q \in FormRequests \ {r} : request'[q] = request[q]
<1> DEFINE new == [at |-> "sent", kind |-> kind, user |-> u, token |-> token, mounted |-> TRUE]
<1>1. request' = [request EXCEPT ![r] = new]
  BY DEF Send
<1>2. new \in RequestRows /\ new.at = "sent" /\ new.kind = kind /\ new.mounted
  BY DEF RequestRows
<1> HIDE DEF new
<1>. QED
  BY <1>1, <1>2, RequestUpdate

LEMMA UnmountUpdate ==
  ASSUME FormTypes, NEW forms \in SUBSET Forms, NEW kinds \in SUBSET Kinds, Unmount(forms, kinds)
  PROVE  /\ request' \in [FormRequests -> RequestRows]
         /\ \A r \in FormRequests :
              /\ request'[r].at = request[r].at /\ request'[r].kind = request[r].kind
              /\ request[r].kind \in kinds => ~request'[r].mounted
              /\ request[r].kind \notin kinds => request'[r].mounted = request[r].mounted
         /\ captcha' \in [Forms -> 0..MaxTokens]
         /\ \A form \in Forms : captcha'[form] = IF form \in forms THEN 0 ELSE captcha[form]
<1>1. captcha' = [form \in Forms |-> IF form \in forms THEN 0 ELSE captcha[form]]
  BY DEF Unmount
<1>2. \A form \in Forms : captcha[form] \in 0..MaxTokens /\ 0 \in 0..MaxTokens
  BY SignInAssumption DEF FormTypes
<1>3. request' = [r \in FormRequests |->
        IF request[r].kind \in kinds THEN [request[r] EXCEPT !.mounted = FALSE] ELSE request[r]]
  BY DEF Unmount
<1>4. ASSUME NEW r \in FormRequests
      PROVE  /\ request'[r] \in RequestRows
             /\ request'[r].at = request[r].at /\ request'[r].kind = request[r].kind
             /\ request[r].kind \in kinds => ~request'[r].mounted
             /\ request[r].kind \notin kinds => request'[r].mounted = request[r].mounted
  <2>1. request[r] \in RequestRows
    BY DEF FormTypes
  <2>2. CASE request[r].kind \in kinds
    <3>1. request'[r] = [request[r] EXCEPT !.mounted = FALSE]
      BY <1>3, <2>2
    <3>. QED
      BY <2>1, <2>2, <3>1 DEF RequestRows
  <2>3. CASE request[r].kind \notin kinds
    BY <1>3, <2>1, <2>3
  <2>. QED
    BY <2>2, <2>3
<1>5. request' \in [FormRequests -> RequestRows]
  <2>1. request' = [r \in FormRequests |-> request'[r]]
    BY <1>3
  <2>. QED
    BY <1>4, <2>1
<1>. QED
  BY <1>1, <1>2, <1>4, <1>5

-----------------------------------------------------------------------------

LEMMA FormsUntouched ==
  ASSUME TokenInv,
         UNCHANGED <<page, captcha, solved, spent, request>>, UNCHANGED <<sent, twice, kept>>
  PROVE  TokenInv'
  BY DEF TokenInv, FormTypes, FormsWait, Shown, UsedTokensWait, Blocked, TokensAreSentOnce

\* What no request in sight means.
LEMMA ZeroIsUnsent ==
  ASSUME UsedTokensWait PROVE 0 \notin sent
  BY DEF UsedTokensWait

LEMMA NavigateKeeps ==
  ASSUME TokenInv, Navigate PROVE TokenInv'
<1>. FormTypes
  BY DEF TokenInv
<1>1. /\ page' \in Pages /\ Unmount(Forms, Kinds) /\ UNCHANGED <<solved, spent, sent, twice, kept>>
  BY DEF Navigate, Pages, LoginPages
<1>2. /\ request' \in [FormRequests -> RequestRows]
      /\ \A r \in FormRequests :
           /\ request'[r].at = request[r].at /\ request'[r].kind = request[r].kind
           /\ request[r].kind \in Kinds => ~request'[r].mounted
      /\ captcha' \in [Forms -> 0..MaxTokens] /\ \A form \in Forms : captcha'[form] = 0
  BY <1>1, UnmountUpdate
<1>3. FormTypes'
  BY <1>1, <1>2 DEF FormTypes
<1>4. FormsWait'
  <2>1. EmailKinds \subseteq Kinds /\ {"otp"} \subseteq Kinds /\ {"forgot"} \subseteq Kinds
    BY KindsOfForms DEF EmailKinds
  <2>2. \A r \in FormRequests :
          ~Shown(r, EmailKinds)' /\ ~Shown(r, {"otp"})' /\ ~Shown(r, {"forgot"})'
    BY <1>2, <2>1 DEF Shown
  <2>. QED
    BY <1>2, <2>2 DEF TokenInv, FormsWait
<1>5. UsedTokensWait'
  <2>1. 0 \notin sent'
    BY <1>1, ZeroIsUnsent DEF TokenInv
  <2>2. 0 \in 0..solved'
    BY <1>1 DEF FormTypes
  <2>. QED
    BY <1>1, <1>2, <2>1, <2>2 DEF TokenInv, UsedTokensWait
<1>6. TokensAreSentOnce'
  BY <1>1 DEF TokenInv, TokensAreSentOnce
<1>. QED
  BY <1>3, <1>4, <1>5, <1>6 DEF TokenInv

\* A form that loses its token.
LEMMA ResetMeans ==
  ASSUME FormTypes, NEW form \in Forms, captcha' = [captcha EXCEPT ![form] = 0]
  PROVE  /\ captcha' \in [Forms -> 0..MaxTokens] /\ captcha'[form] = 0
         /\ \A other \in Forms \ {form} : captcha'[other] = captcha[other]
<1>1. 0 \in 0..MaxTokens
  BY SignInAssumption
<1>. QED
  BY <1>1 DEF FormTypes

\* Taking tokens off forms, and blocking others, keeps used tokens waiting.
LEMMA FewerTokens ==
  ASSUME UsedTokensWait, solved \in Nat, UNCHANGED <<sent, solved>>, kept \subseteq kept',
         \A form \in Forms :
           \/ captcha'[form] = 0
           \/ captcha'[form] = captcha[form] /\ (Blocked(form) => Blocked(form)')
           \/ captcha'[form] = captcha[form] /\ (captcha[form] \in sent => captcha[form] \in kept')
  PROVE  UsedTokensWait'
<1>0. \A form \in Forms :
           \/ captcha'[form] = 0
           \/ captcha'[form] = captcha[form] /\ (Blocked(form) => Blocked(form)')
           \/ captcha'[form] = captcha[form] /\ (captcha[form] \in sent => captcha[form] \in kept')
  OBVIOUS
<1>1. 0 \notin sent /\ 0 \in 0..solved
  BY ZeroIsUnsent
<1>2. sent' \subseteq 1..solved' /\ \A form \in Forms : captcha'[form] \in 0..solved'
  BY <1>0, <1>1 DEF UsedTokensWait
<1>3. \A form, other \in Forms :
        captcha'[form] # 0 /\ captcha'[form] = captcha'[other] => form = other
  BY <1>0 DEF UsedTokensWait
<1>4. \A form \in Forms :
        captcha'[form] \in sent' => captcha'[form] \in kept' \/ Blocked(form)'
  BY <1>0, <1>1 DEF UsedTokensWait
<1>. QED
  BY <1>2, <1>3, <1>4 DEF UsedTokensWait

LEMMA SetModeKeeps ==
  ASSUME TokenInv, SetMode PROVE TokenInv'
<1>. FormTypes
  BY DEF TokenInv
<1>1. /\ page \in {"login", "register"} /\ page' \in {"login", "register"}
      /\ ~Pending(EmailKinds) /\ captcha' = [captcha EXCEPT !["email"] = 0]
      /\ UNCHANGED <<solved, spent, request>> /\ UNCHANGED <<sent, twice, kept>>
  BY DEF SetMode, EmailKinds
<1>2. /\ captcha' \in [Forms -> 0..MaxTokens] /\ captcha'["email"] = 0
      /\ \A other \in Forms \ {"email"} : captcha'[other] = captcha[other]
  BY <1>1, ResetMeans DEF Forms
<1>3. FormTypes'
  BY <1>1, <1>2 DEF FormTypes, Pages, LoginPages
<1>4. \A r \in FormRequests : \A kinds : Shown(r, kinds)' <=> Shown(r, kinds)
  BY <1>1 DEF Shown
<1>5. FormsWait'
  BY <1>1, <1>4 DEF TokenInv, FormsWait
<1>6. UsedTokensWait'
  <2>1. Blocked("phone") => Blocked("phone")'
    BY <1>1, <1>4 DEF Blocked
  <2>2. Blocked("forgot") => Blocked("forgot")'
    BY <1>1, <1>4 DEF Blocked
  <2>3. \A form \in Forms :
          \/ captcha'[form] = 0
          \/ captcha'[form] = captcha[form] /\ (Blocked(form) => Blocked(form)')
    BY <1>2, <2>1, <2>2 DEF Forms
  <2>. QED
    BY <1>1, <2>3, FewerTokens DEF TokenInv, FormTypes
<1>7. TokensAreSentOnce'
  BY <1>1 DEF TokenInv, TokensAreSentOnce
<1>. QED
  BY <1>3, <1>5, <1>6, <1>7 DEF TokenInv

LEMMA SetMethodKeeps ==
  ASSUME TokenInv, SetMethod PROVE TokenInv'
<1>. FormTypes
  BY DEF TokenInv
<1>1. /\ page \in LoginPages /\ page' \in {"login", "register", "phone"}
      /\ ~Pending(EmailKinds) /\ Unmount({"phone"}, {"otp", "verify"})
      /\ UNCHANGED <<solved, spent>> /\ UNCHANGED <<sent, twice, kept>>
  BY DEF SetMethod, EmailKinds
<1>2. /\ request' \in [FormRequests -> RequestRows]
      /\ \A r \in FormRequests :
           /\ request'[r].at = request[r].at /\ request'[r].kind = request[r].kind
           /\ request[r].kind \in {"otp", "verify"} => ~request'[r].mounted
           /\ request[r].kind \notin {"otp", "verify"} => request'[r].mounted = request[r].mounted
      /\ captcha' \in [Forms -> 0..MaxTokens]
      /\ \A form \in Forms : captcha'[form] = IF form = "phone" THEN 0 ELSE captcha[form]
  BY <1>1, KindsOfForms, UnmountUpdate DEF Forms
<1>3. FormTypes'
  BY <1>1, <1>2 DEF FormTypes, Pages, LoginPages
<1>4. \A r \in FormRequests :
        /\ ~Shown(r, EmailKinds) /\ ~Shown(r, EmailKinds)'
        /\ ~Shown(r, {"otp"})'
        /\ ~Shown(r, {"forgot"})' /\ ~Shown(r, {"forgot"})
  <2>1. \A r \in FormRequests : ~Shown(r, EmailKinds)
    BY <1>1 DEF Pending, Shown
  <2>2. \A r \in FormRequests : ~Shown(r, {"forgot"})
    BY <1>1 DEF TokenInv, FormsWait, LoginPages
  <2>. QED
    BY <1>2, <2>1, <2>2 DEF Shown, EmailKinds
<1>5. FormsWait'
  BY <1>2, <1>4 DEF TokenInv, FormsWait
<1>6. UsedTokensWait'
  <2>1. ~Blocked("email") /\ ~Blocked("forgot")
    BY <1>1, <1>4 DEF Blocked, LoginPages
  <2>2. \A form \in Forms :
          \/ captcha'[form] = 0
          \/ captcha'[form] = captcha[form] /\ (Blocked(form) => Blocked(form)')
    BY <1>2, <2>1 DEF Forms
  <2>. QED
    BY <1>1, <2>2, FewerTokens DEF TokenInv, FormTypes
<1>7. TokensAreSentOnce'
  BY <1>1 DEF TokenInv, TokensAreSentOnce
<1>. QED
  BY <1>3, <1>5, <1>6, <1>7 DEF TokenInv

-----------------------------------------------------------------------------

\* Nothing about the requests in sight changes.
LEMMA SameShown ==
  ASSUME FormsWait, UNCHANGED request
  PROVE  /\ \A r \in FormRequests : \A kinds \in SUBSET Kinds : Shown(r, kinds)' <=> Shown(r, kinds)
         /\ UNCHANGED page => FormsWait' /\ \A form \in Forms : Blocked(form) => Blocked(form)'
  BY DEF FormsWait, Shown, Blocked

LEMMA DifferentNumberKeeps ==
  ASSUME TokenInv, DifferentNumber PROVE TokenInv'
<1>. FormTypes /\ FormsWait
  BY DEF TokenInv
<1>1. /\ page = "code" /\ page' = "phone"
      /\ kept' = kept \cup ({captcha["phone"]} \cap sent)
      /\ UNCHANGED <<captcha, solved, spent, request>> /\ UNCHANGED <<sent, twice>>
  BY DEF DifferentNumber
<1>2. EmailKinds \subseteq Kinds /\ {"otp"} \subseteq Kinds /\ {"forgot"} \subseteq Kinds
  BY KindsOfForms DEF EmailKinds
<1>3. \A r \in FormRequests :
        /\ Shown(r, EmailKinds)' <=> Shown(r, EmailKinds)
        /\ Shown(r, {"otp"})' <=> Shown(r, {"otp"})
        /\ Shown(r, {"forgot"})' <=> Shown(r, {"forgot"})
  BY <1>1, <1>2 DEF Shown
<1>4. FormTypes'
  <2>1. kept' \subseteq 1..MaxTokens
    BY <1>1 DEF FormTypes
  <2>. QED
    BY <1>1, <2>1 DEF FormTypes, Pages, LoginPages
<1>5. FormsWait'
  BY <1>1, <1>3 DEF FormsWait
<1>6. UsedTokensWait'
  <2>1. \A form \in Forms \ {"phone"} : Blocked(form) => Blocked(form)'
    BY <1>1, <1>3 DEF Blocked, Forms
  <2>2. captcha["phone"] \in sent => captcha["phone"] \in kept'
    BY <1>1
  <2>3. \A form \in Forms :
           \/ captcha'[form] = captcha[form] /\ (Blocked(form) => Blocked(form)')
           \/ captcha'[form] = captcha[form] /\ (captcha[form] \in sent => captcha[form] \in kept')
    BY <1>1, <2>1, <2>2 DEF Forms
  <2>. QED
    BY <1>1, <2>3, FewerTokens DEF TokenInv, FormTypes
<1>7. TokensAreSentOnce'
  BY <1>1 DEF TokenInv, TokensAreSentOnce
<1>. QED
  BY <1>4, <1>5, <1>6, <1>7 DEF TokenInv

LEMMA FormOfPage ==
  ASSUME page \in DOMAIN FormOf
  PROVE  /\ page \in {"login", "register", "phone", "forgot"}
         /\ FormOf[page] = IF page \in {"login", "register"} THEN "email" ELSE page
         /\ FormOf[page] \in Forms
  BY DEF FormOf, Forms

LEMMA VerifiedKeeps ==
  ASSUME TokenInv, Verified PROVE TokenInv'
<1>. FormTypes /\ FormsWait
  BY DEF TokenInv
<1> DEFINE form == FormOf[page]
<1>1. /\ form \in Forms /\ solved < MaxTokens /\ solved' = solved + 1
      /\ captcha' = [captcha EXCEPT ![form] = solved + 1]
      /\ UNCHANGED <<page, spent, request>> /\ UNCHANGED <<sent, twice, kept>>
  BY FormOfPage DEF Verified
<1> HIDE DEF form
<1>2. solved \in Nat /\ solved + 1 \in 0..MaxTokens
  BY <1>1, SignInAssumption DEF FormTypes
<1>3. /\ captcha' \in [Forms -> 0..MaxTokens] /\ captcha'[form] = solved + 1
      /\ \A other \in Forms \ {form} : captcha'[other] = captcha[other]
  BY <1>1, <1>2 DEF FormTypes
<1>4. FormTypes'
  BY <1>1, <1>2, <1>3 DEF FormTypes
<1>5. FormsWait' /\ \A other \in Forms : Blocked(other) => Blocked(other)'
  BY <1>1, SameShown
<1>6. UsedTokensWait'
  <2>1. sent' \subseteq 1..solved' /\ \A other \in Forms : captcha'[other] \in 0..solved'
    BY <1>1, <1>2, <1>3 DEF TokenInv, UsedTokensWait
  <2>2. \A other \in Forms : captcha[other] # solved + 1
    BY <1>2 DEF TokenInv, UsedTokensWait
  <2>3. \A one, other \in Forms :
          captcha'[one] # 0 /\ captcha'[one] = captcha'[other] => one = other
    BY <1>3, <2>2 DEF TokenInv, UsedTokensWait
  <2>4. solved + 1 \notin sent
    BY <1>2 DEF TokenInv, UsedTokensWait
  <2>5. \A other \in Forms :
          captcha'[other] \in sent' => captcha'[other] \in kept' \/ Blocked(other)'
    BY <1>1, <1>3, <1>5, <2>4 DEF TokenInv, UsedTokensWait
  <2>. QED
    BY <2>1, <2>3, <2>5 DEF UsedTokensWait
<1>7. TokensAreSentOnce'
  BY <1>1 DEF TokenInv, TokensAreSentOnce
<1>. QED
  BY <1>4, <1>5, <1>6, <1>7 DEF TokenInv

LEMMA ExpiredKeeps ==
  ASSUME TokenInv, Expired PROVE TokenInv'
<1>. FormTypes /\ FormsWait
  BY DEF TokenInv
<1> DEFINE form == FormOf[page]
<1>1. /\ form \in Forms /\ captcha' = [captcha EXCEPT ![form] = 0]
      /\ UNCHANGED <<page, solved, spent, request>> /\ UNCHANGED <<sent, twice, kept>>
  BY FormOfPage DEF Expired
<1> HIDE DEF form
<1>2. /\ captcha' \in [Forms -> 0..MaxTokens] /\ captcha'[form] = 0
      /\ \A other \in Forms \ {form} : captcha'[other] = captcha[other]
  BY <1>1, ResetMeans
<1>3. FormTypes'
  BY <1>1, <1>2 DEF FormTypes
<1>4. FormsWait' /\ \A other \in Forms : Blocked(other) => Blocked(other)'
  BY <1>1, SameShown
<1>5. UsedTokensWait'
  <2>1. \A other \in Forms :
           \/ captcha'[other] = 0
           \/ captcha'[other] = captcha[other] /\ (Blocked(other) => Blocked(other)')
    BY <1>2, <1>4
  <2>. QED
    BY <1>1, <2>1, FewerTokens DEF TokenInv, FormTypes
<1>6. TokensAreSentOnce'
  BY <1>1 DEF TokenInv, TokensAreSentOnce
<1>. QED
  BY <1>3, <1>4, <1>5, <1>6 DEF TokenInv

\* A form that is not blocked sends its token and is blocked.
LEMMA SendKeeps ==
  ASSUME TokenInv, NEW r \in FormRequests, NEW kind \in Guarded,
         NEW u \in Visitors \cup {Nobody}, NEW form \in Forms,
         captcha[form] # 0, ~Blocked(form), Send(r, kind, u, captcha[form]),
         UNCHANGED <<page, captcha, solved, spent, kept>>,
         \/ kind \in EmailKinds /\ form = "email" /\ page \in {"login", "register"}
         \/ kind = "otp" /\ form = "phone" /\ page = "phone"
         \/ kind = "forgot" /\ form = "forgot" /\ page = "forgot",
         \A q \in FormRequests \ {r} :
           /\ form = "email" => ~Shown(q, EmailKinds)
           /\ form = "forgot" => ~Shown(q, {"forgot"})
  PROVE  TokenInv'
<1>. FormTypes /\ FormsWait
  BY DEF TokenInv
<1>0. /\ \/ kind \in EmailKinds /\ form = "email" /\ page \in {"login", "register"}
         \/ kind = "otp" /\ form = "phone" /\ page = "phone"
         \/ kind = "forgot" /\ form = "forgot" /\ page = "forgot"
      /\ \A q \in FormRequests \ {r} :
           /\ form = "email" => ~Shown(q, EmailKinds)
           /\ form = "forgot" => ~Shown(q, {"forgot"})
  OBVIOUS
<1>1. captcha[form] \in 1..solved /\ captcha[form] \in 1..MaxTokens
      /\ captcha[form] \in 0..MaxTokens
  BY DEF TokenInv, FormTypes, UsedTokensWait
<1>2. captcha[form] \in sent => captcha[form] \in kept
  BY DEF TokenInv, UsedTokensWait
<1>3. /\ sent' = sent \cup {captcha[form]} /\ twice' = twice \cup ({captcha[form]} \cap sent)
      /\ UNCHANGED <<page, captcha, solved, spent, kept>>
  BY DEF Send
<1>4. /\ request' \in [FormRequests -> RequestRows]
      /\ request'[r].at = "sent" /\ request'[r].kind = kind /\ request'[r].mounted
      /\ \A q \in FormRequests \ {r} : request'[q] = request[q]
  <2>1. kind \in Kinds
    BY DEF Kinds
  <2>. QED
    BY <1>1, <2>1, SendUpdate
<1>5. FormTypes'
  BY <1>1, <1>3, <1>4 DEF FormTypes
<1>6. /\ \A q \in FormRequests \ {r} :
           /\ Shown(q, EmailKinds)' <=> Shown(q, EmailKinds)
           /\ Shown(q, {"otp"})' <=> Shown(q, {"otp"})
           /\ Shown(q, {"forgot"})' <=> Shown(q, {"forgot"})
      /\ Shown(r, EmailKinds)' <=> form = "email"
      /\ Shown(r, {"otp"})' <=> form = "phone"
      /\ Shown(r, {"forgot"})' <=> form = "forgot"
  BY <1>0, <1>4 DEF Shown, EmailKinds
<1>7. FormsWait'
  <2>1. \A q \in FormRequests :
          /\ Shown(q, EmailKinds)' => page' \in {"login", "register"}
          /\ Shown(q, {"otp"})' => page' \in {"phone", "code"}
          /\ Shown(q, {"forgot"})' => page' = "forgot"
    BY <1>0, <1>3, <1>6 DEF FormsWait
  <2>2. \A q \in FormRequests :
          /\ request'[q].at = "waiting" => request'[q].kind = "register"
          /\ request'[q].at = "unused" => request'[q].kind = Nobody
    BY <1>4 DEF FormsWait
  <2>3. \A p, q \in FormRequests :
          /\ Shown(p, EmailKinds)' /\ Shown(q, EmailKinds)' => p = q
          /\ Shown(p, {"forgot"})' /\ Shown(q, {"forgot"})' => p = q
    BY <1>0, <1>6 DEF FormsWait
  <2>. QED
    BY <2>1, <2>2, <2>3 DEF FormsWait
<1>8. UsedTokensWait'
  <2>1. Blocked(form)'
    BY <1>0, <1>4, <1>6 DEF Blocked
  <2>2. ASSUME NEW other \in Forms \ {form}, Blocked(other) PROVE Blocked(other)'
    <3>1. CASE other = "email"
      BY <1>0, <1>4, <1>6, <2>2, <3>1 DEF Blocked, FormsWait
    <3>2. CASE other = "phone"
      BY <1>0, <1>3, <1>6, <2>2, <3>2 DEF Blocked, FormsWait
    <3>3. CASE other = "forgot"
      BY <1>0, <1>3, <1>6, <2>2, <3>3 DEF Blocked, FormsWait
    <3>. QED
      BY <3>1, <3>2, <3>3 DEF Forms
  <2>3. \A other \in Forms \ {form} : captcha[other] # captcha[form]
    BY DEF TokenInv, UsedTokensWait
  <2>4. \A other \in Forms :
          captcha'[other] \in sent' => captcha'[other] \in kept' \/ Blocked(other)'
    BY <1>3, <2>1, <2>2, <2>3 DEF TokenInv, UsedTokensWait
  <2>. QED
    BY <1>1, <1>3, <2>4 DEF TokenInv, UsedTokensWait
<1>9. TokensAreSentOnce'
  BY <1>2, <1>3 DEF TokenInv, TokensAreSentOnce
<1>. QED
  BY <1>5, <1>7, <1>8, <1>9 DEF TokenInv

LEMMA SubmitKeeps ==
  ASSUME TokenInv, NEW r \in FormRequests, Submit(r) PROVE TokenInv'
<1>. FormTypes /\ FormsWait
  BY DEF TokenInv
<1>1. PICK kind \in Guarded :
        /\ page = IF kind = "otp" THEN "phone" ELSE kind
        /\ captcha[FormOf[page]] # 0
        /\ ~Pending(IF FormOf[page] = "email" THEN {"login", "register"} ELSE {kind})
        /\ \E u \in Visitors : Send(r, kind, u, captcha[FormOf[page]])
        /\ UNCHANGED <<page, captcha, solved, spent, kept>>
  BY DEF Submit
<1>2. page \in DOMAIN FormOf
  BY <1>1 DEF Guarded, FormOf
<1>3. PICK form \in Forms : form = FormOf[page]
  BY <1>2, FormOfPage
<1>4. /\ \/ kind \in EmailKinds /\ form = "email" /\ page \in {"login", "register"}
         \/ kind = "otp" /\ form = "phone" /\ page = "phone"
         \/ kind = "forgot" /\ form = "forgot" /\ page = "forgot"
  BY <1>1, <1>2, <1>3, FormOfPage DEF Guarded, EmailKinds
<1>5. \A q \in FormRequests :
        /\ form = "email" => ~Shown(q, EmailKinds)
        /\ form = "phone" => ~Shown(q, {"otp"})
        /\ form = "forgot" => ~Shown(q, {"forgot"})
  BY <1>1, <1>3, <1>4 DEF Pending, Shown, EmailKinds
<1>6. ~Blocked(form)
  BY <1>4, <1>5 DEF Blocked
<1>7. PICK u \in Visitors : Send(r, kind, u, captcha[form])
  BY <1>1, <1>3
<1>. QED
  BY <1>1, <1>3, <1>4, <1>5, <1>6, <1>7, SendKeeps

LEMMA NextTokenKeeps ==
  ASSUME TokenInv, NEW r \in FormRequests, NextToken(r) PROVE TokenInv'
<1>. FormTypes /\ FormsWait
  BY DEF TokenInv
<1>1. /\ request[r].at = "waiting" /\ request[r].mounted /\ captcha["email"] # 0
      /\ Send(r, "login", request[r].user, captcha["email"])
      /\ UNCHANGED <<page, captcha, solved, spent, kept>>
  BY DEF NextToken
<1>2. PICK u \in Visitors \cup {Nobody} : u = request[r].user
  BY RequestType
<1>3. Shown(r, EmailKinds) /\ page \in {"login", "register"}
  BY <1>1 DEF FormsWait, Shown, EmailKinds
<1>4. \A q \in FormRequests \ {r} : ~Shown(q, EmailKinds)
  BY <1>3 DEF FormsWait
<1>5. ~Blocked("email")
  BY <1>1, <1>4 DEF Blocked
<1>6. "login" \in Guarded /\ "login" \in EmailKinds /\ "email" \in Forms
  BY DEF Guarded, EmailKinds, Forms
<1>. QED
  BY <1>1, <1>2, <1>3, <1>4, <1>5, <1>6, SendKeeps

LEMMA SubmitUnguardedKeeps ==
  ASSUME TokenInv, NEW r \in FormRequests, SubmitUnguarded(r) PROVE TokenInv'
<1>. FormTypes /\ FormsWait
  BY DEF TokenInv
<1>1. PICK kind \in {"verify", "google"}, u \in Visitors :
        /\ request[r].at = "unused" /\ Send(r, kind, u, 0)
        /\ UNCHANGED <<page, captcha, solved, spent, kept>>
  BY DEF SubmitUnguarded
<1>2. /\ request' \in [FormRequests -> RequestRows]
      /\ request'[r].at = "sent" /\ request'[r].kind = kind
      /\ \A q \in FormRequests \ {r} : request'[q] = request[q]
  <2>1. kind \in Kinds /\ 0 \in 0..MaxTokens
    BY SignInAssumption DEF Kinds
  <2>. QED
    BY <1>1, <2>1, SendUpdate
<1>3. sent' = sent /\ twice' = twice
  BY <1>1, ZeroIsUnsent DEF Send, TokenInv
<1>4. FormTypes'
  BY <1>1, <1>2, <1>3 DEF FormTypes
<1>5. \A q \in FormRequests :
        /\ Shown(q, EmailKinds)' <=> Shown(q, EmailKinds)
        /\ Shown(q, {"otp"})' <=> Shown(q, {"otp"})
        /\ Shown(q, {"forgot"})' <=> Shown(q, {"forgot"})
  BY <1>1, <1>2 DEF FormsWait, Shown, EmailKinds, Nobody
<1>6. FormsWait'
  BY <1>1, <1>2, <1>5 DEF FormsWait
<1>7. \A form \in Forms : Blocked(form) => Blocked(form)'
  BY <1>1, <1>2, <1>5 DEF Blocked, Shown, FormsWait, EmailKinds, Nobody
<1>8. UsedTokensWait' /\ TokensAreSentOnce'
  BY <1>1, <1>3, <1>7 DEF TokenInv, UsedTokensWait, TokensAreSentOnce
<1>. QED
  BY <1>4, <1>6, <1>8 DEF TokenInv

LEMMA AnsweredKeeps ==
  ASSUME TokenInv, NEW r \in FormRequests, Answered(r) PROVE TokenInv'
<1>. FormTypes /\ FormsWait
  BY DEF TokenInv
<1>1. PICK at \in {"ok", "failed"} :
        /\ request[r].at = "sent" /\ request' = [request EXCEPT ![r].at = at]
        /\ spent' = spent \cup ({request[r].token} \ {0})
        /\ UNCHANGED <<page, captcha, solved, kept>> /\ UNCHANGED <<sent, twice>>
  BY DEF Answered
<1>2. /\ request' \in [FormRequests -> RequestRows]
      /\ request'[r].at = at /\ request'[r].kind = request[r].kind
      /\ request'[r].mounted = request[r].mounted
      /\ \A q \in FormRequests \ {r} : request'[q] = request[q]
  BY <1>1, AtUpdate
<1>3. FormTypes'
  <2>1. spent' \subseteq 1..MaxTokens
    BY <1>1, RequestType DEF FormTypes
  <2>. QED
    BY <1>1, <1>2, <2>1 DEF FormTypes
<1>4. \A q \in FormRequests :
        /\ Shown(q, EmailKinds)' <=> Shown(q, EmailKinds)
        /\ Shown(q, {"otp"})' <=> Shown(q, {"otp"})
        /\ Shown(q, {"forgot"})' <=> Shown(q, {"forgot"})
  BY <1>1, <1>2 DEF Shown
<1>5. FormsWait'
  BY <1>1, <1>2, <1>4 DEF FormsWait
<1>6. \A form \in Forms : Blocked(form) => Blocked(form)'
  BY <1>1, <1>2, <1>4 DEF Blocked
<1>7. UsedTokensWait' /\ TokensAreSentOnce'
  BY <1>1, <1>6 DEF TokenInv, UsedTokensWait, TokensAreSentOnce
<1>. QED
  BY <1>3, <1>5, <1>7 DEF TokenInv

LEMMA SignedInKeeps ==
  ASSUME TokenInv, NEW r \in FormRequests, SignedIn(r) PROVE TokenInv'
<1>. FormTypes /\ FormsWait
  BY DEF TokenInv
<1>1. /\ page' = "elsewhere" /\ captcha' = [form \in Forms |-> 0]
      /\ request' = [q \in FormRequests |->
           IF q = r THEN [Unused EXCEPT !.at = "done"] ELSE [request[q] EXCEPT !.mounted = FALSE]]
      /\ UNCHANGED <<solved, spent, sent, twice, kept>>
  BY DEF SignedIn
<1>2. 0 \in 0..MaxTokens /\ 0 \in 0..solved /\ 0 \notin sent
  BY SignInAssumption, ZeroIsUnsent DEF FormTypes, TokenInv
<1>3. ASSUME NEW q \in FormRequests
      PROVE  /\ request'[q] \in RequestRows
             /\ request'[q].at = "done" \/ ~request'[q].mounted
             /\ request'[q].at = "waiting" => request'[q].kind = "register"
             /\ request'[q].at = "unused" => request'[q].kind = Nobody
  <2>1. CASE q = r
    <3>1. Unused \in RequestRows
      BY <1>2 DEF Unused, RequestRows
    <3>2. request'[q] = [Unused EXCEPT !.at = "done"]
      BY <1>1, <2>1
    <3>. QED
      BY <3>1, <3>2 DEF RequestRows
  <2>2. CASE q # r
    <3>1. request[q] \in RequestRows /\ request'[q] = [request[q] EXCEPT !.mounted = FALSE]
      BY <1>1, <2>2 DEF FormTypes
    <3>. QED
      BY <3>1 DEF RequestRows, FormsWait
  <2>. QED
    BY <2>1, <2>2
<1>4. FormTypes'
  <2>1. request' \in [FormRequests -> RequestRows]
    <3>1. request' = [q \in FormRequests |-> request'[q]]
      BY <1>1
    <3>. QED
      BY <1>3, <3>1
  <2>2. captcha' \in [Forms -> 0..MaxTokens]
    BY <1>1, <1>2
  <2>. QED
    BY <1>1, <2>1, <2>2 DEF FormTypes, Pages
<1>5. FormsWait'
  BY <1>3 DEF FormsWait, Shown
<1>6. UsedTokensWait' /\ TokensAreSentOnce'
  BY <1>1, <1>2 DEF TokenInv, UsedTokensWait, TokensAreSentOnce
<1>. QED
  BY <1>4, <1>5, <1>6 DEF TokenInv

\* A request that ends is no longer shown, and the others are as they were.
LEMMA FinishForms ==
  ASSUME FormTypes, FormsWait, NEW r \in FormRequests, Finish(r)
  PROVE  /\ request' \in [FormRequests -> RequestRows]
         /\ \A q \in FormRequests \ {r} : request'[q] = request[q]
         /\ \A q \in FormRequests \ {r} :
              /\ Shown(q, EmailKinds)' <=> Shown(q, EmailKinds)
              /\ Shown(q, {"otp"})' <=> Shown(q, {"otp"})
              /\ Shown(q, {"forgot"})' <=> Shown(q, {"forgot"})
         /\ ~Shown(r, EmailKinds)' /\ ~Shown(r, {"otp"})' /\ ~Shown(r, {"forgot"})'
         /\ UNCHANGED page => FormsWait'
<1>1. /\ request' \in [FormRequests -> RequestRows] /\ request'[r].at = "done"
      /\ \A q \in FormRequests \ {r} : request'[q] = request[q]
  BY FinishUpdate
<1>2. /\ \A q \in FormRequests \ {r} :
              /\ Shown(q, EmailKinds)' <=> Shown(q, EmailKinds)
              /\ Shown(q, {"otp"})' <=> Shown(q, {"otp"})
              /\ Shown(q, {"forgot"})' <=> Shown(q, {"forgot"})
      /\ ~Shown(r, EmailKinds)' /\ ~Shown(r, {"otp"})' /\ ~Shown(r, {"forgot"})'
  BY <1>1 DEF Shown
<1>3. UNCHANGED page => FormsWait'
  BY <1>1, <1>2 DEF FormsWait
<1>. QED
  BY <1>1, <1>2, <1>3

\* A request that ends on an unchanged page: the form it kept waiting, if there
\* is one, is reset.
LEMMA EndKeeps ==
  ASSUME TokenInv, NEW r \in FormRequests, Finish(r), FormTypes',
         UNCHANGED <<page, solved, sent>>, UNCHANGED <<twice, kept>>,
         \A form \in Forms : captcha'[form] = captcha[form] \/ captcha'[form] = 0,
         Shown(r, EmailKinds) => captcha'["email"] = 0,
         Shown(r, {"otp"}) => captcha'["phone"] = 0,
         Shown(r, {"forgot"}) => captcha'["forgot"] = 0
  PROVE  TokenInv'
<1>. FormTypes /\ FormsWait
  BY DEF TokenInv
<1>1. \A form \in Forms : captcha'[form] = captcha[form] \/ captcha'[form] = 0
  OBVIOUS
<1>2. /\ \A q \in FormRequests \ {r} : request'[q] = request[q]
      /\ \A q \in FormRequests \ {r} :
              /\ Shown(q, EmailKinds)' <=> Shown(q, EmailKinds)
              /\ Shown(q, {"otp"})' <=> Shown(q, {"otp"})
              /\ Shown(q, {"forgot"})' <=> Shown(q, {"forgot"})
      /\ FormsWait'
  BY FinishForms
<1>3. ASSUME NEW form \in Forms, Blocked(form) PROVE captcha'[form] = 0 \/ Blocked(form)'
  <2>1. CASE form = "email"
    BY <1>2, <1>3, <2>1 DEF Blocked
  <2>2. CASE form = "phone"
    BY <1>2, <1>3, <2>2 DEF Blocked
  <2>3. CASE form = "forgot"
    BY <1>2, <1>3, <2>3 DEF Blocked
  <2>. QED
    BY <2>1, <2>2, <2>3 DEF Forms
<1>4. \A form \in Forms :
         \/ captcha'[form] = 0
         \/ captcha'[form] = captcha[form] /\ (Blocked(form) => Blocked(form)')
  BY <1>1, <1>3
<1>5. UsedTokensWait'
  BY <1>4, FewerTokens DEF TokenInv, FormTypes
<1>6. TokensAreSentOnce'
  BY DEF TokenInv, TokensAreSentOnce
<1>. QED
  BY <1>2, <1>5, <1>6 DEF TokenInv

LEMMA RegisteredKeeps ==
  ASSUME TokenInv, NEW r \in FormRequests, Registered(r) PROVE TokenInv'
<1>. FormTypes /\ FormsWait
  BY DEF TokenInv
<1>1. /\ request[r].at = "ok" /\ request[r].kind = "register"
      /\ UNCHANGED <<page, solved, spent>> /\ UNCHANGED <<sent, twice, kept>>
  BY DEF Registered
<1>2. CASE request[r].mounted
  <2>1. captcha' = [captcha EXCEPT !["email"] = 0]
        /\ request' = [request EXCEPT ![r].at = "waiting"]
    BY <1>2 DEF Registered, Reset
  <2>2. /\ captcha' \in [Forms -> 0..MaxTokens] /\ captcha'["email"] = 0
        /\ \A other \in Forms \ {"email"} : captcha'[other] = captcha[other]
    BY <2>1, ResetMeans DEF Forms
  <2>3. /\ request' \in [FormRequests -> RequestRows]
        /\ request'[r].at = "waiting" /\ request'[r].kind = request[r].kind
        /\ request'[r].mounted = request[r].mounted
        /\ \A q \in FormRequests \ {r} : request'[q] = request[q]
    BY <2>1, AtUpdate
  <2>4. FormTypes'
    BY <1>1, <2>2, <2>3 DEF FormTypes
  <2>5. \A q \in FormRequests :
          /\ Shown(q, EmailKinds)' <=> Shown(q, EmailKinds)
          /\ Shown(q, {"otp"})' <=> Shown(q, {"otp"})
          /\ Shown(q, {"forgot"})' <=> Shown(q, {"forgot"})
    BY <1>1, <2>3 DEF Shown
  <2>6. FormsWait'
    BY <1>1, <2>3, <2>5 DEF FormsWait
  <2>7. Blocked("phone") => Blocked("phone")'
    BY <1>1, <2>5 DEF Blocked
  <2>8. Blocked("forgot") => Blocked("forgot")'
    BY <1>1, <2>5 DEF Blocked
  <2>9. \A form \in Forms :
           \/ captcha'[form] = 0
           \/ captcha'[form] = captcha[form] /\ (Blocked(form) => Blocked(form)')
    BY <2>2, <2>7, <2>8 DEF Forms
  <2>10. UsedTokensWait'
    BY <1>1, <2>9, FewerTokens DEF TokenInv, FormTypes
  <2>11. TokensAreSentOnce'
    BY <1>1 DEF TokenInv, TokensAreSentOnce
  <2>. QED
    BY <2>4, <2>6, <2>10, <2>11 DEF TokenInv
<1>3. CASE ~request[r].mounted
  <2>1. UNCHANGED captcha /\ Finish(r)
    BY <1>3 DEF Registered
  <2>2. FormTypes'
    BY <1>1, <2>1, FinishUpdate DEF FormTypes
  <2>3. ~Shown(r, EmailKinds) /\ ~Shown(r, {"otp"}) /\ ~Shown(r, {"forgot"})
    BY <1>3 DEF Shown
  <2>. QED
    BY <1>1, <2>1, <2>2, <2>3, EndKeeps
<1>. QED
  BY <1>2, <1>3

LEMMA NoTokenKeeps ==
  ASSUME TokenInv, NEW r \in FormRequests, NoToken(r) PROVE TokenInv'
<1>. FormTypes /\ FormsWait
  BY DEF TokenInv
<1>1. /\ request[r].at = "waiting" /\ request[r].kind = "register" /\ Finish(r)
      /\ UNCHANGED <<solved, spent, kept>> /\ UNCHANGED <<sent, twice>>
  BY DEF NoToken, FormsWait
<1>2. CASE request[r].mounted
  <2>1. captcha' = [captcha EXCEPT !["email"] = 0] /\ page' = "login"
    BY <1>2 DEF NoToken, Reset
  <2>2. /\ captcha' \in [Forms -> 0..MaxTokens] /\ captcha'["email"] = 0
        /\ \A other \in Forms \ {"email"} : captcha'[other] = captcha[other]
    BY <2>1, ResetMeans DEF Forms
  <2>3. Shown(r, EmailKinds) /\ page \in {"login", "register"}
    BY <1>1, <1>2 DEF FormsWait, Shown, EmailKinds
  <2>4. /\ request' \in [FormRequests -> RequestRows]
        /\ request'[r].at = "done"
        /\ \A q \in FormRequests \ {r} : request'[q] = request[q]
    BY <1>1, FinishUpdate
  <2>5. FormTypes'
    BY <1>1, <2>1, <2>2, <2>4 DEF FormTypes, Pages, LoginPages
  <2>6. \A q \in FormRequests :
          /\ ~Shown(q, EmailKinds)' /\ ~Shown(q, {"otp"})' /\ ~Shown(q, {"forgot"})'
    BY <2>3, <2>4 DEF FormsWait, Shown
  <2>7. FormsWait'
    BY <2>4, <2>6 DEF FormsWait
  <2>8. ~Blocked("phone") /\ ~Blocked("forgot")
    BY <2>3 DEF FormsWait, Blocked
  <2>9. \A form \in Forms :
           \/ captcha'[form] = 0
           \/ captcha'[form] = captcha[form] /\ (Blocked(form) => Blocked(form)')
    BY <2>2, <2>8 DEF Forms
  <2>10. UsedTokensWait'
    BY <1>1, <2>9, FewerTokens DEF TokenInv, FormTypes
  <2>11. TokensAreSentOnce'
    BY <1>1 DEF TokenInv, TokensAreSentOnce
  <2>. QED
    BY <2>5, <2>7, <2>10, <2>11 DEF TokenInv
<1>3. CASE ~request[r].mounted
  <2>1. UNCHANGED <<captcha, page>>
    BY <1>3 DEF NoToken
  <2>2. FormTypes'
    BY <1>1, <2>1, FinishUpdate DEF FormTypes
  <2>3. ~Shown(r, EmailKinds) /\ ~Shown(r, {"otp"}) /\ ~Shown(r, {"forgot"})
    BY <1>3 DEF Shown
  <2>. QED
    BY <1>1, <2>1, <2>2, <2>3, EndKeeps
<1>. QED
  BY <1>2, <1>3

LEMMA NextStepKeeps ==
  ASSUME TokenInv, NEW r \in FormRequests, NextStep(r) PROVE TokenInv'
<1>. FormTypes /\ FormsWait
  BY DEF TokenInv
<1>1. /\ request[r].at = "ok" /\ request[r].kind \in {"otp", "forgot"} /\ Finish(r)
      /\ UNCHANGED <<captcha, solved, spent, kept>> /\ UNCHANGED <<sent, twice>>
      /\ page' = IF ~request[r].mounted THEN page
                 ELSE IF request[r].kind = "otp" THEN "code" ELSE "elsewhere"
  BY DEF NextStep
<1>2. /\ request' \in [FormRequests -> RequestRows]
      /\ request'[r].at = "done"
      /\ \A q \in FormRequests \ {r} : request'[q] = request[q]
  BY <1>1, FinishUpdate
<1>3. FormTypes'
  BY <1>1, <1>2 DEF FormTypes, Pages, LoginPages
<1>4. CASE ~request[r].mounted
  <2>1. ~Shown(r, EmailKinds) /\ ~Shown(r, {"otp"}) /\ ~Shown(r, {"forgot"})
    BY <1>4 DEF Shown
  <2>. QED
    BY <1>1, <1>3, <1>4, <2>1, EndKeeps
<1>5. CASE request[r].mounted
  <2>1. \/ Shown(r, {"otp"}) /\ page \in {"phone", "code"} /\ page' = "code"
        \/ Shown(r, {"forgot"}) /\ page = "forgot" /\ page' = "elsewhere"
    <3>1. CASE request[r].kind = "otp"
      BY <1>1, <1>5, <3>1 DEF FormsWait, Shown
    <3>2. CASE request[r].kind = "forgot"
      BY <1>1, <1>5, <3>2 DEF FormsWait, Shown
    <3>. QED
      BY <1>1, <3>1, <3>2
  <2>2. \A q \in FormRequests :
          /\ ~Shown(q, EmailKinds)' /\ ~Shown(q, {"forgot"})'
          /\ Shown(q, {"otp"})' => page' = "code"
    BY <1>2, <2>1 DEF FormsWait, Shown
  <2>3. FormsWait'
    BY <1>2, <2>2 DEF FormsWait
  <2>4. \A form \in Forms : Blocked(form) => Blocked(form)'
    BY <2>1 DEF FormsWait, Blocked, Forms
  <2>5. UsedTokensWait'
    BY <1>1, <2>4, FewerTokens DEF TokenInv, FormTypes
  <2>6. TokensAreSentOnce'
    BY <1>1 DEF TokenInv, TokensAreSentOnce
  <2>. QED
    BY <1>3, <2>3, <2>5, <2>6 DEF TokenInv
<1>. QED
  BY <1>4, <1>5

LEMMA RefusedKeeps ==
  ASSUME TokenInv, NEW r \in FormRequests, Refused(r) PROVE TokenInv'
<1>. FormTypes /\ FormsWait
  BY DEF TokenInv
<1>1. Finish(r) /\ UNCHANGED <<page, solved, spent, kept>> /\ UNCHANGED <<sent, twice>>
  BY DEF Refused
<1>2. CASE request[r].mounted /\ request[r].kind \in Guarded
  <2>1. PICK form \in Forms :
          /\ captcha' = [captcha EXCEPT ![form] = 0]
          /\ form = CASE request[r].kind = "otp" -> "phone"
                      [] request[r].kind = "forgot" -> "forgot"
                      [] OTHER -> "email"
    BY <1>2 DEF Refused, Reset, Forms
  <2>2. /\ captcha' \in [Forms -> 0..MaxTokens] /\ captcha'[form] = 0
        /\ \A other \in Forms \ {form} : captcha'[other] = captcha[other]
    BY <2>1, ResetMeans
  <2>3. FormTypes'
    BY <1>1, <2>2, FinishUpdate DEF FormTypes
  <2>4. /\ Shown(r, EmailKinds) => captcha'["email"] = 0
        /\ Shown(r, {"otp"}) => captcha'["phone"] = 0
        /\ Shown(r, {"forgot"}) => captcha'["forgot"] = 0
    BY <2>1, <2>2 DEF Shown, EmailKinds
  <2>5. \A other \in Forms : captcha'[other] = captcha[other] \/ captcha'[other] = 0
    BY <2>2
  <2>. QED
    BY <1>1, <2>3, <2>4, <2>5, EndKeeps
<1>3. CASE ~(request[r].mounted /\ request[r].kind \in Guarded)
  <2>1. UNCHANGED captcha
    BY <1>3 DEF Refused
  <2>2. FormTypes'
    BY <1>1, <2>1, FinishUpdate DEF FormTypes
  <2>3. ~Shown(r, EmailKinds) /\ ~Shown(r, {"otp"}) /\ ~Shown(r, {"forgot"})
    BY <1>3 DEF Shown, EmailKinds, Guarded
  <2>. QED
    BY <1>1, <2>1, <2>2, <2>3, EndKeeps
<1>. QED
  BY <1>2, <1>3

LEMMA TokenInit == SignInInit => TokenInv
<1> SUFFICES ASSUME SignInInit PROVE TokenInv
  OBVIOUS
<1>1. 0 \in 0..MaxTokens
  BY SignInAssumption
<1>2. Unused \in RequestRows /\ Unused.at = "unused" /\ Unused.kind = Nobody /\ ~Unused.mounted
  BY <1>1 DEF Unused, RequestRows
<1>3. FormTypes
  BY <1>1, <1>2 DEF SignInInit, FormTypes, Pages
<1>4. \A r \in FormRequests : request[r] = Unused
  BY DEF SignInInit
<1>5. FormsWait
  BY <1>2, <1>4 DEF FormsWait, Shown
<1>6. UsedTokensWait /\ TokensAreSentOnce
  BY DEF SignInInit, UsedTokensWait, TokensAreSentOnce
<1>. QED
  BY <1>3, <1>5, <1>6 DEF TokenInv

LEMMA TokenStep == TokenInv /\ [SignInNext]_signInVars => TokenInv'
<1> SUFFICES ASSUME TokenInv, [SignInNext]_signInVars PROVE TokenInv'
  OBVIOUS
<1>1. CASE \/ ProfileAnswered \/ Refreshed \/ Logout \/ BackendLogout \/ LocalLogout
           \/ LogoutFails \/ CookieChanges
  BY <1>1, FormsUntouched
     DEF ProfileAnswered, Refreshed, Logout, BackendLogout, LocalLogout, LogoutFails, CookieChanges
<1>2. CASE Navigate
  BY <1>2, NavigateKeeps
<1>3. CASE SetMode
  BY <1>3, SetModeKeeps
<1>4. CASE SetMethod
  BY <1>4, SetMethodKeeps
<1>5. CASE DifferentNumber
  BY <1>5, DifferentNumberKeeps
<1>6. CASE Verified
  BY <1>6, VerifiedKeeps
<1>7. CASE Expired
  BY <1>7, ExpiredKeeps
<1>8. ASSUME NEW r \in FormRequests,
             \/ Submit(r) \/ SubmitUnguarded(r) \/ Answered(r) \/ SignedIn(r)
             \/ Registered(r) \/ NextToken(r) \/ NoToken(r) \/ NextStep(r) \/ Refused(r)
      PROVE  TokenInv'
  BY <1>8, SubmitKeeps, SubmitUnguardedKeeps, AnsweredKeeps, SignedInKeeps, RegisteredKeeps,
     NextTokenKeeps, NoTokenKeeps, NextStepKeeps, RefusedKeeps
<1>9. CASE UNCHANGED signInVars
  BY <1>9, FormsUntouched DEF signInVars
<1>. QED
  BY <1>1, <1>2, <1>3, <1>4, <1>5, <1>6, <1>7, <1>8, <1>9 DEF SignInNext

\* "A fresh, single-use token is required per submission": no token is sent
\* twice but one that PhoneOtpForm brought back with "Use a different number".
THEOREM TokensServeOneRequest == SignInSpec => []TokensAreSentOnce
<1>1. TokenInv => TokensAreSentOnce
  BY DEF TokenInv
<1>. QED
  BY <1>1, TokenInit, TokenStep, PTL DEF SignInSpec

-----------------------------------------------------------------------------

LEMMA IdentityInit == SignInInit => IdentityInv
  BY DEF SignInInit, IdentityInv

LEMMA IdentityStep == IdentityInv /\ [SignInNext]_signInVars => IdentityInv'
<1> SUFFICES ASSUME IdentityInv, [SignInNext]_signInVars PROVE IdentityInv'
  OBVIOUS
<1>1. CASE ProfileAnswered
  BY <1>1 DEF ProfileAnswered, IdentityInv
<1>2. CASE Refreshed
  BY <1>2 DEF Refreshed, IdentityInv
<1>3. CASE Logout
  BY <1>3 DEF Logout, IdentityInv
<1>4. CASE BackendLogout
  BY <1>4 DEF BackendLogout, IdentityInv
<1>5. CASE LocalLogout
  BY <1>5 DEF LocalLogout, IdentityInv
<1>6. CASE LogoutFails
  BY <1>6 DEF LogoutFails, IdentityInv
<1>a. CASE CookieChanges
  BY <1>a DEF CookieChanges, IdentityInv
<1>7. CASE \E r \in FormRequests : SignedIn(r)
  BY <1>7 DEF SignedIn, AfterAuth, IdentityInv
<1>8. CASE UNCHANGED <<user, cookie, getProfile, leaving, apart>>
  BY <1>8 DEF IdentityInv
<1>9. \/ UNCHANGED <<user, cookie, getProfile, leaving, apart>>
      \/ ProfileAnswered \/ Refreshed \/ Logout \/ BackendLogout \/ LocalLogout \/ LogoutFails
      \/ CookieChanges
      \/ \E r \in FormRequests : SignedIn(r)
  <2>1. CASE Navigate \/ SetMode \/ SetMethod \/ DifferentNumber \/ Verified \/ Expired
    BY <2>1 DEF Navigate, SetMode, SetMethod, DifferentNumber, Verified, Expired
  <2>2. ASSUME NEW r \in FormRequests,
               \/ Submit(r) \/ SubmitUnguarded(r) \/ Answered(r) \/ Registered(r)
               \/ NextToken(r) \/ NoToken(r) \/ NextStep(r) \/ Refused(r)
        PROVE  UNCHANGED <<user, cookie, getProfile, leaving, apart>>
    BY <2>2 DEF Submit, SubmitUnguarded, Answered, Registered, NextToken, NoToken, NextStep, Refused
  <2>3. CASE UNCHANGED signInVars
    BY <2>3 DEF signInVars
  <2>. QED
    BY <2>1, <2>2, <2>3 DEF SignInNext
<1>. QED
  BY <1>1, <1>2, <1>3, <1>4, <1>5, <1>6, <1>7, <1>8, <1>9, <1>a

\* The user shown is the one the cookie signs in, whatever order a profile, a
\* sign-in and a logout are answered in, but for the crossings "apart" names and
\* while a cookie is gone, or another tab's, that this tab did not write.
THEOREM ShownUserOwnsTheSession == SignInSpec => []UserIsTheSession
<1>1. IdentityInv => UserIsTheSession
  BY DEF IdentityInv, UserIsTheSession
<1>. QED
  BY <1>1, IdentityInit, IdentityStep, PTL DEF SignInSpec
=============================================================================
