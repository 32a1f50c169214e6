---------------------------- MODULE WalletProofs ----------------------------
(***************************************************************************)
(* Proofs about Wallet, for every set of users, campaigns and amounts.     *)
(*                                                                         *)
(* MoneyConserved is inductive once the types are known.                   *)
(* SpendWithinReservation is not: reserving must also know that a held     *)
(* campaign already has its CAMPAIGN_RESERVATION row under its owner's     *)
(* wallet, so that the unique index refuses a second one.  OwnReservations *)
(* adds that.                                                              *)
(* ReservedIsBacked and LedgerReplays are sums over campaigns and over     *)
(* ledger rows: each operation moves one term of a sum by its amount, and  *)
(* the lemmas on SumFunctionOnSet say what that does to the sum.           *)
(***************************************************************************)
EXTENDS Wallet, FiniteSetTheorems, WellFoundedInduction, TLAPS

-----------------------------------------------------------------------------
(* SumFunctionOnSet, the sum of a function's values over a finite set, as   *)
(* Functions.tla defines it by recursion over subsets.  Induction over the  *)
(* subsets of a finite set does without the library's induction theorems,   *)
(* whose parameter is an operator: a set of counterexamples has a minimal   *)
(* member (MinimalSubset), and a minimal counterexample contradicts itself. *)

\* Every non-empty set of subsets of a finite set has a member none of whose
\* strict subsets is a member.
LEMMA MinimalSubset ==
  ASSUME NEW S, IsFiniteSet(S), NEW B, B \subseteq SUBSET S, B # {}
  PROVE  \E T \in B : \A U \in B : U \subseteq T => U = T
<1>1. IsWellFoundedOn(StrictSubsetOrdering(S), FiniteSubsetsOf(S))
  BY FS_StrictSubsetOrderingWellFounded
<1>2. FiniteSubsetsOf(S) = SUBSET S
  BY FS_FiniteSubsetsOfFinite
<1>3. \E T \in B : \A U \in B : <<U, T>> \notin StrictSubsetOrdering(S)
  BY <1>1, <1>2, WFMin
<1> QED
  BY <1>3 DEF StrictSubsetOrdering

SumPick(s) == CHOOSE x \in s : TRUE

\* What SumFunctionOnSet's recursion computes for a set from what it computes
\* for the smaller ones.
SumStep(f, it, s) == IF s = {} THEN 0 ELSE f[SumPick(s)] + it[s \ {SumPick(s)}]

SubsetSums(f, S) == CHOOSE it : it = [s \in SUBSET S |-> SumStep(f, it, s)]

LEMMA SumIsSums ==
  ASSUME NEW f, NEW S
  PROVE  SumFunctionOnSet(f, S) = SubsetSums(f, S)[S]
BY DEF SumFunctionOnSet, FoldFunctionOnSet, MapThenFoldSet, SubsetSums, SumStep, SumPick

-----------------------------------------------------------------------------
(* The recursion defines a function.                                       *)

SummandsTyped(f, S) == \A x \in S : f[x] \in Int

\* it obeys the recursion on the subsets of S of at most n elements.
ObeysSumTo(f, it, S, n) ==
  /\ it \in [SUBSET S -> Int]
  /\ \A s \in SUBSET S : Cardinality(s) <= n => it[s] = SumStep(f, it, s)

LEMMA PickIn ==
  ASSUME NEW s, s # {}
  PROVE  SumPick(s) \in s
BY DEF SumPick

\* A function that obeys the recursion up to n elements extends to n + 1.
LEMMA RecursionExtends ==
  ASSUME NEW f, NEW S, IsFiniteSet(S), SummandsTyped(f, S), NEW n \in Nat,
         NEW it, ObeysSumTo(f, it, S, n)
  PROVE  \E more : ObeysSumTo(f, more, S, n + 1)
<1> DEFINE more == [s \in SUBSET S |-> SumStep(f, it, s)]
<1>1. \A s \in SUBSET S : SumStep(f, it, s) \in Int
  <2> SUFFICES ASSUME NEW s \in SUBSET S
               PROVE  SumStep(f, it, s) \in Int
    OBVIOUS
  <2>1. CASE s = {}
    BY <2>1 DEF SumStep
  <2>2. CASE s # {}
    <3>1. SumPick(s) \in S /\ s \ {SumPick(s)} \in SUBSET S
      BY <2>2, PickIn
    <3> QED
      BY <2>2, <3>1 DEF SumStep, SummandsTyped, ObeysSumTo
  <2> QED
    BY <2>1, <2>2
<1>2. ASSUME NEW s \in SUBSET S, Cardinality(s) <= n
      PROVE  more[s] = it[s]
  BY <1>2 DEF ObeysSumTo
<1>3. ASSUME NEW s \in SUBSET S, Cardinality(s) <= n + 1
      PROVE  more[s] = SumStep(f, more, s)
  <2>1. CASE s = {}
    BY <2>1 DEF SumStep
  <2>2. CASE s # {}
    <3> DEFINE rest == s \ {SumPick(s)}
    <3>1. SumPick(s) \in s /\ rest \in SUBSET S
      BY <2>2, PickIn
    <3>2. IsFiniteSet(s) /\ Cardinality(s) \in Nat
      BY FS_Subset, FS_CardinalityType
    <3>3. Cardinality(rest) = Cardinality(s) - 1
      BY <3>1, <3>2, FS_RemoveElement
    <3>4. Cardinality(rest) <= n
      BY <1>3, <3>2, <3>3
    <3>5. more[rest] = it[rest]
      BY <1>2, <3>1, <3>4
    <3> QED
      BY <2>2, <3>1, <3>5 DEF SumStep
  <2> QED
    BY <2>1, <2>2
<1>4. more \in [SUBSET S -> Int]
  BY <1>1
<1>5. ObeysSumTo(f, more, S, n + 1)
  BY <1>3, <1>4 DEF ObeysSumTo
<1> QED
  BY <1>5

LEMMA RecursionObeyed ==
  ASSUME NEW f, NEW S, IsFiniteSet(S), SummandsTyped(f, S)
  PROVE  \A T \in SUBSET S : \E it : ObeysSumTo(f, it, S, Cardinality(T))
<1> DEFINE B == {T \in SUBSET S : ~ \E it : ObeysSumTo(f, it, S, Cardinality(T))}
<1> SUFFICES ASSUME B # {}
             PROVE  FALSE
  OBVIOUS
<1>1. PICK T \in B : \A U \in B : U \subseteq T => U = T
  <2> HIDE DEF B
  <2> B \subseteq SUBSET S
    BY DEF B
  <2> QED
    BY MinimalSubset
<1>2. IsFiniteSet(T) /\ Cardinality(T) \in Nat
  BY <1>1, FS_Subset, FS_CardinalityType
<1>3. CASE T = {}
  <2> DEFINE zero == [s \in SUBSET S |-> 0]
  <2>1. Cardinality(T) = 0
    BY <1>3, FS_EmptySet
  <2>2. ASSUME NEW s \in SUBSET S, Cardinality(s) <= 0
        PROVE  s = {}
    BY <2>2, FS_Subset, FS_CardinalityType, FS_EmptySet
  <2>3. ObeysSumTo(f, zero, S, 0)
    BY <2>2 DEF ObeysSumTo, SumStep
  <2> QED
    BY <1>1, <2>1, <2>3
<1>4. CASE T # {}
  <2> DEFINE rest == T \ {SumPick(T)}
  <2>1. rest \in SUBSET S /\ rest \subseteq T /\ rest # T /\ SumPick(T) \in T
    BY <1>1, <1>4, PickIn
  <2>2. Cardinality(rest) + 1 = Cardinality(T) /\ Cardinality(rest) \in Nat
    <3>1. IsFiniteSet(rest) /\ Cardinality(rest) = Cardinality(T) - 1
      BY <1>2, <2>1, FS_RemoveElement
    <3>2. Cardinality(rest) \in Nat
      BY <3>1, FS_CardinalityType
    <3> QED
      BY <1>2, <3>1, <3>2
  <2>3. rest \notin B
    BY <1>1, <2>1
  <2>4. \E it : ObeysSumTo(f, it, S, Cardinality(rest))
    BY <2>1, <2>3
  <2>5. \E it : ObeysSumTo(f, it, S, Cardinality(rest) + 1)
    BY <2>2, <2>4, RecursionExtends
  <2> QED
    BY <1>1, <2>2, <2>5
<1> QED
  BY <1>3, <1>4

LEMMA SumsObeys ==
  ASSUME NEW f, NEW S, IsFiniteSet(S), SummandsTyped(f, S)
  PROVE  /\ SubsetSums(f, S) \in [SUBSET S -> Int]
         /\ \A s \in SUBSET S : SubsetSums(f, S)[s] = SumStep(f, SubsetSums(f, S), s)
<1>1. PICK it : ObeysSumTo(f, it, S, Cardinality(S))
  BY RecursionObeyed
<1>2. \A s \in SUBSET S : Cardinality(s) <= Cardinality(S)
  BY FS_Subset
<1>3. it = [s \in SUBSET S |-> SumStep(f, it, s)]
  BY <1>1, <1>2 DEF ObeysSumTo
<1>4. SubsetSums(f, S) = [s \in SUBSET S |-> SumStep(f, SubsetSums(f, S), s)]
  BY <1>3 DEF SubsetSums
<1> DEFINE F == SubsetSums(f, S)
<1>5. \A s \in SUBSET S : F[s] = SumStep(f, F, s)
  <2> HIDE DEF F
  <2>1. F = [s \in SUBSET S |-> SumStep(f, F, s)]
    BY <1>4 DEF F
  <2> QED
    BY <2>1
<1>6. \A s \in SUBSET S : F[s] = it[s]
  <2> DEFINE B == {s \in SUBSET S : F[s] # it[s]}
  <2> SUFFICES ASSUME B # {}
               PROVE  FALSE
    OBVIOUS
  <2>1. PICK T \in B : \A U \in B : U \subseteq T => U = T
    <3> HIDE DEF B
    <3> B \subseteq SUBSET S
      BY DEF B
    <3> QED
      BY MinimalSubset
  <2>2. it[T] = SumStep(f, it, T) /\ F[T] = SumStep(f, F, T)
    BY <1>1, <1>2, <1>5, <2>1 DEF ObeysSumTo
  <2>3. T # {}
    BY <2>1, <2>2 DEF SumStep
  <2>4. LET rest == T \ {SumPick(T)} IN
          rest \in SUBSET S /\ rest \subseteq T /\ rest # T
    BY <2>1, <2>3, PickIn
  <2>5. F[T \ {SumPick(T)}] = it[T \ {SumPick(T)}]
    BY <2>1, <2>4
  <2> QED
    BY <2>1, <2>2, <2>3, <2>5 DEF SumStep
<1>7. DOMAIN F = SUBSET S
  BY <1>4
<1>8. F = it
  <2> HIDE DEF F
  <2>1. F = [s \in SUBSET S |-> SumStep(f, F, s)]
    BY <1>4 DEF F
  <2> QED
    BY <1>3, <1>6, <2>1
<1> QED
  BY <1>1, <1>5, <1>8 DEF ObeysSumTo

-----------------------------------------------------------------------------
(* Sums of subsets: any element may be taken out first.                    *)

LEMMA SumsTakeOut ==
  ASSUME NEW f, NEW S, IsFiniteSet(S), SummandsTyped(f, S)
  PROVE  \A s \in SUBSET S : \A x \in s : SubsetSums(f, S)[s] = f[x] + SubsetSums(f, S)[s \ {x}]
<1> DEFINE F == SubsetSums(f, S)
           Fails(s) == \E x \in s : F[s] # f[x] + F[s \ {x}]
           B == {s \in SUBSET S : Fails(s)}
<1>1. /\ F \in [SUBSET S -> Int]
      /\ \A s \in SUBSET S : F[s] = SumStep(f, F, s)
  BY SumsObeys
<1> HIDE DEF F
<1> SUFFICES ASSUME B # {}
             PROVE  FALSE
  BY DEF F
<1>2. PICK T \in B : \A U \in B : U \subseteq T => U = T
  <2> HIDE DEF B
  <2> B \subseteq SUBSET S
    BY DEF B
  <2> QED
    BY MinimalSubset
<1>3. PICK x \in T : F[T] # f[x] + F[T \ {x}]
  BY <1>2
<1> DEFINE c == SumPick(T)
<1>4. c \in T
  BY <1>3, PickIn
<1>5. F[T] = f[c] + F[T \ {c}]
  BY <1>1, <1>2, <1>3 DEF SumStep
<1>6. c # x
  BY <1>3, <1>5
<1> HIDE DEF c
<1>7. F[T \ {c}] = f[x] + F[(T \ {c}) \ {x}]
  <2>1. T \ {c} \notin B
    BY <1>2, <1>4
  <2>2. T \ {c} \in SUBSET S /\ x \in T \ {c}
    BY <1>2, <1>3, <1>6
  <2> QED
    BY <2>1, <2>2
<1>8. F[T \ {x}] = f[c] + F[(T \ {x}) \ {c}]
  <2>1. T \ {x} \notin B
    BY <1>2, <1>3
  <2>2. T \ {x} \in SUBSET S /\ c \in T \ {x}
    BY <1>2, <1>4, <1>6
  <2> QED
    BY <2>1, <2>2
<1>9. F[T \ {x}] = f[c] + F[(T \ {c}) \ {x}]
  <2>1. (T \ {c}) \ {x} = (T \ {x}) \ {c}
    OBVIOUS
  <2> QED
    BY <1>8, <2>1
<1>10. f[x] \in Int /\ f[c] \in Int /\ F[(T \ {c}) \ {x}] \in Int
  <2>1. x \in S /\ c \in S /\ (T \ {c}) \ {x} \in SUBSET S
    BY <1>2, <1>3, <1>4
  <2> QED
    BY <1>1, <2>1 DEF SummandsTyped
<1>11. F[T] = f[x] + F[T \ {x}]
  BY <1>5, <1>7, <1>9, <1>10
<1> QED
  BY <1>3, <1>11

\* Sums over a subset do not depend on the set they are computed within.
LEMMA SumsWithin ==
  ASSUME NEW f, NEW S, IsFiniteSet(S), SummandsTyped(f, S), NEW T \in SUBSET S
  PROVE  SubsetSums(f, T)[T] = SubsetSums(f, S)[T]
<1> DEFINE F == SubsetSums(f, S)
           G == SubsetSums(f, T)
           B == {s \in SUBSET T : G[s] # F[s]}
<1>1. IsFiniteSet(T) /\ SummandsTyped(f, T)
  BY FS_Subset DEF SummandsTyped
<1>2. \A s \in SUBSET S : F[s] = SumStep(f, F, s)
  BY SumsObeys
<1>3. \A s \in SUBSET T : G[s] = SumStep(f, G, s)
  BY <1>1, SumsObeys
<1> HIDE DEF F, G
<1>4. B = {}
  <2> SUFFICES ASSUME B # {}
               PROVE  FALSE
    OBVIOUS
  <2>1. PICK W \in B : \A U \in B : U \subseteq W => U = W
    <3> HIDE DEF B
    <3> B \subseteq SUBSET T
      BY DEF B
    <3> QED
      BY <1>1, MinimalSubset
  <2>2. F[W] = SumStep(f, F, W) /\ G[W] = SumStep(f, G, W)
    BY <1>2, <1>3, <2>1
  <2>3. W # {}
    BY <2>1, <2>2 DEF SumStep
  <2>4. LET rest == W \ {SumPick(W)} IN
          rest \in SUBSET T /\ rest \subseteq W /\ rest # W
    BY <2>1, <2>3, PickIn
  <2>5. F[W \ {SumPick(W)}] = G[W \ {SumPick(W)}]
    BY <2>1, <2>4
  <2> QED
    BY <2>1, <2>2, <2>3, <2>5 DEF SumStep
<1> QED
  BY <1>4 DEF F, G

-----------------------------------------------------------------------------
(* What the proofs about money cite.                                       *)

LEMMA SumEmpty ==
  ASSUME NEW f
  PROVE  SumFunctionOnSet(f, {}) = 0
<1>1. IsFiniteSet({}) /\ SummandsTyped(f, {})
  BY FS_EmptySet DEF SummandsTyped
<1>2. \A s \in SUBSET {} : SubsetSums(f, {})[s] = SumStep(f, SubsetSums(f, {}), s)
  BY <1>1, SumsObeys
<1>3. SumFunctionOnSet(f, {}) = SubsetSums(f, {})[{}]
  BY SumIsSums
<1> QED
  BY <1>2, <1>3 DEF SumStep

LEMMA SumType ==
  ASSUME NEW f, NEW S, IsFiniteSet(S), \A x \in S : f[x] \in Int
  PROVE  SumFunctionOnSet(f, S) \in Int
<1>1. SummandsTyped(f, S)
  BY DEF SummandsTyped
<1>2. SubsetSums(f, S) \in [SUBSET S -> Int]
  BY <1>1, SumsObeys
<1> QED
  BY <1>2, SumIsSums

LEMMA SumRemove ==
  ASSUME NEW f, NEW S, IsFiniteSet(S), \A x \in S : f[x] \in Int, NEW x \in S
  PROVE  SumFunctionOnSet(f, S) = f[x] + SumFunctionOnSet(f, S \ {x})
<1>1. SummandsTyped(f, S)
  BY DEF SummandsTyped
<1>2. SubsetSums(f, S)[S] = f[x] + SubsetSums(f, S)[S \ {x}]
  BY <1>1, SumsTakeOut
<1>3. SubsetSums(f, S \ {x})[S \ {x}] = SubsetSums(f, S)[S \ {x}]
  BY <1>1, SumsWithin
<1>4. SumFunctionOnSet(f, S) = SubsetSums(f, S)[S]
  BY SumIsSums
<1>5. SumFunctionOnSet(f, S \ {x}) = SubsetSums(f, S \ {x})[S \ {x}]
  BY SumIsSums
<1> QED
  BY <1>2, <1>3, <1>4, <1>5

LEMMA SumAdd ==
  ASSUME NEW f, NEW S, IsFiniteSet(S), NEW x, x \notin S,
         \A y \in S \cup {x} : f[y] \in Int
  PROVE  SumFunctionOnSet(f, S \cup {x}) = f[x] + SumFunctionOnSet(f, S)
<1>1. IsFiniteSet(S \cup {x})
  BY FS_AddElement
<1>2. (S \cup {x}) \ {x} = S
  OBVIOUS
<1>3. SumFunctionOnSet(f, S \cup {x}) = f[x] + SumFunctionOnSet(f, (S \cup {x}) \ {x})
  BY <1>1, SumRemove
<1> QED
  BY <1>2, <1>3

\* Only the values on the set matter.
LEMMA SumCongruent ==
  ASSUME NEW f, NEW g, NEW S, IsFiniteSet(S),
         \A x \in S : f[x] \in Int /\ g[x] = f[x]
  PROVE  SumFunctionOnSet(g, S) = SumFunctionOnSet(f, S)
<1> DEFINE B == {s \in SUBSET S : SumFunctionOnSet(g, s) # SumFunctionOnSet(f, s)}
<1> SUFFICES ASSUME B # {}
             PROVE  FALSE
  OBVIOUS
<1>1. PICK T \in B : \A U \in B : U \subseteq T => U = T
  <2> HIDE DEF B
  <2> B \subseteq SUBSET S
    BY DEF B
  <2> QED
    BY MinimalSubset
<1>2. IsFiniteSet(T)
  BY <1>1, FS_Subset
<1>3. T # {}
  BY <1>1, SumEmpty
<1>4. PICK x : x \in T
  BY <1>3
<1>5. T \ {x} \notin B
  BY <1>1, <1>4
<1>6. SumFunctionOnSet(g, T \ {x}) = SumFunctionOnSet(f, T \ {x})
  BY <1>1, <1>5
<1>7. SumFunctionOnSet(f, T) = f[x] + SumFunctionOnSet(f, T \ {x})
  <2>1. \A y \in T : f[y] \in Int
    BY <1>1
  <2> QED
    BY <1>2, <1>4, <2>1, SumRemove
<1>8. SumFunctionOnSet(g, T) = g[x] + SumFunctionOnSet(g, T \ {x})
  <2>1. \A y \in T : g[y] \in Int
    BY <1>1
  <2> QED
    BY <1>2, <1>4, <2>1, SumRemove
<1>9. f[x] = g[x]
  BY <1>1, <1>4
<1> QED
  BY <1>1, <1>6, <1>7, <1>8, <1>9

\* One value changes, and the sum by as much.
LEMMA SumUpdate ==
  ASSUME NEW f, NEW g, NEW S, IsFiniteSet(S), NEW x \in S,
         \A y \in S : f[y] \in Int /\ g[y] \in Int,
         \A y \in S \ {x} : g[y] = f[y]
  PROVE  SumFunctionOnSet(g, S) = SumFunctionOnSet(f, S) + (g[x] - f[x])
<1>1. IsFiniteSet(S \ {x})
  BY FS_RemoveElement
<1>2. SumFunctionOnSet(f, S) = f[x] + SumFunctionOnSet(f, S \ {x})
  BY SumRemove
<1>3. SumFunctionOnSet(g, S) = g[x] + SumFunctionOnSet(g, S \ {x})
  BY SumRemove
<1>4. SumFunctionOnSet(g, S \ {x}) = SumFunctionOnSet(f, S \ {x})
  BY <1>1, SumCongruent
<1>5. SumFunctionOnSet(f, S \ {x}) \in Int
  BY <1>1, SumType
<1> QED
  BY <1>2, <1>3, <1>4, <1>5

LEMMA SumNat ==
  ASSUME NEW f, NEW S, IsFiniteSet(S), \A x \in S : f[x] \in Nat
  PROVE  SumFunctionOnSet(f, S) \in Nat
<1> DEFINE B == {s \in SUBSET S : SumFunctionOnSet(f, s) \notin Nat}
<1> SUFFICES ASSUME B # {}
             PROVE  FALSE
  OBVIOUS
<1>1. PICK T \in B : \A U \in B : U \subseteq T => U = T
  <2> HIDE DEF B
  <2> B \subseteq SUBSET S
    BY DEF B
  <2> QED
    BY MinimalSubset
<1>2. IsFiniteSet(T)
  BY <1>1, FS_Subset
<1>3. T # {}
  <2>1. SumFunctionOnSet(f, {}) = 0
    BY SumEmpty
  <2>2. SumFunctionOnSet(f, {}) \in Nat
    BY <2>1
  <2>3. SumFunctionOnSet(f, T) \notin Nat
    BY <1>1
  <2> QED
    BY <2>2, <2>3, Zenon
<1>4. PICK x : x \in T
  BY <1>3
<1>5. SumFunctionOnSet(f, T \ {x}) \in Nat
  <2>1. T \ {x} \notin B
    BY <1>1, <1>4
  <2> QED
    BY <1>1, <2>1
<1>6. SumFunctionOnSet(f, T) = f[x] + SumFunctionOnSet(f, T \ {x})
  <2>1. \A y \in T : f[y] \in Int
    BY <1>1
  <2> QED
    BY <1>2, <1>4, <2>1, SumRemove
<1>7. f[x] \in Nat
  BY <1>1, <1>4
<1> QED
  BY <1>1, <1>5, <1>6, <1>7

LEMMA SumZero ==
  ASSUME NEW f, NEW S, IsFiniteSet(S), \A x \in S : f[x] = 0
  PROVE  SumFunctionOnSet(f, S) = 0
<1> DEFINE B == {s \in SUBSET S : SumFunctionOnSet(f, s) # 0}
<1> SUFFICES ASSUME B # {}
             PROVE  FALSE
  OBVIOUS
<1>1. PICK T \in B : \A U \in B : U \subseteq T => U = T
  <2> HIDE DEF B
  <2> B \subseteq SUBSET S
    BY DEF B
  <2> QED
    BY MinimalSubset
<1>2. IsFiniteSet(T)
  BY <1>1, FS_Subset
<1>3. T # {}
  BY <1>1, SumEmpty
<1>4. PICK x : x \in T
  BY <1>3
<1>5. SumFunctionOnSet(f, T \ {x}) = 0
  <2>1. T \ {x} \notin B
    BY <1>1, <1>4
  <2> QED
    BY <1>1, <2>1
<1>6. SumFunctionOnSet(f, T) = f[x] + SumFunctionOnSet(f, T \ {x})
  <2>1. \A y \in T : f[y] \in Int
    BY <1>1
  <2> QED
    BY <1>2, <1>4, <2>1, SumRemove
<1>7. f[x] = 0
  BY <1>1, <1>4
<1> QED
  BY <1>1, <1>5, <1>6, <1>7

-----------------------------------------------------------------------------
(* Types *)

USE DEF Users

LEMMA InitTypeOK == Init => TypeOK
  BY WalletAssumption DEF Init, TypeOK, EmptyWallet, Wallets, CampaignStatus

\* A row an operation writes has the type of a ledger row.
LEMMA AddRowType ==
  ASSUME NEW u \in Users, NEW type \in TransactionType, NEW a \in Amounts,
         NEW r \in TransactionRefs, ledger \subseteq WalletTransaction,
         RecordTransaction(u, type, a, r)
  PROVE  ledger' \subseteq WalletTransaction
  BY DEF RecordTransaction, AddRow, WalletTransaction

LEMMA DepositTypeOK ==
  ASSUME TypeOK, NEW u \in Users, NEW a \in Amounts, NEW r \in Refs,
         Deposit(u, a, r)
  PROVE  TypeOK'
<1>1. a \in Nat
  BY WalletAssumption
<1>2. ledger' \subseteq WalletTransaction
  BY AddRowType DEF Deposit, TypeOK, TransactionType, TransactionRefs
<1>3. wallet' \in [Users -> Wallets] /\ balance' \in [Users -> Nat]
  BY <1>1 DEF Deposit, TypeOK, Wallets
<1>. QED
  BY <1>2, <1>3 DEF TypeOK, Deposit

LEMMA ReserveTypeOK ==
  ASSUME TypeOK, NEW c \in Campaigns, NEW a \in Amounts, NEW m \in MinBalances,
         ReserveCampaignBudget(c, a, m)
  PROVE  TypeOK'
<1>1. a \in Nat /\ Owner[c] \in Users
  BY WalletAssumption
<1>2. ledger' \subseteq WalletTransaction
  BY <1>1, AddRowType
  DEF ReserveCampaignBudget, TypeOK, TransactionType, TransactionRefs
<1>3. wallet' \in [Users -> Wallets] /\ balance' \in [Users -> Nat]
  BY <1>1 DEF ReserveCampaignBudget, TypeOK, Wallets
<1>4. campaign' \in [Campaigns -> [status: CampaignStatus, reservedAmount: Nat,
                                   spentAmount: Nat]]
  BY <1>1 DEF ReserveCampaignBudget, TypeOK
<1>. QED
  BY <1>2, <1>3, <1>4 DEF TypeOK

LEMMA ReleaseTypeOK ==
  ASSUME TypeOK, NEW c \in Campaigns, NEW a \in Amounts, NEW t \in Instants,
         ReleaseCampaignReservation(c, a, t)
  PROVE  TypeOK'
<1>1. a \in Nat /\ Owner[c] \in Users
  BY WalletAssumption
<1>2. ledger' \subseteq WalletTransaction
  BY <1>1, AddRowType
  DEF ReleaseCampaignReservation, TypeOK, TransactionType, TransactionRefs
<1>3. wallet' \in [Users -> Wallets] /\ balance' \in [Users -> Nat]
  BY <1>1 DEF ReleaseCampaignReservation, TypeOK, Wallets
<1>4. campaign' \in [Campaigns -> [status: CampaignStatus, reservedAmount: Nat,
                                   spentAmount: Nat]]
  BY <1>1 DEF ReleaseCampaignReservation, TypeOK
<1>. QED
  BY <1>2, <1>3, <1>4 DEF TypeOK

LEMMA SpendTypeOK ==
  ASSUME TypeOK, NEW c \in Campaigns, NEW a \in Amounts, NEW r \in Refs,
         RecordCampaignSpend(c, a, r)
  PROVE  TypeOK'
<1>1. a \in Nat /\ Owner[c] \in Users
  BY WalletAssumption
<1>2. ledger' \subseteq WalletTransaction
  BY <1>1, AddRowType
  DEF RecordCampaignSpend, TypeOK, TransactionType, TransactionRefs
<1>3. wallet' \in [Users -> Wallets] /\ balance' \in [Users -> Nat]
  BY <1>1 DEF RecordCampaignSpend, TypeOK, Wallets
<1>4. campaign' \in [Campaigns -> [status: CampaignStatus, reservedAmount: Nat,
                                   spentAmount: Nat]]
  <2>1. campaign[c] \in [status: CampaignStatus, reservedAmount: Nat,
                         spentAmount: Nat]
    BY DEF TypeOK
  <2>2. campaign[c].reservedAmount - a \in Nat
    BY <1>1, <2>1 DEF RecordCampaignSpend
  <2>3. campaign[c].spentAmount + a \in Nat
    BY <1>1, <2>1
  <2>. QED
    BY <2>1, <2>2, <2>3 DEF RecordCampaignSpend, TypeOK
<1>. QED
  BY <1>2, <1>3, <1>4 DEF TypeOK

LEMMA EarningTypeOK ==
  ASSUME TypeOK, NEW u \in Publishers, NEW a \in Amounts, NEW r \in Refs,
         NEW immediate \in BOOLEAN, CreditPublisherEarning(u, a, r, immediate)
  PROVE  TypeOK'
<1>1. a \in Nat /\ u \in Users
  BY WalletAssumption
<1>2. ledger' \subseteq WalletTransaction
  BY <1>1, AddRowType
  DEF CreditPublisherEarning, TypeOK, TransactionType, TransactionRefs
<1>3. wallet' \in [Users -> Wallets] /\ balance' \in [Users -> Nat]
  <2>1. CASE immediate
    BY <1>1, <2>1 DEF CreditPublisherEarning, TypeOK, Wallets
  <2>2. CASE ~immediate
    BY <1>1, <2>2 DEF CreditPublisherEarning, TypeOK, Wallets
  <2>. QED
    BY <2>1, <2>2
<1>. QED
  BY <1>2, <1>3 DEF TypeOK, CreditPublisherEarning

LEMMA PromoteTypeOK ==
  ASSUME TypeOK, NEW u \in Publishers, NEW a \in Amounts,
         PromotePendingEarnings(u, a)
  PROVE  TypeOK'
<1>1. a \in Nat /\ u \in Users
  BY WalletAssumption
<1>2. wallet' \in [Users -> Wallets] /\ balance' \in [Users -> Nat]
  BY <1>1 DEF PromotePendingEarnings, TypeOK, Wallets
<1>. QED
  BY <1>2 DEF TypeOK, PromotePendingEarnings

LEMMA StatusTypeOK ==
  ASSUME TypeOK, NEW c \in Campaigns, NEW s \in StatusWrites,
         SetCampaignStatus(c, s)
  PROVE  TypeOK'
  BY WalletAssumption DEF SetCampaignStatus, TypeOK

LEMMA NextTypeOK == TypeOK /\ [Next]_walletVars => TypeOK'
<1>. SUFFICES ASSUME TypeOK, [Next]_walletVars
              PROVE  TypeOK'
  OBVIOUS
<1>1. CASE DepositStep
  BY <1>1, DepositTypeOK DEF DepositStep
<1>2. CASE CampaignStep
  BY <1>2, StatusTypeOK, ReserveTypeOK, ReleaseTypeOK, SpendTypeOK
  DEF CampaignStep
<1>3. CASE PublisherStep
  BY <1>3, EarningTypeOK, PromoteTypeOK DEF PublisherStep
<1>4. CASE UNCHANGED walletVars
  BY <1>4 DEF walletVars, TypeOK
<1>. QED
  BY <1>1, <1>2, <1>3, <1>4 DEF Next

\* No order of calls drives an available balance or a campaign's reservation
\* below zero, or writes a ledger row that is not one of the known shapes.
THEOREM TypeCorrect == Spec => []TypeOK
  BY InitTypeOK, NextTypeOK, PTL DEF Spec

-----------------------------------------------------------------------------
(* Conservation of money *)

\* The identity MoneyConserved states of one user.
Conserved(u) ==
  balance[u] + wallet[u].reservedBalance + wallet[u].pendingEarnings
    = wallet[u].totalDeposited + wallet[u].totalEarned
      - wallet[u].totalSpent - wallet[u].totalWithdrawn

\* An operation touches the money of one user: the identity has to be checked
\* for that one, and every other user's rows are as they were.
LEMMA OneUserMoves ==
  ASSUME MoneyConserved, NEW v \in Users, Conserved(v)',
         \A u \in Users \ {v} : balance'[u] = balance[u] /\ wallet'[u] = wallet[u]
  PROVE  MoneyConserved'
  BY DEF MoneyConserved, Conserved

LEMMA DepositConserves ==
  ASSUME TypeOK, MoneyConserved, NEW u \in Users, NEW a \in Amounts,
         NEW r \in Refs, Deposit(u, a, r)
  PROVE  MoneyConserved'
<1>1. a \in Nat
  BY WalletAssumption
<1>2. Conserved(u)'
  BY <1>1 DEF Deposit, TypeOK, Wallets, MoneyConserved, Conserved
<1>3. \A v \in Users \ {u} : balance'[v] = balance[v] /\ wallet'[v] = wallet[v]
  BY DEF Deposit, TypeOK
<1>. QED
  BY <1>2, <1>3, OneUserMoves

LEMMA ReserveConserves ==
  ASSUME TypeOK, MoneyConserved, NEW c \in Campaigns, NEW a \in Amounts,
         NEW m \in MinBalances, ReserveCampaignBudget(c, a, m)
  PROVE  MoneyConserved'
<1>1. a \in Nat /\ Owner[c] \in Users
  BY WalletAssumption
<1>2. Conserved(Owner[c])'
  BY <1>1 DEF ReserveCampaignBudget, TypeOK, Wallets, MoneyConserved, Conserved
<1>3. \A v \in Users \ {Owner[c]} :
        balance'[v] = balance[v] /\ wallet'[v] = wallet[v]
  BY <1>1 DEF ReserveCampaignBudget, TypeOK
<1>. QED
  BY <1>1, <1>2, <1>3, OneUserMoves

LEMMA ReleaseConserves ==
  ASSUME TypeOK, MoneyConserved, NEW c \in Campaigns, NEW a \in Amounts,
         NEW t \in Instants, ReleaseCampaignReservation(c, a, t)
  PROVE  MoneyConserved'
<1>1. a \in Nat /\ Owner[c] \in Users
  BY WalletAssumption
<1>2. Conserved(Owner[c])'
  BY <1>1
  DEF ReleaseCampaignReservation, TypeOK, Wallets, MoneyConserved, Conserved
<1>3. \A v \in Users \ {Owner[c]} :
        balance'[v] = balance[v] /\ wallet'[v] = wallet[v]
  BY <1>1 DEF ReleaseCampaignReservation, TypeOK
<1>. QED
  BY <1>1, <1>2, <1>3, OneUserMoves

LEMMA SpendConserves ==
  ASSUME TypeOK, MoneyConserved, NEW c \in Campaigns, NEW a \in Amounts,
         NEW r \in Refs, RecordCampaignSpend(c, a, r)
  PROVE  MoneyConserved'
<1>1. a \in Nat /\ Owner[c] \in Users
  BY WalletAssumption
<1>2. Conserved(Owner[c])'
  BY <1>1 DEF RecordCampaignSpend, TypeOK, Wallets, MoneyConserved, Conserved
<1>3. \A v \in Users \ {Owner[c]} :
        balance'[v] = balance[v] /\ wallet'[v] = wallet[v]
  BY <1>1 DEF RecordCampaignSpend, TypeOK
<1>. QED
  BY <1>1, <1>2, <1>3, OneUserMoves

LEMMA EarningConserves ==
  ASSUME TypeOK, MoneyConserved, NEW u \in Publishers, NEW a \in Amounts,
         NEW r \in Refs, NEW immediate \in BOOLEAN,
         CreditPublisherEarning(u, a, r, immediate)
  PROVE  MoneyConserved'
<1>1. a \in Nat /\ u \in Users
  BY WalletAssumption
<1>2. Conserved(u)'
  <2>1. CASE immediate
    BY <1>1, <2>1
    DEF CreditPublisherEarning, TypeOK, Wallets, MoneyConserved, Conserved
  <2>2. CASE ~immediate
    BY <1>1, <2>2
    DEF CreditPublisherEarning, TypeOK, Wallets, MoneyConserved, Conserved
  <2>. QED
    BY <2>1, <2>2
<1>3. \A v \in Users \ {u} : balance'[v] = balance[v] /\ wallet'[v] = wallet[v]
  BY <1>1 DEF CreditPublisherEarning, TypeOK
<1>. QED
  BY <1>1, <1>2, <1>3, OneUserMoves

LEMMA PromoteConserves ==
  ASSUME TypeOK, MoneyConserved, NEW u \in Publishers, NEW a \in Amounts,
         PromotePendingEarnings(u, a)
  PROVE  MoneyConserved'
<1>1. a \in Nat /\ u \in Users
  BY WalletAssumption
<1>2. Conserved(u)'
  BY <1>1 DEF PromotePendingEarnings, TypeOK, Wallets, MoneyConserved, Conserved
<1>3. \A v \in Users \ {u} : balance'[v] = balance[v] /\ wallet'[v] = wallet[v]
  BY <1>1 DEF PromotePendingEarnings, TypeOK
<1>. QED
  BY <1>1, <1>2, <1>3, OneUserMoves

LEMMA NextConserves ==
  TypeOK /\ MoneyConserved /\ [Next]_walletVars => MoneyConserved'
<1>. SUFFICES ASSUME TypeOK, MoneyConserved, [Next]_walletVars
              PROVE  MoneyConserved'
  OBVIOUS
<1>1. CASE DepositStep
  BY <1>1, DepositConserves DEF DepositStep
<1>2. ASSUME NEW c \in Campaigns, NEW s \in StatusWrites, SetCampaignStatus(c, s)
      PROVE  MoneyConserved'
  BY <1>2 DEF SetCampaignStatus, MoneyConserved
<1>3. CASE CampaignStep
  BY <1>2, <1>3, ReserveConserves, ReleaseConserves, SpendConserves
  DEF CampaignStep
<1>4. CASE PublisherStep
  BY <1>4, EarningConserves, PromoteConserves DEF PublisherStep
<1>5. CASE UNCHANGED walletVars
  BY <1>5 DEF walletVars, MoneyConserved
<1>. QED
  BY <1>1, <1>3, <1>4, <1>5 DEF Next

\* Whatever the callers do, each user's money is in exactly one place: no
\* WalletManager transaction creates or destroys any.
THEOREM MoneyIsConserved == Spec => []MoneyConserved
<1>1. Init => MoneyConserved
  BY DEF Init, MoneyConserved, EmptyWallet
<1>. QED
  BY <1>1, NextConserves, TypeCorrect, PTL DEF Spec

-----------------------------------------------------------------------------
(* A campaign costs at most what was set aside for it *)

Held(c) == campaign[c].reservedAmount + campaign[c].spentAmount

IsReservationOf(row, c) == row.type = "CAMPAIGN_RESERVATION" /\ row.ref = c

\* A campaign's reservation rows are under its owner's wallet, the one the
\* unique index is consulted for when the campaign is reserved again.
OwnReservations ==
  \A row \in ledger : \A c \in Campaigns :
    IsReservationOf(row, c) => row.user = Owner[c]

FundingInv == SpendWithinReservation /\ OwnReservations

\* An operation that writes no reservation row and raises no campaign's held
\* amount keeps the invariant.
LEMMA NotHoldingMore ==
  ASSUME TypeOK, FundingInv,
         NEW row, ledger' = ledger \cup {row} \/ ledger' = ledger,
         row.type # "CAMPAIGN_RESERVATION",
         \A c \in Campaigns : /\ Held(c)' \in Nat
                              /\ Held(c) \in Nat
                              /\ Held(c)' <= Held(c)
  PROVE  FundingInv'
<1>1. OwnReservations'
  BY DEF FundingInv, OwnReservations, IsReservationOf
<1>2. ASSUME NEW c \in Campaigns, Held(c)' # 0
      PROVE  \E q \in ledger' : IsReservationOf(q, c) /\ Held(c)' <= q.amount
  <2>1. Held(c) # 0
    BY <1>2
  <2>2. PICK q \in ledger : IsReservationOf(q, c) /\ Held(c) <= q.amount
    BY <2>1 DEF FundingInv, SpendWithinReservation, IsReservationOf, Held
  <2>3. q.amount \in Nat
    BY WalletAssumption DEF TypeOK, WalletTransaction
  <2>. QED
    BY <2>2, <2>3
<1>3. SpendWithinReservation'
  BY <1>2 DEF SpendWithinReservation, IsReservationOf, Held
<1>. QED
  BY <1>1, <1>3 DEF FundingInv

LEMMA ReserveFunding ==
  ASSUME TypeOK, FundingInv, NEW c \in Campaigns, NEW a \in Amounts,
         NEW m \in MinBalances, ReserveCampaignBudget(c, a, m)
  PROVE  FundingInv'
<1>. DEFINE new == [user |-> Owner[c], type |-> "CAMPAIGN_RESERVATION",
                    ref |-> c, amount |-> a]
<1>1. a \in Nat /\ ledger' = ledger \cup {new}
  BY WalletAssumption DEF ReserveCampaignBudget, RecordTransaction, AddRow
<1>2. \A q \in ledger : ~IsReservationOf(q, c)
  BY DEF FundingInv, OwnReservations, IsReservationOf, ReserveCampaignBudget,
         RecordTransaction, Recorded
<1>3. Held(c)' = a
  <2>1. Held(c) = 0
    BY <1>2 DEF FundingInv, SpendWithinReservation, IsReservationOf, Held
  <2>2. /\ campaign[c].reservedAmount = 0
        /\ campaign[c].spentAmount = 0
    BY <2>1 DEF TypeOK, Held
  <2>. QED
    BY <1>1, <2>2 DEF ReserveCampaignBudget, TypeOK, Held
<1>4. OwnReservations'
  BY <1>1 DEF FundingInv, OwnReservations, IsReservationOf
<1>5. ASSUME NEW d \in Campaigns, Held(d)' # 0
      PROVE  \E q \in ledger' : IsReservationOf(q, d) /\ Held(d)' <= q.amount
  <2>1. CASE d = c
    <3>1. IsReservationOf(new, c) /\ new.amount = a
      BY DEF IsReservationOf
    <3>2. new \in ledger' /\ Held(d)' = a
      BY <1>1, <1>3, <2>1
    <3>. HIDE DEF new
    <3>. QED
      BY <1>1, <2>1, <3>1, <3>2
  <2>2. CASE d # c
    <3>1. Held(d)' = Held(d)
      BY <2>2 DEF ReserveCampaignBudget, TypeOK, Held
    <3>2. PICK q \in ledger : IsReservationOf(q, d) /\ Held(d) <= q.amount
      BY <1>5, <3>1 DEF FundingInv, SpendWithinReservation, IsReservationOf, Held
    <3>. QED
      BY <1>1, <3>1, <3>2
  <2>. QED
    BY <2>1, <2>2
<1>6. SpendWithinReservation'
  BY <1>5 DEF SpendWithinReservation, IsReservationOf, Held
<1>. QED
  BY <1>4, <1>6 DEF FundingInv

LEMMA ReleaseFunding ==
  ASSUME TypeOK, FundingInv, NEW c \in Campaigns, NEW a \in Amounts,
         NEW t \in Instants, ReleaseCampaignReservation(c, a, t)
  PROVE  FundingInv'
<1>. DEFINE new == [user |-> Owner[c], type |-> "REFUND", ref |-> <<c, t>>,
                    amount |-> a]
<1>1. a \in Nat /\ ledger' = ledger \cup {new}
  BY WalletAssumption DEF ReleaseCampaignReservation, RecordTransaction, AddRow
<1>2. \A d \in Campaigns : Held(d) \in Nat /\ Held(d)' \in Nat /\ Held(d)' <= Held(d)
  BY <1>1 DEF ReleaseCampaignReservation, TypeOK, Held
<1>3. new.type # "CAMPAIGN_RESERVATION"
  OBVIOUS
<1>. HIDE DEF new
<1>. QED
  BY <1>1, <1>2, <1>3, NotHoldingMore

LEMMA SpendFunding ==
  ASSUME TypeOK, FundingInv, NEW c \in Campaigns, NEW a \in Amounts,
         NEW r \in Refs, RecordCampaignSpend(c, a, r)
  PROVE  FundingInv'
<1>. DEFINE new == [user |-> Owner[c], type |-> "AD_SPEND", ref |-> r,
                    amount |-> a]
<1>1. a \in Nat /\ ledger' = ledger \cup {new}
  BY WalletAssumption DEF RecordCampaignSpend, RecordTransaction, AddRow
<1>2. \A d \in Campaigns : Held(d) \in Nat /\ Held(d)' \in Nat /\ Held(d)' <= Held(d)
  <2>1. campaign[c].reservedAmount - a \in Nat
    BY <1>1 DEF RecordCampaignSpend, TypeOK
  <2>2. Held(c)' = Held(c) /\ Held(c) \in Nat
    BY <1>1, <2>1 DEF RecordCampaignSpend, TypeOK, Held
  <2>3. \A d \in Campaigns \ {c} : Held(d)' = Held(d) /\ Held(d) \in Nat
    BY DEF RecordCampaignSpend, TypeOK, Held
  <2>. QED
    BY <2>2, <2>3
<1>3. new.type # "CAMPAIGN_RESERVATION"
  OBVIOUS
<1>. HIDE DEF new
<1>. QED
  BY <1>1, <1>2, <1>3, NotHoldingMore

\* The operations that leave every campaign's held amount alone.
LEMMA OtherFunding ==
  ASSUME TypeOK, FundingInv,
         NEW row, ledger' = ledger \cup {row} \/ ledger' = ledger,
         row.type # "CAMPAIGN_RESERVATION", UNCHANGED campaign
  PROVE  FundingInv'
<1>1. \A d \in Campaigns : Held(d) \in Nat /\ Held(d)' \in Nat /\ Held(d)' <= Held(d)
  BY DEF TypeOK, Held
<1>. QED
  BY <1>1, NotHoldingMore

LEMMA NextFunding == TypeOK /\ FundingInv /\ [Next]_walletVars => FundingInv'
<1>. SUFFICES ASSUME TypeOK, FundingInv, [Next]_walletVars
              PROVE  FundingInv'
  OBVIOUS
<1>1. ASSUME NEW u \in Users, NEW a \in Amounts, NEW r \in Refs, Deposit(u, a, r)
      PROVE  FundingInv'
  <2>. DEFINE new == [user |-> u, type |-> "DEPOSIT", ref |-> r, amount |-> a]
  <2>1. ledger' = ledger \cup {new} /\ UNCHANGED campaign
    BY <1>1 DEF Deposit, RecordTransaction, AddRow
  <2>2. new.type # "CAMPAIGN_RESERVATION"
    OBVIOUS
  <2>. HIDE DEF new
  <2>. QED
    BY <2>1, <2>2, OtherFunding
<1>2. ASSUME NEW u \in Publishers, NEW a \in Amounts, NEW r \in Refs,
             NEW immediate \in BOOLEAN, CreditPublisherEarning(u, a, r, immediate)
      PROVE  FundingInv'
  <2>. DEFINE new == [user |-> u, type |-> "PUBLISHER_EARNING", ref |-> r, amount |-> a]
  <2>1. ledger' = ledger \cup {new} /\ UNCHANGED campaign
    BY <1>2 DEF CreditPublisherEarning, RecordTransaction, AddRow
  <2>2. new.type # "CAMPAIGN_RESERVATION"
    OBVIOUS
  <2>. HIDE DEF new
  <2>. QED
    BY <2>1, <2>2, OtherFunding
<1>3. ASSUME UNCHANGED <<campaign, ledger>>
      PROVE  FundingInv'
  BY <1>3 DEF FundingInv, SpendWithinReservation, OwnReservations
<1>4. ASSUME NEW c \in Campaigns, NEW s \in StatusWrites, SetCampaignStatus(c, s)
      PROVE  FundingInv'
  <2>1. \A d \in Campaigns : Held(d)' = Held(d)
    BY <1>4 DEF SetCampaignStatus, TypeOK, Held
  <2>2. SpendWithinReservation'
    BY <1>4, <2>1
    DEF SetCampaignStatus, FundingInv, SpendWithinReservation, Held
  <2>. QED
    BY <1>4, <2>2 DEF SetCampaignStatus, FundingInv, OwnReservations
<1>5. CASE CampaignStep
  BY <1>4, <1>5, ReserveFunding, ReleaseFunding, SpendFunding DEF CampaignStep
<1>6. CASE PublisherStep
  BY <1>2, <1>3, <1>6 DEF PublisherStep, PromotePendingEarnings
<1>. QED
  BY <1>1, <1>3, <1>5, <1>6 DEF Next, DepositStep, walletVars

\* However often a campaign is reserved, billed and released, and by however
\* many concurrent callers, it holds and has spent at most its one reservation.
THEOREM CampaignCostIsBounded == Spec => []SpendWithinReservation
<1>1. Init => FundingInv
  BY DEF Init, FundingInv, SpendWithinReservation, OwnReservations
<1>2. FundingInv => SpendWithinReservation
  BY DEF FundingInv
<1>. QED
  BY <1>1, <1>2, NextFunding, TypeCorrect, PTL DEF Spec

-----------------------------------------------------------------------------
(* The wallet's reserve is its campaigns' reservations *)

Reservation == [c \in Campaigns |-> campaign[c].reservedAmount]

CampaignsOf(u) == {c \in Campaigns : Owner[c] = u}

\* A step that changes what one campaign and its owner's wallet hold by the same
\* amount keeps them in agreement.
LEMMA OneReservationMoves ==
  ASSUME TypeOK, TypeOK', ReservedIsBacked, NEW c \in Campaigns, NEW d \in Int,
         campaign'[c].reservedAmount = campaign[c].reservedAmount + d,
         \A b \in Campaigns \ {c} : campaign'[b].reservedAmount = campaign[b].reservedAmount,
         wallet'[Owner[c]].reservedBalance = wallet[Owner[c]].reservedBalance + d,
         \A u \in Users \ {Owner[c]} : wallet'[u].reservedBalance = wallet[u].reservedBalance
  PROVE  ReservedIsBacked'
<1>1. Owner[c] \in Advertisers /\ IsFiniteSet(Campaigns)
  BY WalletAssumption
<1>2. \A b \in Campaigns : Reservation[b] \in Int /\ Reservation'[b] \in Int
  BY DEF TypeOK, Reservation
<1>3. \A b \in Campaigns \ {c} : Reservation'[b] = Reservation[b]
  BY DEF Reservation
<1>4. Reservation'[c] - Reservation[c] = d
  BY DEF Reservation, TypeOK
<1>. SUFFICES ASSUME NEW u \in Advertisers
              PROVE  wallet'[u].reservedBalance
                       = SumFunctionOnSet(Reservation', CampaignsOf(u))
  BY DEF ReservedIsBacked, Reservation, CampaignsOf
<1>5. IsFiniteSet(CampaignsOf(u)) /\ CampaignsOf(u) \subseteq Campaigns
  BY <1>1, FS_Subset DEF CampaignsOf
<1>6. wallet[u].reservedBalance = SumFunctionOnSet(Reservation, CampaignsOf(u))
  BY DEF ReservedIsBacked, Reservation, CampaignsOf
<1>. HIDE DEF Reservation
<1>7. CASE u = Owner[c]
  <2>1. c \in CampaignsOf(u)
    BY <1>7 DEF CampaignsOf
  <2>2. SumFunctionOnSet(Reservation', CampaignsOf(u))
          = SumFunctionOnSet(Reservation, CampaignsOf(u)) + (Reservation'[c] - Reservation[c])
    BY <1>2, <1>3, <1>5, <2>1, SumUpdate
  <2>. QED
    BY <1>4, <1>6, <1>7, <2>2
<1>8. CASE u # Owner[c]
  <2>1. \A b \in CampaignsOf(u) : Reservation[b] \in Int /\ Reservation'[b] = Reservation[b]
    BY <1>2, <1>3, <1>8 DEF CampaignsOf
  <2>2. SumFunctionOnSet(Reservation', CampaignsOf(u))
          = SumFunctionOnSet(Reservation, CampaignsOf(u))
    BY <1>5, <2>1, SumCongruent
  <2>3. wallet'[u].reservedBalance = wallet[u].reservedBalance
    BY <1>8
  <2>. QED
    BY <1>6, <2>2, <2>3
<1>. QED
  BY <1>7, <1>8

LEMMA NoReservationMoves ==
  ASSUME ReservedIsBacked,
         \A c \in Campaigns : campaign'[c].reservedAmount = campaign[c].reservedAmount,
         \A u \in Users : wallet'[u].reservedBalance = wallet[u].reservedBalance
  PROVE  ReservedIsBacked'
<1>1. Reservation' = Reservation
  BY DEF Reservation
<1>. QED
  BY <1>1 DEF ReservedIsBacked, Reservation

LEMMA CampaignBacked ==
  ASSUME TypeOK, TypeOK', ReservedIsBacked, CampaignStep
  PROVE  ReservedIsBacked'
<1>1. ASSUME NEW c \in Campaigns, NEW s \in StatusWrites, SetCampaignStatus(c, s)
      PROVE  ReservedIsBacked'
  <2>1. \A b \in Campaigns : campaign'[b].reservedAmount = campaign[b].reservedAmount
    BY <1>1 DEF SetCampaignStatus, TypeOK
  <2>. QED
    BY <1>1, <2>1, NoReservationMoves DEF SetCampaignStatus
<1>2. ASSUME NEW c \in Campaigns, NEW a \in Amounts, NEW m \in MinBalances,
             ReserveCampaignBudget(c, a, m)
      PROVE  ReservedIsBacked'
  <2>1. a \in Int /\ Owner[c] \in Users
    BY WalletAssumption
  <2>2. /\ campaign'[c].reservedAmount = campaign[c].reservedAmount + a
        /\ \A b \in Campaigns \ {c} : campaign'[b].reservedAmount = campaign[b].reservedAmount
    BY <1>2 DEF ReserveCampaignBudget, TypeOK
  <2>3. /\ wallet'[Owner[c]].reservedBalance = wallet[Owner[c]].reservedBalance + a
        /\ \A u \in Users \ {Owner[c]} : wallet'[u].reservedBalance = wallet[u].reservedBalance
    BY <1>2, <2>1 DEF ReserveCampaignBudget, TypeOK, Wallets
  <2>. QED
    BY <2>1, <2>2, <2>3, OneReservationMoves
<1>3. ASSUME NEW c \in Campaigns, NEW a \in Amounts, NEW t \in Instants,
             ReleaseCampaignReservation(c, a, t)
      PROVE  ReservedIsBacked'
  <2>1. a \in Int /\ -a \in Int /\ Owner[c] \in Users
    BY WalletAssumption
  <2>2. /\ campaign'[c].reservedAmount = campaign[c].reservedAmount + (-a)
        /\ \A b \in Campaigns \ {c} : campaign'[b].reservedAmount = campaign[b].reservedAmount
    BY <1>3, <2>1 DEF ReleaseCampaignReservation, TypeOK
  <2>3. /\ wallet'[Owner[c]].reservedBalance = wallet[Owner[c]].reservedBalance + (-a)
        /\ \A u \in Users \ {Owner[c]} : wallet'[u].reservedBalance = wallet[u].reservedBalance
    BY <1>3, <2>1 DEF ReleaseCampaignReservation, TypeOK, Wallets
  <2>. QED
    BY <2>1, <2>2, <2>3, OneReservationMoves
<1>4. ASSUME NEW c \in Campaigns, NEW a \in Amounts, NEW r \in Refs,
             RecordCampaignSpend(c, a, r)
      PROVE  ReservedIsBacked'
  <2>1. a \in Int /\ -a \in Int /\ Owner[c] \in Users
    BY WalletAssumption
  <2>2. /\ campaign'[c].reservedAmount = campaign[c].reservedAmount + (-a)
        /\ \A b \in Campaigns \ {c} : campaign'[b].reservedAmount = campaign[b].reservedAmount
    BY <1>4, <2>1 DEF RecordCampaignSpend, TypeOK
  <2>3. /\ wallet'[Owner[c]].reservedBalance = wallet[Owner[c]].reservedBalance + (-a)
        /\ \A u \in Users \ {Owner[c]} : wallet'[u].reservedBalance = wallet[u].reservedBalance
    BY <1>4, <2>1 DEF RecordCampaignSpend, TypeOK, Wallets
  <2>. QED
    BY <2>1, <2>2, <2>3, OneReservationMoves
<1>. QED
  BY <1>1, <1>2, <1>3, <1>4 DEF CampaignStep

LEMMA NextBacked ==
  TypeOK /\ TypeOK' /\ ReservedIsBacked /\ [Next]_walletVars => ReservedIsBacked'
<1>. SUFFICES ASSUME TypeOK, TypeOK', ReservedIsBacked, [Next]_walletVars
              PROVE  ReservedIsBacked'
  OBVIOUS
<1>1. ASSUME NEW u \in Users, NEW a \in Amounts, NEW r \in Refs, Deposit(u, a, r)
      PROVE  ReservedIsBacked'
  <2>1. \A v \in Users : wallet'[v].reservedBalance = wallet[v].reservedBalance
    BY <1>1 DEF Deposit, TypeOK, Wallets
  <2>. QED
    BY <1>1, <2>1, NoReservationMoves DEF Deposit
<1>2. ASSUME NEW u \in Publishers, NEW a \in Amounts, NEW r \in Refs,
             NEW immediate \in BOOLEAN, CreditPublisherEarning(u, a, r, immediate)
      PROVE  ReservedIsBacked'
  <2>1. \A v \in Users : wallet'[v].reservedBalance = wallet[v].reservedBalance
    BY <1>2 DEF CreditPublisherEarning, TypeOK, Wallets
  <2>. QED
    BY <1>2, <2>1, NoReservationMoves DEF CreditPublisherEarning
<1>3. ASSUME NEW u \in Publishers, NEW a \in Amounts, PromotePendingEarnings(u, a)
      PROVE  ReservedIsBacked'
  <2>1. \A v \in Users : wallet'[v].reservedBalance = wallet[v].reservedBalance
    BY <1>3 DEF PromotePendingEarnings, TypeOK, Wallets
  <2>. QED
    BY <1>3, <2>1, NoReservationMoves DEF PromotePendingEarnings
<1>4. CASE UNCHANGED walletVars
  BY <1>4, NoReservationMoves DEF walletVars
<1>. QED
  BY <1>1, <1>2, <1>3, <1>4, CampaignBacked DEF Next, DepositStep, PublisherStep

LEMMA InitBacked == Init => ReservedIsBacked
<1>. SUFFICES ASSUME Init, NEW u \in Advertisers
              PROVE  wallet[u].reservedBalance
                       = SumFunctionOnSet(Reservation, CampaignsOf(u))
  BY DEF ReservedIsBacked, Reservation, CampaignsOf
<1>1. IsFiniteSet(CampaignsOf(u))
  BY WalletAssumption, FS_Subset DEF CampaignsOf
<1>2. \A c \in CampaignsOf(u) : Reservation[c] = 0
  BY DEF Init, Reservation, CampaignsOf
<1>3. SumFunctionOnSet(Reservation, CampaignsOf(u)) = 0
  BY <1>1, <1>2, SumZero
<1>. QED
  BY <1>3 DEF Init, EmptyWallet

\* The reserve a wallet shows and the reservations of its campaigns, in two
\* tables that three transactions update, agree after every one of them.
THEOREM ReserveIsBacked == Spec => []ReservedIsBacked
  BY InitBacked, NextBacked, TypeCorrect, PTL DEF Spec

-----------------------------------------------------------------------------
(* The ledger replays to the balances *)

RowsOf(u, type) == {row \in ledger : row.user = u /\ row.type = type}

\* A ledger that has come from finitely many operations, and replays.
ReplayInv == LedgerReplays /\ IsFiniteSet(ledger)

LEMMA AmountsAdd ==
  ASSUME NEW rows, IsFiniteSet(rows), NEW row, row \notin rows,
         \A q \in rows \cup {row} : q.amount \in Int
  PROVE  SumAmounts(rows \cup {row}) = SumAmounts(rows) + row.amount
<1>. DEFINE f == [q \in rows |-> q.amount]
            g == [q \in rows \cup {row} |-> q.amount]
<1>1. \A q \in rows : f[q] \in Int /\ g[q] = f[q]
  OBVIOUS
<1>2. \A q \in rows \cup {row} : g[q] \in Int
  OBVIOUS
<1>3. g[row] = row.amount
  OBVIOUS
<1>4. SumAmounts(rows) = SumFunctionOnSet(f, rows)
  BY DEF SumAmounts
<1>5. SumAmounts(rows \cup {row}) = SumFunctionOnSet(g, rows \cup {row})
  BY DEF SumAmounts
<1>. HIDE DEF f, g
<1>6. SumFunctionOnSet(g, rows) = SumFunctionOnSet(f, rows)
  BY <1>1, SumCongruent
<1>7. SumFunctionOnSet(g, rows \cup {row}) = g[row] + SumFunctionOnSet(g, rows)
  BY <1>2, SumAdd
<1>8. SumFunctionOnSet(f, rows) \in Int
  BY <1>1, SumType
<1>. QED
  BY <1>3, <1>4, <1>5, <1>6, <1>7, <1>8

LEMMA AmountsType ==
  ASSUME NEW rows, IsFiniteSet(rows), \A q \in rows : q.amount \in Nat
  PROVE  SumAmounts(rows) \in Nat
<1>. DEFINE f == [q \in rows |-> q.amount]
<1>1. \A q \in rows : f[q] \in Nat
  OBVIOUS
<1>. HIDE DEF f
<1>2. SumFunctionOnSet(f, rows) \in Nat
  BY <1>1, SumNat
<1>. QED
  BY <1>2 DEF SumAmounts, f

\* A row moves its own total, by its amount, and no other.
LEMMA RowMovesOneTotal ==
  ASSUME TypeOK, IsFiniteSet(ledger), NEW u \in Users, NEW type \in TransactionType,
         NEW a \in Amounts, NEW r, RecordTransaction(u, type, a, r)
  PROVE  /\ IsFiniteSet(ledger')
         /\ Total(u, type)' = Total(u, type) + a
         /\ \A v \in Users, t \in TransactionType :
              v # u \/ t # type => Total(v, t)' = Total(v, t)
<1>. DEFINE new == [user |-> u, type |-> type, ref |-> r, amount |-> a]
<1>1. ledger' = ledger \cup {new} /\ new \notin ledger
  BY DEF RecordTransaction, AddRow, Recorded
<1>2. new.user = u /\ new.type = type /\ new.amount = a /\ a \in Int
  BY WalletAssumption
<1>. HIDE DEF new
<1>3. RowsOf(u, type)' = RowsOf(u, type) \cup {new}
  BY <1>1, <1>2 DEF RowsOf
<1>4. \A v \in Users, t \in TransactionType : v # u \/ t # type => RowsOf(v, t)' = RowsOf(v, t)
  BY <1>1, <1>2 DEF RowsOf
<1>5. SumAmounts(RowsOf(u, type) \cup {new}) = SumAmounts(RowsOf(u, type)) + a
  <2>1. IsFiniteSet(RowsOf(u, type))
    BY FS_Subset DEF RowsOf
  <2>2. new \notin RowsOf(u, type)
    BY <1>1 DEF RowsOf
  <2>3. \A q \in RowsOf(u, type) \cup {new} : q.amount \in Int
    <3>1. \A q \in ledger : q.amount \in Amounts
      BY DEF TypeOK, WalletTransaction
    <3>2. \A x \in Amounts : x \in Int
      BY WalletAssumption
    <3>3. new.amount \in Int
      BY <1>2
    <3>4. \A q \in ledger : q.amount \in Int
      BY ONLY <3>1, <3>2
    <3>. QED
      BY <3>3, <3>4 DEF RowsOf
  <2>4. SumAmounts(RowsOf(u, type) \cup {new}) = SumAmounts(RowsOf(u, type)) + new.amount
    BY <2>1, <2>2, <2>3, AmountsAdd
  <2>. QED
    BY <1>2, <2>4
<1>6. IsFiniteSet(ledger')
  BY <1>1, FS_AddElement
<1>7. Total(u, type)' = Total(u, type) + a
  BY <1>3, <1>5 DEF Total, RowsOf
<1>8. \A v \in Users, t \in TransactionType : v # u \/ t # type => Total(v, t)' = Total(v, t)
  BY <1>4 DEF Total, RowsOf
<1>. QED
  BY <1>6, <1>7, <1>8

LEMMA TotalsType ==
  ASSUME TypeOK, IsFiniteSet(ledger), NEW u \in Users, NEW type \in TransactionType
  PROVE  Total(u, type) \in Nat
<1>1. IsFiniteSet(RowsOf(u, type))
  BY FS_Subset DEF RowsOf
<1>2. \A q \in RowsOf(u, type) : q.amount \in Nat
  BY WalletAssumption DEF RowsOf, TypeOK, WalletTransaction
<1>3. SumAmounts(RowsOf(u, type)) \in Nat
  BY <1>1, <1>2, AmountsType
<1>. QED
  BY <1>3 DEF Total, RowsOf

\* What LedgerReplays states of one user.
Replays(u) ==
  /\ wallet[u].totalDeposited = Total(u, "DEPOSIT")
  /\ wallet[u].totalEarned = Total(u, "PUBLISHER_EARNING")
  /\ wallet[u].totalSpent = Total(u, "AD_SPEND")
  /\ wallet[u].totalWithdrawn = Total(u, "PAYOUT_COMPLETED")
  /\ balance[u] + wallet[u].pendingEarnings
       = Total(u, "DEPOSIT") + Total(u, "PUBLISHER_EARNING")
         + Total(u, "REFUND") + Total(u, "PAYOUT_FAILED")
         - Total(u, "CAMPAIGN_RESERVATION") - Total(u, "PAYOUT_REQUEST")

LEMMA ReplaysForAll == LedgerReplays <=> \A u \in Users : Replays(u)
  BY DEF LedgerReplays, Replays

\* An operation of one user's money has to replay for that user.
LEMMA OneUserReplays ==
  ASSUME TypeOK, ReplayInv, NEW u \in Users, NEW type \in TransactionType,
         NEW a \in Amounts, NEW r, RecordTransaction(u, type, a, r),
         \A v \in Users \ {u} : balance'[v] = balance[v] /\ wallet'[v] = wallet[v],
         Replays(u)'
  PROVE  ReplayInv'
<1>1. /\ IsFiniteSet(ledger')
      /\ \A v \in Users \ {u}, t \in TransactionType : Total(v, t)' = Total(v, t)
  BY RowMovesOneTotal DEF ReplayInv
<1>2. ASSUME NEW v \in Users \ {u}
      PROVE  Replays(v)'
  <2>1. Replays(v) /\ balance'[v] = balance[v] /\ wallet'[v] = wallet[v]
    BY <1>2, ReplaysForAll DEF ReplayInv
  <2>2. \A t \in TransactionType : Total(v, t)' = Total(v, t)
    BY <1>1, <1>2
  <2>. QED
    BY <2>1, <2>2 DEF Replays, TransactionType
<1>3. \A v \in Users : Replays(v)'
  BY <1>2
<1>4. LedgerReplays'
  BY <1>3 DEF LedgerReplays, Replays
<1>. QED
  BY <1>1, <1>4 DEF ReplayInv

\* What a row does to the totals of its user.
LEMMA TotalsOfUser ==
  ASSUME TypeOK, ReplayInv, NEW u \in Users, NEW type \in TransactionType,
         NEW a \in Amounts, NEW r, RecordTransaction(u, type, a, r)
  PROVE  /\ Replays(u)
         /\ \A t \in TransactionType : /\ Total(u, t) \in Nat
                                       /\ Total(u, t)' = Total(u, t) + IF t = type THEN a ELSE 0
<1>1. Replays(u)
  BY ReplaysForAll DEF ReplayInv
<1>2. \A t \in TransactionType : Total(u, t) \in Nat
  BY TotalsType DEF ReplayInv
<1>3. /\ Total(u, type)' = Total(u, type) + a
      /\ \A t \in TransactionType : t # type => Total(u, t)' = Total(u, t)
  BY RowMovesOneTotal DEF ReplayInv
<1>. QED
  BY <1>1, <1>2, <1>3

\* What a transaction of each type adds to the money its user still has.
Effect(type, a) ==
  IF type \in {"DEPOSIT", "PUBLISHER_EARNING", "REFUND", "PAYOUT_FAILED"} THEN a
  ELSE IF type \in {"CAMPAIGN_RESERVATION", "PAYOUT_REQUEST"} THEN -a
  ELSE 0

OnlyFor(type, t, a) == IF type = t THEN a ELSE 0

\* The columns of u move by what a row of the type says.
MovesAs(u, type, a) ==
  /\ wallet'[u].totalDeposited = wallet[u].totalDeposited + OnlyFor(type, "DEPOSIT", a)
  /\ wallet'[u].totalEarned = wallet[u].totalEarned + OnlyFor(type, "PUBLISHER_EARNING", a)
  /\ wallet'[u].totalSpent = wallet[u].totalSpent + OnlyFor(type, "AD_SPEND", a)
  /\ wallet'[u].totalWithdrawn
       = wallet[u].totalWithdrawn + OnlyFor(type, "PAYOUT_COMPLETED", a)
  /\ balance'[u] + wallet'[u].pendingEarnings
       = balance[u] + wallet[u].pendingEarnings + Effect(type, a)

\* An operation that writes one row, and moves the user's columns by what the
\* row says, replays.
LEMMA RowReplays ==
  ASSUME TypeOK, ReplayInv, NEW u \in Users, NEW type \in TransactionType,
         NEW a \in Amounts, NEW r, RecordTransaction(u, type, a, r),
         \A v \in Users \ {u} : balance'[v] = balance[v] /\ wallet'[v] = wallet[v],
         MovesAs(u, type, a)
  PROVE  ReplayInv'
<1>1. /\ Replays(u)
      /\ \A t \in TransactionType : /\ Total(u, t) \in Nat
                                    /\ Total(u, t)' = Total(u, t) + OnlyFor(type, t, a)
  BY TotalsOfUser DEF OnlyFor
<1>2. a \in Nat
  BY WalletAssumption
<1>3. /\ (wallet[u].totalDeposited = Total(u, "DEPOSIT"))'
      /\ (wallet[u].totalEarned = Total(u, "PUBLISHER_EARNING"))'
      /\ (wallet[u].totalSpent = Total(u, "AD_SPEND"))'
      /\ (wallet[u].totalWithdrawn = Total(u, "PAYOUT_COMPLETED"))'
  BY <1>1 DEF Replays, TransactionType, MovesAs
<1>4. (balance[u] + wallet[u].pendingEarnings
         = Total(u, "DEPOSIT") + Total(u, "PUBLISHER_EARNING")
           + Total(u, "REFUND") + Total(u, "PAYOUT_FAILED")
           - Total(u, "CAMPAIGN_RESERVATION") - Total(u, "PAYOUT_REQUEST"))'
  <2>1. \A t \in TransactionType : OnlyFor(type, t, a) \in Nat
    BY <1>2 DEF OnlyFor
  <2>2. Effect(type, a)
          = OnlyFor(type, "DEPOSIT", a) + OnlyFor(type, "PUBLISHER_EARNING", a)
            + OnlyFor(type, "REFUND", a) + OnlyFor(type, "PAYOUT_FAILED", a)
            - OnlyFor(type, "CAMPAIGN_RESERVATION", a) - OnlyFor(type, "PAYOUT_REQUEST", a)
    BY <1>2 DEF Effect, OnlyFor, TransactionType
  <2>3. \A t \in {"DEPOSIT", "PUBLISHER_EARNING", "REFUND", "PAYOUT_FAILED",
                 "CAMPAIGN_RESERVATION", "PAYOUT_REQUEST"} :
          /\ Total(u, t) \in Nat /\ OnlyFor(type, t, a) \in Nat
          /\ Total(u, t)' = Total(u, t) + OnlyFor(type, t, a)
    BY <1>1, <2>1 DEF TransactionType
  <2>4. balance'[u] + wallet'[u].pendingEarnings
          = Total(u, "DEPOSIT") + Total(u, "PUBLISHER_EARNING")
            + Total(u, "REFUND") + Total(u, "PAYOUT_FAILED")
            - Total(u, "CAMPAIGN_RESERVATION") - Total(u, "PAYOUT_REQUEST")
            + Effect(type, a)
    BY <1>1 DEF Replays, MovesAs
  <2>. QED
    BY <2>2, <2>3, <2>4
<1>5. Replays(u)'
  BY <1>3, <1>4 DEF Replays
<1>. QED
  BY <1>5, OneUserReplays

LEMMA DepositReplays ==
  ASSUME TypeOK, ReplayInv, NEW u \in Users, NEW a \in Amounts, NEW r, Deposit(u, a, r)
  PROVE  ReplayInv'
<1>1. RecordTransaction(u, "DEPOSIT", a, r) /\ "DEPOSIT" \in TransactionType /\ a \in Nat
  BY WalletAssumption DEF Deposit, TransactionType
<1>2. \A v \in Users \ {u} : balance'[v] = balance[v] /\ wallet'[v] = wallet[v]
  BY DEF Deposit, TypeOK
<1>3. /\ balance'[u] = balance[u] + a
      /\ wallet'[u] = [wallet[u] EXCEPT !.totalDeposited = @ + a]
      /\ balance[u] \in Nat /\ wallet[u] \in Wallets
  BY DEF Deposit, TypeOK
<1>4. MovesAs(u, "DEPOSIT", a)
  BY <1>1, <1>3 DEF MovesAs, Effect, OnlyFor, Wallets
<1>. QED
  BY <1>1, <1>2, <1>4, RowReplays

LEMMA CampaignReplays ==
  ASSUME TypeOK, ReplayInv, CampaignStep
  PROVE  ReplayInv'
<1>1. ASSUME NEW c \in Campaigns, NEW s \in StatusWrites, SetCampaignStatus(c, s)
      PROVE  ReplayInv'
  BY <1>1 DEF SetCampaignStatus, ReplayInv, LedgerReplays, Total
<1>2. ASSUME NEW c \in Campaigns, NEW a \in Amounts, NEW m \in MinBalances,
             ReserveCampaignBudget(c, a, m)
      PROVE  ReplayInv'
  <2>. PICK u \in Users : u = Owner[c]
    BY WalletAssumption
  <2>1. /\ RecordTransaction(u, "CAMPAIGN_RESERVATION", a, c)
        /\ "CAMPAIGN_RESERVATION" \in TransactionType /\ a \in Nat
    BY <1>2, WalletAssumption DEF ReserveCampaignBudget, TransactionType
  <2>2. \A v \in Users \ {u} : balance'[v] = balance[v] /\ wallet'[v] = wallet[v]
    BY <1>2 DEF ReserveCampaignBudget, TypeOK
  <2>3. /\ balance'[u] = balance[u] - a
        /\ wallet'[u] = [wallet[u] EXCEPT !.reservedBalance = @ + a]
        /\ balance[u] \in Nat /\ wallet[u] \in Wallets
    BY <1>2, <2>1 DEF ReserveCampaignBudget, TypeOK
  <2>4. MovesAs(u, "CAMPAIGN_RESERVATION", a)
    BY <2>1, <2>3 DEF MovesAs, Effect, OnlyFor, Wallets
  <2>. QED
    BY <2>1, <2>2, <2>4, RowReplays
<1>3. ASSUME NEW c \in Campaigns, NEW a \in Amounts, NEW t \in Instants,
             ReleaseCampaignReservation(c, a, t)
      PROVE  ReplayInv'
  <2>. PICK u \in Users : u = Owner[c]
    BY WalletAssumption
  <2>1. /\ RecordTransaction(u, "REFUND", a, <<c, t>>)
        /\ "REFUND" \in TransactionType /\ a \in Nat
    BY <1>3, WalletAssumption DEF ReleaseCampaignReservation, TransactionType
  <2>2. \A v \in Users \ {u} : balance'[v] = balance[v] /\ wallet'[v] = wallet[v]
    BY <1>3 DEF ReleaseCampaignReservation, TypeOK
  <2>3. /\ balance'[u] = balance[u] + a
        /\ wallet'[u] = [wallet[u] EXCEPT !.reservedBalance = @ - a]
        /\ balance[u] \in Nat /\ wallet[u] \in Wallets
    BY <1>3, <2>1 DEF ReleaseCampaignReservation, TypeOK
  <2>4. MovesAs(u, "REFUND", a)
    BY <2>1, <2>3 DEF MovesAs, Effect, OnlyFor, Wallets
  <2>. QED
    BY <2>1, <2>2, <2>4, RowReplays
<1>4. ASSUME NEW c \in Campaigns, NEW a \in Amounts, NEW r \in Refs,
             RecordCampaignSpend(c, a, r)
      PROVE  ReplayInv'
  <2>. PICK u \in Users : u = Owner[c]
    BY WalletAssumption
  <2>1. /\ RecordTransaction(u, "AD_SPEND", a, r)
        /\ "AD_SPEND" \in TransactionType /\ a \in Nat
    BY <1>4, WalletAssumption DEF RecordCampaignSpend, TransactionType
  <2>2. \A v \in Users \ {u} : balance'[v] = balance[v] /\ wallet'[v] = wallet[v]
    BY <1>4 DEF RecordCampaignSpend, TypeOK
  <2>3. /\ balance'[u] = balance[u]
        /\ wallet'[u] = [wallet[u] EXCEPT !.reservedBalance = @ - a, !.totalSpent = @ + a]
        /\ balance[u] \in Nat /\ wallet[u] \in Wallets
    BY <1>4, <2>1 DEF RecordCampaignSpend, TypeOK
  <2>4. MovesAs(u, "AD_SPEND", a)
    BY <2>1, <2>3 DEF MovesAs, Effect, OnlyFor, Wallets
  <2>. QED
    BY <2>1, <2>2, <2>4, RowReplays
<1>. QED
  BY <1>1, <1>2, <1>3, <1>4 DEF CampaignStep

LEMMA PublisherReplays ==
  ASSUME TypeOK, ReplayInv, PublisherStep
  PROVE  ReplayInv'
<1>1. ASSUME NEW u \in Publishers, NEW a \in Amounts, NEW r \in Refs,
             NEW immediate \in BOOLEAN, CreditPublisherEarning(u, a, r, immediate)
      PROVE  ReplayInv'
  <2>1. /\ RecordTransaction(u, "PUBLISHER_EARNING", a, r)
        /\ "PUBLISHER_EARNING" \in TransactionType /\ a \in Nat /\ u \in Users
    BY <1>1, WalletAssumption DEF CreditPublisherEarning, TransactionType
  <2>2. \A v \in Users \ {u} : balance'[v] = balance[v] /\ wallet'[v] = wallet[v]
    BY <1>1 DEF CreditPublisherEarning, TypeOK
  <2>3. /\ wallet'[u].totalEarned = wallet[u].totalEarned + a
        /\ wallet'[u].totalDeposited = wallet[u].totalDeposited
        /\ wallet'[u].totalSpent = wallet[u].totalSpent
        /\ wallet'[u].totalWithdrawn = wallet[u].totalWithdrawn
        /\ balance'[u] + wallet'[u].pendingEarnings
             = balance[u] + wallet[u].pendingEarnings + a
        /\ balance[u] \in Nat /\ wallet[u] \in Wallets
    <3>1. CASE immediate
      BY <1>1, <2>1, <3>1 DEF CreditPublisherEarning, TypeOK, Wallets
    <3>2. CASE ~immediate
      BY <1>1, <2>1, <3>2 DEF CreditPublisherEarning, TypeOK, Wallets
    <3>. QED
      BY <3>1, <3>2
  <2>4. MovesAs(u, "PUBLISHER_EARNING", a)
    BY <2>1, <2>3 DEF MovesAs, Effect, OnlyFor, Wallets
  <2>. QED
    BY <2>1, <2>2, <2>4, RowReplays
<1>2. ASSUME NEW u \in Publishers, NEW a \in Amounts, PromotePendingEarnings(u, a)
      PROVE  ReplayInv'
  <2>1. a \in Nat /\ u \in Users
    BY WalletAssumption
  <2>2. \A v \in Users :
          /\ balance'[v] + wallet'[v].pendingEarnings = balance[v] + wallet[v].pendingEarnings
          /\ wallet'[v].totalEarned = wallet[v].totalEarned
          /\ wallet'[v].totalDeposited = wallet[v].totalDeposited
          /\ wallet'[v].totalSpent = wallet[v].totalSpent
          /\ wallet'[v].totalWithdrawn = wallet[v].totalWithdrawn
    BY <1>2, <2>1 DEF PromotePendingEarnings, TypeOK, Wallets
  <2>. QED
    BY <1>2, <2>2 DEF PromotePendingEarnings, ReplayInv, LedgerReplays, Total
<1>. QED
  BY <1>1, <1>2 DEF PublisherStep

LEMMA NextReplays == TypeOK /\ ReplayInv /\ [Next]_walletVars => ReplayInv'
<1>. SUFFICES ASSUME TypeOK, ReplayInv, [Next]_walletVars
              PROVE  ReplayInv'
  OBVIOUS
<1>1. CASE UNCHANGED walletVars
  BY <1>1 DEF walletVars, ReplayInv, LedgerReplays, Total
<1>. QED
  BY <1>1, DepositReplays, CampaignReplays, PublisherReplays DEF Next, DepositStep

LEMMA InitReplays == Init => ReplayInv
<1>. SUFFICES ASSUME Init
              PROVE  ReplayInv
  OBVIOUS
<1>1. IsFiniteSet(ledger)
  BY FS_EmptySet DEF Init
<1>2. \A u \in Users, t \in TransactionType : Total(u, t) = 0
  <2>. SUFFICES ASSUME NEW u \in Users, NEW t \in TransactionType
                PROVE  Total(u, t) = 0
    OBVIOUS
  <2>1. RowsOf(u, t) = {}
    BY DEF Init, RowsOf
  <2>2. SumAmounts({}) = 0
    BY SumEmpty DEF SumAmounts
  <2>. QED
    BY <2>1, <2>2 DEF Total, RowsOf
<1>. QED
  BY <1>1, <1>2 DEF Init, ReplayInv, LedgerReplays, EmptyWallet, TransactionType

\* The ledger is a complete audit trail: whatever the callers do, its rows alone
\* give back every total of every wallet and the money each user still has.
THEOREM LedgerIsComplete == Spec => []LedgerReplays
<1>1. ReplayInv => LedgerReplays
  BY DEF ReplayInv
<1>. QED
  BY <1>1, InitReplays, NextReplays, TypeCorrect, PTL DEF Spec
=============================================================================
