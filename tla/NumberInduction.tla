----------------------------- MODULE NumberInduction -----------------------------
(***************************************************************************)
(* Induction over the numbers, for proofs that go step by step along a     *)
(* path or a list.                                                         *)
(***************************************************************************)
EXTENDS Integers, FiniteSetTheorems, WellFoundedInduction, TLAPS

(* For a set instead of a predicate: a set of numbers that holds 0 and with  *)
(* each number the next one holds them all.  A number outside would give a   *)
(* smallest interval that ends outside.                                      *)
LEMMA Induction ==
  ASSUME NEW Holds, 0 \in Holds, \A n \in Nat : n \in Holds => n + 1 \in Holds
  PROVE  Nat \subseteq Holds
  <1> SUFFICES ASSUME NEW k \in Nat, k \notin Holds PROVE FALSE OBVIOUS
  <1> DEFINE R == StrictSubsetOrdering(Nat)
             F == FiniteSubsetsOf(Nat)
             T == {1..n : n \in {m \in Nat : m \notin Holds}}
  <1>1. IsWellFoundedOn(R, F) BY FS_StrictSubsetOrderingWellFounded
  <1>2. T \subseteq F /\ T # {}
    <2>1. \A n \in Nat : 1..n \in F BY FS_Interval DEF FiniteSubsetsOf
    <2> QED BY <2>1
  <1>3. PICK X \in T : \A Y \in T : <<Y, X>> \notin R
    <2> HIDE DEF R, T, F
    <2> QED BY <1>1, <1>2, WFMin
  <1>4. PICK n \in Nat : n \notin Holds /\ X = 1..n BY <1>3
  <1>5. n # 0 /\ n - 1 \in Nat /\ n - 1 \notin Holds BY <1>4
  <1>6. 1..(n - 1) \in T /\ 1..(n - 1) \subseteq 1..n /\ 1..(n - 1) # 1..n BY <1>5
  <1>7. <<1..(n - 1), 1..n>> \in R BY <1>6 DEF StrictSubsetOrdering
  <1> QED BY <1>3, <1>4, <1>6, <1>7
==================================================================================
