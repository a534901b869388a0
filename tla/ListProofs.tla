------------------------------ MODULE ListProofs ------------------------------
(***************************************************************************)
(* Facts about numbers and lists that the proofs of several modules use: the   *)
(* queues, channels and tables of the programs are lists.                     *)
(***************************************************************************)
EXTENDS Naturals, SequenceTheorems, WellFoundedInduction, TLAPS

(***************************************************************************)
(* A set of numbers that is not empty has a least one.                       *)
(***************************************************************************)
LEMMA LeastNumber ==
  ASSUME NEW T \in SUBSET Nat, T # {}
  PROVE  \E x \in T : \A y \in T : x <= y
<1> DEFINE R == {ss \in Nat \X Nat : ss[1] < ss[2]}
<1>1. IsWellFoundedOn(R, Nat) BY NatLessThanWellFounded DEF OpToRel
<1> HIDE DEF R
<1>2. PICK x \in T : \A y \in T : ~ (<<y, x>> \in R) BY <1>1, WFMin
<1>3. \A y \in T : y \in Nat /\ x \in Nat /\ ~ (y < x) BY <1>2 DEF R
<1> QED BY <1>2, <1>3

LEMMA SameLength ==
  ASSUME NEW m \in Nat, NEW n \in Nat, 1 .. m = 1 .. n
  PROVE  m = n
<1>1. CASE m < n
  <2>1. n \in 1 .. n /\ n \notin 1 .. m BY <1>1
  <2> QED BY <2>1
<1>2. CASE n < m
  <2>1. m \in 1 .. m /\ m \notin 1 .. n BY <1>2
  <2> QED BY <2>1
<1> QED BY <1>1, <1>2

(***************************************************************************)
(* The members of a list, as it grows at its end and shrinks at its front.     *)
(***************************************************************************)
Members(list) == {list[i] : i \in 1 .. Len(list)}

LEMMA MembersAre ==
  ASSUME NEW S, NEW list \in Seq(S)
  PROVE  Members(list) \subseteq S /\ DOMAIN list = 1 .. Len(list) /\ Len(list) \in Nat
<1>1. DOMAIN list = 1 .. Len(list) /\ Len(list) \in Nat BY LenProperties
<1>2. \A i \in 1 .. Len(list) : list[i] \in S BY ElementOfSeq
<1> QED BY <1>1, <1>2 DEF Members

LEMMA EmptyMembers ==
  Members(<<>>) = {}
BY DEF Members

LEMMA AppendMembers ==
  ASSUME NEW S, NEW list \in Seq(S), NEW e \in S
  PROVE  Append(list, e) \in Seq(S) /\ Members(Append(list, e)) = Members(list) \cup {e}
<1> DEFINE more == Append(list, e)
           n == Len(list)
<1>1. /\ n \in Nat /\ more \in Seq(S) /\ Len(more) = n + 1
      /\ \A i \in 1 .. n : more[i] = list[i]
      /\ more[n + 1] = e
  BY AppendProperties, LenProperties
<1> HIDE DEF more, n
<1>2. \A i \in 1 .. n + 1 : i \in 1 .. n \/ i = n + 1 BY <1>1
<1>3. n + 1 \in 1 .. n + 1 /\ 1 .. n \subseteq 1 .. n + 1 BY <1>1
<1>4. Members(more) = Members(list) \cup {e} BY <1>1, <1>2, <1>3 DEF Members, n
<1> QED BY <1>1, <1>4 DEF more

LEMMA HeadTailMembers ==
  ASSUME NEW S, NEW list \in Seq(S), list # <<>>
  PROVE  /\ Head(list) \in S /\ Tail(list) \in Seq(S)
         /\ Members(list) = {Head(list)} \cup Members(Tail(list))
<1> DEFINE rest == Tail(list)
           n == Len(list)
<1>1. /\ n \in Nat \ {0} /\ rest \in Seq(S) /\ Len(rest) = n - 1
      /\ \A i \in 1 .. n - 1 : rest[i] = list[i + 1]
      /\ Head(list) = list[1]
  BY HeadTailProperties, LenProperties, EmptySeq
<1>2. list[1] \in S BY <1>1, ElementOfSeq
<1> HIDE DEF rest, n
<1>3. \A i \in 1 .. n : i = 1 \/ (i - 1 \in 1 .. n - 1 /\ (i - 1) + 1 = i) BY <1>1
<1>4. 1 \in 1 .. n /\ \A i \in 1 .. n - 1 : i + 1 \in 1 .. n BY <1>1
<1>5. Members(list) \subseteq {Head(list)} \cup Members(rest)
  <2> SUFFICES ASSUME NEW i \in 1 .. n PROVE list[i] \in {Head(list)} \cup Members(rest)
    BY DEF Members, n
  <2>1. CASE i = 1 BY <2>1, <1>1
  <2>2. CASE i # 1
    <3>1. rest[i - 1] = list[i] /\ i - 1 \in 1 .. Len(rest) BY <2>2, <1>1, <1>3
    <3> QED BY <3>1 DEF Members
  <2> QED BY <2>1, <2>2
<1>6. {Head(list)} \cup Members(rest) \subseteq Members(list)
  BY <1>1, <1>4 DEF Members, n
<1> QED BY <1>1, <1>2, <1>5, <1>6 DEF rest
===============================================================================
