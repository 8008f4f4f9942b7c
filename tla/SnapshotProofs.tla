--------------------------- MODULE SnapshotProofs ---------------------------
(***************************************************************************)
(* What every plan of parts has in common; both pipelines rest on it.      *)
(***************************************************************************)
EXTENDS Snapshot, SequenceTheorems, TLAPS

(* Append keeps the elements of a sequence different.                      *)
LEMMA AppendDistinct ==
  ASSUME NEW q \in Seq(PartKinds), NEW e \in PartKinds,
         \A i, j \in 1..Len(q) : q[i] = q[j] => i = j,
         \A i \in 1..Len(q) : q[i] # e
  PROVE  /\ Append(q, e) \in Seq(PartKinds)
         /\ Len(Append(q, e)) = Len(q) + 1
         /\ \A i, j \in 1..Len(Append(q, e)) :
              Append(q, e)[i] = Append(q, e)[j] => i = j
         /\ \A i \in 1..Len(Append(q, e)) :
              Append(q, e)[i] = e \/ \E j \in 1..Len(q) : Append(q, e)[i] = q[j]
<1>1. /\ Append(q, e) \in Seq(PartKinds)
      /\ Len(Append(q, e)) = Len(q) + 1
      /\ \A i \in 1..Len(q) : Append(q, e)[i] = q[i]
      /\ Append(q, e)[Len(q) + 1] = e
  BY AppendProperties
<1>2. Len(q) \in Nat
  BY LenProperties
<1>3. ASSUME NEW i \in 1..Len(Append(q, e))
      PROVE  i \in 1..Len(q) \/ i = Len(q) + 1
  BY <1>1, <1>2
<1> QED BY <1>1, <1>2, <1>3

(* planParts yields two to four different kinds, whatever optional parts   *)
(* the datadir has.                                                        *)
LEMMA PlanLemma ==
  ASSUME NEW s \in BOOLEAN, NEW t \in BOOLEAN
  PROVE  /\ PlanParts(s, t) \in Seq(PartKinds)
         /\ Len(PlanParts(s, t)) \in 2..4
         /\ \A i, j \in 1..Len(PlanParts(s, t)) :
              PlanParts(s, t)[i] = PlanParts(s, t)[j] => i = j
<1> DEFINE a == <<Live, AncientChain>>
           b == IF s THEN Append(a, AncientState) ELSE a
           c == IF t THEN Append(b, Triedb) ELSE b
           Distinct(q) == \A i, j \in 1..Len(q) : q[i] = q[j] => i = j
           Lacks(q, e) == \A i \in 1..Len(q) : q[i] # e
<1>1. /\ a \in Seq(PartKinds) /\ Len(a) = 2 /\ Distinct(a)
      /\ Lacks(a, AncientState) /\ Lacks(a, Triedb)
  BY DEF Live, AncientChain, AncientState, Triedb, PartKinds
<1>2. /\ AncientState \in PartKinds /\ Triedb \in PartKinds
      /\ AncientState # Triedb
  BY DEF AncientState, Triedb, PartKinds
<1> HIDE DEF a
<1>3. /\ b \in Seq(PartKinds) /\ Len(b) \in 2..3 /\ Distinct(b)
      /\ Lacks(b, Triedb)
  <2>1. CASE s
    <3>1. b = Append(a, AncientState)
      BY <2>1
    <3> HIDE DEF b
    <3>2. /\ b \in Seq(PartKinds) /\ Len(b) = Len(a) + 1 /\ Distinct(b)
          /\ \A i \in 1..Len(b) :
               b[i] = AncientState \/ \E j \in 1..Len(a) : b[i] = a[j]
      BY <3>1, <1>1, <1>2, AppendDistinct
    <3>3. Lacks(b, Triedb)
      BY <3>2, <1>1, <1>2
    <3> QED BY <3>2, <3>3, <1>1
  <2>2. CASE ~s
    <3>1. b = a
      BY <2>2
    <3> HIDE DEF b
    <3> QED BY <3>1, <1>1
  <2> QED BY <2>1, <2>2
<1> HIDE DEF b
<1>4. c \in Seq(PartKinds) /\ Len(c) \in 2..4 /\ Distinct(c)
  <2>1. CASE t
    <3>1. c = Append(b, Triedb)
      BY <2>1
    <3> QED BY <3>1, <1>2, <1>3, AppendDistinct
  <2>2. CASE ~t
    <3>1. c = b
      BY <2>2
    <3> QED BY <3>1, <1>3
  <2> QED BY <2>1, <2>2
<1>5. PlanParts(s, t) = c
  BY DEF PlanParts, a, b
<1> QED BY <1>4, <1>5

=============================================================================
