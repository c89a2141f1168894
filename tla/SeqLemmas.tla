----------------------------- MODULE SeqLemmas -----------------------------
(***************************************************************************)
(* Lemmas about the bounded indexes the contract keeps as vectors: an      *)
(* entry is appended if absent and removed at its first position.          *)
(***************************************************************************)
EXTENDS Integers, Sequences, SequencesExt, SequenceTheorems, TLAPS

\* Removing position i: everything before it stays, everything after it moves
\* one place forward.
LEMMA RemoveAtFacts ==
    ASSUME NEW S, NEW s \in Seq(S), NEW i \in 1..Len(s)
    PROVE  /\ RemoveAt(s, i) \in Seq(S)
           /\ Len(RemoveAt(s, i)) = Len(s) - 1
           /\ \A j \in 1..(Len(s) - 1) : RemoveAt(s, i)[j] = s[IF j < i THEN j ELSE j + 1]
  <1> DEFINE a == SubSeq(s, 1, i - 1)
             b == SubSeq(s, i + 1, Len(s))
  <1>0. Len(s) \in Nat /\ i \in Int /\ 1 <= i /\ i <= Len(s)
    OBVIOUS
  <1>1. \A j \in 1..Len(s) : s[j] \in S
    BY ElementOfSeq
  <1>2. a \in Seq(S) /\ Len(a) = i - 1 /\ \A j \in 1..(i - 1) : a[j] = s[j]
    <2>1. \A j \in 1..(i - 1) : s[j] \in S
      BY <1>0, <1>1
    <2> QED
      BY <1>0, <2>1, SubSeqProperties
  <1>3. b \in Seq(S) /\ Len(b) = Len(s) - i /\ \A j \in 1..(Len(s) - i) : b[j] = s[i + j]
    <2>1. \A j \in (i + 1)..Len(s) : s[j] \in S
      BY <1>0, <1>1
    <2>2. /\ b \in Seq(S)
          /\ Len(b) = IF i + 1 <= Len(s) THEN Len(s) - (i + 1) + 1 ELSE 0
          /\ \A j \in 1..(Len(s) - (i + 1) + 1) : b[j] = s[(i + 1) + j - 1]
      BY <1>0, <2>1, SubSeqProperties
    <2> QED
      BY <1>0, <2>2
  <1>4. RemoveAt(s, i) = a \o b
    BY DEF RemoveAt
  <1> HIDE DEF a, b
  <1>5. a \o b \in Seq(S) /\ Len(a \o b) = Len(s) - 1
    BY <1>0, <1>2, <1>3
  <1>6. ASSUME NEW j \in 1..(Len(s) - 1)
        PROVE  (a \o b)[j] = s[IF j < i THEN j ELSE j + 1]
    <2>1. CASE j < i
      BY <1>0, <1>2, <1>3, <2>1
    <2>2. CASE ~(j < i)
      <3>1. j - (i - 1) \in 1..(Len(s) - i) /\ i + (j - (i - 1)) = j + 1
        BY <1>0, <2>2
      <3>2. (a \o b)[j] = b[j - (i - 1)]
        BY SMTT(40), <1>0, <1>2, <1>3, <2>2
      <3> QED
        BY <1>3, <2>2, <3>1, <3>2
    <2> QED
      BY <2>1, <2>2
  <1> QED
    BY <1>4, <1>5, <1>6

\* In a sequence without duplicates the first occurrence is the occurrence.
LEMMA RemoveFirstFacts ==
    ASSUME NEW S, NEW s \in Seq(S), NEW e, NEW i \in 1..Len(s), s[i] = e,
           \A j \in 1..Len(s) : s[j] = e => j = i
    PROVE  RemoveFirst(s, e) = RemoveAt(s, i)
  <1>1. {j \in 1..Len(s) : s[j] = e} = {i}
    OBVIOUS
  <1>2. Min({i}) = i
    BY DEF Min
  <1>3. SelectInSeq(s, LAMBDA v : v = e) = i
    BY <1>1, <1>2 DEF SelectInSeq
  <1> QED
    BY <1>3 DEF RemoveFirst

-----------------------------------------------------------------------------
(* Indexes without duplicates *)

Distinct(s) == \A i, j \in 1..Len(s) : s[i] = s[j] => i = j
Elements(s) == {s[i] : i \in 1..Len(s)}

\* Removing an entry leaves the other entries, once each.
LEMMA RemoveFirstDistinct ==
    ASSUME NEW S, NEW s \in Seq(S), Distinct(s), NEW e
    PROVE  /\ RemoveFirst(s, e) \in Seq(S)
           /\ Distinct(RemoveFirst(s, e))
           /\ Elements(RemoveFirst(s, e)) = Elements(s) \ {e}
           /\ Len(RemoveFirst(s, e)) <= Len(s)
  <1>1. CASE \E i \in 1..Len(s) : s[i] = e
    <2>1. PICK i \in 1..Len(s) : s[i] = e
      BY <1>1
    <2> DEFINE r == RemoveAt(s, i)
               at(j) == IF j < i THEN j ELSE j + 1
    <2>2. \A j \in 1..Len(s) : s[j] = e => j = i
      BY <2>1 DEF Distinct
    <2>3. RemoveFirst(s, e) = r
      BY <2>1, <2>2, RemoveFirstFacts
    <2>4. r \in Seq(S) /\ Len(r) = Len(s) - 1 /\ \A j \in 1..(Len(s) - 1) : r[j] = s[at(j)]
      BY RemoveAtFacts
    <2> HIDE DEF r
    <2>5. \A j \in 1..Len(r) : r[j] = s[at(j)] /\ at(j) \in 1..Len(s) /\ at(j) # i
      BY <2>4
    <2>6. \A j, m \in 1..Len(r) : at(j) = at(m) => j = m
      OBVIOUS
    <2>7. \A j \in 1..Len(s) : j # i => \E m \in 1..Len(r) : at(m) = j
      <3> SUFFICES ASSUME NEW j \in 1..Len(s), j # i PROVE \E m \in 1..Len(r) : at(m) = j
        OBVIOUS
      <3>1. CASE j < i
        <4>1. j \in 1..Len(r) /\ at(j) = j
          BY <2>4, <3>1
        <4> QED
          BY <4>1
      <3>2. CASE i < j
        <4>1. j - 1 \in 1..Len(r) /\ at(j - 1) = j
          BY <2>4, <3>2
        <4> QED
          BY <4>1
      <3> QED
        BY <3>1, <3>2
    <2> HIDE DEF at
    <2>8. Distinct(r)
      <3> SUFFICES ASSUME NEW j \in 1..Len(r), NEW m \in 1..Len(r), r[j] = r[m] PROVE j = m
        BY DEF Distinct
      <3>1. at(j) \in 1..Len(s) /\ at(m) \in 1..Len(s) /\ s[at(j)] = s[at(m)]
        BY <2>5
      <3>2. at(j) = at(m)
        BY <3>1 DEF Distinct
      <3> QED
        BY <2>6, <3>2
    <2>9. Elements(r) = Elements(s) \ {e}
      <3>1. ASSUME NEW j \in 1..Len(r) PROVE r[j] \in Elements(s) \ {e}
        BY <2>2, <2>5 DEF Elements
      <3>2. ASSUME NEW j \in 1..Len(s), s[j] # e PROVE s[j] \in Elements(r)
        <4>1. PICK m \in 1..Len(r) : at(m) = j
          BY <2>1, <2>7, <3>2
        <4>2. r[m] = s[j]
          BY <2>5, <4>1
        <4> QED
          BY <4>2 DEF Elements
      <3> QED
        BY <3>1, <3>2 DEF Elements
    <2> QED
      BY <2>3, <2>4, <2>8, <2>9
  <1>2. CASE ~\E i \in 1..Len(s) : s[i] = e
    <2>1. RemoveFirst(s, e) = s
      BY <1>2 DEF RemoveFirst
    <2>2. e \notin Elements(s)
      BY <1>2 DEF Elements
    <2> QED
      BY <2>1, <2>2
  <1> QED
    BY <1>1, <1>2

\* Appending an absent entry adds it, once.
LEMMA AppendDistinct ==
    ASSUME NEW S, NEW s \in Seq(S), Distinct(s), NEW e \in S, e \notin Elements(s)
    PROVE  /\ Append(s, e) \in Seq(S)
           /\ Distinct(Append(s, e))
           /\ Elements(Append(s, e)) = Elements(s) \cup {e}
           /\ Len(Append(s, e)) = Len(s) + 1
  <1> DEFINE r == Append(s, e)
  <1>1. /\ r \in Seq(S) /\ Len(r) = Len(s) + 1 /\ r[Len(s) + 1] = e /\ Len(s) \in Nat
        /\ \A i \in 1..Len(s) : r[i] = s[i]
    OBVIOUS
  <1> HIDE DEF r
  <1>2. \A i \in 1..Len(r) : i \in 1..Len(s) \/ i = Len(s) + 1
    BY <1>1
  <1>3. \A i \in 1..Len(s) : i \in 1..Len(r) /\ s[i] # e
    BY <1>1 DEF Elements
  <1>4. Distinct(r)
    <2> SUFFICES ASSUME NEW i \in 1..Len(r), NEW j \in 1..Len(r), r[i] = r[j] PROVE i = j
      BY DEF Distinct
    <2>1. CASE i \in 1..Len(s) /\ j \in 1..Len(s)
      BY <1>1, <2>1 DEF Distinct
    <2>2. CASE i \in 1..Len(s) /\ j = Len(s) + 1
      BY <1>1, <1>3, <2>2
    <2>3. CASE i = Len(s) + 1 /\ j \in 1..Len(s)
      BY <1>1, <1>3, <2>3
    <2> QED
      BY <1>2, <2>1, <2>2, <2>3
  <1>5. Elements(r) = Elements(s) \cup {e}
    <2>1. Len(s) + 1 \in 1..Len(r)
      BY <1>1
    <2>2. Elements(r) \subseteq Elements(s) \cup {e}
      BY <1>1, <1>2 DEF Elements
    <2>3. Elements(s) \subseteq Elements(r) /\ e \in Elements(r)
      BY <1>1, <1>3, <2>1 DEF Elements
    <2> QED
      BY <2>2, <2>3
  <1> QED
    BY <1>1, <1>4, <1>5 DEF r
=============================================================================
