--------------------------- MODULE EmbargoProofs ---------------------------
(***************************************************************************)
(* Proofs about Embargo for any wallets, capacity and TTL: the index has   *)
(* no duplicates; and, within the horizon in which the ledger evicts       *)
(* nothing, it lists every embargo in force and the counter covers them.   *)
(***************************************************************************)
EXTENDS Embargo, SeqLemmas, FiniteSetTheorems

IndexInv == TypeOK /\ Distinct(index)

\* Indexed is what the lemmas call the elements of the index.
LEMMA IndexedElements == ASSUME TypeOK PROVE Indexed = Elements(index) /\ DOMAIN index = 1..Len(index)
  BY DEF TypeOK, Indexed, Elements

LEMMA ExtendTtlNat == ASSUME TypeOK, NEW u \in Nat PROVE ExtendTtl(u) \in Nat
  <1>1. now \in Nat
    BY EmbargoBounds DEF TypeOK
  <1> QED
    BY <1>1, TtlAssumption DEF ExtendTtl

LEMMA IndexReadNat == ASSUME TypeOK PROVE IndexRead \in Nat
  BY ExtendTtlNat DEF IndexRead, TypeOK

LEMMA IndexInit == Init => IndexInv
  <1> SUFFICES ASSUME Init PROVE IndexInv
    OBVIOUS
  <1>1. index \in Seq(Wallets) /\ Len(index) = 0 /\ Distinct(index)
    BY DEF Init, Distinct
  <1> QED
    BY <1>1, EmbargoBounds DEF Init, IndexInv, TypeOK

\* Placing an embargo keeps the index within its capacity and free of
\* duplicates, and indexes the wallet unless an embargo was in force.
LEMMA SetFacts ==
    ASSUME IndexInv, NEW w \in Wallets, NEW expiry \in Expiries, SetScoreEmbargo(w, expiry)
    PROVE  /\ IndexInv'
           /\ Indexed' = IF Active(w) THEN Indexed ELSE Indexed \cup {w}
  <1>1. TypeOK /\ index \in Seq(Wallets) /\ Len(index) <= MaxEmbargoed /\ count \in Nat /\ indexUntil \in Nat
        /\ until \in [Wallets -> Nat] /\ embargo \in [Wallets -> Expiries \cup {NoEmbargo}]
    BY DEF IndexInv, TypeOK
  <1>2. embargo' \in [Wallets -> Expiries \cup {NoEmbargo}]
    BY <1>1 DEF SetScoreEmbargo
  <1>3. until' \in [Wallets -> Nat]
    <2>1. ExtendTtl(until[w]) \in Nat
      BY <1>1, ExtendTtlNat
    <2> QED
      BY <1>1, <2>1 DEF SetScoreEmbargo
  <1>4. now' = now
    BY DEF SetScoreEmbargo
  <1>5. CASE Active(w) \/ w \in Indexed
    <2>1. index' = index
      BY <1>5 DEF SetScoreEmbargo
    <2>2. indexUntil' \in Nat /\ count' \in Nat
      <3>1. CASE Active(w)
        BY <1>1, <3>1 DEF SetScoreEmbargo
      <3>2. CASE ~Active(w)
        BY <1>1, <3>2, ExtendTtlNat DEF SetScoreEmbargo, Increment
      <3> QED
        BY <3>1, <3>2
    <2>3. Indexed' = Indexed
      BY <2>1 DEF Indexed
    <2>4. IndexInv'
      BY <1>2, <1>3, <1>4, <2>1, <2>2 DEF IndexInv, TypeOK
    <2> QED
      BY <1>5, <2>3, <2>4
  <1>6. CASE ~Active(w) /\ w \notin Indexed
    <2>1. index' = Append(index, w) /\ Len(index) < MaxEmbargoed
      BY <1>6 DEF SetScoreEmbargo
    <2>2. indexUntil' \in Nat /\ count' \in Nat
      BY <1>1, <1>6, ExtendTtlNat DEF SetScoreEmbargo, Increment
    <2>3. w \notin Elements(index) /\ Distinct(index)
      BY <1>1, <1>6, IndexedElements DEF IndexInv
    <2>4. /\ index' \in Seq(Wallets) /\ Distinct(index')
          /\ Elements(index') = Elements(index) \cup {w} /\ Len(index') = Len(index) + 1
      BY <1>1, <2>1, <2>3, AppendDistinct
    <2>5. Len(index') <= MaxEmbargoed
      BY <1>1, <2>1, <2>4, EmbargoBounds
    <2>6. Indexed' = Elements(index')
      BY <2>4 DEF Indexed, Elements
    <2>7. IndexInv'
      BY <1>2, <1>3, <1>4, <2>2, <2>4, <2>5 DEF IndexInv, TypeOK
    <2> QED
      BY <1>1, <1>6, <2>4, <2>6, <2>7, IndexedElements
  <1> QED
    BY <1>5, <1>6

\* Lifting an embargo takes the wallet out of the index.
LEMMA LiftFacts ==
    ASSUME IndexInv, NEW w \in Wallets, LiftScoreEmbargo(w)
    PROVE  IndexInv' /\ Indexed' = Indexed \ {w}
  <1>1. TypeOK /\ index \in Seq(Wallets) /\ Len(index) <= MaxEmbargoed /\ Distinct(index) /\ count \in Nat
    BY DEF IndexInv, TypeOK
  <1>2. /\ RemoveFirst(index, w) \in Seq(Wallets) /\ Distinct(RemoveFirst(index, w))
        /\ Elements(RemoveFirst(index, w)) = Elements(index) \ {w}
        /\ Len(RemoveFirst(index, w)) <= Len(index)
    BY <1>1, RemoveFirstDistinct
  <1>3. index' = RemoveFirst(index, w) /\ indexUntil' = IndexRead /\ now' = now
        /\ embargo' = [embargo EXCEPT ![w] = NoEmbargo] /\ until' = [until EXCEPT ![w] = 0]
    BY DEF LiftScoreEmbargo
  <1>4. count' \in Nat
    BY <1>1 DEF LiftScoreEmbargo, Decrement
  <1>5. Len(index') <= MaxEmbargoed
    BY <1>1, <1>2, <1>3, EmbargoBounds
  <1>6. embargo' \in [Wallets -> Expiries \cup {NoEmbargo}] /\ until' \in [Wallets -> Nat]
    BY <1>1, <1>3 DEF TypeOK
  <1>7. TypeOK'
    BY <1>1, <1>2, <1>3, <1>4, <1>5, <1>6, IndexReadNat DEF TypeOK
  <1>8. Indexed' = Elements(index')
    BY <1>2, <1>3 DEF Indexed, Elements
  <1> QED
    BY <1>1, <1>2, <1>3, <1>7, <1>8, IndexedElements DEF IndexInv

LEMMA IndexStep == IndexInv /\ [Next]_vars => IndexInv'
  <1> SUFFICES ASSUME IndexInv, [Next]_vars PROVE IndexInv'
    OBVIOUS
  <1>1. ASSUME NEW w \in Wallets, BatchLiftEntry(w) PROVE IndexInv'
    <2>1. count' \in Nat
      BY <1>1 DEF BatchLiftEntry, Decrement, IndexInv, TypeOK
    <2> QED
      BY <1>1, <2>1 DEF BatchLiftEntry, IndexInv, TypeOK
  <1>2. CASE RevokeAllEmbargoes
    <2>1. index' \in Seq(Wallets) /\ Len(index') = 0 /\ Distinct(index')
      BY <1>2 DEF RevokeAllEmbargoes, Distinct
    <2>2. now' = now /\ count' = 0 /\ indexUntil' = 0
      BY <1>2 DEF RevokeAllEmbargoes
    <2>3. embargo' \in [Wallets -> Expiries \cup {NoEmbargo}] /\ until' \in [Wallets -> Nat]
      BY <1>2 DEF RevokeAllEmbargoes, IndexInv, TypeOK
    <2> QED
      BY <2>1, <2>2, <2>3, EmbargoBounds DEF IndexInv, TypeOK
  <1>3. ASSUME NEW w \in Wallets, ReadEmbargoed(w) PROVE IndexInv'
    <2>1. until \in [Wallets -> Nat] /\ TypeOK
      BY DEF IndexInv, TypeOK
    <2>2. ExtendTtl(until[w]) \in Nat
      BY <2>1, ExtendTtlNat
    <2>3. until' \in [Wallets -> Nat]
      BY <1>3, <2>1, <2>2 DEF ReadEmbargoed
    <2> QED
      BY <1>3, <2>3 DEF ReadEmbargoed, IndexInv, TypeOK
  <1>4. CASE ReadIndex
    BY <1>4, IndexReadNat DEF ReadIndex, IndexInv, TypeOK
  <1>5. CASE NextLedger
    <2>1. now' \in 0..MaxTime
      BY <1>5, EmbargoBounds DEF NextLedger, IndexInv, TypeOK
    <2>2. index' \in Seq(Wallets) /\ Len(index') <= MaxEmbargoed /\ Distinct(index')
      <3>1. CASE index' = <<>>
        BY <3>1, EmbargoBounds DEF Distinct
      <3>2. CASE index' = index
        BY <3>2 DEF IndexInv, TypeOK
      <3> QED
        BY <1>5, <3>1, <3>2 DEF NextLedger
    <2>3. embargo' \in [Wallets -> Expiries \cup {NoEmbargo}]
      BY <1>5 DEF NextLedger, IndexInv, TypeOK
    <2> QED
      BY <1>5, <2>1, <2>2, <2>3 DEF NextLedger, IndexInv, TypeOK
  <1>6. CASE UNCHANGED vars
    BY <1>6 DEF vars, IndexInv, TypeOK
  <1> QED
    BY <1>1, <1>2, <1>3, <1>4, <1>5, <1>6, SetFacts, LiftFacts DEF Next

\* Every reachable state is well typed: the index stays within
\* MAX_EMBARGOED_WALLETS and the counter never underflows.
THEOREM EmbargoTypeCorrect == Spec => []TypeOK
  <1>1. IndexInv => TypeOK
    BY DEF IndexInv
  <1> QED
    BY <1>1, IndexInit, IndexStep, PTL DEF Spec

\* add_to_embargoed_index never lists a wallet twice (invariant #12 of the
\* contract's catalogue), evictions included.
THEOREM IndexStaysDistinct == Spec => []IndexDistinct
  <1>1. IndexInv => IndexDistinct
    BY IndexedElements DEF IndexInv, Distinct, IndexDistinct
  <1> QED
    BY <1>1, IndexInit, IndexStep, PTL DEF Spec

-----------------------------------------------------------------------------
(* Within the horizon of the TTL *)

ActiveWallets == {w \in Wallets : Active(w)}

\* A record that exists was written with a full TTL, and so was the index.
Kept(u) == u = 0 \/ u >= ExtendTo
HorizonInv ==
    /\ IndexInv
    /\ \A w \in Wallets : Kept(until[w]) /\ (embargo[w] # NoEmbargo => until[w] # 0)
    /\ Kept(indexUntil) /\ (index # <<>> => indexUntil # 0)
    /\ \A w \in Wallets : Active(w) => w \in Indexed
    /\ count >= Cardinality(ActiveWallets)

LEMMA ExtendTtlKept ==
    ASSUME TypeOK, NEW u \in Nat, Kept(u)
    PROVE  Kept(ExtendTtl(u)) /\ (u # 0 => ExtendTtl(u) # 0) /\ (u = 0 => ExtendTtl(u) # 0)
  <1>1. now \in Nat
    BY EmbargoBounds DEF TypeOK
  <1> QED
    BY <1>1, TtlAssumption DEF ExtendTtl, Kept

LEMMA IndexReadKept ==
    ASSUME HorizonInv
    PROVE  Kept(IndexRead) /\ (index # <<>> => IndexRead # 0)
  BY ExtendTtlKept DEF IndexRead, HorizonInv, IndexInv, TypeOK

\* Sets of embargoed wallets are finite, so they may be counted.
LEMMA ActiveFinite == IsFiniteSet(ActiveWallets) /\ Cardinality(ActiveWallets) \in Nat
  <1>1. IsFiniteSet(ActiveWallets)
    BY WalletsFinite, FS_Subset DEF ActiveWallets
  <1> QED
    BY <1>1, FS_CardinalityType

\* A step that ends embargoes and leaves the counter alone keeps it covering.
LEMMA FewerActive ==
    ASSUME NEW A, ActiveWallets' = A, A \subseteq ActiveWallets, count >= Cardinality(ActiveWallets),
           count \in Nat, count' = count
    PROVE  count' >= Cardinality(ActiveWallets')
  <1>1. IsFiniteSet(ActiveWallets) /\ Cardinality(ActiveWallets) \in Nat
    BY ActiveFinite
  <1>2. IsFiniteSet(A) /\ Cardinality(A) <= Cardinality(ActiveWallets)
    BY <1>1, FS_Subset
  <1>3. Cardinality(A) \in Nat
    BY <1>2, FS_CardinalityType
  <1> QED
    BY <1>1, <1>2, <1>3

\* Ending one embargo in force and counting down keeps the counter covering.
LEMMA OneFewerActive ==
    ASSUME NEW w \in ActiveWallets, ActiveWallets' = ActiveWallets \ {w},
           count >= Cardinality(ActiveWallets), count \in Nat, Decrement
    PROVE  count' >= Cardinality(ActiveWallets')
  <1>1. IsFiniteSet(ActiveWallets) /\ Cardinality(ActiveWallets) \in Nat
    BY ActiveFinite
  <1>2. Cardinality(ActiveWallets \ {w}) = Cardinality(ActiveWallets) - 1
    BY <1>1, FS_RemoveElement
  <1>3. IsFiniteSet(ActiveWallets \ {w})
    BY <1>1, FS_Subset
  <1>4. Cardinality(ActiveWallets \ {w}) \in Nat
    BY <1>3, FS_CardinalityType
  <1> QED
    BY <1>1, <1>2, <1>4 DEF Decrement

\* One more embargo in force, or one fewer, and counting up.
LEMMA OneMoreActive ==
    ASSUME NEW w \in Wallets, ActiveWallets' \subseteq ActiveWallets \cup {w},
           count >= Cardinality(ActiveWallets), count \in Nat, count' = count + 1
    PROVE  count' >= Cardinality(ActiveWallets')
  <1>1. IsFiniteSet(ActiveWallets) /\ Cardinality(ActiveWallets) \in Nat
    BY ActiveFinite
  <1>2. IsFiniteSet(ActiveWallets \cup {w}) /\ Cardinality(ActiveWallets \cup {w}) <= Cardinality(ActiveWallets) + 1
    BY <1>1, FS_AddElement
  <1>3. Cardinality(ActiveWallets') <= Cardinality(ActiveWallets \cup {w}) /\ IsFiniteSet(ActiveWallets')
    BY <1>2, FS_Subset
  <1>4. Cardinality(ActiveWallets') \in Nat /\ Cardinality(ActiveWallets \cup {w}) \in Nat
    BY <1>2, <1>3, FS_CardinalityType
  <1> QED
    BY <1>1, <1>2, <1>3, <1>4

\* The facts every step below starts from.
LEMMA HorizonTypes ==
    ASSUME HorizonInv
    PROVE  /\ TypeOK /\ now \in Nat /\ count \in Nat /\ indexUntil \in Nat
           /\ until \in [Wallets -> Nat]
           /\ embargo \in [Wallets -> Expiries \cup {NoEmbargo}]
           /\ embargo \in [Wallets -> Int]
  <1>1. TypeOK
    BY DEF HorizonInv, IndexInv
  <1>2. Expiries \cup {NoEmbargo} \subseteq Int
    BY EmbargoBounds DEF Expiries, Indefinite, NoEmbargo
  <1>3. embargo \in [Wallets -> Expiries \cup {NoEmbargo}]
    BY <1>1 DEF TypeOK
  <1>4. embargo \in [Wallets -> Int]
    BY <1>2, <1>3
  <1> QED
    BY <1>1, <1>3, <1>4, EmbargoBounds DEF TypeOK

LEMMA HorizonSet ==
    ASSUME HorizonInv, NEW w \in Wallets, NEW expiry \in Expiries, SetScoreEmbargo(w, expiry)
    PROVE  HorizonInv'
  <1>1. IndexInv' /\ Indexed' = IF Active(w) THEN Indexed ELSE Indexed \cup {w}
    BY SetFacts DEF HorizonInv
  <1>2. /\ now' = now /\ embargo' = [embargo EXCEPT ![w] = expiry]
        /\ until' = [until EXCEPT ![w] = ExtendTtl(until[w])]
    BY DEF SetScoreEmbargo
  <1>3. Kept(ExtendTtl(until[w])) /\ ExtendTtl(until[w]) # 0
    BY HorizonTypes, ExtendTtlKept DEF HorizonInv
  <1>4. \A x \in Wallets : Kept(until'[x]) /\ (embargo'[x] # NoEmbargo => until'[x] # 0)
    BY <1>2, <1>3, HorizonTypes DEF HorizonInv
  <1>5. Kept(indexUntil') /\ (index' # <<>> => indexUntil' # 0)
    <2>1. Kept(ExtendTtl(indexUntil)) /\ ExtendTtl(indexUntil) # 0
      BY HorizonTypes, ExtendTtlKept DEF HorizonInv
    <2>2. CASE Active(w)
      BY <2>2 DEF SetScoreEmbargo, HorizonInv
    <2>3. CASE ~Active(w)
      BY <2>1, <2>3 DEF SetScoreEmbargo
    <2> QED
      BY <2>2, <2>3
  <1>6. \A x \in Wallets : x # w => (Active(x)' <=> Active(x))
    BY <1>2, HorizonTypes DEF Active
  <1>7. \A x \in Wallets : Active(x)' => x \in Indexed'
    BY <1>1, <1>6 DEF HorizonInv
  <1>8. ActiveWallets' \subseteq ActiveWallets \cup {w}
    BY <1>6 DEF ActiveWallets
  <1>9. count' >= Cardinality(ActiveWallets')
    <2>1. CASE Active(w)
      <3>1. ActiveWallets' \subseteq ActiveWallets /\ count' = count
        BY <1>8, <2>1 DEF SetScoreEmbargo, ActiveWallets
      <3> QED
        BY <3>1, HorizonTypes, FewerActive DEF HorizonInv
    <2>2. CASE ~Active(w)
      <3>1. count' = count + 1
        BY <2>2 DEF SetScoreEmbargo, Increment
      <3> QED
        BY <1>8, <3>1, HorizonTypes, OneMoreActive DEF HorizonInv
    <2> QED
      BY <2>1, <2>2
  <1> QED
    BY <1>1, <1>4, <1>5, <1>7, <1>9 DEF HorizonInv

\* Removing the record of one wallet, with or without its index entry.
LEMMA HorizonRemove ==
    ASSUME HorizonInv, NEW w \in Wallets, IndexInv',
           embargo' = [embargo EXCEPT ![w] = NoEmbargo], until' = [until EXCEPT ![w] = 0], now' = now,
           Indexed' \in {Indexed, Indexed \ {w}},
           Kept(indexUntil'), index' # <<>> => indexUntil' # 0,
           IF Active(w) THEN Decrement ELSE UNCHANGED count
    PROVE  HorizonInv'
  <1>1. \A x \in Wallets : Kept(until'[x]) /\ (embargo'[x] # NoEmbargo => until'[x] # 0)
    BY HorizonTypes DEF HorizonInv, Kept
  <1>2. \A x \in Wallets : Active(x)' <=> Active(x) /\ x # w
    <2>1. embargo'[w] = NoEmbargo /\ \A x \in Wallets : x # w => embargo'[x] = embargo[x]
      BY HorizonTypes
    <2>2. ~(NoEmbargo >= now)
      BY HorizonTypes DEF NoEmbargo
    <2> QED
      BY <2>1, <2>2 DEF Active
  <1>3. \A x \in Wallets : Active(x)' => x \in Indexed'
    BY <1>2 DEF HorizonInv
  <1>4. ActiveWallets' = ActiveWallets \ {w}
    BY <1>2 DEF ActiveWallets
  <1>5. count' >= Cardinality(ActiveWallets')
    <2>1. CASE Active(w)
      BY <1>4, <2>1, HorizonTypes, OneFewerActive DEF HorizonInv, ActiveWallets
    <2>2. CASE ~Active(w)
      <3>1. ActiveWallets' \subseteq ActiveWallets /\ count' = count
        BY <1>4, <2>2
      <3> QED
        BY <3>1, HorizonTypes, FewerActive DEF HorizonInv
    <2> QED
      BY <2>1, <2>2
  <1> QED
    BY <1>1, <1>3, <1>5 DEF HorizonInv

LEMMA HorizonLedger ==
    ASSUME HorizonInv, now < ExtendTo, NextLedger, IndexInv'
    PROVE  HorizonInv'
  <1>1. /\ now < MaxTime /\ now' = now + 1 /\ UNCHANGED <<until, indexUntil, count>>
        /\ embargo' = [x \in Wallets |-> IF until[x] <= now THEN NoEmbargo ELSE embargo[x]]
        /\ index' = IF indexUntil <= now THEN <<>> ELSE index
    BY DEF NextLedger
  <1>2. \A u \in Nat : Kept(u) /\ u # 0 => ~(u <= now)
    BY <1>1, HorizonTypes, TtlAssumption, EmbargoBounds DEF Kept
  <1>3. \A x \in Wallets : embargo'[x] = embargo[x]
    BY <1>1, <1>2, HorizonTypes DEF HorizonInv
  <1>4. index' = index
    BY <1>1, <1>2, HorizonTypes DEF HorizonInv
  <1>5. \A x \in Wallets : Active(x)' => Active(x)
    BY <1>1, <1>3, HorizonTypes DEF Active
  <1>6. ActiveWallets' \subseteq ActiveWallets
    BY <1>5 DEF ActiveWallets
  <1>7. count' >= Cardinality(ActiveWallets')
    BY <1>1, <1>6, HorizonTypes, FewerActive DEF HorizonInv
  <1>8. Indexed' = Indexed
    BY <1>4 DEF Indexed
  <1> QED
    BY <1>1, <1>3, <1>4, <1>5, <1>7, <1>8 DEF HorizonInv

LEMMA HorizonRevoke ==
    ASSUME HorizonInv, RevokeAllEmbargoes, IndexInv'
    PROVE  HorizonInv'
  <1>1. /\ embargo' = [x \in Wallets |-> IF x \in Indexed THEN NoEmbargo ELSE embargo[x]]
        /\ until' = [x \in Wallets |-> IF x \in Indexed THEN 0 ELSE until[x]]
        /\ index' = <<>> /\ indexUntil' = 0 /\ count' = 0 /\ now' = now
    BY DEF RevokeAllEmbargoes
  <1>2. \A x \in Wallets : ~Active(x)'
    <2>1. ~(NoEmbargo >= now)
      BY HorizonTypes DEF NoEmbargo
    <2> QED
      BY <1>1, <2>1 DEF Active, HorizonInv
  <1>3. ActiveWallets' = {}
    BY <1>2 DEF ActiveWallets
  <1>4. Cardinality(ActiveWallets') = 0
    BY <1>3, FS_EmptySet
  <1>5. \A x \in Wallets : Kept(until'[x]) /\ (embargo'[x] # NoEmbargo => until'[x] # 0)
    BY <1>1 DEF HorizonInv, Kept
  <1> QED
    BY <1>1, <1>2, <1>4, <1>5 DEF HorizonInv, Kept

\* Steps that change neither the embargoes nor the index nor the counter.
LEMMA HorizonQuiet ==
    ASSUME HorizonInv, IndexInv', UNCHANGED <<now, embargo, index, count>>,
           \A x \in Wallets : Kept(until'[x]) /\ (embargo[x] # NoEmbargo => until'[x] # 0),
           Kept(indexUntil'), index # <<>> => indexUntil' # 0
    PROVE  HorizonInv'
  <1>1. ActiveWallets' = ActiveWallets /\ Indexed' = Indexed /\ \A x \in Wallets : Active(x)' <=> Active(x)
    BY DEF ActiveWallets, Active, Indexed
  <1> QED
    BY <1>1 DEF HorizonInv

LEMMA HorizonStep ==
    ASSUME HorizonInv, [Next]_vars, now' <= ExtendTo
    PROVE  HorizonInv'
  <1>1. IndexInv /\ IndexInv'
    BY IndexStep DEF HorizonInv
  <1>2. ASSUME NEW w \in Wallets, LiftScoreEmbargo(w) PROVE HorizonInv'
    <2>1. Indexed' = Indexed \ {w}
      BY <1>1, <1>2, LiftFacts
    <2>2. indexUntil' = IndexRead /\ index' = RemoveFirst(index, w)
      BY <1>2 DEF LiftScoreEmbargo
    <2>3. index' # <<>> => index # <<>>
      BY <2>2 DEF RemoveFirst
    <2>4. Kept(indexUntil') /\ (index' # <<>> => indexUntil' # 0)
      BY <2>2, <2>3, IndexReadKept
    <2> QED
      BY <1>1, <1>2, <2>1, <2>4, HorizonRemove DEF LiftScoreEmbargo
  <1>3. ASSUME NEW w \in Wallets, BatchLiftEntry(w) PROVE HorizonInv'
    <2>1. Indexed' = Indexed
      BY <1>3 DEF BatchLiftEntry, Indexed
    <2>2. Kept(indexUntil') /\ (index' # <<>> => indexUntil' # 0)
      BY <1>3 DEF BatchLiftEntry, HorizonInv
    <2> QED
      BY <1>1, <1>3, <2>1, <2>2, HorizonRemove DEF BatchLiftEntry
  <1>4. ASSUME NEW w \in Wallets, ReadEmbargoed(w) PROVE HorizonInv'
    <2>1. until' = [until EXCEPT ![w] = ExtendTtl(until[w])] /\ UNCHANGED <<now, embargo, index, indexUntil, count>>
      BY <1>4 DEF ReadEmbargoed
    <2>2. Kept(ExtendTtl(until[w])) /\ ExtendTtl(until[w]) # 0
      BY HorizonTypes, ExtendTtlKept DEF HorizonInv
    <2>3. \A x \in Wallets : Kept(until'[x]) /\ (embargo[x] # NoEmbargo => until'[x] # 0)
      BY <2>1, <2>2, HorizonTypes DEF HorizonInv
    <2>4. Kept(indexUntil') /\ (index # <<>> => indexUntil' # 0)
      BY <2>1 DEF HorizonInv
    <2> QED
      BY <1>1, <2>1, <2>3, <2>4, HorizonQuiet
  <1>5. CASE ReadIndex
    <2>1. indexUntil' = IndexRead /\ UNCHANGED <<now, embargo, until, index, count>>
      BY <1>5 DEF ReadIndex
    <2>2. \A x \in Wallets : Kept(until'[x]) /\ (embargo[x] # NoEmbargo => until'[x] # 0)
      BY <2>1 DEF HorizonInv
    <2> QED
      BY <1>1, <2>1, <2>2, IndexReadKept, HorizonQuiet
  <1>6. CASE UNCHANGED vars
    <2>1. UNCHANGED <<now, embargo, until, index, indexUntil, count>>
      BY <1>6 DEF vars
    <2> QED
      BY <1>1, <2>1, HorizonQuiet DEF HorizonInv
  <1>7. CASE NextLedger
    <2>1. now < ExtendTo
      BY <1>7, HorizonTypes, TtlAssumption DEF NextLedger
    <2> QED
      BY <1>1, <1>7, <2>1, HorizonLedger
  <1> QED
    BY <1>1, <1>2, <1>3, <1>4, <1>5, <1>6, <1>7, HorizonSet, HorizonRevoke DEF Next

LEMMA HorizonInit == Init => HorizonInv
  <1> SUFFICES ASSUME Init PROVE HorizonInv
    OBVIOUS
  <1>1. IndexInv
    BY IndexInit
  <1>2. \A x \in Wallets : ~Active(x)
    BY DEF Init, Active, NoEmbargo
  <1>3. ActiveWallets = {}
    BY <1>2 DEF ActiveWallets
  <1>4. Cardinality(ActiveWallets) = 0
    BY <1>3, FS_EmptySet
  <1> QED
    BY <1>1, <1>2, <1>4 DEF HorizonInv, Init, Kept

\* No step turns the clock back.
LEMMA ClockMonotone ==
    ASSUME TypeOK, [Next]_vars
    PROVE  now \in Nat /\ now' \in Nat /\ now <= now'
  <1>1. now \in Nat
    BY EmbargoBounds DEF TypeOK
  <1>2. CASE NextLedger
    BY <1>1, <1>2 DEF NextLedger
  <1>3. CASE now' = now
    BY <1>1, <1>3
  <1> QED
    BY <1>2, <1>3 DEF Next, vars, SetScoreEmbargo, LiftScoreEmbargo, BatchLiftEntry,
                      RevokeAllEmbargoes, ReadEmbargoed, ReadIndex

\* The invariant of the horizon, for as long as the horizon lasts.
WithinHorizon == IndexInv /\ (now <= ExtendTo => HorizonInv)

LEMMA WithinHorizonStep == WithinHorizon /\ [Next]_vars => WithinHorizon'
  <1> SUFFICES ASSUME WithinHorizon, [Next]_vars PROVE WithinHorizon'
    OBVIOUS
  <1>1. IndexInv /\ IndexInv'
    BY IndexStep DEF WithinHorizon
  <1>2. ASSUME now' <= ExtendTo PROVE HorizonInv'
    <2>1. now \in Nat /\ now' \in Nat /\ now <= now'
      BY <1>1, ClockMonotone DEF IndexInv
    <2>2. now <= ExtendTo
      BY <1>2, <2>1, TtlAssumption
    <2> QED
      BY <1>2, <2>2, HorizonStep DEF WithinHorizon
  <1> QED
    BY <1>1, <1>2 DEF WithinHorizon

LEMMA WithinHorizonInit == Init => WithinHorizon
  BY HorizonInit, IndexInit DEF WithinHorizon

\* Until the first TTL can run out, every embargo in force is indexed: one
\* revoke_all_embargoes releases them all.
THEOREM RevokeReachesAll == Spec => []ActiveAreIndexed
  <1>1. WithinHorizon => ActiveAreIndexed
    BY DEF WithinHorizon, HorizonInv, ActiveAreIndexed
  <1> QED
    BY <1>1, WithinHorizonInit, WithinHorizonStep, PTL DEF Spec

\* Until the first TTL can run out, ActiveEmbargoCount is never below the
\* number of embargoes in force.
THEOREM CountNeverTooLow == Spec => []CountCoversActive
  <1>1. WithinHorizon => CountCoversActive
    BY DEF WithinHorizon, HorizonInv, CountCoversActive, ActiveWallets
  <1> QED
    BY <1>1, WithinHorizonInit, WithinHorizonStep, PTL DEF Spec
=============================================================================
