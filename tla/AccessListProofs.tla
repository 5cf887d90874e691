-------------------------- MODULE AccessListProofs --------------------------
(***************************************************************************)
(* Proofs that convertAccessList hands over the caller's access list, for *)
(* every set of addresses and hashes and every bound on the list.  The    *)
(* loop invariant is the usual one of a single pass: the converted prefix *)
(* is the expected list up to i, and inside a tuple the slot slice holds  *)
(* the bytes of its first j keys.                                          *)
(***************************************************************************)
EXTENDS AccessList, SequenceTheorems, TLAPS

\* The bytes of the first n storage keys of tuple t.
KeySlots(t, n) == [m \in 1..n |-> HashBytes(t.storage_keys[m])]

\* The first n items of the converted form of l.
ExpectedPrefix(l, n) == [k \in 1..n |-> Expected(l)[k]]

\* The loop invariant of the two ranges.
ALInv ==
  /\ TypeOK
  /\ i <= Len(list)
  /\ converted = ExpectedPrefix(list, i)
  /\ pc = "Inner" =>
       /\ i < Len(list)
       /\ j <= Len(list[i + 1].storage_keys)
       /\ slots = KeySlots(list[i + 1], j)
  /\ pc = "Done" => i = Len(list)

-----------------------------------------------------------------------------
(* Lemmas about the data.                                                  *)

\* A bounded sequence is a sequence no longer than its bound.
LEMMA BoundedSeqFacts ==
  ASSUME NEW S, NEW n \in Nat, NEW l \in BoundedSeq(S, n)
  PROVE  l \in Seq(S) /\ Len(l) <= n
<1>1. PICK m \in 0..n : l \in [1..m -> S]
  BY DEF BoundedSeq, SeqOf
<1>2. l \in Seq(S)
  BY <1>1, SeqDef
<1>3. Len(l) = m
  BY <1>1, <1>2, LenProperties
<1>. QED
  BY <1>1, <1>2, <1>3

\* The tuples of a bounded access list and what is known of them.
LEMMA TupleFacts ==
  ASSUME NEW l \in BoundedSeq(AccessTuple, MaxItems), NEW k \in 1..Len(l)
  PROVE  /\ l[k] \in AccessTuple
         /\ l[k].storage_keys \in Seq(Hashes)
         /\ Len(l[k].storage_keys) <= MaxKeys
         /\ l[k].address \in Addrs
<1>1. l \in Seq(AccessTuple)
  BY BoundedSeqFacts, AccessListAssumption
<1>2. l[k] \in AccessTuple
  BY <1>1, ElementOfSeq
<1>3. l[k].storage_keys \in BoundedSeq(Hashes, MaxKeys)
  BY <1>2 DEF AccessTuple
<1>. QED
  BY <1>2, <1>3, BoundedSeqFacts, AccessListAssumption DEF AccessTuple

\* The element types of the two slices.
SlotType == [width : {32}, of : Hashes]

ItemType == [storage_slot : Seq(SlotType), address : [width : {20}, of : Addrs]]

\* The slot slice of a tuple's first n keys is a slice of n hashes' bytes.
LEMMA KeySlotsType ==
  ASSUME NEW t \in AccessTuple, NEW n \in 0..Len(t.storage_keys)
  PROVE  KeySlots(t, n) \in Seq(SlotType) /\ Len(KeySlots(t, n)) = n
<1>1. t.storage_keys \in Seq(Hashes)
  BY BoundedSeqFacts, AccessListAssumption DEF AccessTuple
<1>2. \A m \in 1..n : HashBytes(t.storage_keys[m]) \in SlotType
  BY <1>1, ElementOfSeq DEF HashBytes, SlotType
<1>3. KeySlots(t, n) \in [1..n -> SlotType]
  BY <1>2 DEF KeySlots
<1>4. KeySlots(t, n) \in Seq(SlotType)
  BY <1>1, <1>3, SeqDef, LenProperties
<1>. QED
  BY <1>3, <1>4, LenProperties

\* One iteration of the inner range extends the slot slice by the next key.
LEMMA KeySlotsAppend ==
  ASSUME NEW t \in AccessTuple, NEW n \in Nat, n < Len(t.storage_keys)
  PROVE  Append(KeySlots(t, n), HashBytes(t.storage_keys[n + 1])) = KeySlots(t, n + 1)
<1>1. t.storage_keys \in Seq(Hashes)
  BY BoundedSeqFacts, AccessListAssumption DEF AccessTuple
<1>2. KeySlots(t, n) \in Seq(SlotType) /\ Len(KeySlots(t, n)) = n
  BY <1>1, KeySlotsType
<1>3. HashBytes(t.storage_keys[n + 1]) \in SlotType
  BY <1>1, ElementOfSeq DEF HashBytes, SlotType
<1>. QED
  BY <1>2, <1>3, AppendProperties DEF KeySlots

\* The converted form of the k-th tuple: its keys' bytes and its address.
LEMMA ExpectedItem ==
  ASSUME NEW l \in BoundedSeq(AccessTuple, MaxItems), NEW k \in 1..Len(l)
  PROVE  /\ Expected(l)[k]
              = [storage_slot |-> KeySlots(l[k], Len(l[k].storage_keys)),
                 address |-> AddressBytes(l[k].address)]
         /\ Expected(l)[k] \in ItemType
<1>1. l[k] \in AccessTuple /\ l[k].storage_keys \in Seq(Hashes) /\ l[k].address \in Addrs
  BY TupleFacts
<1>2. Expected(l)[k]
        = [storage_slot |-> KeySlots(l[k], Len(l[k].storage_keys)),
           address |-> AddressBytes(l[k].address)]
  BY DEF Expected, KeySlots
<1>3. KeySlots(l[k], Len(l[k].storage_keys)) \in Seq(SlotType)
  BY <1>1, KeySlotsType, LenProperties
<1>. QED
  BY <1>1, <1>2, <1>3 DEF ItemType, AddressBytes

\* The expected prefixes are slices of items, and the outer range extends
\* one by the next item.
LEMMA PrefixFacts ==
  ASSUME NEW l \in BoundedSeq(AccessTuple, MaxItems), NEW n \in 0..Len(l)
  PROVE  /\ ExpectedPrefix(l, n) \in Seq(ItemType)
         /\ Len(ExpectedPrefix(l, n)) = n
         /\ n < Len(l) =>
              Append(ExpectedPrefix(l, n), Expected(l)[n + 1]) = ExpectedPrefix(l, n + 1)
<1>0. l \in Seq(AccessTuple) /\ Len(l) \in Nat /\ n \in Nat
  BY BoundedSeqFacts, AccessListAssumption, LenProperties
<1>1. ExpectedPrefix(l, n) \in [1..n -> ItemType]
  <2>1. \A k \in 1..n : Expected(l)[k] \in ItemType
    <3> SUFFICES ASSUME NEW k \in 1..n PROVE Expected(l)[k] \in ItemType
      OBVIOUS
    <3>1. k \in 1..Len(l)
      BY <1>0
    <3>. QED
      BY <3>1, ExpectedItem
  <2>. QED
    BY <2>1 DEF ExpectedPrefix
<1>2. ExpectedPrefix(l, n) \in Seq(ItemType) /\ Len(ExpectedPrefix(l, n)) = n
  BY <1>1, SeqDef, LenProperties
<1>3. ASSUME n < Len(l)
      PROVE  Append(ExpectedPrefix(l, n), Expected(l)[n + 1]) = ExpectedPrefix(l, n + 1)
  <2>0. n + 1 \in 1..Len(l)
    BY <1>0, <1>3
  <2>1. Expected(l)[n + 1] \in ItemType
    BY <2>0, ExpectedItem
  <2>. QED
    BY <1>2, <2>1, AppendProperties DEF ExpectedPrefix
<1>. QED
  BY <1>2, <1>3

\* TypeOK's slice types are the ones named here.
LEMMA TypeOKShape ==
  TypeOK <=> /\ list \in BoundedSeq(AccessTuple, MaxItems)
             /\ pc \in {"Idle", "Outer", "Inner", "Done"}
             /\ i \in 0..MaxItems /\ j \in 0..MaxKeys
             /\ converted \in Seq(ItemType)
             /\ slots \in Seq(SlotType)
BY DEF TypeOK, ItemType, SlotType

\* TypeOK after a step, from the type of each variable after it.
LEMMA TypeOKPrimed ==
  ASSUME list' \in BoundedSeq(AccessTuple, MaxItems),
         pc' \in {"Idle", "Outer", "Inner", "Done"},
         i' \in 0..MaxItems, j' \in 0..MaxKeys,
         converted' \in Seq(ItemType), slots' \in Seq(SlotType)
  PROVE  TypeOK'
BY DEF TypeOK, ItemType, SlotType

-----------------------------------------------------------------------------
(* ALInv holds initially and every step keeps it.                         *)

LEMMA InitALInv == Init => ALInv
<1> SUFFICES ASSUME Init PROVE ALInv
  OBVIOUS
<1>1. <<>> \in BoundedSeq(AccessTuple, MaxItems)
  <2>1. <<>> \in [1..0 -> AccessTuple]
    OBVIOUS
  <2>. QED
    BY <2>1, AccessListAssumption DEF BoundedSeq, SeqOf
<1>2. <<>> \in Seq(ItemType) /\ <<>> \in Seq(SlotType)
  BY EmptySeq
<1>3. ExpectedPrefix(<<>>, 0) = <<>>
  BY DEF ExpectedPrefix
<1>. QED
  BY <1>1, <1>2, <1>3, AccessListAssumption, TypeOKShape DEF Init, ALInv

LEMMA ConvertALInv ==
  ASSUME ALInv, NEW l \in BoundedSeq(AccessTuple, MaxItems), Convert(l)
  PROVE  ALInv'
<1>1. ExpectedPrefix(l, 0) = <<>>
  BY DEF ExpectedPrefix
<1>2. <<>> \in Seq(ItemType) /\ <<>> \in Seq(SlotType)
  BY EmptySeq
<1>3. Len(l) \in Nat
  BY BoundedSeqFacts, AccessListAssumption, LenProperties
<1>4. TypeOK'
  BY <1>2, AccessListAssumption DEF Convert, TypeOK, ItemType, SlotType
<1>. QED
  BY <1>1, <1>3, <1>4 DEF Convert, ALInv

LEMMA OuterALInv ==
  ASSUME ALInv, Outer
  PROVE  ALInv'
<1>0. list \in BoundedSeq(AccessTuple, MaxItems) /\ i \in 0..MaxItems /\ j \in 0..MaxKeys
      /\ converted \in Seq(ItemType) /\ slots \in Seq(SlotType)
  BY TypeOKShape DEF ALInv
<1>1. Len(list) \in Nat /\ Len(list) <= MaxItems
  BY <1>0, BoundedSeqFacts, AccessListAssumption, LenProperties
<1>2. CASE i < Len(list)
  <2>1. Len(list[i + 1].storage_keys) \in Nat
    BY <1>0, <1>1, <1>2, TupleFacts, LenProperties
  <2>2. KeySlots(list[i + 1], 0) = <<>> /\ <<>> \in Seq(SlotType)
    BY EmptySeq DEF KeySlots
  <2>3. pc' = "Inner" /\ j' = 0 /\ slots' = <<>> /\ UNCHANGED <<list, i, converted>>
    BY <1>2 DEF Outer
  <2>4. TypeOK'
    BY <1>0, <2>2, <2>3, AccessListAssumption DEF TypeOK, ItemType, SlotType
  <2>. QED
    BY <1>2, <2>1, <2>2, <2>3, <2>4 DEF ALInv
<1>3. CASE ~(i < Len(list))
  <2>1. pc' = "Done" /\ UNCHANGED <<list, i, j, converted, slots>>
    BY <1>3 DEF Outer
  <2>2. i = Len(list)
    BY <1>0, <1>1, <1>3 DEF ALInv
  <2>3. TypeOK'
    BY <1>0, <2>1 DEF TypeOK, ItemType, SlotType
  <2>. QED
    BY <2>1, <2>2, <2>3 DEF ALInv
<1>. QED
  BY <1>2, <1>3

LEMMA InnerALInv ==
  ASSUME ALInv, Inner
  PROVE  ALInv'
<1> DEFINE item == list[i + 1]
           keys == item.storage_keys
<1>0. list \in BoundedSeq(AccessTuple, MaxItems) /\ i \in 0..MaxItems /\ j \in 0..MaxKeys
      /\ converted \in Seq(ItemType) /\ slots \in Seq(SlotType)
  BY TypeOKShape DEF ALInv
<1>1. Len(list) \in Nat /\ Len(list) <= MaxItems /\ pc = "Inner"
  BY <1>0, BoundedSeqFacts, AccessListAssumption, LenProperties DEF Inner
<1>2. i < Len(list) /\ j <= Len(keys) /\ slots = KeySlots(item, j)
      /\ converted = ExpectedPrefix(list, i)
  BY <1>1 DEF ALInv
<1>3. item \in AccessTuple /\ keys \in Seq(Hashes) /\ Len(keys) <= MaxKeys
      /\ Len(keys) \in Nat /\ item.address \in Addrs
  BY <1>0, <1>1, <1>2, TupleFacts, LenProperties
<1>4. CASE j < Len(keys)
  <2>1. slots' = KeySlots(item, j + 1) /\ j' = j + 1 /\ UNCHANGED <<pc, i, converted, list>>
    <3>1. slots' = Append(slots, HashBytes(keys[j + 1])) /\ j' = j + 1
          /\ UNCHANGED <<pc, i, converted, list>>
      BY <1>4 DEF Inner
    <3>2. Append(KeySlots(item, j), HashBytes(keys[j + 1])) = KeySlots(item, j + 1)
      BY <1>0, <1>3, <1>4, KeySlotsAppend
    <3>. QED
      BY <1>2, <3>1, <3>2
  <2>2. KeySlots(item, j + 1) \in Seq(SlotType)
    BY <1>0, <1>3, <1>4, KeySlotsType
  <2>3. list' = list /\ i' = i /\ pc' = "Inner" /\ converted' = converted
    BY <1>1, <2>1
  <2>4. j' \in 0..MaxKeys /\ j' <= Len(keys)
    BY <1>0, <1>3, <1>4, <2>1, AccessListAssumption
  <2>5. TypeOK'
    BY <1>0, <2>1, <2>2, <2>3, <2>4, TypeOKPrimed
  <2>. QED
    BY <1>2, <2>1, <2>3, <2>4, <2>5 DEF ALInv
<1>5. CASE ~(j < Len(keys))
  <2>1. j = Len(keys)
    BY <1>0, <1>2, <1>3, <1>5
  <2>2. [storage_slot |-> slots, address |-> AddressBytes(item.address)] = Expected(list)[i + 1]
    BY <1>0, <1>1, <1>2, <2>1, ExpectedItem
  <2>3. converted' = Append(converted, Expected(list)[i + 1])
        /\ i' = i + 1 /\ pc' = "Outer" /\ UNCHANGED <<j, slots, list>>
    BY <1>5, <2>2 DEF Inner
  <2>4. converted' = ExpectedPrefix(list, i + 1) /\ converted' \in Seq(ItemType)
    <3>1. i \in 0..Len(list) /\ i + 1 \in 0..Len(list)
      BY <1>0, <1>1, <1>2
    <3>. QED
      BY <1>0, <1>2, <2>3, <3>1, PrefixFacts
  <2>5. list' = list /\ j' = j /\ slots' = slots /\ i' \in 0..MaxItems /\ i' <= Len(list)
    BY <1>0, <1>1, <1>2, <2>3, AccessListAssumption
  <2>6. TypeOK'
    BY <1>0, <2>3, <2>4, <2>5, TypeOKPrimed
  <2>. QED
    BY <2>3, <2>4, <2>5, <2>6 DEF ALInv
<1>. QED
  BY <1>4, <1>5

LEMMA NextALInv == ALInv /\ [Next]_vars => ALInv'
<1> SUFFICES ASSUME ALInv, [Next]_vars PROVE ALInv'
  OBVIOUS
<1>1. CASE UNCHANGED vars
  BY <1>1 DEF vars, ALInv, TypeOK, ExpectedPrefix, KeySlots
<1>. QED
  BY <1>1, ConvertALInv, OuterALInv, InnerALInv DEF Next

\* The loop invariant holds in every state of every conversion.
THEOREM ALInvariant == Spec => []ALInv
BY InitALInv, NextALInv, PTL DEF Spec

\* The request always carries the caller's access list: on return every
\* tuple is there once, in order, with its own address and exactly its own
\* keys, for every size of list and tuple.
THEOREM ConvertedMatchesListHolds == Spec => []ConvertedMatchesList
<1>1. ALInv => ConvertedMatchesList
  <2> SUFFICES ASSUME ALInv, pc = "Done" PROVE converted = Expected(list)
    BY DEF ConvertedMatchesList
  <2>1. list \in BoundedSeq(AccessTuple, MaxItems) /\ i = Len(list)
        /\ converted = ExpectedPrefix(list, i)
    BY TypeOKShape DEF ALInv
  <2>2. Len(list) \in Nat
    BY <2>1, BoundedSeqFacts, AccessListAssumption, LenProperties
  <2>. QED
    BY <2>1, <2>2 DEF ExpectedPrefix, Expected
<1>. QED
  BY <1>1, ALInvariant, PTL

\* Every state of the conversion is well typed: the items hold byte slices
\* of the addresses' and hashes' widths.
THEOREM AccessListTypeCorrect == Spec => []TypeOK
BY ALInvariant, PTL DEF ALInv

=============================================================================
