---------------------------- MODULE AccessList -----------------------------
(***************************************************************************)
(* convertAccessList and convertAccessListStorageSlots of                 *)
(* internal/api/lib.go: Call and Create turn the caller's EIP-2930 access  *)
(* list (ethtypes.AccessList, a list of address / storage-keys tuples)     *)
(* into the protobuf AccessListItem list of the request.  The outer loop  *)
(* appends one item per tuple; for each it runs the inner loop, which     *)
(* appends the bytes of every storage key to a fresh slice.                *)
(*                                                                         *)
(* Addresses and hashes are model values; Bytes() is modelled by what it   *)
(* returns, a byte slice of the value's width holding the value.  The two *)
(* loops are steps of their own, one append per step.                      *)
(***************************************************************************)
EXTENDS Naturals, Sequences, SequencesExt

CONSTANTS
  Addrs,      \* ethcommon.Address values
  Hashes,     \* ethcommon.Hash values (storage keys)
  MaxItems,   \* bound: tuples in an access list
  MaxKeys     \* bound: storage keys in one tuple

ASSUME AccessListAssumption == MaxItems \in Nat /\ MaxKeys \in Nat

VARIABLES
  list,       \* the access list being converted
  pc,         \* "Idle", "Outer" (at the range over the list), "Inner"
              \* (in convertAccessListStorageSlots), "Done"
  i,          \* tuples of list already converted
  j,          \* storage keys of tuple i + 1 already converted
  converted,  \* the []*ffi.AccessListItem built so far
  slots       \* the [][]byte the inner loop is building

vars == <<list, pc, i, j, converted, slots>>

\* types.AccessTuple: an address and its storage keys.
AccessTuple == [address : Addrs, storage_keys : BoundedSeq(Hashes, MaxKeys)]

\* Mutant: item.Address.Hash().Bytes(), the address left-padded to 32 bytes.
AddressHashBytes(a) == [width |-> 32, of |-> a]

\* Address.Bytes() and Hash.Bytes(): the 20 and 32 bytes of the value.
AddressBytes(a) == [width |-> 20, of |-> a]

HashBytes(h) == [width |-> 32, of |-> h]

-----------------------------------------------------------------------------
Init ==
  /\ list = <<>>
  /\ pc = "Idle"
  /\ i = 0 /\ j = 0
  /\ converted = <<>>
  /\ slots = <<>>

(* Call or Create converts a new access list: converted starts as a nil   *)
(* slice.                                                                  *)
Convert(l) ==
  /\ pc \in {"Idle", "Done"}
  /\ list' = l
  /\ pc' = "Outer"
  /\ i' = 0 /\ j' = 0
  /\ converted' = <<>>
  /\ slots' = <<>>

\* Mutant: the slot slice is not started afresh for the next tuple.
OuterKeepSlots ==
  /\ pc = "Outer"
  /\ IF i < Len(list)
       THEN pc' = "Inner" /\ j' = 0
       ELSE pc' = "Done" /\ UNCHANGED j
  /\ UNCHANGED <<list, i, converted, slots>>

(* The range over the access list: the next tuple's storage keys go to    *)
(* convertAccessListStorageSlots, whose converted slice starts nil; after *)
(* the last tuple the converted list is returned.                          *)
Outer ==
  /\ pc = "Outer"
  /\ IF i < Len(list)
       THEN pc' = "Inner" /\ j' = 0 /\ slots' = <<>>
       ELSE pc' = "Done" /\ UNCHANGED <<j, slots>>
  /\ UNCHANGED <<list, i, converted>>

(* The range over the tuple's storage keys appends each key's bytes; when  *)
(* the keys are done the AccessListItem of the slots and the address      *)
(* bytes is appended to the converted list.                                *)
Inner ==
  LET item == list[i + 1]
  IN  /\ pc = "Inner"
      /\ IF j < Len(item.storage_keys)
           THEN /\ slots' = Append(slots, HashBytes(item.storage_keys[j + 1]))
                /\ j' = j + 1
                /\ UNCHANGED <<pc, i, converted>>
           ELSE /\ converted' = Append(converted, [storage_slot |-> slots,
                                                   address |-> AddressBytes(item.address)])
                /\ i' = i + 1
                /\ pc' = "Outer"
                /\ UNCHANGED <<j, slots>>
      /\ UNCHANGED list

Next ==
  \/ \E l \in BoundedSeq(AccessTuple, MaxItems) : Convert(l)
  \/ Outer
  \/ Inner

Spec == Init /\ [][Next]_vars

-----------------------------------------------------------------------------
(* The reference: the access list the engine is meant to see, tuple by     *)
(* tuple in the caller's order, each with its own keys in their order.    *)
Expected(l) ==
  [k \in 1..Len(l) |->
     [storage_slot |-> [n \in 1..Len(l[k].storage_keys) |-> HashBytes(l[k].storage_keys[n])],
      address |-> AddressBytes(l[k].address)]]

TypeOK ==
  /\ list \in BoundedSeq(AccessTuple, MaxItems)
  /\ pc \in {"Idle", "Outer", "Inner", "Done"}
  /\ i \in 0..MaxItems /\ j \in 0..MaxKeys
  /\ converted \in Seq([storage_slot : Seq([width : {32}, of : Hashes]),
                        address : [width : {20}, of : Addrs]])
  /\ slots \in Seq([width : {32}, of : Hashes])

(* The request carries the caller's access list unchanged: when the       *)
(* conversion returns, every tuple is there once, in order, with its own  *)
(* address and exactly its own storage keys, none carried over from the   *)
(* tuple before.                                                           *)
ConvertedMatchesList == pc = "Done" => converted = Expected(list)

=============================================================================
