------------------------------ MODULE MCBridge ------------------------------
(* Small instance of Bridge for TLC.                                        *)
EXTENDS Bridge

MCThreads == {"t1", "t2"}

MCOneThread == {"t1"}

\* Set costs more than the other KV operations, so that a Set can run out of
\* gas while a Get would still fit.
MCCost == [k \in CbKinds |-> CASE k = "Set" -> 2 [] k = "Query" -> 2 [] OTHER -> 1]

MCReq(op, v) ==
  [op |-> op, addr |-> "a1", idx |-> 1, balance |-> 0, nonce |-> 0,
   code |-> "none", val |-> v]

MCRequests ==
  {MCReq("InsertStorageCell", "s1"), MCReq("RemoveStorageCell", "s1"),
   MCReq("InsertAccount", "s1"), MCReq("Remove", "s1"), MCReq("Garbage", "s1")}

\* One querier request: the ownership run is about the vectors, not the
\* database.
MCOwnershipRequests == {MCReq("InsertStorageCell", "s1")}

=============================================================================
