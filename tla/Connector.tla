----------------------------- MODULE Connector -----------------------------
(***************************************************************************)
(* The host-side query dispatcher the engine reaches through the external *)
(* querier callback: MockedConnector.Query of cmd/demo/connector.go.      *)
(* A request is decoded, dispatched on its kind to one MockedDB operation *)
(* and the answer is encoded.  Encodings are abstracted: a request is a   *)
(* record whose "op" names the protobuf variant (or "Garbage" for bytes   *)
(* that do not decode), a response is a record of the fields it carries. *)
(*                                                                         *)
(* MockedDB itself is not part of the sources; its operations are given   *)
(* the meaning their names and the callers' use imply: an in-memory map   *)
(* of accounts (balance, nonce, code) and of storage cells, each of which *)
(* may report an error (DbMayFail).                                        *)
(***************************************************************************)
EXTENDS Naturals

CONSTANTS
  Addrs,      \* account addresses (ethcommon.Address)
  Amounts,    \* balances and nonces
  Codes,      \* contract codes, EmptyCode among them
  EmptyCode,  \* the code of an account that has none
  CellIdx,    \* storage cell indices
  CellVals,   \* storage cell values, ZeroCell among them
  ZeroCell,   \* make([]byte, 32): the value RemoveStorageCell writes
  NoAccount   \* marks an address with no account

ASSUME ConnectorAssumption ==
  /\ EmptyCode \in Codes
  /\ ZeroCell \in CellVals
  /\ 0 \in Amounts
  /\ NoAccount \notin [balance : Amounts, nonce : Amounts, code : Codes]

\* The request variants of ffi.CosmosRequest handled by Query, plus bytes
\* that fail to decode and a decoded variant Query has no case for.
QueryOps == {"BlockHash", "GetAccount", "InsertAccount", "ContainsKey",
             "AccountCode", "StorageCell", "InsertAccountCode",
             "InsertStorageCell", "Remove", "RemoveStorageCell",
             "Garbage", "Unknown"}

\* The variants whose case calls the database (all but BlockHash).
DbOps == {"GetAccount", "InsertAccount", "ContainsKey", "AccountCode",
          "StorageCell", "InsertAccountCode", "InsertStorageCell",
          "Remove", "RemoveStorageCell"}

Account == [balance : Amounts, nonce : Amounts, code : Codes]

EmptyAccount == [balance |-> 0, nonce |-> 0, code |-> EmptyCode]

DB == [acct : [Addrs -> Account \cup {NoAccount}],
       cell : [Addrs \X CellIdx -> CellVals]]

Request == [op : QueryOps, addr : Addrs, idx : CellIdx, balance : Amounts,
            nonce : Amounts, code : Codes, val : CellVals]

EmptyDB == [acct |-> [a \in Addrs |-> NoAccount],
            cell |-> [c \in Addrs \X CellIdx |-> ZeroCell]]

\* The outcome of one call of Query: the database after it, whether it
\* returned an error, and the (abstract) response it encoded.
Outcome(db, ok, resp) == [db |-> db, ok |-> ok, resp |-> resp]

Failed(db) == Outcome(db, FALSE, "error")

-----------------------------------------------------------------------------
(* MockedConnector.Query(request): decode, dispatch on the variant, call   *)
(* the database and encode the answer.  The MockedDB calls are written out *)
(* in place: GetAccountOrEmpty (acct), Contains, GetStorageCell,           *)
(* InsertAccount, InsertContractCode, InsertStorageCell and Delete.      *)
(* dbFails is the database reporting an error from the operation the      *)
(* variant calls; every case returns it as (nil, err) and leaves the      *)
(* database as it was.  Bytes that do not decode ("Garbage") and a       *)
(* variant with no case ("Unknown") fall to the OTHER arm: an error.      *)
Query(db, r, dbFails) ==
  LET acct == IF db.acct[r.addr] = NoAccount THEN EmptyAccount ELSE db.acct[r.addr]
      cell == <<r.addr, r.idx>>
  IN
  IF r.op \in DbOps /\ dbFails THEN Failed(db)
  ELSE
  CASE r.op = "BlockHash" -> Outcome(db, TRUE, [hash |-> "zero"])
    [] r.op = "GetAccount" ->
         Outcome(db, TRUE, [balance |-> acct.balance, nonce |-> acct.nonce])
    [] r.op = "InsertAccount" ->
         Outcome([db EXCEPT !.acct[r.addr] = [acct EXCEPT !.balance = r.balance,
                                                           !.nonce = r.nonce]],
                 TRUE, [ack |-> r.op])
    [] r.op = "ContainsKey" ->
         Outcome(db, TRUE, [contains |-> db.acct[r.addr] # NoAccount])
    [] r.op = "AccountCode" ->
         Outcome(db, TRUE, [code |-> acct.code])
    [] r.op = "StorageCell" ->
         Outcome(db, TRUE, [value |-> db.cell[cell]])
    [] r.op = "InsertAccountCode" ->
         Outcome([db EXCEPT !.acct[r.addr] = [acct EXCEPT !.code = r.code]],
                 TRUE, [ack |-> r.op])
    [] r.op = "InsertStorageCell" ->
         Outcome([db EXCEPT !.cell[cell] = r.val], TRUE, [ack |-> r.op])
    [] r.op = "Remove" ->
         Outcome([db EXCEPT !.acct[r.addr] = NoAccount], TRUE, [ack |-> r.op])
    [] r.op = "RemoveStorageCell" ->
         Outcome([db EXCEPT !.cell[cell] = ZeroCell], TRUE, [ack |-> r.op])
    [] OTHER -> Failed(db)

=============================================================================
