---------------------------- MODULE BridgeProofs ----------------------------
(***************************************************************************)
(* Proofs about module Bridge, for every value of its constants that       *)
(* satisfies ConnectorAssumption and BridgeAssumption.                     *)
(***************************************************************************)
EXTENDS Bridge, TLAPS


\* Every call that has entered the engine and not yet returned to Go holds
\* an id that has been handed out.
CidsIssued ==
  \A t \in Threads : pc[t] # "Idle" => cid[t] \in 1..(nextCid - 1)

\* Every thread's meter is within its limit and the engine's sum of the
\* used_gas reports equals it; EnterEngine resets both together.
GasInv ==
  \A t \in Threads : engGas[t] = meter[t].used /\ meter[t].used <= meter[t].limit

TypeInv == TypeOK /\ CidsIssued /\ GasInv

-----------------------------------------------------------------------------
(* Query keeps the database well typed, whatever the request.              *)
LEMMA QueryType ==
  ASSUME NEW d \in DB, NEW r \in Request, NEW f \in BOOLEAN
  PROVE  Query(d, r, f).db \in DB
<1> DEFINE acct == IF d.acct[r.addr] = NoAccount THEN EmptyAccount ELSE d.acct[r.addr]
           cell == <<r.addr, r.idx>>
           Writes == {"InsertAccount", "InsertAccountCode", "InsertStorageCell",
                      "Remove", "RemoveStorageCell"}
<1>1. acct \in Account /\ cell \in Addrs \X CellIdx
  BY ConnectorAssumption DEF DB, Request, Account, EmptyAccount
<1>2. CASE r.op \notin Writes \/ f
  <2> SUFFICES Query(d, r, f).db = d
    OBVIOUS
  <2>1. CASE r.op \in DbOps /\ f
    BY <2>1 DEF Query, Failed, Outcome
  <2>2. CASE r.op \in {"Garbage", "Unknown"}
    BY <2>2, Zenon DEF Query, Failed, Outcome, DbOps
  <2>3. CASE r.op = "BlockHash"
    BY <2>3, Zenon DEF Query, Outcome, DbOps
  <2>4. CASE r.op = "GetAccount" /\ ~f
    BY <2>4, Zenon DEF Query, Outcome
  <2>5. CASE r.op = "ContainsKey" /\ ~f
    BY <2>5, Zenon DEF Query, Outcome
  <2>6. CASE r.op = "AccountCode" /\ ~f
    BY <2>6, Zenon DEF Query, Outcome
  <2>7. CASE r.op = "StorageCell" /\ ~f
    BY <2>7, Zenon DEF Query, Outcome
  <2>. QED
    BY <1>2, <2>1, <2>2, <2>3, <2>4, <2>5, <2>6, <2>7 DEF Request, QueryOps, Writes, DbOps
<1>3. CASE r.op = "InsertAccount" /\ ~f
  <2>1. Query(d, r, f).db = [d EXCEPT !.acct[r.addr] = [acct EXCEPT !.balance = r.balance,
                                                                   !.nonce = r.nonce]]
    BY <1>3, Zenon DEF Query, Outcome
  <2>2. [acct EXCEPT !.balance = r.balance, !.nonce = r.nonce] \in Account
    BY <1>1 DEF Request, Account
  <2>. QED
    BY <2>1, <2>2 DEF DB, Request
<1>4. CASE r.op = "InsertAccountCode" /\ ~f
  <2>1. Query(d, r, f).db = [d EXCEPT !.acct[r.addr] = [acct EXCEPT !.code = r.code]]
    BY <1>4, Zenon DEF Query, Outcome
  <2>. QED
    BY <1>1, <2>1 DEF DB, Request, Account
<1>5. CASE r.op = "InsertStorageCell" /\ ~f
  <2>1. Query(d, r, f).db = [d EXCEPT !.cell[cell] = r.val]
    BY <1>5, Zenon DEF Query, Outcome
  <2>2. d.cell \in [Addrs \X CellIdx -> CellVals] /\ r.val \in CellVals
    BY DEF DB, Request
  <2>3. [d.cell EXCEPT ![cell] = r.val] \in [Addrs \X CellIdx -> CellVals]
    BY <1>1, <2>2
  <2>. QED
    BY <2>1, <2>3 DEF DB
<1>6. CASE r.op = "Remove" /\ ~f
  <2>1. Query(d, r, f).db = [d EXCEPT !.acct[r.addr] = NoAccount]
    BY <1>6, Zenon DEF Query, Outcome
  <2>. QED
    BY <2>1 DEF DB, Request
<1>7. CASE r.op = "RemoveStorageCell" /\ ~f
  <2>1. Query(d, r, f).db = [d EXCEPT !.cell[cell] = ZeroCell]
    BY <1>7, Zenon DEF Query, Outcome
  <2>2. ZeroCell \in CellVals
    BY ConnectorAssumption
  <2>3. [d.cell EXCEPT ![cell] = ZeroCell] \in [Addrs \X CellIdx -> CellVals]
    BY <1>1, <2>2 DEF DB
  <2>4. [d EXCEPT !.cell[cell] = ZeroCell] = [d EXCEPT !.cell = [d.cell EXCEPT ![cell] = ZeroCell]]
    OBVIOUS
  <2>. QED
    BY <2>1, <2>3, <2>4 DEF DB
<1>. QED
  BY <1>2, <1>3, <1>4, <1>5, <1>6, <1>7 DEF Writes

-----------------------------------------------------------------------------
EventRec == [thread : Threads, op : Ops, res : CallResults]

\* The meter update of a charge, written out as a record.
LEMMA MeterExcept ==
  ASSUME NEW m \in Meter, NEW u \in Nat
  PROVE  [m EXCEPT !.used = u] = [limit |-> m.limit, used |-> u]
<1>1. m = [limit |-> m.limit, used |-> m.used]
  BY DEF Meter
<1>. QED
  BY <1>1

LEMMA ChargeType ==
  ASSUME meter \in [Threads -> Meter], engGas \in [Threads -> Nat],
         NEW t \in Threads, NEW c \in Nat, Charge(t, c)
  PROVE  meter' \in [Threads -> Meter] /\ engGas' \in [Threads -> Nat]
<1>1. meter[t].used + c \in Nat
  BY DEF Meter
<1>2. [meter[t] EXCEPT !.used = meter[t].used + c] \in Meter
  BY <1>1 DEF Meter
<1>. QED
  BY <1>2 DEF Charge

LEMMA OutOfGasType ==
  ASSUME meter \in [Threads -> Meter], engGas \in [Threads -> Nat],
         NEW t \in Threads, RunOutOfGas(t)
  PROVE  meter' \in [Threads -> Meter] /\ engGas' \in [Threads -> Nat]
BY DEF RunOutOfGas

LEMMA RecordType ==
  ASSUME NEW t \in Threads, NEW op \in Ops, NEW res \in CallResults,
         Record(t, op, res)
  PROVE  event' \in EventRec
BY DEF Record, EventRec

LEMMA CostType == \A k \in CbKinds : Cost[k] \in Nat
BY BridgeAssumption

\* The gas steps every callback ends with keep meter, engGas and event typed.
LEMMA GasStepType ==
  ASSUME TypeOK, NEW t \in Threads, NEW op \in CbKinds, NEW res \in CallResults,
         \/ Charge(t, Cost[op]) /\ Record(t, op, res)
         \/ RunOutOfGas(t) /\ Record(t, op, "OutOfGas")
  PROVE  meter' \in [Threads -> Meter] /\ engGas' \in [Threads -> Nat]
         /\ event' \in EventRec
<1>1. op \in Ops /\ Cost[op] \in Nat /\ "OutOfGas" \in CallResults
  BY CostType DEF Ops, CallResults
<1>. QED
  BY <1>1, ChargeType, OutOfGasType, RecordType DEF TypeOK

LEMMA InitTypeInv == Init => TypeInv
<1> SUFFICES ASSUME Init PROVE TypeInv
  OBVIOUS
<1>1. MaxCalls \in Nat /\ None \notin BufIds /\ Threads # {}
  BY BridgeAssumption
<1>2. db \in DB
  <2>1. ZeroCell \in CellVals
    BY ConnectorAssumption
  <2>. QED
    BY <2>1 DEF Init, EmptyDB, DB
<1>3. event \in [thread : Threads, op : Ops, res : CallResults]
  BY <1>1 DEF Init, Ops, CallResults
<1>4. meter \in [Threads -> Meter]
  BY DEF Init, Meter
<1>5. frames \in [CallIds -> Seq(Iterator)]
  BY DEF Init
<1>6. GasInv
  BY DEF Init, GasInv
<1>. QED
  BY <1>1, <1>2, <1>3, <1>4, <1>5, <1>6 DEF Init, TypeInv, TypeOK, CidsIssued, BufIds

\* The variables a callback leaves alone, for the type proof.
Frozen == <<pc, ep, cid, nextCid, failed, buf, rel, errSlot, resSlot>>

LEMMA FrozenType ==
  ASSUME TypeInv, UNCHANGED Frozen,
         meter' \in [Threads -> Meter], engGas' \in [Threads -> Nat],
         event' \in EventRec, kv' \in [Keys -> KVVals \cup {NoVal}], db' \in DB,
         frames' \in [CallIds -> Seq(Iterator)], held' \subseteq Handles, GasInv'
  PROVE  TypeInv'
BY DEF TypeInv, TypeOK, CidsIssued, Frozen, EventRec

\* A callback that charges c when CanCharge allows it and otherwise runs
\* out of gas keeps the meter within its limit and the engine's sum equal.
LEMMA GasStepInv ==
  ASSUME TypeOK, GasInv, NEW t \in Threads, NEW c \in Nat,
         \/ CanCharge(t, c) /\ Charge(t, c)
         \/ RunOutOfGas(t)
  PROVE  GasInv'
<1> SUFFICES ASSUME NEW s \in Threads
             PROVE  engGas'[s] = meter'[s].used /\ meter'[s].used <= meter'[s].limit
  BY DEF GasInv
<1>1. meter \in [Threads -> Meter] /\ engGas \in [Threads -> Nat]
      /\ engGas[t] = meter[t].used /\ meter[t].used <= meter[t].limit
      /\ engGas[s] = meter[s].used /\ meter[s].used <= meter[s].limit
  BY DEF TypeOK, GasInv
<1>2. CASE CanCharge(t, c) /\ Charge(t, c)
  <2>1. meter[t].used + c \in Nat /\ meter[t].used + c <= meter[t].limit
    BY <1>1, <1>2 DEF CanCharge, Meter
  <2>2. meter' = [meter EXCEPT ![t] = [limit |-> meter[t].limit, used |-> meter[t].used + c]]
    <3>1. meter' = [meter EXCEPT ![t] = [meter[t] EXCEPT !.used = meter[t].used + c]]
      BY <1>2 DEF Charge
    <3>2. [meter[t] EXCEPT !.used = meter[t].used + c]
            = [limit |-> meter[t].limit, used |-> meter[t].used + c]
      BY <1>1, <2>1, MeterExcept
    <3>. QED
      BY <3>1, <3>2
  <2>3. engGas' = [engGas EXCEPT ![t] = engGas[t] + c]
    BY <1>2 DEF Charge
  <2>4. CASE s = t
    <3>1. meter'[s].used = meter[t].used + c /\ meter'[s].limit = meter[t].limit
      BY <2>2, <2>4, <1>1
    <3>2. engGas'[s] = engGas[t] + c
      BY <2>3, <2>4, <1>1
    <3>. QED
      BY <1>1, <2>1, <3>1, <3>2
  <2>5. CASE s # t
    BY <1>1, <2>2, <2>3, <2>5
  <2>. QED
    BY <2>4, <2>5
<1>3. CASE RunOutOfGas(t)
  BY <1>1, <1>3 DEF RunOutOfGas
<1>. QED
  BY <1>2, <1>3

\* A thread inside the engine or just back from it runs an issued call id.
LEMMA ActiveCid ==
  ASSUME TypeInv, NEW t \in Threads, pc[t] # "Idle"
  PROVE  cid[t] \in CallIds
BY DEF TypeInv, TypeOK, CidsIssued, CallIds

LEMMA EnterEngineTypeInv ==
  ASSUME TypeInv, NEW t \in Threads, NEW e, NEW lim \in Nat, EnterEngine(t, e, lim)
  PROVE  TypeInv'
<1>0. MaxCalls \in Nat /\ EntryPoints \subseteq {"Call", "Create"} \cup SetupFns
  BY BridgeAssumption DEF SetupFns
<1>1. event' \in EventRec
  <2>1. e \in Ops /\ "Success" \in CallResults
    BY DEF EnterEngine, Ops, CallResults
  <2>. QED
    BY <2>1, RecordType DEF EnterEngine
<1>2. meter' \in [Threads -> Meter] /\ engGas' \in [Threads -> Nat]
  BY DEF EnterEngine, StartMeter, TypeInv, TypeOK, Meter
<1>3. pc' \in [Threads -> {"Idle", "Engine", "Returned"}]
      /\ ep' \in [Threads -> {"Call", "Create"} \cup SetupFns]
      /\ failed' \in [Threads -> BOOLEAN]
  BY <1>0 DEF EnterEngine, TypeInv, TypeOK
<1>4. cid' \in [Threads -> 0..MaxCalls] /\ nextCid' \in 1..(MaxCalls + 1)
  BY <1>0 DEF EnterEngine, TypeInv, TypeOK
<1>5. errSlot' \in [Threads -> BufIds \cup {None}]
      /\ resSlot' \in [Threads -> BufIds \cup {None}]
  BY DEF EnterEngine, TypeInv, TypeOK
<1>6. CidsIssued'
  BY <1>0 DEF EnterEngine, TypeInv, TypeOK, CidsIssued
<1>7. UNCHANGED <<kv, db, frames, held, buf, rel>>
  BY DEF EnterEngine
<1>8. GasInv'
  BY DEF EnterEngine, StartMeter, TypeInv, TypeOK, GasInv
<1>. QED
  BY <1>1, <1>2, <1>3, <1>4, <1>5, <1>6, <1>7, <1>8 DEF TypeInv, TypeOK, EventRec

LEMMA DoScanTypeInv ==
  ASSUME TypeInv, NEW t \in Threads, NEW lo \in Keys, NEW hi \in Keys,
         NEW ord \in {"Asc", "Desc"}, DoScan(t, lo, hi, ord)
  PROVE  TypeInv'
<1>0. TypeOK /\ Keys \subseteq Nat /\ MaxIters \in Nat
  BY BridgeAssumption DEF TypeInv
<1>1. meter' \in [Threads -> Meter] /\ engGas' \in [Threads -> Nat] /\ event' \in EventRec
  BY <1>0, GasStepType DEF DoScan, CbKinds, CallResults
<1>2. cid[t] \in CallIds
  BY ActiveCid DEF DoScan, InCallback
<1>3. frames' \in [CallIds -> Seq(Iterator)] /\ held' \subseteq Handles
  <2>1. CASE CanCharge(t, Cost["Scan"])
    <3>1. [lo |-> lo, hi |-> hi, order |-> ord, pos |-> None] \in Iterator
      BY <1>0 DEF Iterator
    <3>2. frames[cid[t]] \in Seq(Iterator) /\ Len(frames[cid[t]]) < MaxIters
      BY <1>0, <1>2 DEF DoScan, TypeOK
    <3>3. frames' = [frames EXCEPT ![cid[t]] = Append(frames[cid[t]],
                       [lo |-> lo, hi |-> hi, order |-> ord, pos |-> None])]
          /\ held' = held \cup {<<cid[t], Len(frames[cid[t]]) + 1>>}
      BY <2>1 DEF DoScan
    <3>4. <<cid[t], Len(frames[cid[t]]) + 1>> \in Handles
      BY <1>0, <1>2, <3>2 DEF Handles
    <3>5. Append(frames[cid[t]], [lo |-> lo, hi |-> hi, order |-> ord, pos |-> None])
            \in Seq(Iterator)
      BY <3>1, <3>2
    <3>6. frames \in [CallIds -> Seq(Iterator)] /\ held \subseteq Handles
      BY <1>0 DEF TypeOK
    <3>. QED
      BY <1>2, <3>3, <3>4, <3>5, <3>6
  <2>2. CASE ~CanCharge(t, Cost["Scan"])
    BY <1>0, <2>2 DEF DoScan, TypeOK
  <2>. QED
    BY <2>1, <2>2
<1>4. GasInv'
  BY <1>0, GasStepInv, CostType DEF DoScan, CbKinds, TypeInv
<1>. QED
  BY <1>1, <1>3, <1>4, FrozenType DEF DoScan, Frozen, TypeInv, TypeOK

LEMMA DoNextTypeInv ==
  ASSUME TypeInv, NEW t \in Threads, NEW h \in held, DoNext(t, h)
  PROVE  TypeInv'
<1>0. TypeOK /\ Keys \subseteq Nat
  BY BridgeAssumption DEF TypeInv
<1>1. meter' \in [Threads -> Meter] /\ engGas' \in [Threads -> Nat] /\ event' \in EventRec
  BY <1>0, GasStepType DEF DoNext, CbKinds, CallResults
<1>2. h \in Handles /\ frames \in [CallIds -> Seq(Iterator)]
  BY <1>0 DEF TypeOK
<1>3. frames' \in [CallIds -> Seq(Iterator)]
  <2>1. CASE CanCharge(t, Cost["Next"]) /\ Resolves(t, h)
    <3> DEFINE it == frames[h[1]][h[2]]
    <3>1. it \in Iterator
      BY <1>2, <2>1 DEF Resolves, Handles, CallIds
    <3>2. \/ frames' = frames
          \/ \E k \in Remaining(it) : frames' = [frames EXCEPT ![h[1]][h[2]].pos = k]
      BY <2>1 DEF DoNext
    <3>3. ASSUME NEW k \in Remaining(it)
          PROVE  [frames EXCEPT ![h[1]][h[2]].pos = k] \in [CallIds -> Seq(Iterator)]
      <4>1. [it EXCEPT !.pos = k] \in Iterator
        BY <3>1 DEF Remaining, Iterator
      <4>2. [frames[h[1]] EXCEPT ![h[2]] = [it EXCEPT !.pos = k]] \in Seq(Iterator)
        BY <1>2, <2>1, <4>1 DEF Resolves, Handles, CallIds
      <4>. QED
        BY <1>2, <4>2 DEF Handles
    <3>. QED
      BY <1>2, <3>2, <3>3
  <2>2. CASE ~(CanCharge(t, Cost["Next"]) /\ Resolves(t, h))
    BY <1>2, <2>2 DEF DoNext
  <2>. QED
    BY <2>1, <2>2
<1>4. GasInv'
  BY <1>0, GasStepInv, CostType DEF DoNext, CbKinds, TypeInv
<1>. QED
  BY <1>0, <1>1, <1>3, <1>4, FrozenType DEF DoNext, Frozen, TypeOK

LEMMA DoQueryTypeInv ==
  ASSUME TypeInv, NEW t \in Threads, NEW gl \in QueryGasLimits, NEW r \in Requests,
         NEW f \in BOOLEAN, DoQuery(t, gl, r, f)
  PROVE  TypeInv'
<1>0. TypeOK /\ r \in Request /\ gl \in Nat /\ Cost["Query"] \in Nat
  BY BridgeAssumption, CostType DEF TypeInv, CbKinds
<1>1. meter \in [Threads -> Meter] /\ engGas \in [Threads -> Nat] /\ db \in DB
  BY <1>0 DEF TypeOK
<1>2. meter' \in [Threads -> Meter] /\ engGas' \in [Threads -> Nat] /\ db' \in DB
  <2>2. CASE Cost["Query"] <= QueryBudget(t, gl)
    <3>1. Charge(t, Cost["Query"]) /\ db' = Query(db, r, f).db
      BY <2>2 DEF DoQuery
    <3>2. meter' \in [Threads -> Meter] /\ engGas' \in [Threads -> Nat]
      BY <1>0, <1>1, <3>1, ChargeType
    <3>3. Query(db, r, f).db \in DB
      BY <1>0, <1>1, QueryType
    <3>. QED
      BY <3>1, <3>2, <3>3
  <2>3. CASE ~(Cost["Query"] <= QueryBudget(t, gl))
    <3>1. QueryBudget(t, gl) \in Nat
      <4>1. meter[t].used <= meter[t].limit
        BY DEF TypeInv, GasInv
      <4>. QED
        BY <1>0, <1>1, <4>1 DEF QueryBudget, Meter
    <3>2. /\ meter' = [meter EXCEPT ![t].used = @ + QueryBudget(t, gl)]
          /\ engGas' = [engGas EXCEPT ![t] = @ + QueryBudget(t, gl)]
          /\ db' = db
      BY <2>3 DEF DoQuery
    <3>3. [meter[t] EXCEPT !.used = meter[t].used + QueryBudget(t, gl)] \in Meter
      BY <1>1, <3>1 DEF Meter
    <3>4. meter' = [meter EXCEPT ![t] = [meter[t] EXCEPT
                      !.used = meter[t].used + QueryBudget(t, gl)]]
      BY <3>2
    <3>. QED
      BY <1>1, <3>1, <3>2, <3>3, <3>4
  <2>. QED
    BY <2>2, <2>3
<1>3. event' \in EventRec
  <2>1. "Query" \in Ops /\ {"OutOfGas", "Success", "Other"} \subseteq CallResults
    BY DEF Ops, CbKinds, CallResults
  <2>. QED
    BY <2>1, RecordType DEF DoQuery
<1>4. GasInv'
  <2>1. GasInv /\ meter[t].used <= meter[t].limit
    BY DEF TypeInv, GasInv
  <2>3. CASE Cost["Query"] <= QueryBudget(t, gl)
    <3>1. meter[t].used + Cost["Query"] <= meter[t].limit
      BY <1>0, <1>1, <2>1, <2>3 DEF QueryBudget, Meter
    <3>. QED
      BY <1>0, <1>1, <2>1, <2>3, <3>1 DEF DoQuery, Charge, GasInv, Meter
  <2>4. CASE ~(Cost["Query"] <= QueryBudget(t, gl))
    <3>1. meter[t].used + QueryBudget(t, gl) <= meter[t].limit
      BY <1>0, <1>1, <2>1 DEF QueryBudget, Meter
    <3>. QED
      BY <1>0, <1>1, <2>1, <2>4, <3>1 DEF DoQuery, GasInv, Meter
  <2>. QED
    BY <2>3, <2>4
<1>. QED
  BY <1>0, <1>2, <1>3, <1>4, FrozenType DEF DoQuery, Frozen, TypeOK

LEMMA EngineReturnTypeInv ==
  ASSUME TypeInv, NEW t \in Threads, NEW ok \in BOOLEAN, NEW withMsg \in BOOLEAN,
         EngineReturn(t, ok, withMsg)
  PROVE  TypeInv'
<1>0. TypeOK
  BY DEF TypeInv
<1>1. cid[t] \in CallIds
  BY ActiveCid DEF EngineReturn
<1>2. event' \in EventRec
  <2>1. "Return" \in Ops /\ {"Success", "Other"} \subseteq CallResults
    BY DEF Ops, CallResults
  <2>. QED
    BY <2>1, RecordType DEF EngineReturn
<1>3. /\ buf' \in [BufIds -> {"Unalloc", "Host", "Released"}]
      /\ errSlot' \in [Threads -> BufIds \cup {None}]
      /\ resSlot' \in [Threads -> BufIds \cup {None}]
  <2>1. <<cid[t], "res">> \in BufIds /\ <<cid[t], "err">> \in BufIds
    BY <1>1 DEF BufIds
  <2>2. /\ buf \in [BufIds -> {"Unalloc", "Host", "Released"}]
        /\ errSlot \in [Threads -> BufIds \cup {None}]
        /\ resSlot \in [Threads -> BufIds \cup {None}]
    BY <1>0 DEF TypeOK
  <2>3. CASE ok
    BY <2>1, <2>2, <2>3 DEF EngineReturn
  <2>4. CASE ~ok /\ withMsg
    BY <2>1, <2>2, <2>4 DEF EngineReturn
  <2>5. CASE ~ok /\ ~withMsg
    BY <2>2, <2>5 DEF EngineReturn
  <2>. QED
    BY <2>3, <2>4, <2>5
<1>4. pc' \in [Threads -> {"Idle", "Engine", "Returned"}] /\ failed' \in [Threads -> BOOLEAN]
  BY <1>0 DEF EngineReturn, TypeOK
<1>5. CidsIssued'
  BY DEF EngineReturn, TypeInv, CidsIssued
<1>6. UNCHANGED <<ep, cid, nextCid, meter, engGas, kv, db, frames, held, rel>>
  BY DEF EngineReturn
<1>7. TypeOK'
  BY <1>0, <1>2, <1>3, <1>4, <1>6 DEF TypeOK, EventRec
<1>8. GasInv'
  BY <1>6 DEF TypeInv, GasInv
<1>. QED
  BY <1>5, <1>7, <1>8 DEF TypeInv

LEMMA HostRecoverTypeInv ==
  ASSUME TypeInv, NEW t \in Threads, HostRecover(t)
  PROVE  TypeInv'
<1>0. TypeOK
  BY DEF TypeInv
<1>1. cid[t] \in CallIds
  BY ActiveCid DEF HostRecover
<1>2. event' \in EventRec
  <2>1. "Recover" \in Ops /\ "Success" \in CallResults
    BY DEF Ops, CallResults
  <2>. QED
    BY <2>1, RecordType DEF HostRecover
<1>3. buf' \in [BufIds -> {"Unalloc", "Host", "Released"}] /\ rel' \in [BufIds -> Nat]
  <2>1. ASSUME NEW s \in BufIds \cup {None}, CopyAndDestroy(s)
        PROVE  buf' \in [BufIds -> {"Unalloc", "Host", "Released"}] /\ rel' \in [BufIds -> Nat]
    <3>1. CASE s = None
      BY <1>0, <2>1, <3>1 DEF CopyAndDestroy, TypeOK
    <3>2. CASE s \in BufIds
      <4>1. s # None
        BY <3>2, BridgeAssumption
      <4>2. buf' = [buf EXCEPT ![s] = "Released"] /\ rel' = [rel EXCEPT ![s] = rel[s] + 1]
        BY <2>1, <4>1 DEF CopyAndDestroy
      <4>3. buf \in [BufIds -> {"Unalloc", "Host", "Released"}] /\ rel \in [BufIds -> Nat]
        BY <1>0 DEF TypeOK
      <4>. QED
        BY <3>2, <4>2, <4>3
    <3>. QED
      BY <3>1, <3>2
  <2>2. errSlot[t] \in BufIds \cup {None} /\ resSlot[t] \in BufIds \cup {None}
    BY <1>0 DEF TypeOK
  <2>. QED
    BY <1>0, <2>1, <2>2 DEF HostRecover, CreateTail, CallTail, ErrorWithMessage, TypeOK
<1>4. frames' \in [CallIds -> Seq(Iterator)] /\ pc' \in [Threads -> {"Idle", "Engine", "Returned"}]
  BY <1>0, <1>1 DEF HostRecover, DropFrame, TypeOK
<1>5. CidsIssued'
  BY DEF HostRecover, TypeInv, CidsIssued
<1>6. UNCHANGED <<ep, cid, nextCid, meter, engGas, failed, kv, db, held, errSlot, resSlot>>
  BY DEF HostRecover
<1>7. TypeOK'
  BY <1>0, <1>2, <1>3, <1>4, <1>6 DEF TypeOK, EventRec
<1>8. GasInv'
  BY <1>6 DEF TypeInv, GasInv
<1>. QED
  BY <1>5, <1>7, <1>8 DEF TypeInv

LEMMA NextTypeInv == TypeInv /\ [Next]_vars => TypeInv'
<1> SUFFICES ASSUME TypeInv, [Next]_vars PROVE TypeInv'
  OBVIOUS
<1>0. TypeOK /\ GasLimits \subseteq Nat
  BY BridgeAssumption DEF TypeInv
<1>1. CASE UNCHANGED vars
  BY <1>1 DEF vars, TypeInv, TypeOK, CidsIssued, GasInv
<1>2. ASSUME NEW t \in Threads,
             \/ \E lim \in GasLimits : Call(t, lim) \/ Create(t, lim)
             \/ SetupSeedNode(t) \/ SetupRegularNode(t) \/ RequestSeed(t)
             \/ CreateAttestationReport(t)
      PROVE  TypeInv'
  BY <1>0, <1>2, EnterEngineTypeInv
     DEF Call, Create, SetupSeedNode, SetupRegularNode, RequestSeed, CreateAttestationReport
<1>3. ASSUME NEW t \in Threads, NEW k \in Keys, DoGet(t, k) PROVE TypeInv'
  <2>1. meter' \in [Threads -> Meter] /\ engGas' \in [Threads -> Nat] /\ event' \in EventRec
    BY <1>0, <1>3, GasStepType DEF DoGet, CbKinds, CallResults
  <2>9. GasInv'
    BY <1>0, <1>3, GasStepInv, CostType DEF DoGet, CbKinds, TypeInv
  <2>. QED
    BY <1>3, <2>1, <2>9, FrozenType DEF DoGet, Frozen, TypeInv, TypeOK
<1>4. ASSUME NEW t \in Threads, NEW k \in Keys, NEW v \in KVVals, DoSet(t, k, v)
      PROVE  TypeInv'
  <2>1. meter' \in [Threads -> Meter] /\ engGas' \in [Threads -> Nat] /\ event' \in EventRec
    BY <1>0, <1>4, GasStepType DEF DoSet, CbKinds, CallResults
  <2>2. kv' \in [Keys -> KVVals \cup {NoVal}]
    BY <1>0, <1>4 DEF DoSet, TypeOK
  <2>9. GasInv'
    BY <1>0, <1>4, GasStepInv, CostType DEF DoSet, CbKinds, TypeInv
  <2>. QED
    BY <1>4, <2>1, <2>2, <2>9, FrozenType DEF DoSet, Frozen, TypeInv, TypeOK
<1>5. ASSUME NEW t \in Threads, NEW k \in Keys, DoDelete(t, k) PROVE TypeInv'
  <2>1. meter' \in [Threads -> Meter] /\ engGas' \in [Threads -> Nat] /\ event' \in EventRec
    BY <1>0, <1>5, GasStepType DEF DoDelete, CbKinds, CallResults
  <2>2. kv' \in [Keys -> KVVals \cup {NoVal}]
    BY <1>0, <1>5 DEF DoDelete, TypeOK
  <2>9. GasInv'
    BY <1>0, <1>5, GasStepInv, CostType DEF DoDelete, CbKinds, TypeInv
  <2>. QED
    BY <1>5, <2>1, <2>2, <2>9, FrozenType DEF DoDelete, Frozen, TypeInv, TypeOK
<1>6. ASSUME NEW t \in Threads, NEW ok \in BOOLEAN, DoAddress(t, ok) PROVE TypeInv'
  <2>1. meter' \in [Threads -> Meter] /\ engGas' \in [Threads -> Nat] /\ event' \in EventRec
    BY <1>0, <1>6, GasStepType DEF DoAddress, CbKinds, CallResults
  <2>9. GasInv'
    BY <1>0, <1>6, GasStepInv, CostType DEF DoAddress, CbKinds, TypeInv
  <2>. QED
    BY <1>6, <2>1, <2>9, FrozenType DEF DoAddress, Frozen, TypeInv, TypeOK
<1>7. ASSUME NEW t \in Threads,
             \/ \E lo \in Keys, hi \in Keys, ord \in {"Asc", "Desc"} :
                  lo < hi /\ DoScan(t, lo, hi, ord)
             \/ \E h \in held : DoNext(t, h)
             \/ \E gl \in QueryGasLimits, r \in Requests, f \in BOOLEAN : DoQuery(t, gl, r, f)
             \/ \E ok, withMsg \in BOOLEAN : EngineReturn(t, ok, withMsg)
             \/ HostRecover(t)
      PROVE  TypeInv'
  BY <1>7, DoScanTypeInv, DoNextTypeInv, DoQueryTypeInv, EngineReturnTypeInv,
     HostRecoverTypeInv
<1>8. QED
  BY <1>1, <1>2, <1>3, <1>4, <1>5, <1>6, <1>7 DEF Next

(* Type correctness of the bridge: every variable keeps its type in every  *)
(* reachable state, for every number of threads, calls and iterators.      *)
THEOREM TypeCorrect == Spec => []TypeOK
<1>1. Init => TypeInv
  BY InitTypeInv
<1>2. TypeInv /\ [Next]_vars => TypeInv'
  BY NextTypeInv
<1>3. TypeInv => TypeOK
  BY DEF TypeInv
<1>4. QED
  BY <1>1, <1>2, <1>3, PTL DEF Spec

(* Gas accounting of the meter relay: while a call is inside the engine,   *)
(* the gas the engine summed from the used_gas of every callback, the      *)
(* cut-off external queries included, equals the host meter's used gas,    *)
(* and that never exceeds the call's gas limit.  GasInv, part of the       *)
(* inductive invariant, states it for every thread, idle ones included.    *)
THEOREM GasAccountingHolds == Spec => []GasAccounting
<1>1. TypeInv => GasAccounting
  BY DEF TypeInv, GasInv, GasAccounting
<1>. QED
  BY <1>1, InitTypeInv, NextTypeInv, PTL DEF Spec

=============================================================================
