------------------------------ MODULE Bridge --------------------------------
(***************************************************************************)
(* The callback/ownership bridge between the Go host and the native        *)
(* engine.  Host threads enter the engine through the entry points of      *)
(* internal/api/lib.go (Call, Create and the Setup* requests); while one   *)
(* call is inside the engine, the engine calls back into the host through  *)
(* the gateways of api/callbacks_cgo.go: the KV store (Get, Set, Delete,   *)
(* Scan), the iterator (Next), the address codec and the external querier *)
(* (MockedConnector.Query, module Connector).  The KV and iterator       *)
(* callbacks charge the call's gas meter before they act; the address and *)
(* querier callbacks report the gas they used.  When the engine returns,  *)
(* the host                                                                *)
(* takes ownership of the UnmanagedVector it handed back (the result, or   *)
(* the error message) and must destroy it exactly once.                    *)
(*                                                                         *)
(* The Go side of the callbacks (callbacks.go), the gas meter and the      *)
(* iterator registry are not among the sources (make_pb_request is given  *)
(* only the connector): they are modelled from the specification.  The    *)
(* engine is left free: it may call back in any order, after an OutOfGas *)
(* too, and return success or an error at any point.                      *)
(***************************************************************************)
EXTENDS Connector, Naturals, Sequences, FiniteSets

CONSTANTS
  Threads,        \* host goroutines that may be inside the engine at once
  EntryPoints,    \* the lib.go entry points they use
  GasLimits,      \* gas limits a Call or Create may be given
  QueryGasLimits, \* gas limits the engine may pass to the external querier
  Cost,           \* gas cost of each callback kind
  MaxCalls,       \* bound: entry-point calls made in one behaviour
  MaxIters,       \* bound: iterators one call may open
  Keys,           \* KV store keys, ordered as numbers 1..N
  KVVals,         \* KV store values
  NoVal,          \* an absent KV entry
  None,           \* the none/empty UnmanagedVector and the unset cursor
  Requests,       \* the requests the engine may send to the querier
  DbMayFail       \* whether a MockedDB operation may report an error

CallIds == 1..MaxCalls

\* The UnmanagedVectors a call can hand to the host: its result and its
\* error message.
BufIds == CallIds \X {"res", "err"}

CbKinds == {"Get", "Set", "Delete", "Scan", "Next", "Addr", "Query"}

ASSUME BridgeAssumption ==
  /\ Threads # {}
  /\ EntryPoints \subseteq {"Call", "Create", "SetupSeedNode", "SetupRegularNode",
                            "RequestSeed", "CreateAttestationReport"}
  /\ GasLimits \subseteq Nat /\ QueryGasLimits \subseteq Nat
  /\ Cost \in [CbKinds -> Nat]
  /\ MaxCalls \in Nat /\ MaxIters \in Nat
  /\ Keys \subseteq Nat
  /\ NoVal \notin KVVals
  /\ None \notin Nat \cup BufIds
  /\ Requests \subseteq Request
  /\ DbMayFail \in BOOLEAN

VARIABLES
  pc,       \* per thread: "Idle", "Engine" (inside the engine), "Returned"
  ep,       \* per thread: the entry point of its current call
  cid,      \* per thread: the id of its current call
  nextCid,  \* the id the next call will get
  meter,    \* per thread: the gas meter of its current call
  engGas,   \* per thread: the engine's sum of the used_gas the callbacks reported
  failed,   \* per thread: the engine returned an error
  kv,       \* the host KV store
  db,       \* the MockedDB behind the connector
  frames,   \* per call id: the iterators that call opened, by handle
  held,     \* iterator handles the engine has been given
  buf,      \* per owned buffer: "Unalloc", "Host" or "Released"
  rel,      \* per owned buffer: how many times the host destroyed it
  errSlot,  \* per thread: the errmsg UnmanagedVector of its call
  resSlot,  \* per thread: the result UnmanagedVector of its call
  event     \* the last step: its thread, operation and CallResult

vars == <<pc, ep, cid, nextCid, meter, engGas, failed, kv, db, frames, held,
          buf, rel, errSlot, resSlot, event>>

Handles == CallIds \X (1..MaxIters)

Iterator == [lo : Keys, hi : Nat, order : {"Asc", "Desc"}, pos : Keys \cup {None}]

Meter == [limit : Nat, used : Nat]

CallResults == {"Success", "OutOfGas", "InvalidArgument", "Other"}

Ops == CbKinds \cup EntryPoints \cup {"Return", "Recover"}

-----------------------------------------------------------------------------
(* The gas meter relay (charge, spec section 4.3): a callback of cost c    *)
(* succeeds in charging when c fits under the limit; the used gas is added *)
(* to the meter and reported back to the engine through used_gas.          *)
(* Otherwise the callback returns OutOfGas and the meter is left as it     *)
(* was.                                                                    *)
CanCharge(t, c) == meter[t].used + c <= meter[t].limit

Charge(t, c) ==
  /\ meter' = [meter EXCEPT ![t].used = @ + c]
  /\ engGas' = [engGas EXCEPT ![t] = @ + c]

RunOutOfGas(t) == UNCHANGED <<meter, engGas>>

Record(t, op, res) == event' = [thread |-> t, op |-> op, res |-> res]

\* Callbacks run only on the thread of a Call or Create while it is inside
\* the engine (spec section 5); handle_initialization_request gets no
\* callback table.
InCallback(t) == pc[t] = "Engine" /\ ep[t] \in {"Call", "Create"}

-----------------------------------------------------------------------------
Init ==
  /\ pc = [t \in Threads |-> "Idle"]
  /\ ep = [t \in Threads |-> "Call"]
  /\ cid = [t \in Threads |-> 0]
  /\ nextCid = 1
  /\ meter = [t \in Threads |-> [limit |-> 0, used |-> 0]]
  /\ engGas = [t \in Threads |-> 0]
  /\ failed = [t \in Threads |-> FALSE]
  /\ kv = [k \in Keys |-> NoVal]
  /\ db = EmptyDB
  /\ frames = [c \in CallIds |-> <<>>]
  /\ held = {}
  /\ buf = [b \in BufIds |-> "Unalloc"]
  /\ rel = [b \in BufIds |-> 0]
  /\ errSlot = [t \in Threads |-> None]
  /\ resSlot = [t \in Threads |-> None]
  /\ event = [thread |-> CHOOSE t \in Threads : TRUE, op |-> "Return", res |-> "Success"]

\* The Setup* requests of lib.go: handle_initialization_request, no callbacks.
SetupFns == {"SetupSeedNode", "SetupRegularNode", "RequestSeed",
             "CreateAttestationReport"}

\* The call's gas meter starts empty under the entry point's gas limit, and
\* the engine's sum of used_gas with it (spec sections 4.3 and 5).
StartMeter(t, lim) ==
  /\ meter' = [meter EXCEPT ![t] = [limit |-> lim, used |-> 0]]
  /\ engGas' = [engGas EXCEPT ![t] = 0]

\* Mutant: errmsg is not reset to the none vector when a call starts.
EnterEngineKeepErrmsg(t, e, lim) ==
  /\ e \in EntryPoints
  /\ pc[t] = "Idle"
  /\ nextCid <= MaxCalls
  /\ pc' = [pc EXCEPT ![t] = "Engine"]
  /\ ep' = [ep EXCEPT ![t] = e]
  /\ cid' = [cid EXCEPT ![t] = nextCid]
  /\ nextCid' = nextCid + 1
  /\ StartMeter(t, lim)
  /\ failed' = [failed EXCEPT ![t] = FALSE]
  /\ resSlot' = [resSlot EXCEPT ![t] = None]
  /\ Record(t, e, "Success")
  /\ UNCHANGED <<kv, db, frames, held, buf, rel, errSlot>>

(* The common entry of every entry point: the request is marshalled into a *)
(* borrowed view kept alive for the call, errmsg starts as the none vector *)
(* and the thread blocks in the engine, its call under a fresh gas meter. *)
EnterEngine(t, e, lim) ==
  /\ e \in EntryPoints
  /\ pc[t] = "Idle"
  /\ nextCid <= MaxCalls
  /\ pc' = [pc EXCEPT ![t] = "Engine"]
  /\ ep' = [ep EXCEPT ![t] = e]
  /\ cid' = [cid EXCEPT ![t] = nextCid]
  /\ nextCid' = nextCid + 1
  /\ StartMeter(t, lim)
  /\ failed' = [failed EXCEPT ![t] = FALSE]
  /\ errSlot' = [errSlot EXCEPT ![t] = None]
  /\ resSlot' = [resSlot EXCEPT ![t] = None]
  /\ Record(t, e, "Success")
  /\ UNCHANGED <<kv, db, frames, held, buf, rel>>

(* Call: a contract call or value transfer through make_pb_request with   *)
(* the connector and the caller's gasLimit.                                *)
Call(t, lim) == EnterEngine(t, "Call", lim)

(* Create: contract creation through make_pb_request, as Call.             *)
Create(t, lim) == EnterEngine(t, "Create", lim)

(* The Setup* requests go through handle_initialization_request, which    *)
(* gets no connector and no gas limit.                                     *)
SetupSeedNode(t) == EnterEngine(t, "SetupSeedNode", 0)

SetupRegularNode(t) == EnterEngine(t, "SetupRegularNode", 0)

RequestSeed(t) == EnterEngine(t, "RequestSeed", 0)

(* CreateAttestationReport only proceeds with a 32-byte api key; any other *)
(* length ends the process in log.Fatalln, which the model leaves out.     *)
CreateAttestationReport(t) == EnterEngine(t, "CreateAttestationReport", 0)

(* cGet: charge, then read.  The value goes back to the engine.            *)
DoGet(t, k) ==
  /\ InCallback(t)
  /\ IF CanCharge(t, Cost["Get"])
       THEN Charge(t, Cost["Get"]) /\ Record(t, "Get", "Success")
       ELSE RunOutOfGas(t) /\ Record(t, "Get", "OutOfGas")
  /\ UNCHANGED <<pc, ep, cid, nextCid, failed, kv, db, frames, held, buf, rel,
                 errSlot, resSlot>>

(* cSet: charge, then write; nothing is written when the charge fails.     *)
DoSet(t, k, v) ==
  /\ InCallback(t)
  /\ IF CanCharge(t, Cost["Set"])
       THEN /\ Charge(t, Cost["Set"]) /\ Record(t, "Set", "Success")
            /\ kv' = [kv EXCEPT ![k] = v]
       ELSE RunOutOfGas(t) /\ Record(t, "Set", "OutOfGas") /\ UNCHANGED kv
  /\ UNCHANGED <<pc, ep, cid, nextCid, failed, db, frames, held, buf, rel,
                 errSlot, resSlot>>

(* cDelete: charge, then remove the key (absent keys are no error).        *)
DoDelete(t, k) ==
  /\ InCallback(t)
  /\ IF CanCharge(t, Cost["Delete"])
       THEN /\ Charge(t, Cost["Delete"]) /\ Record(t, "Delete", "Success")
            /\ kv' = [kv EXCEPT ![k] = NoVal]
       ELSE RunOutOfGas(t) /\ Record(t, "Delete", "OutOfGas") /\ UNCHANGED kv
  /\ UNCHANGED <<pc, ep, cid, nextCid, failed, db, frames, held, buf, rel,
                 errSlot, resSlot>>

\* Mutant: the handle is the frame's length before the append (0-based).
DoScanHandleBeforeAppend(t, lo, hi, ord) ==
  /\ InCallback(t)
  /\ Len(frames[cid[t]]) < MaxIters
  /\ IF CanCharge(t, Cost["Scan"])
       THEN /\ Charge(t, Cost["Scan"]) /\ Record(t, "Scan", "Success")
            /\ frames' = [frames EXCEPT ![cid[t]] =
                            Append(@, [lo |-> lo, hi |-> hi, order |-> ord, pos |-> None])]
            /\ held' = held \cup {<<cid[t], Len(frames[cid[t]])>>}
       ELSE RunOutOfGas(t) /\ Record(t, "Scan", "OutOfGas") /\ UNCHANGED <<frames, held>>
  /\ UNCHANGED <<pc, ep, cid, nextCid, failed, kv, db, buf, rel, errSlot, resSlot>>

(* cScan: charge, then open an iterator over [lo, hi) in the given order,  *)
(* register it in the frame of the current call and hand its handle       *)
(* <<call id, index>> to the engine.  MaxIters bounds the iterators one   *)
(* call opens; neither the code nor the specification has such a bound.   *)
DoScan(t, lo, hi, ord) ==
  /\ InCallback(t)
  /\ Len(frames[cid[t]]) < MaxIters
  /\ IF CanCharge(t, Cost["Scan"])
       THEN /\ Charge(t, Cost["Scan"]) /\ Record(t, "Scan", "Success")
            /\ frames' = [frames EXCEPT ![cid[t]] =
                            Append(@, [lo |-> lo, hi |-> hi, order |-> ord, pos |-> None])]
            /\ held' = held \cup {<<cid[t], Len(frames[cid[t]]) + 1>>}
       ELSE RunOutOfGas(t) /\ Record(t, "Scan", "OutOfGas") /\ UNCHANGED <<frames, held>>
  /\ UNCHANGED <<pc, ep, cid, nextCid, failed, kv, db, buf, rel, errSlot, resSlot>>

\* The keys an iterator has still to yield, and whether k comes before j
\* in its order.
Ahead(it, k, j) == IF it.order = "Asc" THEN k < j ELSE j < k

Remaining(it) ==
  {k \in Keys : /\ it.lo <= k /\ k < it.hi
                /\ kv[k] # NoVal
                /\ (it.pos = None \/ Ahead(it, it.pos, k))}

\* The handle is found in the registry: an iterator of the call it names
\* that has not ended.  As in the source (spec section 9), a handle is not
\* checked against the caller's own call.
Resolves(t, h) == h[2] <= Len(frames[h[1]])

(* cNext: charge, then look the handle up in the registry; a handle not   *)
(* found there (its call has ended) is InvalidArgument.  Otherwise the    *)
(* cursor moves                                                            *)
(* to the first remaining key in its order; an exhausted iterator stays   *)
(* where it is and answers the none pair.                                  *)
DoNext(t, h) ==
  /\ InCallback(t)
  /\ h \in held
  /\ IF ~CanCharge(t, Cost["Next"])
       THEN RunOutOfGas(t) /\ Record(t, "Next", "OutOfGas") /\ UNCHANGED frames
     ELSE IF ~Resolves(t, h)
       THEN Charge(t, Cost["Next"]) /\ Record(t, "Next", "InvalidArgument")
            /\ UNCHANGED frames
     ELSE LET it == frames[h[1]][h[2]]
          IN  /\ Charge(t, Cost["Next"]) /\ Record(t, "Next", "Success")
              /\ \/ Remaining(it) = {} /\ UNCHANGED frames
                 \/ \E k \in Remaining(it) :
                      /\ \A j \in Remaining(it) \ {k} : Ahead(it, k, j)
                      /\ frames' = [frames EXCEPT ![h[1]][h[2]].pos = k]
  /\ UNCHANGED <<pc, ep, cid, nextCid, failed, kv, db, held, buf, rel,
                 errSlot, resSlot>>

(* cHumanAddress / cCanonicalAddress: a fixed charge, then a conversion   *)
(* that may fail on malformed input; no host state changes.                *)
DoAddress(t, ok) ==
  /\ InCallback(t)
  /\ IF CanCharge(t, Cost["Addr"])
       THEN Charge(t, Cost["Addr"]) /\ Record(t, "Addr", IF ok THEN "Success" ELSE "Other")
       ELSE RunOutOfGas(t) /\ Record(t, "Addr", "OutOfGas")
  /\ UNCHANGED <<pc, ep, cid, nextCid, failed, kv, db, frames, held, buf, rel,
                 errSlot, resSlot>>

\* The gas a sub-query may use: its own limit, capped by what is left.
QueryBudget(t, gl) ==
  IF gl < meter[t].limit - meter[t].used THEN gl ELSE meter[t].limit - meter[t].used

\* Mutant: a cut-off sub-query charges all it needed, not the budget.
DoQueryChargeFull(t, gl, r, dbFails) ==
  /\ InCallback(t)
  /\ dbFails => DbMayFail
  /\ IF Cost["Query"] <= QueryBudget(t, gl)
       THEN LET out == Query(db, r, dbFails)
            IN  /\ Charge(t, Cost["Query"])
                /\ db' = out.db
                /\ Record(t, "Query", IF out.ok THEN "Success" ELSE "Other")
     ELSE /\ meter' = [meter EXCEPT ![t].used = @ + Cost["Query"]]
          /\ engGas' = [engGas EXCEPT ![t] = @ + Cost["Query"]]
          /\ Record(t, "Query", "OutOfGas")
          /\ UNCHANGED db
  /\ UNCHANGED <<pc, ep, cid, nextCid, failed, kv, frames, held, buf, rel,
                 errSlot, resSlot>>

(* cQueryExternal: the sub-query runs MockedConnector.Query under the      *)
(* budget.  If it needs more than the budget it is cut off: the budget is *)
(* charged, the database is left alone and OutOfGas is returned, from    *)
(* whichever of the two budgets was the bound.                             *)
DoQuery(t, gl, r, dbFails) ==
  /\ InCallback(t)
  /\ dbFails => DbMayFail
  /\ IF Cost["Query"] <= QueryBudget(t, gl)
       THEN LET out == Query(db, r, dbFails)
            IN  /\ Charge(t, Cost["Query"])
                /\ db' = out.db
                /\ Record(t, "Query", IF out.ok THEN "Success" ELSE "Other")
     ELSE /\ meter' = [meter EXCEPT ![t].used = @ + QueryBudget(t, gl)]
          /\ engGas' = [engGas EXCEPT ![t] = @ + QueryBudget(t, gl)]
          /\ Record(t, "Query", "OutOfGas")
          /\ UNCHANGED db
  /\ UNCHANGED <<pc, ep, cid, nextCid, failed, kv, frames, held, buf, rel,
                 errSlot, resSlot>>

(* The engine returns from the entry point.  On success it hands back an  *)
(* owned result vector; on error it sets errno and may have written an    *)
(* owned message into errmsg.                                              *)
EngineReturn(t, ok, withMsg) ==
  /\ pc[t] = "Engine"
  /\ ok => ~withMsg
  /\ pc' = [pc EXCEPT ![t] = "Returned"]
  /\ failed' = [failed EXCEPT ![t] = ~ok]
  /\ IF ok
       THEN /\ resSlot' = [resSlot EXCEPT ![t] = <<cid[t], "res">>]
            /\ buf' = [buf EXCEPT ![<<cid[t], "res">>] = "Host"]
            /\ UNCHANGED errSlot
     ELSE IF withMsg
       THEN /\ errSlot' = [errSlot EXCEPT ![t] = <<cid[t], "err">>]
            /\ buf' = [buf EXCEPT ![<<cid[t], "err">>] = "Host"]
            /\ UNCHANGED resSlot
     ELSE UNCHANGED <<buf, errSlot, resSlot>>
  /\ Record(t, "Return", IF ok THEN "Success" ELSE "Other")
  /\ UNCHANGED <<ep, cid, nextCid, meter, engGas, kv, db, frames, held, rel>>

\* CopyAndDestroyUnmanagedVector: copy out and destroy, unless it is none.
CopyAndDestroy(s) ==
  IF s = None THEN UNCHANGED <<buf, rel>>
  ELSE /\ buf' = [buf EXCEPT ![s] = "Released"]
       /\ rel' = [rel EXCEPT ![s] = @ + 1]

\* Mutant: the Go error is returned without consuming errmsg.
ErrorWithMessageNoDestroy(t) == UNCHANGED <<buf, rel>>

\* ErrorWithMessage(err, errmsg): destroys errmsg to build the Go error.
ErrorWithMessage(t) == CopyAndDestroy(errSlot[t])

(* Call back in Go after make_pb_request: on error return                *)
(* ErrorWithMessage, leaving the result alone; otherwise copy and destroy *)
(* the result.                                                             *)
CallTail(t) ==
  IF failed[t] THEN ErrorWithMessage(t) ELSE CopyAndDestroy(resSlot[t])

(* Create after make_pb_request: the same code as Call's.                 *)
CreateTail(t) == CallTail(t)

\* The registry drops the call's iterators en masse at its end (spec
\* section 9).
DropFrame(t) == frames' = [frames EXCEPT ![cid[t]] = <<>>]

(* The entry point returns to its Go caller.  Setup*: the outcome of       *)
(* handle_initialization_request is discarded (_ = ...).                   *)
HostRecover(t) ==
  /\ pc[t] = "Returned"
  /\ IF ep[t] \in SetupFns THEN UNCHANGED <<buf, rel>>
     ELSE IF ep[t] = "Create" THEN CreateTail(t)
     ELSE CallTail(t)
  /\ DropFrame(t)
  /\ pc' = [pc EXCEPT ![t] = "Idle"]
  /\ Record(t, "Recover", "Success")
  /\ UNCHANGED <<ep, cid, nextCid, meter, engGas, failed, kv, db, held,
                 errSlot, resSlot>>

Next ==
  \E t \in Threads :
    \/ \E lim \in GasLimits : Call(t, lim) \/ Create(t, lim)
    \/ SetupSeedNode(t) \/ SetupRegularNode(t) \/ RequestSeed(t)
    \/ CreateAttestationReport(t)
    \/ \E k \in Keys : DoGet(t, k)
    \/ \E k \in Keys, v \in KVVals : DoSet(t, k, v)
    \/ \E k \in Keys : DoDelete(t, k)
    \/ \E lo \in Keys, hi \in Keys, ord \in {"Asc", "Desc"} :
         lo < hi /\ DoScan(t, lo, hi, ord)
    \/ \E h \in held : DoNext(t, h)
    \/ \E ok \in BOOLEAN : DoAddress(t, ok)
    \/ \E gl \in QueryGasLimits, r \in Requests, f \in BOOLEAN : DoQuery(t, gl, r, f)
    \/ \E ok, withMsg \in BOOLEAN : EngineReturn(t, ok, withMsg)
    \/ HostRecover(t)

Spec == Init /\ [][Next]_vars

-----------------------------------------------------------------------------
(* The refinement mapping to BufferOwnership: a call id not yet issued is  *)
(* pending, one a thread is still working on is running, any other has    *)
(* ended; a vector the host holds is owned, and the destroy count is rel. *)
CallStatus ==
  [c \in CallIds |->
     IF c >= nextCid THEN "Pending"
     ELSE IF \E t \in Threads : pc[t] # "Idle" /\ cid[t] = c THEN "Running"
     ELSE "Ended"]

Life == [b \in BufIds |-> IF buf[b] = "Host" THEN "Owned" ELSE buf[b]]

OwnershipSpec == INSTANCE BufferOwnership
                   WITH Calls <- CallIds, Kinds <- {"res", "err"},
                        status <- CallStatus, life <- Life, destroyed <- rel

-----------------------------------------------------------------------------
(* Properties.                                                             *)

TypeOK ==
  /\ pc \in [Threads -> {"Idle", "Engine", "Returned"}]
  /\ ep \in [Threads -> {"Call", "Create"} \cup SetupFns]
  /\ cid \in [Threads -> 0..MaxCalls]
  /\ nextCid \in 1..(MaxCalls + 1)
  /\ meter \in [Threads -> Meter]
  /\ engGas \in [Threads -> Nat]
  /\ failed \in [Threads -> BOOLEAN]
  /\ kv \in [Keys -> KVVals \cup {NoVal}]
  /\ db \in DB
  /\ frames \in [CallIds -> Seq(Iterator)]
  /\ held \subseteq Handles
  /\ buf \in [BufIds -> {"Unalloc", "Host", "Released"}]
  /\ rel \in [BufIds -> Nat]
  /\ errSlot \in [Threads -> BufIds \cup {None}]
  /\ resSlot \in [Threads -> BufIds \cup {None}]
  /\ event \in [thread : Threads, op : Ops, res : CallResults]

(* Every owned vector the engine hands to the host (the result of a       *)
(* successful Call or Create, an error message) is destroyed at most once: *)
(* no double free across ErrorWithMessage and CopyAndDestroy, whichever   *)
(* path each call takes and however the calls of the threads interleave. *)
OwnedBuffersReleasedOnce == \A b \in BufIds : rel[b] <= 1

(* Once an entry point has returned to its Go caller, every owned vector  *)
(* that call received has been destroyed: neither the error path nor the  *)
(* success path of Call, Create or Setup leaks the vector it did not use. *)
NoLeakAfterReturn ==
  \A b \in BufIds :
    buf[b] = "Host" => \E t \in Threads : pc[t] # "Idle" /\ cid[t] = b[1]

(* While a call is in the engine, the gas the engine has summed from the   *)
(* used_gas of its callbacks equals what the host meter recorded, and the  *)
(* meter never goes past its limit, sub-queries with their own gas_limit   *)
(* included.                                                               *)
GasAccounting ==
  \A t \in Threads :
    pc[t] # "Idle" => engGas[t] = meter[t].used /\ meter[t].used <= meter[t].limit

(* The bridge implements BufferOwnership: every step of every thread is   *)
(* either a call starting, the engine handing a vector to the host, the   *)
(* Go entry point returning after destroying exactly the vectors its call *)
(* received, or leaves the vectors alone.  It excludes both a leak (a call *)
(* ends still owning a vector) and a double destroy (a vector destroyed   *)
(* again, by a later call reusing a stale errmsg among others).            *)
BridgeOwnership == OwnershipSpec!Spec

=============================================================================
