--------------------------- MODULE OwnershipProofs --------------------------
(***************************************************************************)
(* Proofs that the bridge implements BufferOwnership when the entry        *)
(* points are Call and Create (the Setup* requests leak their errmsg, see *)
(* the README), and with it that no owned vector is destroyed twice or     *)
(* leaked, for every number of threads and calls.                          *)
(***************************************************************************)
EXTENDS BridgeProofs

\* The entry points that take their errmsg back: Call and Create.
CallCreateOnly == EntryPoints \subseteq {"Call", "Create"}

\* The vector HostRecover destroys for thread t: the error message after a
\* failed call, the result otherwise.
Slot(t) == IF failed[t] THEN errSlot[t] ELSE resSlot[t]

\* The kind of vector a returned call hands over.
SlotKind(t) == IF failed[t] THEN "err" ELSE "res"

-----------------------------------------------------------------------------
(* The inductive invariant behind the refinement.                          *)

EpCallCreate == \A t \in Threads : ep[t] \in {"Call", "Create"}

\* A vector has been destroyed once if it is released, never otherwise.
RelMatches == \A b \in BufIds : rel[b] = IF buf[b] = "Released" THEN 1 ELSE 0

\* The vectors of a call id not yet issued have not been handed over.
FreshUnalloc == \A b \in BufIds : b[1] >= nextCid => buf[b] = "Unalloc"

\* Two threads never work on the same call.
DistinctCids ==
  \A s, u \in Threads :
    s # u /\ pc[s] # "Idle" /\ pc[u] # "Idle" => cid[s] # cid[u]

\* Inside the engine a call's vectors are not yet handed over and errmsg
\* is the none vector.
EngineClean ==
  \A t \in Threads :
    pc[t] = "Engine" =>
      /\ errSlot[t] = None
      /\ \A k \in {"res", "err"} : buf[<<cid[t], k>>] = "Unalloc"

\* Back from the engine, the host holds at most the one vector of the call
\* that HostRecover will destroy.
ReturnedSlots ==
  \A t \in Threads :
    pc[t] = "Returned" =>
      /\ Slot(t) \in {None, <<cid[t], SlotKind(t)>>}
      /\ \A k \in {"res", "err"} :
           buf[<<cid[t], k>>] = IF Slot(t) = <<cid[t], k>> THEN "Host" ELSE "Unalloc"

\* Every vector the host holds belongs to a call that has not yet returned.
HostOwned ==
  \A b \in BufIds : buf[b] = "Host" => \E t \in Threads : pc[t] = "Returned" /\ cid[t] = b[1]

OwnInv ==
  /\ EpCallCreate /\ RelMatches /\ FreshUnalloc /\ DistinctCids
  /\ EngineClean /\ ReturnedSlots /\ HostOwned

-----------------------------------------------------------------------------
(* OwnInv holds initially and every step keeps it.                         *)

LEMMA InitOwnInv == Init => OwnInv
<1> SUFFICES ASSUME Init PROVE OwnInv
  OBVIOUS
<1>1. EpCallCreate /\ RelMatches /\ FreshUnalloc
  BY DEF Init, EpCallCreate, RelMatches, FreshUnalloc
<1>2. DistinctCids /\ EngineClean /\ ReturnedSlots /\ HostOwned
  BY DEF Init, DistinctCids, EngineClean, ReturnedSlots, HostOwned
<1>. QED
  BY <1>1, <1>2 DEF OwnInv

\* OwnInv only reads the variables a callback leaves alone.
LEMMA FrozenOwnInv ==
  ASSUME OwnInv, UNCHANGED Frozen
  PROVE  OwnInv'
BY DEF OwnInv, Frozen, EpCallCreate, RelMatches, FreshUnalloc, DistinctCids,
       EngineClean, ReturnedSlots, HostOwned, Slot, SlotKind

LEMMA EnterEngineOwnInv ==
  ASSUME TypeInv, OwnInv, CallCreateOnly, NEW t \in Threads, NEW e, NEW lim \in Nat,
         EnterEngine(t, e, lim)
  PROVE  OwnInv'
<1>0. /\ TypeOK /\ CidsIssued
      /\ pc[t] = "Idle" /\ nextCid \in 1..MaxCalls
      /\ pc' = [pc EXCEPT ![t] = "Engine"] /\ cid' = [cid EXCEPT ![t] = nextCid]
      /\ nextCid' = nextCid + 1
      /\ failed' = [failed EXCEPT ![t] = FALSE]
      /\ errSlot' = [errSlot EXCEPT ![t] = None]
      /\ resSlot' = [resSlot EXCEPT ![t] = None]
      /\ UNCHANGED <<buf, rel>>
  <2>1. MaxCalls \in Nat
    BY BridgeAssumption
  <2>. QED
    BY <2>1 DEF TypeInv, TypeOK, EnterEngine
<1>1. EpCallCreate'
  BY DEF EnterEngine, CallCreateOnly, OwnInv, EpCallCreate, TypeInv, TypeOK
<1>2. RelMatches'
  BY <1>0 DEF OwnInv, RelMatches
<1>3. FreshUnalloc'
  BY <1>0 DEF OwnInv, FreshUnalloc, BufIds, CallIds
<1>4. DistinctCids'
  BY <1>0 DEF OwnInv, DistinctCids, CidsIssued, TypeOK
<1>5. EngineClean'
  <2>1. \A k \in {"res", "err"} : buf[<<nextCid, k>>] = "Unalloc"
    BY <1>0 DEF OwnInv, FreshUnalloc, BufIds, CallIds
  <2>. QED
    BY <1>0, <2>1 DEF OwnInv, EngineClean, TypeOK
<1>6. ReturnedSlots'
  BY <1>0 DEF OwnInv, ReturnedSlots, Slot, SlotKind, TypeOK
<1>7. HostOwned'
  BY <1>0 DEF OwnInv, HostOwned, TypeOK
<1>. QED
  BY <1>1, <1>2, <1>3, <1>4, <1>5, <1>6, <1>7 DEF OwnInv

LEMMA EngineReturnOwnInv ==
  ASSUME TypeInv, OwnInv, NEW t \in Threads, NEW ok \in BOOLEAN, NEW withMsg \in BOOLEAN,
         EngineReturn(t, ok, withMsg)
  PROVE  OwnInv'
<1> DEFINE c == cid[t]
<1>0. /\ TypeOK /\ CidsIssued
      /\ pc[t] = "Engine" /\ c \in CallIds /\ c < nextCid
      /\ pc' = [pc EXCEPT ![t] = "Returned"]
      /\ failed' = [failed EXCEPT ![t] = ~ok]
      /\ UNCHANGED <<ep, cid, nextCid, rel>>
      /\ errSlot[t] = None
      /\ buf[<<c, "res">>] = "Unalloc" /\ buf[<<c, "err">>] = "Unalloc"
  BY ActiveCid DEF TypeInv, TypeOK, CidsIssued, EngineReturn, OwnInv, EngineClean
<1>1. None \notin BufIds
  BY BridgeAssumption
<1>2. EpCallCreate' /\ DistinctCids'
  BY <1>0 DEF OwnInv, EpCallCreate, DistinctCids, TypeOK
\* The three outcomes of the return.
<1>20. ok => /\ resSlot' = [resSlot EXCEPT ![t] = <<c, "res">>]
             /\ buf' = [buf EXCEPT ![<<c, "res">>] = "Host"]
             /\ errSlot' = errSlot
  BY DEF EngineReturn
<1>21. ~ok /\ withMsg =>
         /\ errSlot' = [errSlot EXCEPT ![t] = <<c, "err">>]
         /\ buf' = [buf EXCEPT ![<<c, "err">>] = "Host"]
         /\ resSlot' = resSlot
  BY DEF EngineReturn
<1>22. ~ok /\ ~withMsg => UNCHANGED <<buf, errSlot, resSlot>>
  BY DEF EngineReturn
\* The step touches only the vectors and slots of its own call.
<1>3. ASSUME NEW s \in Threads, s # t, pc[s] # "Idle"
      PROVE  /\ \A k \in {"res", "err"} : buf'[<<cid[s], k>>] = buf[<<cid[s], k>>]
             /\ errSlot'[s] = errSlot[s] /\ resSlot'[s] = resSlot[s]
             /\ failed'[s] = failed[s] /\ pc'[s] = pc[s]
  <2>1. cid[s] # c /\ cid[s] \in CallIds
    BY <1>0, <1>3, ActiveCid DEF OwnInv, DistinctCids
  <2>2. \A k \in {"res", "err"} : <<cid[s], k>> \in BufIds /\ <<cid[s], k>> # <<c, "res">>
                                   /\ <<cid[s], k>> # <<c, "err">>
    BY <2>1 DEF BufIds
  <2>3. buf \in [BufIds -> {"Unalloc", "Host", "Released"}]
        /\ errSlot \in [Threads -> BufIds \cup {None}]
        /\ resSlot \in [Threads -> BufIds \cup {None}]
    BY <1>0 DEF TypeOK
  <2>4. failed'[s] = failed[s] /\ pc'[s] = pc[s]
    BY <1>0, <1>3 DEF TypeOK
  <2>5. CASE ok
    BY <1>3, <1>20, <2>2, <2>3, <2>4, <2>5
  <2>6. CASE ~ok /\ withMsg
    BY <1>3, <1>21, <2>2, <2>3, <2>4, <2>6
  <2>7. CASE ~ok /\ ~withMsg
    BY <1>22, <2>4, <2>7
  <2>. QED
    BY <2>5, <2>6, <2>7
<1>4. /\ Slot(t)' \in {None, <<c, SlotKind(t)'>>}
      /\ \A k \in {"res", "err"} :
           buf'[<<c, k>>] = IF Slot(t)' = <<c, k>> THEN "Host" ELSE "Unalloc"
  <2>1. CASE ok
    <3>1. resSlot' = [resSlot EXCEPT ![t] = <<c, "res">>]
          /\ buf' = [buf EXCEPT ![<<c, "res">>] = "Host"]
      BY <2>1 DEF EngineReturn
    <3>2. Slot(t)' = <<c, "res">> /\ SlotKind(t)' = "res"
      BY <1>0, <2>1, <3>1 DEF Slot, SlotKind, TypeOK
    <3>. QED
      BY <1>0, <3>1, <3>2 DEF TypeOK, BufIds
  <2>2. CASE ~ok /\ withMsg
    <3>1. errSlot' = [errSlot EXCEPT ![t] = <<c, "err">>]
          /\ buf' = [buf EXCEPT ![<<c, "err">>] = "Host"]
      BY <2>2 DEF EngineReturn
    <3>2. Slot(t)' = <<c, "err">> /\ SlotKind(t)' = "err"
      BY <1>0, <2>2, <3>1 DEF Slot, SlotKind, TypeOK
    <3>. QED
      BY <1>0, <3>1, <3>2 DEF TypeOK, BufIds
  <2>3. CASE ~ok /\ ~withMsg
    <3>1. UNCHANGED <<buf, errSlot>>
      BY <2>3 DEF EngineReturn
    <3>2. Slot(t)' = None
      BY <1>0, <2>3, <3>1 DEF Slot, TypeOK
    <3>. QED
      BY <1>0, <1>1, <3>1, <3>2 DEF BufIds
  <2>. QED
    BY <2>1, <2>2, <2>3
\* A vector that changes is one of the call's, handed over from Unalloc.
<1>5. ASSUME NEW b \in BufIds, buf'[b] # buf[b]
      PROVE  b[1] = c /\ buf[b] = "Unalloc" /\ buf'[b] = "Host"
  <2>1. buf \in [BufIds -> {"Unalloc", "Host", "Released"}] /\ <<c, "res">> \in BufIds
        /\ <<c, "err">> \in BufIds
    BY <1>0 DEF TypeOK, BufIds
  <2>2. CASE ok
    <3>1. b = <<c, "res">>
      BY <1>5, <1>20, <2>1, <2>2
    <3>. QED
      BY <1>0, <1>20, <2>1, <2>2, <3>1
  <2>3. CASE ~ok /\ withMsg
    <3>1. b = <<c, "err">>
      BY <1>5, <1>21, <2>1, <2>3
    <3>. QED
      BY <1>0, <1>21, <2>1, <2>3, <3>1
  <2>4. CASE ~ok /\ ~withMsg
    BY <1>5, <1>22, <2>4
  <2>. QED
    BY <2>2, <2>3, <2>4
<1>6. RelMatches' /\ FreshUnalloc'
  <2>1. RelMatches'
    <3> SUFFICES ASSUME NEW b \in BufIds
                 PROVE  rel'[b] = IF buf'[b] = "Released" THEN 1 ELSE 0
      BY DEF RelMatches
    <3>1. CASE buf'[b] = buf[b]
      BY <1>0, <3>1 DEF OwnInv, RelMatches
    <3>2. CASE buf'[b] # buf[b]
      BY <1>0, <1>5, <3>2 DEF OwnInv, RelMatches
    <3>. QED
      BY <3>1, <3>2
  <2>2. FreshUnalloc'
    <3> SUFFICES ASSUME NEW b \in BufIds, b[1] >= nextCid'
                 PROVE  buf'[b] = "Unalloc"
      BY DEF FreshUnalloc
    <3>1. b[1] \in CallIds /\ nextCid' = nextCid
      BY <1>0 DEF BufIds
    <3>2. b[1] # c
      <4>1. b[1] \in Nat /\ c \in Nat /\ nextCid \in Nat /\ b[1] >= nextCid /\ c < nextCid
        BY <1>0, <3>1 DEF CallIds, TypeOK
      <4>. QED
        BY <4>1
    <3>. QED
      BY <1>0, <1>5, <3>1, <3>2 DEF OwnInv, FreshUnalloc
  <2>. QED
    BY <2>1, <2>2
<1>7. EngineClean'
  <2> SUFFICES ASSUME NEW s \in Threads, pc'[s] = "Engine"
               PROVE  errSlot'[s] = None
                      /\ \A k \in {"res", "err"} : buf'[<<cid'[s], k>>] = "Unalloc"
    BY DEF EngineClean
  <2>1. s # t /\ pc[s] = "Engine"
    BY <1>0 DEF TypeOK
  <2>. QED
    BY <1>0, <1>3, <2>1 DEF OwnInv, EngineClean
<1>8. ReturnedSlots'
  <2> SUFFICES ASSUME NEW s \in Threads, pc'[s] = "Returned"
               PROVE  /\ Slot(s)' \in {None, <<cid'[s], SlotKind(s)'>>}
                      /\ \A k \in {"res", "err"} :
                           buf'[<<cid'[s], k>>] = IF Slot(s)' = <<cid'[s], k>> THEN "Host" ELSE "Unalloc"
    BY DEF ReturnedSlots
  <2>1. CASE s = t
    BY <1>0, <1>4, <2>1
  <2>2. CASE s # t
    <3>1. pc[s] = "Returned"
      BY <1>0, <2>2 DEF TypeOK
    <3>2. Slot(s)' = Slot(s) /\ SlotKind(s)' = SlotKind(s)
      BY <1>3, <2>2, <3>1 DEF Slot, SlotKind
    <3>. QED
      BY <1>0, <1>3, <2>2, <3>1, <3>2 DEF OwnInv, ReturnedSlots
  <2>. QED
    BY <2>1, <2>2
<1>9. HostOwned'
  <2> SUFFICES ASSUME NEW b \in BufIds, buf'[b] = "Host"
               PROVE  \E u \in Threads : pc'[u] = "Returned" /\ cid'[u] = b[1]
    BY DEF HostOwned
  <2>1. CASE buf'[b] # buf[b]
    <3>1. b[1] = c /\ pc'[t] = "Returned"
      BY <1>0, <1>5, <2>1 DEF TypeOK
    <3>. QED
      BY <1>0, <3>1
  <2>2. CASE buf'[b] = buf[b]
    <3>1. PICK u \in Threads : pc[u] = "Returned" /\ cid[u] = b[1]
      BY <2>2 DEF OwnInv, HostOwned
    <3>2. u # t
      BY <1>0, <3>1
    <3>. QED
      BY <1>0, <3>1, <3>2 DEF TypeOK
  <2>. QED
    BY <2>1, <2>2
<1>. QED
  BY <1>2, <1>6, <1>7, <1>8, <1>9 DEF OwnInv

LEMMA HostRecoverOwnInv ==
  ASSUME TypeInv, OwnInv, NEW t \in Threads, HostRecover(t)
  PROVE  OwnInv'
<1> DEFINE c == cid[t]
           sl == Slot(t)
<1>0. /\ TypeOK /\ CidsIssued
      /\ pc[t] = "Returned" /\ c \in CallIds /\ c < nextCid
      /\ pc' = [pc EXCEPT ![t] = "Idle"]
      /\ UNCHANGED <<ep, cid, nextCid, failed, errSlot, resSlot>>
      /\ sl \in {None, <<c, SlotKind(t)>>}
      /\ \A k \in {"res", "err"} : buf[<<c, k>>] = IF sl = <<c, k>> THEN "Host" ELSE "Unalloc"
  BY ActiveCid DEF TypeInv, TypeOK, CidsIssued, HostRecover, OwnInv, ReturnedSlots
<1>1. None \notin BufIds /\ SlotKind(t) \in {"res", "err"}
  BY BridgeAssumption DEF SlotKind
\* Call and Create destroy the one vector the call handed over.
<1>2. /\ sl = None => UNCHANGED <<buf, rel>>
      /\ sl # None => /\ buf' = [buf EXCEPT ![sl] = "Released"]
                      /\ rel' = [rel EXCEPT ![sl] = @ + 1]
  <2>1. ep[t] \notin SetupFns
    BY DEF OwnInv, EpCallCreate, SetupFns
  <2>2. CopyAndDestroy(sl)
    BY <2>1 DEF HostRecover, CreateTail, CallTail, ErrorWithMessage, Slot
  <2>. QED
    BY <2>2 DEF CopyAndDestroy
<1>3. \A s \in Threads : s # t /\ pc[s] # "Idle" => cid[s] # c /\ cid[s] \in CallIds
  BY <1>0, ActiveCid DEF OwnInv, DistinctCids
\* A vector that changes is the one destroyed.
<1>4. ASSUME NEW b \in BufIds, buf'[b] # buf[b] \/ rel'[b] # rel[b]
      PROVE  /\ sl # None /\ b = sl
             /\ buf[b] = "Host" /\ buf'[b] = "Released" /\ rel[b] = 0 /\ rel'[b] = 1
  <2>1. sl # None
    BY <1>2, <1>4
  <2>2. sl = <<c, SlotKind(t)>> /\ sl \in BufIds
    BY <1>0, <1>1, <2>1 DEF BufIds
  <2>3. b = sl
    BY <1>0, <1>2, <1>4, <2>1, <2>2 DEF TypeOK
  <2>4. buf[sl] = "Host"
    BY <1>0, <1>1, <2>2
  <2>5. rel[sl] = 0
    BY <2>2, <2>4 DEF OwnInv, RelMatches
  <2>. QED
    BY <1>0, <1>2, <2>1, <2>2, <2>3, <2>4, <2>5 DEF TypeOK
<1>5. EpCallCreate' /\ DistinctCids'
  BY <1>0 DEF OwnInv, EpCallCreate, DistinctCids, TypeOK
<1>6. RelMatches'
  <2> SUFFICES ASSUME NEW b \in BufIds
               PROVE  rel'[b] = IF buf'[b] = "Released" THEN 1 ELSE 0
    BY DEF RelMatches
  <2>1. CASE buf'[b] = buf[b] /\ rel'[b] = rel[b]
    BY <2>1 DEF OwnInv, RelMatches
  <2>. QED
    BY <1>4, <2>1
<1>7. FreshUnalloc'
  <2> SUFFICES ASSUME NEW b \in BufIds, b[1] >= nextCid'
               PROVE  buf'[b] = "Unalloc"
    BY DEF FreshUnalloc
  <2>1. b[1] \in Nat /\ c \in Nat /\ nextCid \in Nat /\ b[1] >= nextCid /\ c < nextCid
    BY <1>0 DEF BufIds, CallIds, TypeOK
  <2>2. b[1] # c
    BY <2>1
  <2>3. buf'[b] = buf[b]
    <3>1. SUFFICES ASSUME buf'[b] # buf[b] PROVE FALSE
      OBVIOUS
    <3>2. b = sl /\ sl # None
      BY <1>4, <3>1
    <3>3. b = <<c, SlotKind(t)>>
      BY <1>0, <3>2
    <3>. QED
      BY <2>2, <3>3
  <2>. QED
    BY <2>1, <2>3 DEF OwnInv, FreshUnalloc
\* The vectors of the other calls in progress are left alone.
<1>8. ASSUME NEW s \in Threads, s # t, pc[s] # "Idle"
      PROVE  \A k \in {"res", "err"} : buf'[<<cid[s], k>>] = buf[<<cid[s], k>>]
  <2>1. cid[s] # c /\ cid[s] \in CallIds
    BY <1>3, <1>8
  <2>. QED
    BY <1>0, <1>1, <1>4, <2>1 DEF BufIds
<1>9. EngineClean'
  <2> SUFFICES ASSUME NEW s \in Threads, pc'[s] = "Engine"
               PROVE  errSlot'[s] = None
                      /\ \A k \in {"res", "err"} : buf'[<<cid'[s], k>>] = "Unalloc"
    BY DEF EngineClean
  <2>1. s # t /\ pc[s] = "Engine"
    BY <1>0 DEF TypeOK
  <2>. QED
    BY <1>0, <1>8, <2>1 DEF OwnInv, EngineClean
<1>10. ReturnedSlots'
  <2> SUFFICES ASSUME NEW s \in Threads, pc'[s] = "Returned"
               PROVE  /\ Slot(s)' \in {None, <<cid'[s], SlotKind(s)'>>}
                      /\ \A k \in {"res", "err"} :
                           buf'[<<cid'[s], k>>] = IF Slot(s)' = <<cid'[s], k>> THEN "Host" ELSE "Unalloc"
    BY DEF ReturnedSlots
  <2>1. s # t /\ pc[s] = "Returned"
    BY <1>0 DEF TypeOK
  <2>2. Slot(s)' = Slot(s) /\ SlotKind(s)' = SlotKind(s)
    BY <1>0 DEF Slot, SlotKind
  <2>. QED
    BY <1>0, <1>8, <2>1, <2>2 DEF OwnInv, ReturnedSlots
<1>11. HostOwned'
  <2> SUFFICES ASSUME NEW b \in BufIds, buf'[b] = "Host"
               PROVE  \E u \in Threads : pc'[u] = "Returned" /\ cid'[u] = b[1]
    BY DEF HostOwned
  <2>1. buf[b] = "Host"
    BY <1>4
  <2>2. PICK u \in Threads : pc[u] = "Returned" /\ cid[u] = b[1]
    BY <2>1 DEF OwnInv, HostOwned
  <2>3. u # t
    <3>1. SUFFICES ASSUME u = t PROVE FALSE
      OBVIOUS
    <3>2. b = <<c, b[2]>> /\ b[2] \in {"res", "err"}
      BY <2>2, <3>1 DEF BufIds
    <3>3. sl = b
      BY <1>0, <2>1, <3>2
    <3>4. buf'[b] = "Released"
      BY <1>0, <1>1, <1>2, <3>3 DEF TypeOK
    <3>. QED
      BY <3>4
  <2>. QED
    BY <1>0, <2>2, <2>3 DEF TypeOK
<1>. QED
  BY <1>5, <1>6, <1>7, <1>9, <1>10, <1>11 DEF OwnInv

LEMMA NextOwnInv ==
  ASSUME CallCreateOnly, TypeInv, OwnInv, [Next]_vars
  PROVE  OwnInv'
<1>0. GasLimits \subseteq Nat
  BY BridgeAssumption
<1>1. CASE UNCHANGED vars
  BY <1>1, FrozenOwnInv DEF vars, Frozen
<1>2. ASSUME NEW t \in Threads,
             \/ \E lim \in GasLimits : Call(t, lim) \/ Create(t, lim)
             \/ SetupSeedNode(t) \/ SetupRegularNode(t) \/ RequestSeed(t)
             \/ CreateAttestationReport(t)
      PROVE  OwnInv'
  BY <1>0, <1>2, EnterEngineOwnInv
     DEF Call, Create, SetupSeedNode, SetupRegularNode, RequestSeed, CreateAttestationReport
\* The callbacks leave the vectors, the slots and the threads' calls alone.
<1>3. ASSUME NEW t \in Threads,
             \/ \E k \in Keys : DoGet(t, k)
             \/ \E k \in Keys, v \in KVVals : DoSet(t, k, v)
             \/ \E k \in Keys : DoDelete(t, k)
             \/ \E lo \in Keys, hi \in Keys, ord \in {"Asc", "Desc"} :
                  lo < hi /\ DoScan(t, lo, hi, ord)
             \/ \E h \in held : DoNext(t, h)
             \/ \E ok \in BOOLEAN : DoAddress(t, ok)
             \/ \E gl \in QueryGasLimits, r \in Requests, f \in BOOLEAN : DoQuery(t, gl, r, f)
      PROVE  OwnInv'
  <2>1. UNCHANGED Frozen
    BY <1>3 DEF DoGet, DoSet, DoDelete, DoScan, DoNext, DoAddress, DoQuery, Frozen
  <2>. QED
    BY <2>1, FrozenOwnInv
<1>4. ASSUME NEW t \in Threads, \E ok, withMsg \in BOOLEAN : EngineReturn(t, ok, withMsg)
      PROVE  OwnInv'
  BY <1>4, EngineReturnOwnInv
<1>5. ASSUME NEW t \in Threads, HostRecover(t) PROVE OwnInv'
  BY <1>5, HostRecoverOwnInv
<1>. QED
  BY <1>1, <1>2, <1>3, <1>4, <1>5 DEF Next

\* The invariant the ownership theorems rest on.
Inv == TypeInv /\ OwnInv

LEMMA InvInductive ==
  ASSUME CallCreateOnly
  PROVE  /\ Init => Inv
         /\ Inv /\ [Next]_vars => Inv'
<1>1. Init => Inv
  BY InitTypeInv, InitOwnInv DEF Inv
<1>2. Inv /\ [Next]_vars => Inv'
  BY NextTypeInv, NextOwnInv DEF Inv
<1>. QED
  BY <1>1, <1>2

-----------------------------------------------------------------------------
(* With Call and Create as the entry points, every owned vector the engine *)
(* hands back (a result or an error message) is destroyed at most once,    *)
(* for any number of threads and calls: RelMatches ties each destroy to    *)
(* the one Host-to-Released step of the vector, and FreshUnalloc,          *)
(* DistinctCids and ReturnedSlots keep a later call from reaching a vector *)
(* of an earlier one.                                                      *)
THEOREM ReleasedOnceProved ==
  ASSUME CallCreateOnly
  PROVE  Spec => []OwnedBuffersReleasedOnce
<1>1. Inv => OwnedBuffersReleasedOnce
  BY DEF Inv, OwnInv, RelMatches, OwnedBuffersReleasedOnce
<1>. QED
  BY <1>1, InvInductive, PTL DEF Spec

(* With Call and Create as the entry points, once a call has returned to  *)
(* its Go caller no vector of it is still held by the host: HostOwned      *)
(* names, for every held vector, the thread that has still to recover it. *)
THEOREM NoLeakProved ==
  ASSUME CallCreateOnly
  PROVE  Spec => []NoLeakAfterReturn
<1>1. Inv => NoLeakAfterReturn
  BY DEF Inv, OwnInv, HostOwned, NoLeakAfterReturn
<1>. QED
  BY <1>1, InvInductive, PTL DEF Spec

-----------------------------------------------------------------------------
(* The refinement: each step of the bridge is a step of BufferOwnership    *)
(* under the mapping CallStatus, Life, rel, or leaves all three alone.     *)

LEMMA InitRefines == Init => OwnershipSpec!Init
<1> SUFFICES ASSUME Init
             PROVE  /\ CallStatus = [c \in CallIds |-> "Pending"]
                    /\ Life = [b \in BufIds |-> "Unalloc"]
                    /\ rel = [b \in BufIds |-> 0]
  BY DEF OwnershipSpec!Init, OwnershipSpec!Bufs, BufIds
<1>1. CallStatus = [c \in CallIds |-> "Pending"]
  BY DEF Init, CallStatus, CallIds
<1>. QED
  BY <1>1 DEF Init, Life

LEMMA FrozenRefines ==
  ASSUME UNCHANGED Frozen
  PROVE  UNCHANGED OwnershipSpec!vars
BY DEF Frozen, OwnershipSpec!vars, CallStatus, Life

LEMMA EnterEngineRefines ==
  ASSUME Inv, NEW t \in Threads, NEW e, NEW lim \in Nat, EnterEngine(t, e, lim)
  PROVE  OwnershipSpec!Start(nextCid) /\ nextCid \in CallIds
<1>0. /\ TypeOK /\ CidsIssued
      /\ pc[t] = "Idle" /\ nextCid \in CallIds
      /\ pc' = [pc EXCEPT ![t] = "Engine"] /\ cid' = [cid EXCEPT ![t] = nextCid]
      /\ nextCid' = nextCid + 1
      /\ UNCHANGED <<buf, rel>>
  <2>1. MaxCalls \in Nat
    BY BridgeAssumption
  <2>. QED
    BY <2>1 DEF Inv, TypeInv, TypeOK, EnterEngine, CallIds
<1>1. CallStatus[nextCid] = "Pending"
  BY <1>0 DEF CallStatus, CallIds
<1>2. ASSUME NEW c \in CallIds
      PROVE  CallStatus'[c] = IF c = nextCid THEN "Running" ELSE CallStatus[c]
  <2>1. c \in Nat /\ nextCid \in Nat
    BY <1>0 DEF CallIds
  <2>2. CASE c = nextCid
    <3>1. pc'[t] # "Idle" /\ cid'[t] = c /\ ~(c >= nextCid')
      BY <1>0, <2>1, <2>2 DEF TypeOK
    <3>2. \E s \in Threads : pc'[s] # "Idle" /\ cid'[s] = c
      BY <3>1
    <3>. QED
      BY <2>2, <3>1, <3>2 DEF CallStatus
  <2>3. CASE c > nextCid
    BY <1>0, <2>1, <2>3 DEF CallStatus
  <2>4. CASE c < nextCid
    <3>1. (\E s \in Threads : pc'[s] # "Idle" /\ cid'[s] = c)
            <=> (\E s \in Threads : pc[s] # "Idle" /\ cid[s] = c)
      BY <1>0, <2>4 DEF TypeOK
    <3>. QED
      BY <1>0, <2>1, <2>4, <3>1 DEF CallStatus
  <2>. QED
    BY <2>1, <2>2, <2>3, <2>4
<1>3. CallStatus' = [CallStatus EXCEPT ![nextCid] = "Running"]
  BY <1>0, <1>2 DEF CallStatus
<1>4. Life' = Life
  BY <1>0 DEF Life
<1>. QED
  BY <1>0, <1>1, <1>3, <1>4 DEF OwnershipSpec!Start

\* CallStatus only reads which threads are busy, their calls and nextCid.
LEMMA StatusKept ==
  ASSUME TypeOK, pc' \in [Threads -> {"Idle", "Engine", "Returned"}],
         \A s \in Threads : (pc'[s] = "Idle") <=> (pc[s] = "Idle"),
         UNCHANGED <<cid, nextCid>>
  PROVE  CallStatus' = CallStatus
BY DEF CallStatus, TypeOK

LEMMA EngineReturnRefines ==
  ASSUME Inv, NEW t \in Threads, NEW ok \in BOOLEAN, NEW withMsg \in BOOLEAN,
         EngineReturn(t, ok, withMsg)
  PROVE  \/ \E b \in BufIds : OwnershipSpec!Alloc(b)
         \/ UNCHANGED OwnershipSpec!vars
<1> DEFINE c == cid[t]
<1>0. /\ TypeOK /\ CidsIssued
      /\ pc[t] = "Engine" /\ c \in CallIds /\ c < nextCid
      /\ pc' = [pc EXCEPT ![t] = "Returned"]
      /\ UNCHANGED <<cid, nextCid, rel>>
      /\ buf[<<c, "res">>] = "Unalloc" /\ buf[<<c, "err">>] = "Unalloc"
  BY ActiveCid DEF Inv, TypeInv, TypeOK, CidsIssued, EngineReturn, OwnInv, EngineClean
<1>1. CallStatus' = CallStatus
  <2>1. pc' \in [Threads -> {"Idle", "Engine", "Returned"}]
    BY <1>0 DEF TypeOK
  <2>2. \A s \in Threads : (pc'[s] = "Idle") <=> (pc[s] = "Idle")
    BY <1>0 DEF TypeOK
  <2>. QED
    BY <1>0, <2>1, <2>2, StatusKept
<1>2. CallStatus[c] = "Running"
  <2>1. c \in Nat /\ nextCid \in Nat /\ ~(c >= nextCid)
    BY <1>0 DEF CallIds, TypeOK
  <2>2. \E s \in Threads : pc[s] # "Idle" /\ cid[s] = c
    BY <1>0
  <2>. QED
    BY <1>0, <2>1, <2>2 DEF CallStatus
<1>3. Life \in [BufIds -> {"Unalloc", "Owned", "Released"}]
  BY <1>0 DEF Life, TypeOK
\* The vector handed over, its call running and it not yet allocated.
<1>4. ASSUME NEW k \in {"res", "err"},
             buf' = [buf EXCEPT ![<<c, k>>] = "Host"]
      PROVE  OwnershipSpec!Alloc(<<c, k>>)
  <2>1. <<c, k>> \in BufIds /\ Life[<<c, k>>] = "Unalloc"
    BY <1>0 DEF BufIds, Life, TypeOK
  <2>2. Life' = [Life EXCEPT ![<<c, k>>] = "Owned"]
    BY <1>0, <1>4, <2>1 DEF Life, TypeOK
  <2>. QED
    BY <1>0, <1>1, <1>2, <2>1, <2>2 DEF OwnershipSpec!Alloc
<1>5. CASE ok
  <2>1. buf' = [buf EXCEPT ![<<c, "res">>] = "Host"]
    BY <1>5 DEF EngineReturn
  <2>. QED
    BY <1>0, <1>4, <2>1 DEF BufIds
<1>6. CASE ~ok /\ withMsg
  <2>1. buf' = [buf EXCEPT ![<<c, "err">>] = "Host"]
    BY <1>6 DEF EngineReturn
  <2>. QED
    BY <1>0, <1>4, <2>1 DEF BufIds
<1>7. CASE ~ok /\ ~withMsg
  <2>1. UNCHANGED buf
    BY <1>7 DEF EngineReturn
  <2>. QED
    BY <1>0, <1>1, <2>1 DEF OwnershipSpec!vars, Life
<1>. QED
  BY <1>5, <1>6, <1>7

LEMMA HostRecoverRefines ==
  ASSUME Inv, NEW t \in Threads, HostRecover(t)
  PROVE  OwnershipSpec!End(cid[t]) /\ cid[t] \in CallIds
<1> DEFINE c == cid[t]
           sl == Slot(t)
<1>0. /\ TypeOK /\ CidsIssued /\ OwnInv
      /\ pc[t] = "Returned" /\ c \in CallIds /\ c < nextCid
      /\ pc' = [pc EXCEPT ![t] = "Idle"]
      /\ UNCHANGED <<cid, nextCid>>
      /\ sl \in {None, <<c, SlotKind(t)>>}
      /\ \A k \in {"res", "err"} : buf[<<c, k>>] = IF sl = <<c, k>> THEN "Host" ELSE "Unalloc"
  BY ActiveCid DEF Inv, TypeInv, TypeOK, CidsIssued, HostRecover, OwnInv, ReturnedSlots
<1>1. None \notin BufIds /\ SlotKind(t) \in {"res", "err"}
  BY BridgeAssumption DEF SlotKind
<1>2. /\ sl = None => UNCHANGED <<buf, rel>>
      /\ sl # None => /\ buf' = [buf EXCEPT ![sl] = "Released"]
                      /\ rel' = [rel EXCEPT ![sl] = @ + 1]
  <2>1. ep[t] \notin SetupFns
    BY <1>0 DEF OwnInv, EpCallCreate, SetupFns
  <2>2. CopyAndDestroy(sl)
    BY <2>1 DEF HostRecover, CreateTail, CallTail, ErrorWithMessage, Slot
  <2>. QED
    BY <2>2 DEF CopyAndDestroy
<1>3. \A s \in Threads : s # t /\ pc[s] # "Idle" => cid[s] # c
  BY <1>0 DEF OwnInv, DistinctCids
<1>4. CallStatus[c] = "Running"
  <2>1. c \in Nat /\ nextCid \in Nat /\ ~(c >= nextCid)
    BY <1>0 DEF CallIds, TypeOK
  <2>. QED
    BY <1>0, <2>1 DEF CallStatus
<1>5. ASSUME NEW d \in CallIds
      PROVE  CallStatus'[d] = IF d = c THEN "Ended" ELSE CallStatus[d]
  <2>1. d \in Nat /\ nextCid \in Nat /\ c \in Nat
    BY <1>0 DEF CallIds, TypeOK
  <2>2. CASE d = c
    <3>1. ~(d >= nextCid')
      BY <1>0, <2>1, <2>2
    <3>2. ~\E s \in Threads : pc'[s] # "Idle" /\ cid'[s] = d
      BY <1>0, <1>3, <2>2 DEF TypeOK
    <3>. QED
      BY <2>2, <3>1, <3>2 DEF CallStatus
  <2>3. CASE d # c
    <3>1. (\E s \in Threads : pc'[s] # "Idle" /\ cid'[s] = d)
            <=> (\E s \in Threads : pc[s] # "Idle" /\ cid[s] = d)
      BY <1>0, <2>3 DEF TypeOK
    <3>. QED
      BY <1>0, <2>3, <3>1 DEF CallStatus
  <2>. QED
    BY <2>2, <2>3
<1>6. CallStatus' = [CallStatus EXCEPT ![c] = "Ended"]
  BY <1>0, <1>5 DEF CallStatus
\* The one vector the call owns, if any, is the one destroyed.
<1>7. ASSUME NEW b \in BufIds
      PROVE  /\ Life'[b] = IF b[1] = c /\ Life[b] = "Owned" THEN "Released" ELSE Life[b]
             /\ rel'[b] = IF b[1] = c /\ Life[b] = "Owned" THEN rel[b] + 1 ELSE rel[b]
  <2>1. buf \in [BufIds -> {"Unalloc", "Host", "Released"}] /\ rel \in [BufIds -> Nat]
    BY <1>0 DEF TypeOK
  <2>2. CASE sl # None /\ b = sl
    <3>1. sl = <<c, SlotKind(t)>> /\ sl \in BufIds
      BY <1>0, <1>1, <2>2 DEF BufIds
    <3>2. buf[b] = "Host" /\ b[1] = c
      BY <1>0, <1>1, <2>2, <3>1
    <3>3. buf'[b] = "Released" /\ rel'[b] = rel[b] + 1
      BY <1>2, <2>1, <2>2, <3>1
    <3>. QED
      BY <3>2, <3>3 DEF Life
  <2>3. CASE sl = None \/ b # sl
    <3>1. buf'[b] = buf[b] /\ rel'[b] = rel[b]
      BY <1>2, <2>1, <2>3
    <3>2. b[1] = c => buf[b] # "Host"
      <4>1. SUFFICES ASSUME b[1] = c PROVE buf[b] # "Host"
        OBVIOUS
      <4>2. b = <<c, b[2]>> /\ b[2] \in {"res", "err"}
        BY <4>1 DEF BufIds
      <4>3. sl # <<c, b[2]>>
        BY <2>3, <4>2, <1>1 DEF BufIds
      <4>. QED
        BY <1>0, <4>2, <4>3
    <3>. QED
      BY <2>1, <3>1, <3>2 DEF Life
  <2>. QED
    BY <2>2, <2>3
<1>8. /\ Life' = [b \in BufIds |-> IF b[1] = c /\ Life[b] = "Owned" THEN "Released" ELSE Life[b]]
      /\ rel' = [b \in BufIds |-> IF b[1] = c /\ Life[b] = "Owned" THEN rel[b] + 1 ELSE rel[b]]
  <2>2. Life' = [b \in BufIds |-> IF b[1] = c /\ Life[b] = "Owned" THEN "Released" ELSE Life[b]]
    BY <1>7 DEF Life
  <2>3. rel' = [b \in BufIds |-> IF b[1] = c /\ Life[b] = "Owned" THEN rel[b] + 1 ELSE rel[b]]
    <3>1. \A b \in BufIds : rel'[b] = IF b[1] = c /\ Life[b] = "Owned" THEN rel[b] + 1 ELSE rel[b]
      BY <1>7
    <3>2. rel' \in [BufIds -> Nat]
      <4>1. rel \in [BufIds -> Nat]
        BY <1>0 DEF TypeOK
      <4>2. CASE sl = None
        BY <1>2, <4>1, <4>2
      <4>3. CASE sl # None
        <5>1. sl \in BufIds
          BY <1>0, <1>1, <4>3 DEF BufIds
        <5>. QED
          BY <1>2, <4>1, <4>3, <5>1
      <4>. QED
        BY <4>2, <4>3
    <3>. QED
      BY <3>1, <3>2
  <2>. QED
    BY <2>2, <2>3
<1>. QED
  BY <1>0, <1>4, <1>6, <1>8 DEF OwnershipSpec!End, OwnershipSpec!Bufs, BufIds

LEMMA NextRefines ==
  ASSUME CallCreateOnly, Inv, [Next]_vars
  PROVE  [OwnershipSpec!Next]_OwnershipSpec!vars
<1>0. GasLimits \subseteq Nat
  BY BridgeAssumption
<1>1. CASE UNCHANGED vars
  BY <1>1, FrozenRefines DEF vars, Frozen
<1>2. ASSUME NEW t \in Threads,
             \/ \E lim \in GasLimits : Call(t, lim) \/ Create(t, lim)
             \/ SetupSeedNode(t) \/ SetupRegularNode(t) \/ RequestSeed(t)
             \/ CreateAttestationReport(t)
      PROVE  [OwnershipSpec!Next]_OwnershipSpec!vars
  <2>1. \E e : \E lim \in Nat : EnterEngine(t, e, lim)
    BY <1>0, <1>2
       DEF Call, Create, SetupSeedNode, SetupRegularNode, RequestSeed, CreateAttestationReport
  <2>2. PICK e : \E lim \in Nat : EnterEngine(t, e, lim)
    BY <2>1
  <2>3. PICK lim \in Nat : EnterEngine(t, e, lim)
    BY <2>2
  <2>. QED
    BY <2>3, EnterEngineRefines DEF OwnershipSpec!Next
<1>3. ASSUME NEW t \in Threads,
             \/ \E k \in Keys : DoGet(t, k)
             \/ \E k \in Keys, v \in KVVals : DoSet(t, k, v)
             \/ \E k \in Keys : DoDelete(t, k)
             \/ \E lo \in Keys, hi \in Keys, ord \in {"Asc", "Desc"} :
                  lo < hi /\ DoScan(t, lo, hi, ord)
             \/ \E h \in held : DoNext(t, h)
             \/ \E ok \in BOOLEAN : DoAddress(t, ok)
             \/ \E gl \in QueryGasLimits, r \in Requests, f \in BOOLEAN : DoQuery(t, gl, r, f)
      PROVE  [OwnershipSpec!Next]_OwnershipSpec!vars
  <2>1. UNCHANGED Frozen
    BY <1>3 DEF DoGet, DoSet, DoDelete, DoScan, DoNext, DoAddress, DoQuery, Frozen
  <2>. QED
    BY <2>1, FrozenRefines
<1>4. ASSUME NEW t \in Threads, \E ok, withMsg \in BOOLEAN : EngineReturn(t, ok, withMsg)
      PROVE  [OwnershipSpec!Next]_OwnershipSpec!vars
  <2>1. \/ \E b \in BufIds : OwnershipSpec!Alloc(b)
        \/ UNCHANGED OwnershipSpec!vars
    BY <1>4, EngineReturnRefines
  <2>. QED
    BY <2>1 DEF OwnershipSpec!Next, OwnershipSpec!Bufs, BufIds
<1>5. ASSUME NEW t \in Threads, HostRecover(t)
      PROVE  [OwnershipSpec!Next]_OwnershipSpec!vars
  BY <1>5, HostRecoverRefines DEF OwnershipSpec!Next
<1>. QED
  BY <1>1, <1>2, <1>3, <1>4, <1>5 DEF Next

(* The bridge implements BufferOwnership when its entry points are Call    *)
(* and Create: under the mapping CallStatus, Life and rel, every behaviour *)
(* of any number of threads making any number of calls, with every        *)
(* interleaving of their callbacks, returns and recoveries, is a behaviour *)
(* of the abstract specification, in which a call destroys exactly the    *)
(* vectors it owns, once, when it ends.                                    *)
THEOREM BridgeImplementsOwnership ==
  ASSUME CallCreateOnly
  PROVE  Spec => BridgeOwnership
<1>1. Init => OwnershipSpec!Init
  BY InitRefines
<1>2. Inv /\ [Next]_vars => [OwnershipSpec!Next]_OwnershipSpec!vars
  BY NextRefines
<1>3. Init => Inv /\ (Inv /\ [Next]_vars => Inv')
  BY InvInductive
<1>. QED
  BY <1>1, <1>2, <1>3, InvInductive, PTL DEF Spec, BridgeOwnership, OwnershipSpec!Spec

=============================================================================
