# TLA+ models of the librustgo host bridge

This directory holds TLA+ specifications of the Go side of `librustgo`. That side
is the host half of the cgo bridge through which a Cosmos node drives the
Swisstronik EVM engine, which runs in an SGX enclave. It also holds the TLC
configurations that model-check the specifications, and TLAPS proofs about them.

## 1. The system

| Part | Source | What it does |
|---|---|---|
| Entry points | `src/internal/api/lib.go` `Call`, `Create` | Marshal the request, hand it to the engine as a borrowed view (`MakeView`, kept alive by `runtime.KeepAlive`), and block in `C.make_pb_request(c, d, &errmsg)`. On error, return `ErrorWithMessage(err, errmsg)`, which destroys errmsg. Otherwise, destroy the result with `CopyAndDestroyUnmanagedVector(ptr)` and decode it; a decode failure calls `log.Fatalln`. |
| Setup requests | `lib.go` `SetupSeedNode`, `SetupRegularNode`, `RequestSeed`, `CreateAttestationReport` | Same shape, through `C.handle_initialization_request(d, &errmsg)`. There is no connector and no gas. The outcome is discarded (`_ = ...`) and errmsg is never destroyed. |
| Callback gateways | `src/api/callbacks_cgo.go` | C declarations and gateways of `cGet`, `cSet`, `cDelete`, `cScan`, `cNext`, `cHumanAddress`, `cCanonicalAddress` and `cQueryExternal`. The KV and iterator callbacks take a gas meter; the address and querier callbacks only report `used_gas`. Their Go bodies (`callbacks.go`) are not in `src/`, and `lib.go` passes only the connector to `make_pb_request`, so how the meter and the store reach them is taken from the specification. |
| Querier | `src/cmd/demo/connector.go` `MockedConnector.Query` | Decodes a `CosmosRequest` and dispatches on its variant to a `MockedDB` operation. An error from the database is returned as `(nil, err)`. |
| Seed server | `lib.go` `StartSeedServer`, `Listen` | Opens a listener and starts a serving goroutine. Then it waits for an error on the unbuffered `errCh` or for a 5-second timer, and returns the server and `httpSrvDone`. |
| IBC types | `src/types/ibc.go` | The channel messages are structs of optional (`omitempty`) variant pointers, mirroring one-variant Rust enums. `GetChannel` reads the first variant and dereferences the second without a nil check. `GetCounterVersion` reads the variant that carries a version. `IBCTimeoutBlock.IsZero` tests the zero height. |
| Access lists | `lib.go` `convertAccessList`, `convertAccessListStorageSlots` | Two nested loops that copy the caller's access list into the request's protobuf items, converting addresses and keys to byte slices. |

How the parts interact: a host goroutine enters the engine through an entry point. While it is
blocked there, the engine calls back into the host, on the same goroutine, any number
of times. A callback charges the call's gas (in the model, one meter per call, following
the specification), then acts on the KV store, the call's iterator registry, the address
codec or the querier. When the engine returns,
the host owns the vector the engine handed back: the result or the error message. The
host must destroy it exactly once. Several goroutines may be inside the engine at
once, each with its own meter and iterators, sharing the store and the querier's database.

Hard behaviours in this code:
- Interleaved callbacks of concurrent calls.
- The errmsg / result ownership hand-over on the success and error paths.
- A sub-query budget capped by the parent's remainder.
- Iterator handles kept by the engine across calls.
- A timer racing a late failure in the seed server.

## 2. Modules

| Module | Models | State | Actions |
|---|---|---|---|
| `Connector` | `MockedConnector.Query` (connector.go 17-107) | none (a pure operator over a database value) | `Query(db, r, dbFails)`: one arm per request variant, the database error path, and the `wrong query` fall-through |
| `Bridge` | entry points, Setup requests, gas relay, KV adapter, iterator registry, address codec, querier adapter | `pc`, `ep`, `cid` per thread; `meter`, `engGas`; `kv`, `db`; `frames` (iterators per call id); `held` (handles the engine has); `buf`/`rel` (state and destroy count of each owned vector); `errSlot`/`resSlot` per thread; `event` (the last step) | `Call`, `Create`, the four Setup requests (all through `EnterEngine`), `DoGet`, `DoSet`, `DoDelete`, `DoScan`, `DoNext`, `DoAddress`, `DoQuery`, `EngineReturn`, `HostRecover` |
| `MCBridge` | the small instance for TLC | | |
| `BridgeProofs` | TLAPS proofs about `Bridge` | | |
| `BufferOwnership` | the abstract promise of the hand-over: calls start, the engine hands over a call's result or error vector, a call ends by destroying what it owns | `status` per call, `life` and `destroyed` per vector | `Start`, `Alloc`, `End` |
| `OwnershipProofs` | TLAPS proofs of the ownership invariants and of the refinement | | |
| `IBC` | ibc.go 16-129 | `msg` (the decoded message), `out` (what the getters returned), `done` | `Receive(m)` over every message json decoding can produce, `Handle` (the getters of the message's type) |
| `AccessList` | lib.go 330-351 | `list`, `pc`, `i`, `j`, `converted`, `slots` | `Convert(l)`, `Outer` (one iteration of the range over the list), `Inner` (one iteration of the range over a tuple's keys, or the item append) |
| `IBCProofs` | TLAPS proofs of the IBC getter properties | | |
| `AccessListProofs` | TLAPS proofs of the access-list conversion | | |
| `SeedServer` | `StartSeedServer` and `Listen` (lib.go 112-199) | `caller`, `server`, `shutdown`, `done` | `ListenFails`, `ListenOk`, `ServeFails`, `ServeClosed`, `ErrHandOff` (the unbuffered send meeting the select), `TimerFires`, `Shutdown` |

### Correspondence to the code

- **`EnterEngine(t, e, lim)`** is lib.go 256-261.
  - It is taken only when `pc[t] = "Idle"`.
  - It gives the call a fresh call id, and `StartMeter` gives it a meter with the call's limit and nothing used. The meter has no line in `lib.go` (the connector is the only thing passed); it is spec-modelled.
  - It resets errmsg to the none vector (`NewUnmanagedVector(nil)`).
  - The thread then blocks in the engine (`pc = "Engine"`).
  - `Call` and `Create` pass a gas limit from `GasLimits`. The Setup requests pass none.
- **`EngineReturn(t, ok, withMsg)`** is the engine returning from `make_pb_request`.
  - On success it hands back an owned result vector.
  - On error (always the case after OutOfGas) it may have written an owned message into errmsg.
- **`HostRecover(t)`** is the Go code after the engine call. Its tail is `CallTail` (lines 262-273) or `CreateTail` (lines 316-327), which have the same shape:
  - an error is returned through `ErrorWithMessage`, which destroys errmsg;
  - a success copies and destroys `ptr`;
  - a Setup request does nothing (`_ = ...`).
  - `DropFrame` then drops the call's iterator frame. That is the registry's end of call from the specification (section 4.6), not a line of `lib.go`, and it is marked spec-modelled.
- **The callbacks** follow the specification's sections 4.3-4.7, because their Go bodies are not in `src/`. They are marked `spec_modelled` in `PROJECT.json`.
  - Each one charges with `CanCharge`/`Charge` before acting: a charge fits when `used + cost <= limit`.
  - A failed charge (`RunOutOfGas`) returns `OutOfGas` and changes nothing. The meter has no sticky exhaustion flag, since neither the code nor the specification gives it one.
  - After an `OutOfGas` the engine is not assumed to stop: it may keep calling back or return either way. This over-approximates the Rust engine, which is not in `src/`.
- **`DoScan`** adds an iterator to the call's frame and hands the engine its handle `(call id, index)`. The bound `MaxIters` on a frame's length is a model bound, in neither the code nor the specification; it keeps the state space finite.
- **`DoNext`**:
  - `Resolves` looks the handle up by its call id and index only. As in the source (spec section 9), it does not check that the handle belongs to the calling call, so a handle kept from another call that still has its frame resolves;
  - a handle that does not resolve is `InvalidArgument`;
  - otherwise the cursor moves to the first remaining key in the iterator's order;
  - an exhausted iterator stays exhausted.
- **`DoQuery`** runs `Connector!Query` under the budget `min(gas_limit, limit - used)`.
  - If the query needs more than the budget, the budget is charged and the database is left alone.
- **Abstractions.**
  - Protobuf encodings, addresses and payloads are model values or small records.
  - Keys are small naturals, ordered as numbers.
  - The engine is free: it may issue any callback sequence and return at any point.
  - `log.Fatalln` process exits are left out.
- **The refinement.** `Bridge` defines `OwnershipSpec == INSTANCE BufferOwnership WITH Calls <- CallIds, Kinds <- {"res","err"}, status <- CallStatus, life <- Life, destroyed <- rel`.
  - A call id is `Pending` until `EnterEngine` issues it, `Running` while a thread holds it, and `Ended` after.
  - A vector in state `Host` maps to `Owned`; the other states keep their name.
  - `EnterEngine` is `Start`, `EngineReturn` with a vector is `Alloc`, `HostRecover` is `End`, and every callback is a stutter.
- **IBC.** A nil pointer is the model value `Nil`; dereferencing it is the outcome `Panic`. `GetCounterVersion` returns Go's comma-ok pair `(version, ok)`, modelled as a pair whose second half is `TRUE` exactly when a version was found. Channels and versions are model values. The reference `Encode(e)` is the struct serde produces from a one-variant enum value `e`.
- **Access list.** `Address.Bytes()` and `Hash.Bytes()` are modelled by what they return: a slice of width 20 or 32 holding the value. Each loop iteration is one step.

## 3. Runs

| Run | Config | Expect | Checks | What it shows |
|---|---|---|---|---|
| `bridge_main` | `MCBridge.cfg` | pass | `TypeOK`, `OwnedBuffersReleasedOnce`, `GasAccounting` | Two goroutines run all six entry points concurrently: Call, Create and the four Setup requests. This covers every callback, OutOfGas, cut-off sub-queries, failing database operations, and handles kept from earlier or concurrent calls. No owned vector is destroyed twice, and every meter's `used` stays equal to the gas reported to the engine and within its limit. |
| `bridge_no_leak` | `MCBridgeCallCreate.cfg` | pass | `NoLeakAfterReturn` | With Call and Create as the entry points, a goroutine back from an entry point owns no vector: the result or the error message has been destroyed on every path. |
| `setup_errmsg_leak` | `MCBridgeSetupLeak.cfg` | violation | `NoLeakAfterReturn` | `SetupSeedNode` returns with the engine's error message still owned and never destroyed (finding 1). |
| `bridge_ownership` | `MCBridgeOwnership.cfg` | pass | `BridgeOwnership` | Two threads making three Calls and Creates implement `BufferOwnership`: every step is a call starting, a vector handed over, a call ending by destroying exactly what it owns, or a stutter. |
| `ibc_accessors` | `MCIBC.cfg` | pass | `TypeOK`, `PanicsOnlyWithoutVariant`, `MatchesEnum`, `ZeroIsLeastHeight` | On every decodable message, `GetChannel` panics exactly when no variant is set. On every message the Rust side can send, the getters agree with the enum variant. `IsZero` holds exactly of the least `(revision, height)`. |
| `access_list` | `MCAccessList.cfg` | pass | `TypeOK`, `ConvertedMatchesList` | The converted list is the caller's list, tuple by tuple, with each tuple's own keys and none carried over. |
| `seed_server_stuck` | `MCSeedServer.cfg` | violation | `ServerNeverStuck` | After the select takes the timer, a Serve failure blocks the serving goroutine for ever on `errCh` (finding 2). |

### Bounds

`MCBridge.cfg` checks 783K distinct states in about a minute, and `MCBridgeCallCreate.cfg` checks 670K. Their bounds are:
- 2 threads;
- all six entry points (`MCBridge.cfg`), or Call and Create (`MCBridgeCallCreate.cfg`);
- at most 2 calls (`MaxCalls`);
- one iterator per call (`MaxIters`, a model bound);
- keys {1,2};
- gas limit 3, with Set and Query costing 2 and the other callbacks 1;
- query gas limits {1,5}.

What these bounds make reachable:
- **Gas.** A Set can run out of gas where a Get still fits. A sub-query can be cut off by its own limit (1) or by the parent's remainder (5).
- **Reuse across calls.** Because two calls run in sequence, a goroutine can reuse its errmsg slot and the engine can present a handle of a finished call.
- **Concurrency.** Because two threads run at once, handles of a concurrent call can be presented and callbacks can interleave.

`MCBridgeOwnership.cfg` checks the temporal refinement property on 478K states in under a minute. It uses 3 calls, Call and Create only, one key and one querier request, because the property is about the vectors and not the callbacks.

`MCIBC.cfg` takes 3 channels, 2 versions and heights {0,1,2}. Every message with zero, one or two variants set is then enumerated, and a timeout block can differ from zero in either coordinate. `MCAccessList.cfg` enumerates every list of up to 2 tuples over 2 addresses with up to 2 keys over 2 hashes, so a tuple with keys can follow one without and vice versa.

Larger Bridge bounds (3 calls, richer database values) add no new control path and exceed the time budget.

### Deadlock and fairness

- `CHECK_DEADLOCK FALSE` in the Bridge configurations: once `MaxCalls` calls have finished, the idle host has nothing left to do.
- `CHECK_DEADLOCK FALSE` in `MCSeedServer.cfg`: `StartSeedServer` returns and the model ends there.
- `SeedServer` assumes weak fairness of the goroutine steps and of the timer: the Go scheduler runs runnable goroutines and a pending `time.After` fires. A Serve failure and the caller's shutdown are environment choices and get no fairness.
- Bridge properties are safety properties only, so no fairness is assumed there.

### Mutants

Each property of a passing run is broken by a plausible bug in the code it is about. Each mutant is written in `Bridge.tla` just before the definition it replaces:

| Mutant | Bug | Property it breaks |
|---|---|---|
| `DoScanHandleBeforeAppend` | off by one: the handle is the frame length before the append, so it names no iterator | `TypeOK` |
| `EnterEngineKeepErrmsg` | errmsg not reset at call start | `OwnedBuffersReleasedOnce` |
| `DoQueryChargeFull` | full cost charged instead of the budget | `GasAccounting` |
| `ErrorWithMessageNoDestroy` | errmsg not consumed | `NoLeakAfterReturn` |
| `EnterEngineKeepErrmsg` | errmsg not reset at call start | `BridgeOwnership` |
| `ConnectGetCounterVersionOkAlways` (IBC) | `ok` true even when no version is found | `TypeOK` |
| `CloseGetChannelNoCheck` (IBC) | first variant dereferenced without the nil check | `PanicsOnlyWithoutVariant` |
| `OpenGetCounterVersionWrongVariant` (IBC) | version taken from the variant that has none | `MatchesEnum` |
| `IsZeroEither` (IBC) | `||` for `&&` | `ZeroIsLeastHeight` |
| `AddressHashBytes` (AccessList) | `item.Address.Hash().Bytes()` for `item.Address.Bytes()`, 32 bytes instead of 20 | `TypeOK` |
| `OuterKeepSlots` (AccessList) | slot slice not started afresh per tuple | `ConvertedMatchesList` |

## 4. Proofs (`BridgeProofs`, `OwnershipProofs`, `IBCProofs`, `AccessListProofs`)

- **`TypeCorrect`**: `Spec => []TypeOK`.
- **`GasAccountingHolds`**: `Spec => []GasAccounting`.

Both hold for every value of the constants that satisfies `ConnectorAssumption` and `BridgeAssumption`.

`TypeOK` alone is not inductive, so both theorems rest on the inductive invariant `TypeInv == TypeOK /\ CidsIssued /\ GasInv`:
- **`CidsIssued`**: a thread that is not idle holds a call id in `1..nextCid-1`. It is needed because `HostRecover`, `EngineReturn` and `DoScan` index `frames` and `buf` by `cid[t]`, which must be a real call id.
- **`GasInv`**: for every thread, idle ones included, `engGas[t] = meter[t].used <= meter[t].limit`. It is needed because the query budget `limit - used` is a natural only when `used <= limit`.

The argument:
- `InitTypeInv` proves `Init => TypeInv`.
- `NextTypeInv` proves that every action preserves `TypeInv`. There is one lemma per action: `EnterEngineTypeInv`, `DoScanTypeInv`, `DoNextTypeInv`, `DoQueryTypeInv`, `EngineReturnTypeInv`, `HostRecoverTypeInv`. The plain callbacks are handled inline through `GasStepType`, `GasStepInv` and `FrozenType`.
- `QueryType` shows that `Connector!Query` keeps the database well typed for every request.
- `MeterExcept` writes the meter updates out as records.
- `GasStepInv` shows that a charge allowed by `CanCharge`, or an `OutOfGas` answer, keeps `GasInv`.
- The theorems follow by `PTL`.

`OwnershipProofs` proves, under the hypothesis `CallCreateOnly` (the entry points are Call and Create):
- **`ReleasedOnceProved`**: `Spec => []OwnedBuffersReleasedOnce`.
- **`NoLeakProved`**: `Spec => []NoLeakAfterReturn`.
- **`BridgeImplementsOwnership`**: `Spec => BridgeOwnership`, the refinement of `BufferOwnership`.

The hypothesis is needed: with Setup requests, `NoLeakAfterReturn` and the refinement are false (finding 1).

The inductive invariant is `Inv == TypeInv /\ OwnInv`. `OwnInv` has these conjuncts, each needed by some step:
- `EpCallCreate`: every thread's entry point is Call or Create.
- `RelMatches`: `rel[b]` is 1 exactly for a `Released` vector and 0 otherwise. This is the destroy count the abstract spec reads.
- `FreshUnalloc`: the vectors of a call id not yet issued are `Unalloc`. `EnterEngine` needs it to start a call with nothing owned.
- `DistinctCids`: two busy threads hold different call ids. Without it one thread's `HostRecover` could release another's vectors.
- `EngineClean`: a thread in the engine has its errmsg reset and owns none of its call's vectors yet.
- `ReturnedSlots`: a thread that has returned holds in its result or error slot exactly the vector it owns.
- `HostOwned`: a `Host` vector belongs to the call of a thread that is back from the engine and has not yet recovered.

The argument: `InitOwnInv` and `NextOwnInv` (one lemma per action: `FrozenOwnInv` for the callbacks, `EnterEngineOwnInv`, `EngineReturnOwnInv`, `HostRecoverOwnInv`) give `InvInductive`. For the refinement, `InitRefines` maps the initial state, and `NextRefines` maps each step: `EnterEngineRefines` to `Start(nextCid)`, `EngineReturnRefines` to `Alloc` or a stutter, `HostRecoverRefines` to `End(cid[t])`, and the callbacks to stutters (`FrozenRefines`, `StatusKept`). The temporal theorems follow by `PTL`.

`IBCProofs` proves, for every set of channels, versions and heights satisfying `IBCAssumption`:
- **`IBCTypeCorrect`**: `Spec => []TypeOK`, which includes that `GetCounterVersion`'s `ok` is true exactly when a version is returned.
- **`PanicsOnlyWithoutVariantHolds`**: `Spec => []PanicsOnlyWithoutVariant`.
- **`MatchesEnumHolds`**: `Spec => []MatchesEnum`.
- **`ZeroIsLeastHeightHolds`**: `Spec => []ZeroIsLeastHeight`.

The inductive invariant is `IBCInv`: the message is a decodable message or none; `done` implies a message; and `out` is exactly `Accessors(msg)` once handled and `Blank` before. `TypeOK` alone is not inductive because it does not tie `out` to `msg`. With `IBCInv`, each property becomes a fact about the pure getters, one lemma each:
- `PanicExactlyWithoutVariant`;
- `GettersMatchEnum`, split by variant;
- `IsZeroLeast`.

Two choices keep this provable without weakening anything:
- The empty string the Go getters return is named `NoVersion`, because the SMT backend cannot encode the literal `""`.
- `IBCAssumption` states that `Nil` is not a struct value, which is true of a Go nil pointer.

`AccessListProofs` proves, for all bounds satisfying `AccessListAssumption`:
- **`AccessListTypeCorrect`**: `Spec => []TypeOK`.
- **`ConvertedMatchesListHolds`**: `Spec => []ConvertedMatchesList`.

The loop invariant `ALInv` relates the nested loops to the result:
- the items converted so far are the prefix `ExpectedPrefix(list, i)` of `Expected(list)`;
- inside a tuple, the slots built so far are `KeySlots(list[i+1], j)`, that tuple's hashed keys up to `j`;
- at `Done`, `i = Len(list)`.

The `Inner` step is where a carried-over `slots` would break the invariant. Its proof rests on:
- `KeySlotsAppend` and `ExpectedItem`, which say what one append adds;
- `PrefixFacts`;
- `TypeOKPrimed`;
- `SequenceTheorems`.

What stays with TLC, beyond the reach of TLAPS:
- the liveness property of `SeedServer`, which needs fairness and `ENABLED`;
- the violations of the two `violation` runs, which are counterexamples, not theorems;
- `BridgeOwnership` and `NoLeakAfterReturn` with Setup requests as entry points, which are false (finding 1);
- the `Connector` operator on concrete databases, which is only exercised through `Bridge`'s `DoQuery`. Its typing is proved (`QueryType`), but no functional property of it is stated.

## 5. Findings

1. **Setup requests leak and swallow the engine's error.**
   - Where: lib.go 62, 82, 108, 218.
   - What the code does: it discards the result of `handle_initialization_request` and never destroys errmsg.
   - Spec §7 says the host must release every owned buffer, on error paths too.
   - `setup_errmsg_leak` shows the owned message still alive after `SetupSeedNode` has returned.
2. **The seed server's serving goroutine can block for ever.**
   - Where: lib.go 154/162.
   - What happens: `errCh` is unbuffered. Once the select has taken the 5-second timer, which Go may choose even when an error is already pending, a Serve error is sent to nobody.
   - Consequences: the goroutine blocks for ever, the error is lost, and `httpSrvDone` is never closed.

## 6. Not modelled

- `log.Fatalln` on a result that does not decode (lib.go 270, 324). The process exits, so there is no later state to check. Decoding is not modelled.
- The IBC packet and acknowledgement types (ibc.go 92-103, 131-215). They are data without behaviour.
- The combination of both variants of an IBC message. It decodes without error, and then `GetChannel` and `GetCounterVersion` answer from different variants. It is listed as a hazard, because no specification says what such a message means.
- The engine handle lifecycle (`InitCache`/`ReleaseCache`), which is not in `src/`.
- The Rust engine: it is a free environment in `Bridge`.
