-------------------------- MODULE BufferOwnership --------------------------
(***************************************************************************)
(* What the Go side of the bridge promises about the UnmanagedVectors the  *)
(* engine hands it, stated without threads, gas or callbacks.  Every call *)
(* has a result vector and an error-message vector.  A call starts, the   *)
(* engine may hand over (allocate) either vector while the call runs, and *)
(* when the entry point returns to its Go caller the call ends, destroying *)
(* at that moment every vector it owns, each exactly once.  A vector is   *)
(* never destroyed otherwise, nor after the end of its call.               *)
(*                                                                         *)
(* Module Bridge implements this specification under the mapping it gives *)
(* in BridgeOwnership.                                                     *)
(***************************************************************************)
EXTENDS Naturals

CONSTANTS
  Calls,   \* the ids of the calls made
  Kinds    \* the vectors of one call: its result and its error message

VARIABLES
  status,     \* per call: "Pending", "Running", "Ended"
  life,       \* per vector: "Unalloc", "Owned" (by the host), "Released"
  destroyed   \* per vector: how many times it has been destroyed

vars == <<status, life, destroyed>>

Bufs == Calls \X Kinds

Init ==
  /\ status = [c \in Calls |-> "Pending"]
  /\ life = [b \in Bufs |-> "Unalloc"]
  /\ destroyed = [b \in Bufs |-> 0]

(* A call enters the engine.                                               *)
Start(c) ==
  /\ status[c] = "Pending"
  /\ status' = [status EXCEPT ![c] = "Running"]
  /\ UNCHANGED <<life, destroyed>>

(* The engine hands a vector of a running call to the host.               *)
Alloc(b) ==
  /\ status[b[1]] = "Running"
  /\ life[b] = "Unalloc"
  /\ life' = [life EXCEPT ![b] = "Owned"]
  /\ UNCHANGED <<status, destroyed>>

(* The entry point returns: the vectors the call owns are destroyed once. *)
End(c) ==
  /\ status[c] = "Running"
  /\ status' = [status EXCEPT ![c] = "Ended"]
  /\ life' = [b \in Bufs |-> IF b[1] = c /\ life[b] = "Owned" THEN "Released" ELSE life[b]]
  /\ destroyed' = [b \in Bufs |-> IF b[1] = c /\ life[b] = "Owned"
                                    THEN destroyed[b] + 1 ELSE destroyed[b]]

Next ==
  \/ \E c \in Calls : Start(c) \/ End(c)
  \/ \E b \in Bufs : Alloc(b)

Spec == Init /\ [][Next]_vars

-----------------------------------------------------------------------------
TypeOK ==
  /\ status \in [Calls -> {"Pending", "Running", "Ended"}]
  /\ life \in [Bufs -> {"Unalloc", "Owned", "Released"}]
  /\ destroyed \in [Bufs -> Nat]

(* The promise itself: a vector is destroyed at most once, exactly when it *)
(* has been released; none is handed over before its call starts, and no  *)
(* vector of a call that has ended is still owned.                         *)
Ownership ==
  \A b \in Bufs :
    /\ status[b[1]] = "Pending" => life[b] = "Unalloc"
    /\ destroyed[b] = IF life[b] = "Released" THEN 1 ELSE 0
    /\ status[b[1]] = "Ended" => life[b] # "Owned"

=============================================================================
