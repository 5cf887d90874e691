---------------------------- MODULE SeedServer ----------------------------
(***************************************************************************)
(* StartSeedServer and Listen of internal/api/lib.go.  The caller's       *)
(* goroutine opens the listener, starts a serving goroutine and then waits *)
(* in a select for either an error from it on the unbuffered errCh or the  *)
(* 5-second timer, after which it assumes the server is up and returns it  *)
(* with httpSrvDone.  The serving goroutine closes httpSrvDone when Serve  *)
(* returns http.ErrServerClosed (the caller shut the server down) and      *)
(* sends any other error on errCh.                                         *)
(*                                                                         *)
(* Time is abstracted to the order of events: the timer may fire at any   *)
(* point while the caller waits, and Serve may fail at any point.          *)
(***************************************************************************)
EXTENDS Naturals

CONSTANTS
  ListenMayFail  \* whether net.Listen may fail (address in use, bad address)

VARIABLES
  caller,   \* the StartSeedServer goroutine: "Listen", "Select", "ReturnedOk",
            \* "ReturnedErr"
  server,   \* the serving goroutine: "NotStarted", "Serving", "Sending" (blocked
            \* in errCh <- err), "Exited"
  shutdown, \* the caller of StartSeedServer has shut the returned server down
  done      \* httpSrvDone has been closed

vars == <<caller, server, shutdown, done>>

Init ==
  /\ caller = "Listen"
  /\ server = "NotStarted"
  /\ shutdown = FALSE
  /\ done = FALSE

-----------------------------------------------------------------------------
(* Listen (and with it StartSeedServer) fails: net.Listen returned an      *)
(* error, which is returned before any goroutine is started.               *)
ListenFails ==
  /\ ListenMayFail
  /\ caller = "Listen"
  /\ caller' = "ReturnedErr"
  /\ UNCHANGED <<server, shutdown, done>>

(* Listen succeeds (wrapped in a LimitListener when maxOpenConnections is *)
(* positive); errCh is made and the serving goroutine is started, and the *)
(* caller enters the select.                                               *)
ListenOk ==
  /\ caller = "Listen"
  /\ caller' = "Select"
  /\ server' = "Serving"
  /\ UNCHANGED <<shutdown, done>>

(* httpSrv.Serve(ln) returns an error other than ErrServerClosed: the      *)
(* goroutine goes on to send it on errCh.                                  *)
ServeFails ==
  /\ server = "Serving"
  /\ ~shutdown
  /\ server' = "Sending"
  /\ UNCHANGED <<caller, shutdown, done>>

(* After a shutdown Serve returns ErrServerClosed: close(httpSrvDone) and *)
(* the goroutine exits.                                                    *)
ServeClosed ==
  /\ server = "Serving"
  /\ shutdown
  /\ server' = "Exited"
  /\ done' = TRUE
  /\ UNCHANGED <<caller, shutdown>>

(* The unbuffered errCh: the send completes only together with the        *)
(* caller's receive in the select, which returns the error.                *)
ErrHandOff ==
  /\ server = "Sending"
  /\ caller = "Select"
  /\ server' = "Exited"
  /\ caller' = "ReturnedErr"
  /\ UNCHANGED <<shutdown, done>>

(* The time.After(5 * time.Second) case: the caller assumes the server     *)
(* started and returns httpSrv and httpSrvDone.                            *)
TimerFires ==
  /\ caller = "Select"
  /\ caller' = "ReturnedOk"
  /\ UNCHANGED <<server, shutdown, done>>

(* The caller of StartSeedServer shuts the server it was given down.       *)
Shutdown ==
  /\ caller = "ReturnedOk"
  /\ ~shutdown
  /\ shutdown' = TRUE
  /\ UNCHANGED <<caller, server, done>>

Next ==
  \/ ListenFails \/ ListenOk
  \/ ServeFails \/ ServeClosed \/ ErrHandOff
  \/ TimerFires \/ Shutdown

(* The Go scheduler runs every runnable goroutine and a pending timer      *)
(* fires: weak fairness of the goroutine steps and of the timer.  Serve    *)
(* failing and the caller shutting the server down are the environment's   *)
(* choices and get no fairness.                                            *)
Fairness ==
  /\ WF_vars(ListenOk)
  /\ WF_vars(ServeClosed)
  /\ WF_vars(ErrHandOff)
  /\ WF_vars(TimerFires)

Spec == Init /\ [][Next]_vars /\ Fairness

-----------------------------------------------------------------------------
TypeOK ==
  /\ caller \in {"Listen", "Select", "ReturnedOk", "ReturnedErr"}
  /\ server \in {"NotStarted", "Serving", "Sending", "Exited"}
  /\ shutdown \in BOOLEAN
  /\ done \in BOOLEAN

(* The serving goroutine never stays blocked: once Serve has failed, the   *)
(* goroutine eventually exits, its error handed to the caller.             *)
ServerNeverStuck == [](server = "Sending" => <>(server = "Exited"))

=============================================================================
