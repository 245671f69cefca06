------------------------------ MODULE Shutdown ------------------------------
(***************************************************************************)
(* How the process stops: main, the goroutine that waits for a signal and  *)
(* calls server.Shutdown, and the requests the server is working on.       *)
(*                                                                         *)
(* Shutdown closes the listeners at once and then waits, at most for       *)
(* ShutdownTimeout, for the requests; ListenAndServe returns as soon as    *)
(* the listeners are closed, and main is not made to wait for Shutdown.    *)
(***************************************************************************)
EXTENDS Naturals

CONSTANTS
  ShutdownTimeout,  \* TG_SHUTDOWN_TIMEOUT, in ticks of the clock
  Requests          \* requests a client may send

VARIABLES
  main,      \* "serving", "closing", "exited"
  signalled, \* ctx is done
  shutdown,  \* server.Shutdown: "not called", "waiting", "returned"
  waited,    \* for how long it has waited
  request    \* each request: "unsent", "active", "answered", "killed"

vars == <<main, signalled, shutdown, waited, request>>

Init ==
  /\ main = "serving"
  /\ signalled = FALSE
  /\ shutdown = "not called"
  /\ waited = 0
  /\ request = [r \in Requests |-> "unsent"]

Active == { r \in Requests : request[r] = "active" }

\* The server accepts a connection and calls the handler.
Accept(r) ==
  /\ main = "serving" /\ shutdown = "not called"
  /\ request[r] = "unsent"
  /\ request' = [request EXCEPT ![r] = "active"]
  /\ UNCHANGED <<main, signalled, shutdown, waited>>

\* The handler returns.
Respond(r) ==
  /\ main # "exited"
  /\ request[r] = "active"
  /\ request' = [request EXCEPT ![r] = "answered"]
  /\ UNCHANGED <<main, signalled, shutdown, waited>>

\* SIGINT or SIGTERM.
Signal ==
  /\ ~signalled
  /\ signalled' = TRUE
  /\ UNCHANGED <<main, shutdown, waited, request>>

\* The goroutine calls server.Shutdown, which closes the listeners.
CallShutdown ==
  /\ main # "exited"
  /\ signalled /\ shutdown = "not called"
  /\ shutdown' = "waiting"
  /\ UNCHANGED <<main, signalled, waited, request>>

Wait ==
  /\ main # "exited"
  /\ shutdown = "waiting" /\ Active # {} /\ waited < ShutdownTimeout
  /\ waited' = waited + 1
  /\ UNCHANGED <<main, signalled, shutdown, request>>

\* No request is left, or shutdownCtx has expired.
ShutdownReturns ==
  /\ main # "exited"
  /\ shutdown = "waiting" /\ (Active = {} \/ waited = ShutdownTimeout)
  /\ shutdown' = "returned"
  /\ UNCHANGED <<main, signalled, waited, request>>

\* ListenAndServe returns ErrServerClosed, and main its deferred calls.
ServeReturns ==
  /\ main = "serving" /\ shutdown # "not called"
  /\ main' = "closing"
  /\ UNCHANGED <<signalled, shutdown, waited, request>>

\* main returns: the process is gone with every goroutine in it.
Exit ==
  /\ main = "closing"
  /\ main' = "exited"
  /\ request' = [r \in Requests |-> IF request[r] = "active" THEN "killed"
                                    ELSE request[r]]
  /\ UNCHANGED <<signalled, shutdown, waited>>

Next ==
  \/ \E r \in Requests : Accept(r) \/ Respond(r)
  \/ Signal \/ CallShutdown \/ Wait \/ ShutdownReturns
  \/ ServeReturns \/ Exit

Spec == Init /\ [][Next]_vars

-----------------------------------------------------------------------------
\* docs/superpowers/specs/2026-06-24-frontend-redesign-design.md:
\* shutdown_timeout is the timeout of a graceful shutdown.  A request the
\* server has accepted is cut off only when that time has passed.
ShutdownIsGraceful ==
  [][\A r \in Requests :
       request[r] = "active" /\ request'[r] = "killed" =>
         waited = ShutdownTimeout]_vars
=============================================================================
