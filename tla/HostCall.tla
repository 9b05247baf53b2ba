------------------------------ MODULE HostCall ------------------------------
(***************************************************************************)
(* What a host thread may rely on when it calls a WebAssembly function:    *)
(* the call runs, perhaps raises one trap, and ends with exactly what      *)
(* happened.  No signal, jump buffer, thread-local state or context        *)
(* register is visible here; Calls implements this specification.          *)
(***************************************************************************)
CONSTANTS
  Thread,   \* host threads
  Func,     \* functions the host can call
  TrapCode, \* what compiled code can raise
  NoFunc, NoTrap

VARIABLES
  running,  \* per thread: the function being called, or NoFunc
  raised,   \* ... the trap it has raised, or NoTrap
  outcome   \* ... how the last call ended, while none is running

vars == <<running, raised, outcome>>

Init ==
  /\ running = [t \in Thread |-> NoFunc]
  /\ raised  = [t \in Thread |-> NoTrap]
  /\ outcome = [t \in Thread |-> "none"]

Call(t, f) ==
  /\ running[t] = NoFunc
  /\ running' = [running EXCEPT ![t] = f]
  /\ outcome' = [outcome EXCEPT ![t] = "none"]
  /\ UNCHANGED raised

Raise(t, c) ==
  /\ running[t] # NoFunc /\ raised[t] = NoTrap
  /\ raised' = [raised EXCEPT ![t] = c]
  /\ UNCHANGED <<running, outcome>>

\* The function came back: the results are handed over, or are refused.
Return(t, how) ==
  /\ running[t] # NoFunc /\ raised[t] = NoTrap
  /\ running' = [running EXCEPT ![t] = NoFunc]
  /\ outcome' = [outcome EXCEPT ![t] = how]
  /\ UNCHANGED raised

\* A raised trap is what the caller is told, and it ends the call.
Report(t) ==
  /\ raised[t] # NoTrap
  /\ outcome' = [outcome EXCEPT ![t] = raised[t]]
  /\ running' = [running EXCEPT ![t] = NoFunc]
  /\ raised'  = [raised EXCEPT ![t] = NoTrap]

Next ==
  \E t \in Thread :
    \/ \E f \in Func : Call(t, f)
    \/ \E c \in TrapCode : Raise(t, c)
    \/ \E how \in {"returned", "panicked"} : Return(t, how)
    \/ Report(t)

Safety == Init /\ [][Next]_vars
=============================================================================
