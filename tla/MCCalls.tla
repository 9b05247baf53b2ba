------------------------------ MODULE MCCalls ------------------------------
(***************************************************************************)
(* Two threads with a store of two instances each, whose functions call    *)
(* each other and themselves (across tables); fa takes more arguments than *)
(* it has results.  The native stack is one frame longer than what the     *)
(* limit leaves to the entered instance.                                   *)
(***************************************************************************)
EXTENDS Calls

MCHome     == [f \in Func |-> IF f = "fb" THEN "B" ELSE "A"]
MCCallees  == [f \in Func |-> {"fa", "fb"}]
MCTraps    == [f \in Func |-> IF f = "fa" THEN {"unreachable"} ELSE {"division"}]
MCNParams  == [f \in Func |-> IF f = "fa" THEN 2 ELSE 0]
MCNResults == [f \in Func |-> 1]
=============================================================================
