------------------------------- MODULE MCCalls -------------------------------
(* A small instance of Calls for TLC.                                         *)
EXTENDS Calls

CONSTANTS a, b

NoKeys == [i \in Id |-> NoKey]
Two == <<a, b>>
=============================================================================
