------------------------------ MODULE Counter ------------------------------
(***************************************************************************)
(* What the two-thread drivers promise about their shared counter: every   *)
(* increment a thread has made moves it by one, wrapping at the width of   *)
(* an unsigned long, nothing else moves it, and what a thread shows is a   *)
(* value the counter has at that moment.                                   *)
(*                                                                         *)
(* The increments are counted on their own, modulo the same width: two     *)
(* threads that load one value and both store its successor have made two  *)
(* increments, and the second store, which leaves the value as it is, is   *)
(* not a step of this specification.                                       *)
(***************************************************************************)
EXTENDS Integers

CONSTANTS Users, Modulus

VARIABLES value, increments, shown

Init == value = 0 /\ increments = 0 /\ shown = [u \in Users |-> 0]

Increment ==
    /\ value' = (value + 1) % Modulus
    /\ increments' = (increments + 1) % Modulus
    /\ UNCHANGED shown

Show(u) ==
    /\ shown' = [shown EXCEPT ![u] = value]
    /\ UNCHANGED <<value, increments>>

Next == Increment \/ \E u \in Users : Show(u)

Spec == Init /\ [][Next]_<<value, increments, shown>>
=============================================================================
