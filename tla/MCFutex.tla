------------------------------ MODULE MCFutex ------------------------------
(* Instances of Futex for TLC. *)
EXTENDS Futex

CONSTANTS t1, t2, t3, s1, s2, nobody

OneSpace == [t \in Threads |-> s1]
TwoSpaces == [t \in Threads |-> IF t = t3 THEN s2 ELSE s1]
Everything == [t \in Threads |-> Addrs]
OwnAndCommon == [t \in Threads |-> IF t = t1 THEN {1} ELSE IF t = t2 THEN {1, 2} ELSE {2}]
=============================================================================
