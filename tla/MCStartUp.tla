------------------------------ MODULE MCStartUp ------------------------------
(* A small instance of the start-up for TLC. *)
EXTENDS StartUp

CONSTANTS a1, a2, w1, w2

FourProcesses == {a1, a2, w1, w2}
NoRedis       == {w2}
NoSecret      == {a2}
=============================================================================
