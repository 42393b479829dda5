------------------------------ MODULE MCWorker ------------------------------
(* Worker with two threads that call its member functions.                 *)
EXTENDS Worker

CONSTANTS c1, c2

MCCallers == {c1, c2}

=============================================================================
