------------------------------ MODULE MCConfig ------------------------------
(* Model values for checking Config with TLC.                              *)
EXTENDS Config

CONSTANTS wsDefault, wsA, wsB, hubDefault, hubA, idDefault, idA, secretDefault, secretA
=============================================================================
