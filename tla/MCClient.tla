------------------------------ MODULE MCClient ------------------------------
(* Model values for checking Client with TLC.                              *)
EXTENDS Client

CONSTANTS wsDefault, hubDefault, idDefault, idA, secretDefault, secretA,
          u1, u2, x1, absent, errBody, pFile, pDir, fA, fB, nA

\* The hub accepts a pair that is not the built-in default, so a client
\* needs the environment or configure() to reach it.
MCHubAuth == <<idA, secretA>>

\* Two files uploaded under the same name: their URLs end in the same segment.
MCBasename == [u \in {u1, u2} |-> nA]
=============================================================================
