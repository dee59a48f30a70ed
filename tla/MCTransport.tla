---------------------------- MODULE MCTransport -----------------------------
(* Model values for checking Transport with TLC.                           *)
EXTENDS Transport

CONSTANTS u1, u2, x1, x2, absent, errBody, pFile, pDir, fA, fB, nA

\* Two files uploaded under the same name: their URLs end in the same segment.
MCBasename == [u \in {u1, u2} |-> nA]
=============================================================================
