----------------------------- MODULE MCDataDesc -----------------------------
(* Model values for checking DataDesc with TLC.                            *)
EXTENDS DataDesc

CONSTANTS NonStrElem, NonIntSize

MCElems == {"a", "", NonStrElem}
MCSizes == {-2, 0, 3, NonIntSize}
=============================================================================
