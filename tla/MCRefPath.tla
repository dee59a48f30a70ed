----------------------------- MODULE MCRefPath ------------------------------
(* Keys for checking RefPath with TLC: the str "a", the empty str, the str *)
(* "a a" holding the separator, the int 0 (str(0) = "0") and an object     *)
(* that is neither.                                                        *)
EXTENDS RefPath

CONSTANTS v1, dt1

StrA   == [t |-> "str", s |-> <<"a">>]
StrE   == [t |-> "str", s |-> <<>>]
StrAsA == [t |-> "str", s |-> <<"a", " ", "a">>]
Int0   == [t |-> "int", s |-> <<"0">>]
Obj    == [t |-> "other", s |-> <<>>]

MCKeys == {StrA, StrE, StrAsA, Int0, Obj}
\* Values: a primitive, a tuple holding a placeholder, and a dict whose
\* value is a list holding one (as card items or plot marks would).
ListV == [list |-> <<v1, dt1>>]
DictV == [dict |-> [x |-> [list |-> <<dt1>>]]]
MCVals == {v1, ListV, DictV}
\* Card keys as the examples write them: no spaces.
MCRootKeys == {StrA, Int0}
\* A card key holding a space, accepted by page[key].
MCRootKeysSpaced == {StrA, StrAsA}
=============================================================================
