------------------------------ MODULE RefPath ------------------------------
(***************************************************************************)
(* Path addressing in telesync/core.py: page[key] makes a Ref rooted at a  *)
(* card key; Ref.__getattr__ / __getitem__ extend its path by one key;     *)
(* Ref.__setattr__ / __setitem__ track a set operation {k: path, v: value} *)
(* built by _set_op.  A path is the keys' str() forms joined by _key_sep   *)
(* (' '), and _guard_key keeps spaces out of the keys it checks.  The     *)
(* value is first expanded by _dump, which replaces every object with a    *)
(* dump() method, at any depth of lists and dicts, by what dump() returns. *)
(*                                                                         *)
(* Strings are sequences of characters, since the property is about the    *)
(* join.  A key is a record: a str with its characters, an int with the    *)
(* characters of str(k), or some other object.  The caller holds one Ref   *)
(* at a time (Refs are immutable values, so holding several adds no path). *)
(***************************************************************************)
EXTENDS Naturals, Sequences, SequencesExt

CONSTANTS
  RootKeys,  \* keys the caller passes to page[key]
  Keys,      \* keys used for attribute / item access and assignment
  Prims,     \* primitive values
  Vals,      \* values assigned through a Ref: atoms, lists [list |-> s], dicts [dict |-> f]
  DataObjs,  \* Data placeholders
  MaxDepth,  \* bound on the number of keys in a Ref's path
  MaxOps     \* bound on the operations tracked

Sep == " "   \* _key_sep

VARIABLES
  cur,      \* the Ref the caller holds: its KEY and (history) the keys' str forms
  ops,      \* the page's _changes: set operations tracked through Refs
  raised    \* the exception the last call raised, or "none"

vars == <<cur, ops, raised>>

NoRef == [key |-> <<>>, comps |-> <<>>]

-----------------------------------------------------------------------------
\* Mutant: only the key's type is checked.
GuardKeyNoSpace(k) == k.t \in {"str", "int"}

\* _guard_key: a str must not contain a space; otherwise it must be an int.
GuardKey(k) == IF k.t = "str" THEN Sep \notin Range(k.s) ELSE k.t = "int"

\* str(k), and KEY + _key_sep + str(k).
Str(k) == k.s
Extend(r, k) == [key |-> r.key \o <<Sep>> \o Str(k), comps |-> Append(r.comps, Str(k))]

\* Values: an atom (a primitive or a Data placeholder), a list or tuple
\* [list |-> <<...>>], or a dict [dict |-> [keys -> values]].
Atoms == Prims \cup DataObjs
IsList(x) == x \notin Atoms /\ "list" \in DOMAIN x
IsDict(x) == x \notin Atoms /\ "dict" \in DOMAIN x

\* Data.dump() of a placeholder, a dict (its encoding is modelled in DataDesc).
DataEnc(x) == [enc |-> x]

\* _can_dump: hasattr(x, 'dump') and callable(x.dump).
CanDump(x) == x \in DataObjs

\* Mutant: a list or tuple passed through as it is.
RECURSIVE DumpNoListRecursion(_)
DumpNoListRecursion(x) ==
  IF IsList(x) THEN x
  ELSE IF IsDict(x) THEN [dict |-> [k \in DOMAIN x.dict |-> DumpNoListRecursion(x.dict[k])]]
  ELSE IF CanDump(x) THEN DataEnc(x)
  ELSE x

\* _dump
RECURSIVE Dump(_)
Dump(x) ==
  IF IsList(x) THEN [list |-> [i \in DOMAIN x.list |-> Dump(x.list[i])]]
  ELSE IF IsDict(x) THEN [dict |-> [k \in DOMAIN x.dict |-> Dump(x.dict[k])]]
  ELSE IF CanDump(x) THEN DataEnc(x)
  ELSE x

\* The outcome of a call: the exception, or the state change it makes.
Raise(e) == raised' = e /\ UNCHANGED <<cur, ops>>

\* PageBase.__getitem__: only the type of key is checked.
PageGetItem(k) ==
  IF k.t # "str" THEN Raise("ValueError")
  ELSE /\ cur' = [key |-> k.s, comps |-> <<k.s>>]
       /\ raised' = "none" /\ UNCHANGED ops

\* Ref.__getattr__ (an attribute name is a str) and Ref.__getitem__.
RefGetAttr(k) ==
  /\ cur # NoRef /\ k.t = "str" /\ Len(cur.comps) < MaxDepth
  /\ IF ~GuardKey(k) THEN Raise("KeyError")
     ELSE cur' = Extend(cur, k) /\ raised' = "none" /\ UNCHANGED ops

RefGetItem(k) ==
  /\ cur # NoRef /\ Len(cur.comps) < MaxDepth
  /\ IF ~GuardKey(k) THEN Raise("KeyError")
     ELSE cur' = Extend(cur, k) /\ raised' = "none" /\ UNCHANGED ops

\* _set_op(ref, k, v) then page._track(op), v being _dump(value): a Data
\* value was rejected before.
SetOp(k, v) ==
  /\ Len(ops) < MaxOps
  /\ IF ~GuardKey(k) THEN Raise("KeyError")
     ELSE /\ ops' = Append(ops, [k |-> Extend(cur, k).key, v |-> v, comps |-> Extend(cur, k).comps])
          /\ raised' = "none" /\ UNCHANGED cur

\* Ref.__setattr__ and Ref.__setitem__: a Data instance raises ValueError.
RefSetAttr(k, v) ==
  /\ cur # NoRef /\ k.t = "str"
  /\ IF v \in DataObjs THEN Raise("ValueError") ELSE SetOp(k, Dump(v))

RefSetItem(k, v) ==
  /\ cur # NoRef
  /\ IF v \in DataObjs THEN Raise("ValueError") ELSE SetOp(k, Dump(v))

Init == cur = NoRef /\ ops = <<>> /\ raised = "none"

Next ==
  \/ \E k \in RootKeys : PageGetItem(k)
  \/ \E k \in Keys :
       \/ RefGetAttr(k)
       \/ RefGetItem(k)
       \/ \E v \in Vals \cup DataObjs : RefSetAttr(k, v) \/ RefSetItem(k, v)

Spec == Init /\ [][Next]_vars

-----------------------------------------------------------------------------
(* A path on the wire names one place in the page (spec 3: a Path is the   *)
(* sequence of keys joined by the separator, spaces being reserved for     *)
(* it): two set operations the code tracks with the same path string were  *)
(* built from the same sequence of keys, however the caller navigated      *)
(* (page[key], attribute or item access) to reach them.                    *)
PathInjective ==
  \A i, j \in DOMAIN ops : ops[i].k = ops[j].k => ops[i].comps = ops[j].comps

\* x holds an object with a dump() method, at any depth.
RECURSIVE HoldsDumpable(_)
HoldsDumpable(x) ==
  IF IsList(x) THEN \E i \in DOMAIN x.list : HoldsDumpable(x.list[i])
  ELSE IF IsDict(x) THEN \E k \in DOMAIN x.dict : HoldsDumpable(x.dict[k])
  ELSE CanDump(x)

(* Every value a Ref assignment tracks is ready for marshal: no Data       *)
(* placeholder (no object with a dump() method) is left in it at any depth *)
(* of lists, tuples and dicts, because _dump recurses into each of them    *)
(* before _set_op builds the operation (spec 4.1, dump).                   *)
DumpedDeep == \A i \in DOMAIN ops : ~HoldsDumpable(ops[i].v)
=============================================================================
