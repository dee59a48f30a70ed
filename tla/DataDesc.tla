------------------------------ MODULE DataDesc ------------------------------
(***************************************************************************)
(* The data-buffer descriptor of telesync/core.py: the data() factory      *)
(* (validation, the packed string form) and Data.dump(), the wire          *)
(* encoding of a placeholder.  Each step is one call of data() on inputs   *)
(* drawn from small sets; the result is compared with the encoding the     *)
(* spec gives (3 DATA MODEL, 8 TESTABLE PROPERTIES).                       *)
(*                                                                         *)
(* Inputs are abstracted to what the code tests: a fields string is given *)
(* by the words str.split() finds in it; rows and columns by their Python  *)
(* type and truthiness.                                                    *)
(***************************************************************************)
EXTENDS Integers, Sequences, SequencesExt

CONSTANTS
  Words,     \* field names that occur in a space-separated fields string
  Elems,     \* elements of a fields list: names, "" and NonStr
  NonStr,    \* a list element that is not a str
  Sizes,     \* size arguments: integers and NonInt
  NonInt,    \* a size that is not an int
  MaxFields  \* bound on the number of fields

\* rows / columns arguments, by type and truthiness ("str": a non-empty str).
RowArgs == {"none", "emptylist", "list", "emptydict", "dict", "str"}
ColArgs == {"none", "list", "str"}

FieldArgs ==
       {[kind |-> "str", words |-> w] : w \in BoundedSeq(Words, MaxFields)}
  \cup {[kind |-> "list", elems |-> e] : e \in BoundedSeq(Elems, MaxFields)}
  \cup {[kind |-> "other"]}

Calls == [fields : FieldArgs, size : Sizes, rows : RowArgs, columns : ColArgs, pack : BOOLEAN]

VARIABLES
  call,    \* the arguments of the last data() call
  result   \* what it returned: a Data placeholder, a packed string or ValueError

vars == <<call, result>>

Truthy(x) == x \in {"list", "dict", "str"}
IsInt(n) == n # NonInt

-----------------------------------------------------------------------------
(* Mutant: the circular capacity sent without negating size.               *)
DataDumpNoNeg(f, n, d) ==
  IF Truthy(d)
  THEN IF d = "dict" THEN [shape |-> "m", f |-> f, d |-> d]
       ELSE IF n < 0 THEN [shape |-> "c", f |-> f, d |-> d]
       ELSE [shape |-> "f", f |-> f, d |-> d]
  ELSE IF n = 0 THEN [shape |-> "m", f |-> f]
       ELSE IF n < 0 THEN [shape |-> "c", f |-> f, n |-> n]
       ELSE [shape |-> "f", f |-> f, n |-> n]

(* Data.dump(): the encoding of Data(fields, size, data).                  *)
DataDump(f, n, d) ==
  IF Truthy(d)
  THEN IF d = "dict" THEN [shape |-> "m", f |-> f, d |-> d]
       ELSE IF n < 0 THEN [shape |-> "c", f |-> f, d |-> d]
       ELSE [shape |-> "f", f |-> f, d |-> d]
  ELSE IF n = 0 THEN [shape |-> "m", f |-> f]
       ELSE IF n < 0 THEN [shape |-> "c", f |-> f, n |-> -n]
       ELSE [shape |-> "f", f |-> f, n |-> n]

\* The field list data() validates: a str is stripped and split.
FieldList(fa) == IF fa.kind = "str" THEN fa.words ELSE fa.elems

FieldsOK(fa) ==
  /\ fa.kind # "other"
  /\ FieldList(fa) # <<>>
  /\ \A i \in DOMAIN FieldList(fa) : FieldList(fa)[i] \notin {"", NonStr}

Error == [res |-> "ValueError"]

\* data(fields, size, rows, columns, pack)
DataFn(c) ==
  LET f == FieldList(c.fields) IN
  CASE ~FieldsOK(c.fields)                             -> Error
    [] c.pack /\ Truthy(c.rows) /\ c.rows # "list"       -> Error
    [] c.pack /\ Truthy(c.rows)                          -> [res |-> "rows:", f |-> f, d |-> c.rows]
    [] c.pack /\ Truthy(c.columns) /\ c.columns # "list" -> Error
    [] c.pack /\ Truthy(c.columns)                       -> [res |-> "cols:", f |-> f, d |-> c.columns]
    [] c.pack                                            -> Error
    [] Truthy(c.rows) /\ c.rows = "str"                  -> Error
    [] ~IsInt(c.size)                                    -> Error
    [] OTHER -> [res |-> "data", enc |-> DataDump(f, c.size, c.rows)]

Init == \E c \in Calls : call = c /\ result = DataFn(c)

Call(c) == call' = c /\ result' = DataFn(c)

Next == \E c \in Calls : Call(c)

Spec == Init /\ [][Next]_vars

-----------------------------------------------------------------------------
(* The encoding the spec gives a descriptor: size 0 a map buffer, size >  *)
(* 0 a fixed buffer of that capacity, size < 0 a circular buffer of        *)
(* capacity |size|; each carries the field names and either the initial    *)
(* data or the allocation hint (none for a map).                           *)
SpecEnc(f, n, d) ==
  LET shape == CASE n = 0 -> "m" [] n > 0 -> "f" [] n < 0 -> "c"
  IN  CASE Truthy(d) -> [shape |-> shape, f |-> f, d |-> d]
        [] n = 0     -> [shape |-> shape, f |-> f]
        [] OTHER     -> [shape |-> shape, f |-> f, n |-> IF n < 0 THEN -n ELSE n]

\* Initial rows of the type the docstring asks for: a key-row dict for a
\* variable-length buffer, a row list for a fixed or circular one.
RowsFitSize(r, n) ==
  \/ ~Truthy(r)
  \/ r = "dict" /\ n = 0
  \/ r = "list" /\ n # 0

(* A placeholder made by data() (with no rows, or rows of the type the     *)
(* docstring asks for) encodes through Data.dump() as the spec's table     *)
(* says, and data() accepts exactly the calls whose field list (a list, or *)
(* a string split on whitespace) is a non-empty list of non-empty names    *)
(* and whose size is an int.                                               *)
DumpMatchesSpec ==
  ~call.pack /\ ~Truthy(call.columns) /\ RowsFitSize(call.rows, call.size) =>
    IF FieldsOK(call.fields) /\ IsInt(call.size)
    THEN result = [res |-> "data", enc |-> SpecEnc(FieldList(call.fields), call.size, call.rows)]
    ELSE result = Error
=============================================================================
