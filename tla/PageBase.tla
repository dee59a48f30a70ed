------------------------------ MODULE PageBase ------------------------------
(***************************************************************************)
(* The per-page mutation buffer and diff protocol of telesync/core.py:     *)
(* page handles made by Site[url] / AsyncSite[url], the operations that    *)
(* append to a handle's _changes (add, Ref assignment, del, drop), _diff   *)
(* (marshal the buffer, then clear it) and the two save paths: Page.save   *)
(* (blocking HTTP PATCH) and AsyncPage.save (text frame on the shared      *)
(* websocket, then an await).                                              *)
(*                                                                         *)
(* Data is abstracted to what the properties tell apart: card keys,        *)
(* fields and primitive values are model values; a Data placeholder is a   *)
(* model value whose dump() is DataEnc(x); Bad stands for a value that     *)
(* json.dumps(allow_nan=False) rejects (NaN, an arbitrary object).  The    *)
(* caller's own dict objects are a heap, because add() keeps a reference   *)
(* to the dict it is given and rewrites it in place.                       *)
(***************************************************************************)
EXTENDS Naturals, Sequences, SequencesExt

CONSTANTS
  Urls,        \* page URLs
  CardKeys,    \* card keys (strings without spaces)
  FieldSeq,    \* the card property names, in dict insertion order
  Prims,       \* primitive values
  DataObjs,    \* Data placeholder objects
  Bad,         \* a value json.dumps(allow_nan=False) cannot encode
  RefVals,     \* values the caller assigns through a Ref
  CardVals,    \* property values of cards built by ui.*_card().dump()
  Dicts,       \* dict objects owned by the caller, passed to add()
  DictVals,    \* values the caller stores in its own dicts
  Tasks,       \* threads of control (coroutines in async mode)
  Mode,        \* "sync" (Page/Site) or "async" (AsyncPage/AsyncSite)
  MaxHandles,  \* bound on page handles created through site[url]
  MaxOps       \* bound on operations tracked per handle

Fields == Range(FieldSeq)

ASSUME /\ Mode \in {"sync", "async"}
       /\ Mode = "sync" => Cardinality(Tasks) = 1
       /\ RefVals \subseteq Prims \cup {Bad}
       /\ CardVals \cup DictVals \subseteq Prims \cup DataObjs \cup {Bad}
       /\ MaxHandles \in Nat \ {0} /\ MaxOps \in Nat \ {0}

Handles == 1..MaxHandles

\* The key '~f' that add() puts in place of a Data-valued property f.
Marker(f) == <<"~", f>>
PropKeys == Fields \cup {Marker(f) : f \in Fields}

\* Data.dump() of a placeholder (its encoding is modelled in DataDesc).
DataEnc(x) == <<"enc", x>>

VARIABLES
  pages,    \* pages[h]: the URL handle h was created for (Site.__getitem__)
  changes,  \* changes[h]: PageBase._changes of handle h
  count,    \* count[h]: operations tracked on h so far (history length)
  heap,     \* heap[d]: current contents of the caller's dict d
  out,      \* every diff taken by _diff, in order, with its transmission outcome
            \* and, as history, the number of ops tracked on its handle by then
  pc,       \* pc[t]: "idle", or "send" while awaiting ws.send
  wsOpen    \* the AsyncSite's websocket is still open

vars == <<pages, changes, count, heap, out, pc, wsOpen>>

Props == UNION {[S -> Prims \cup DataObjs \cup {Bad} \cup 0..MaxOps] : S \in SUBSET PropKeys}
Src == Handles \X (1..MaxOps)
Op ==      [kind : {"set"}, k : CardKeys, f : Fields, v : Prims \cup {Bad}, src : Src]
      \cup [kind : {"add"}, k : CardKeys, d : Props, dref : Dicts \cup {"none"},
            b : Seq({DataEnc(x) : x \in DataObjs}), src : Src]
      \cup [kind : {"del"}, k : CardKeys, src : Src]
      \cup [kind : {"drop"}, src : Src]

TypeOK ==
  /\ pages \in Seq(Urls) /\ Len(pages) <= MaxHandles
  /\ changes \in [Handles -> Seq(Op)]
  /\ count \in [Handles -> 0..MaxOps]
  /\ heap \in [Dicts -> Props]
  /\ out \in Seq([url : Urls, ops : Seq(Op), ok : BOOLEAN, upto : 0..MaxOps])
  /\ pc \in [Tasks -> {"idle", "send"}]
  /\ wsOpen \in BOOLEAN

-----------------------------------------------------------------------------
(* Helpers translated from the source.                                     *)

\* The history label of the next operation tracked on h: h and its place on h.
Stamp(h) == <<h, count[h] + 1>>

\* Mutant: the operation inserted at the front of the buffer.
TrackPrepend(h, op) ==
  /\ count[h] < MaxOps
  /\ changes' = [changes EXCEPT ![h] = <<op @@ [src |-> Stamp(h)]>> \o @]
  /\ count' = [count EXCEPT ![h] = @ + 1]

\* _track: append the operation to the handle's buffer.  The src tag is a
\* history label, not part of the wire form.
Track(h, op) ==
  /\ count[h] < MaxOps
  /\ changes' = [changes EXCEPT ![h] = Append(@, op @@ [src |-> Stamp(h)])]
  /\ count' = [count EXCEPT ![h] = @ + 1]

\* The Data-valued properties of p in iteration order (the first loop of add).
DataKeys(p) == SelectSeq(FieldSeq, LAMBDA f : f \in DOMAIN p /\ p[f] \in DataObjs)

\* bufs: the dumps of those placeholders, in the same order.
Bufs(p) == [i \in 1..Len(DataKeys(p)) |-> DataEnc(p[DataKeys(p)[i]])]

\* Mutant: the index recorded as len(bufs) - 1.
DisplaceBefore(p) ==
  LET ks == DataKeys(p)
  IN  [i \in {Marker(ks[j]) : j \in 1..Len(ks)} |->
          CHOOSE j \in -1..Len(ks) - 2 : i = Marker(ks[j + 2])]
      @@ Restrict(p, DOMAIN p \ Range(ks))

\* Mutant: bufs.append before data.append, so the index is one too high.
DisplaceAfterAppend(p) ==
  LET ks == DataKeys(p)
  IN  [i \in {Marker(ks[j]) : j \in 1..Len(ks)} |->
          CHOOSE j \in 1..Len(ks) : i = Marker(ks[j])]
      @@ Restrict(p, DOMAIN p \ Range(ks))

\* The second loop of add: del props[k]; props['~k'] = index in bufs.
Displace(p) ==
  LET ks == DataKeys(p)
  IN  [i \in {Marker(ks[j]) : j \in 1..Len(ks)} |->
          CHOOSE j \in 0..Len(ks) - 1 : i = Marker(ks[j + 1])]
      @@ Restrict(p, DOMAIN p \ Range(ks))

\* What json.dumps sees for an operation: add() stored a reference to the
\* caller's dict, so the dict is read when the diff is marshalled.
Resolve(op) ==
  IF op.kind = "add" /\ op.dref # "none" THEN [op EXCEPT !.d = heap[op.dref]] ELSE op

Values(op) ==
  CASE op.kind = "set" -> {op.v}
    [] op.kind = "add" -> Range(op.d)
    [] OTHER           -> {}

\* marshal(dict(d=changes)) succeeds: no NaN and no object json.dumps
\* cannot encode (a Data placeholder left in a dict is one) inside.
Serializable(ops) == \A i \in DOMAIN ops : Values(ops[i]) \cap ({Bad} \cup DataObjs) = {}

-----------------------------------------------------------------------------
(* Operations.  Every mutation is synchronous: a task calls it when idle.  *)

\* site[url] / async_site[url]: a fresh handle with an empty buffer each time.
SiteGet(u) ==
  /\ Len(pages) < MaxHandles
  /\ pages' = Append(pages, u)
  /\ UNCHANGED <<changes, count, heap, out, pc, wsOpen>>

Live(h) == h \in DOMAIN pages

\* page.add(key, card) with card a ui card: props = _dump(card), a fresh dict.
AddCard(t, h, key, p) ==
  /\ pc[t] = "idle" /\ Live(h)
  /\ Track(h, [kind |-> "add", k |-> key, d |-> Displace(p), dref |-> "none", b |-> Bufs(p)])
  /\ UNCHANGED <<pages, heap, out, pc, wsOpen>>

\* page.add(key, d) with d the caller's dict: props IS d, rewritten in place,
\* and the tracked operation refers to it.
AddDict(t, h, key, d) ==
  /\ pc[t] = "idle" /\ Live(h)
  /\ heap' = [heap EXCEPT ![d] = Displace(@)]
  /\ Track(h, [kind |-> "add", k |-> key, d |-> Displace(heap[d]), dref |-> d, b |-> Bufs(heap[d])])
  /\ UNCHANGED <<pages, out, pc, wsOpen>>

\* page[key].f = v: _set_op(ref, f, _dump(v)); a Data value raises first.
SetRef(t, h, key, f, v) ==
  /\ pc[t] = "idle" /\ Live(h)
  /\ v \notin DataObjs
  /\ Track(h, [kind |-> "set", k |-> key, f |-> f, v |-> v])
  /\ UNCHANGED <<pages, heap, out, pc, wsOpen>>

\* del page[key]
DelCard(t, h, key) ==
  /\ pc[t] = "idle" /\ Live(h)
  /\ Track(h, [kind |-> "del", k |-> key])
  /\ UNCHANGED <<pages, heap, out, pc, wsOpen>>

\* page.drop()
Drop(t, h) ==
  /\ pc[t] = "idle" /\ Live(h)
  /\ Track(h, [kind |-> "drop"])
  /\ UNCHANGED <<pages, heap, out, pc, wsOpen>>

\* Mutant: _diff returns None unless more than one operation is pending.
DiffOffByOne(h, ok) ==
  /\ Len(changes[h]) > 1
  /\ Serializable([i \in DOMAIN changes[h] |-> Resolve(changes[h][i])])
  /\ out' = Append(out, [url |-> pages[h], ok |-> ok, upto |-> count[h],
                         ops |-> [i \in DOMAIN changes[h] |-> Resolve(changes[h][i])]])
  /\ changes' = [changes EXCEPT ![h] = <<>>]

\* Mutant: _diff marshals the buffer but never clears it.
DiffNoClear(h, ok) ==
  /\ changes[h] # <<>>
  /\ Serializable([i \in DOMAIN changes[h] |-> Resolve(changes[h][i])])
  /\ out' = Append(out, [url |-> pages[h], ok |-> ok, upto |-> count[h],
                         ops |-> [i \in DOMAIN changes[h] |-> Resolve(changes[h][i])]])
  /\ changes' = changes

\* _diff when the buffer is non-empty and marshal succeeds: the marshalled
\* string snapshots the ops (and any dicts they refer to); then clear().
\* An empty buffer returns None and save sends nothing; a marshal error is
\* raised before clear() and leaves every variable as it was.
Diff(h, ok) ==
  /\ changes[h] # <<>>
  /\ Serializable([i \in DOMAIN changes[h] |-> Resolve(changes[h][i])])
  /\ out' = Append(out, [url |-> pages[h], ok |-> ok, upto |-> count[h],
                         ops |-> [i \in DOMAIN changes[h] |-> Resolve(changes[h][i])]])
  /\ changes' = [changes EXCEPT ![h] = <<>>]

\* Page.save -> Site._save -> _client.patch: the PATCH either returns 200 or
\* raises ServiceError; the buffer is already clear in both cases.
SavePage(t, h) ==
  /\ Mode = "sync" /\ pc[t] = "idle" /\ Live(h)
  /\ \E ok \in BOOLEAN : Diff(h, ok)
  /\ UNCHANGED <<pages, count, heap, pc, wsOpen>>

\* Mutant: the socket is checked before _diff, so a save on a closed
\* socket raises with the buffer untouched.
SaveAsyncOpenFirst(t, h) ==
  /\ Mode = "async" /\ pc[t] = "idle" /\ Live(h) /\ wsOpen
  /\ Diff(h, TRUE)
  /\ pc' = [pc EXCEPT ![t] = "send"]
  /\ UNCHANGED <<pages, count, heap, wsOpen>>

\* AsyncPage.save: _diff, then ws.send('* url diff').  The frame is written
\* when send is called on an open socket; on a closed one send raises
\* ConnectionClosed.  A successful send then suspends the task.
SaveAsync(t, h) ==
  /\ Mode = "async" /\ pc[t] = "idle" /\ Live(h)
  /\ Diff(h, wsOpen)
  /\ pc' = [pc EXCEPT ![t] = IF wsOpen THEN "send" ELSE "idle"]
  /\ UNCHANGED <<pages, count, heap, wsOpen>>

\* Page.sync, deprecated: logs a warning, then save().
Sync(t, h) == SavePage(t, h)

\* AsyncPage.push, deprecated: logs a warning, then awaits save().
Push(t, h) == SaveAsync(t, h)

\* The await in AsyncPage.save returns.
Drained(t) ==
  /\ pc[t] = "send"
  /\ pc' = [pc EXCEPT ![t] = "idle"]
  /\ UNCHANGED <<pages, changes, count, heap, out, wsOpen>>

\* Environment: the hub closes the websocket.
WsClose ==
  /\ Mode = "async" /\ wsOpen
  /\ wsOpen' = FALSE
  /\ UNCHANGED <<pages, changes, count, heap, out, pc>>

\* Environment: the caller stores v under f in its own dict d.
DictSet(t, d, f, v) ==
  /\ pc[t] = "idle"
  /\ heap' = [heap EXCEPT ![d] = (f :> v) @@ @]
  /\ UNCHANGED <<pages, changes, count, out, pc, wsOpen>>

Init ==
  /\ pages = <<>>
  /\ changes = [h \in Handles |-> <<>>]
  /\ count = [h \in Handles |-> 0]
  /\ heap \in [Dicts -> [Fields -> DictVals]]
  /\ out = <<>>
  /\ pc = [t \in Tasks |-> "idle"]
  /\ wsOpen = TRUE

Next ==
  \/ \E u \in Urls : SiteGet(u)
  \/ \E t \in Tasks, h \in Handles :
       \/ \E key \in CardKeys :
            \/ \E p \in [Fields -> CardVals] : AddCard(t, h, key, p)
            \/ \E d \in Dicts : AddDict(t, h, key, d)
            \/ \E f \in Fields, v \in RefVals : SetRef(t, h, key, f, v)
            \/ DelCard(t, h, key)
       \/ Drop(t, h)
       \/ SavePage(t, h) \/ Sync(t, h)
       \/ SaveAsync(t, h) \/ Push(t, h)
  \/ \E t \in Tasks : Drained(t)
  \/ WsClose
  \/ \E t \in Tasks, d \in Dicts, f \in Fields, v \in DictVals : DictSet(t, d, f, v)

Spec == Init /\ [][Next]_vars

-----------------------------------------------------------------------------
(* Properties.                                                             *)

\* The operations of handle h that have left its buffer, in diff order.
Taken(h) == FlattenSeq([i \in DOMAIN out |-> SelectSeq(out[i].ops, LAMBDA o : o.src[1] = h)])
Ids(s) == [i \in DOMAIN s |-> s[i].src[2]]

(* Every operation tracked on a handle (add, Ref assignment, del, drop),   *)
(* by any task, leaves the buffer exactly once, in the order it was        *)
(* tracked, as part of one diff that holds one whole buffer of that        *)
(* handle (it ends with the last operation tracked on the handle before    *)
(* it was taken) and is sent to that handle's URL: _diff reads and clears  *)
(* _changes with nothing in between, and save never sends an empty diff.  *)
ExactlyOnceInOrder ==
  /\ \A h \in Handles : Ids(Taken(h) \o changes[h]) = [i \in 1..count[h] |-> i]
  /\ \A i \in DOMAIN out :
       /\ out[i].ops # <<>>
       /\ Last(out[i].ops).src[2] = out[i].upto
       /\ \A j \in DOMAIN out[i].ops : LET h == out[i].ops[j].src[1] IN
            /\ h = out[i].ops[1].src[1]
            /\ pages[h] = out[i].url

(* Every add-card operation that reaches the wire carries one buffer per   *)
(* '~f' marker, the markers hold the buffer indexes 0..Len(b)-1, and no    *)
(* Data placeholder is left inline: the rename-and-displace step of        *)
(* PageBase.add makes the props refer only to buffers sent with them.      *)
MarkersResolve ==
  \A i \in DOMAIN out : \A j \in DOMAIN out[i].ops :
    LET o == out[i].ops[j]
        ms == DOMAIN o.d \ Fields
    IN  o.kind = "add" =>
          /\ Cardinality(ms) = Len(o.b)
          /\ {o.d[m] : m \in ms} = 0..Len(o.b) - 1
          /\ Range(o.d) \cap DataObjs = {}

(* If the application keeps calling save(), every tracked operation        *)
(* eventually leaves the buffer (sent, or lost with a transport error).    *)
PendingEventuallyFlushed == \A h \in Handles : changes[h] # <<>> ~> changes[h] = <<>>

\* The operations URL u received: those of every diff transmitted to it.
Received(u) == FlattenSeq([i \in DOMAIN out |->
                 IF out[i].ok /\ out[i].url = u THEN out[i].ops ELSE <<>>])

CL == INSTANCE ChangeLog WITH
        url <- [h \in Handles |-> IF Live(h) THEN pages[h] ELSE "none"],
        pending <- changes,
        sent <- [u \in Urls |-> Received(u)],
        NoUrl <- "none"

(* The buffer and the two save paths implement the ChangeLog promise: each *)
(* step of the code either opens a handle, records one operation on one    *)
(* handle, hands the hub exactly the operations that handle recorded, as   *)
(* they were when recorded, or drops them on a transport error; no step    *)
(* sends, reorders or keeps back anything else.                            *)
(* add() keeps the caller's dict as the op's props and json.dumps reads   *)
(* it at _diff time, so an edit of the dict after add() breaks this.      *)
RefinesChangeLog == CL!Spec

\* The application keeps calling save() on every handle.
FairSpec == Spec /\ \A h \in Handles : WF_vars(\E t \in Tasks : SavePage(t, h) \/ SaveAsync(t, h))
                 /\ \A t \in Tasks : WF_vars(Drained(t))
=============================================================================
