------------------------------ MODULE Examples ------------------------------
(***************************************************************************)
(* The example scripts under src/py/examples run against the page buffer   *)
(* of PageBase.  Each script is a straight-line program: message_bar.py    *)
(* gets '/demo', assigns a form card to page['example'] (__setitem__ ->    *)
(* add) and saves; plot_line_groups.py gets '/demo', adds a plot card      *)
(* whose data property is data('product date price', n * 5), assigns the   *)
(* generated rows through the returned Ref (v.data = rows) and saves.      *)
(* Several copies may run at once, each a process with its own Site and   *)
(* the same hub; a save whose PATCH fails raises ServiceError and ends the *)
(* script.  Card contents and rows are model values: only the Data-valued  *)
(* property and the order of the operations matter here.                  *)
(***************************************************************************)
EXTENDS Naturals, Sequences

CONSTANTS
  Urls, CardKeys, FieldSeq, Prims, DataObjs, Bad, RefVals, CardVals, Dicts,
  DictVals, Tasks, Mode, MaxHandles, MaxOps,
  Demo,       \* '/demo'
  Example,    \* the card key 'example'
  MsgCard,    \* ui.form_card(box, items=[message_bar...]).dump()
  PlotCard,   \* ui.plot_card(box, title, data=data(...), plot).dump()
  DataField,  \* the plot card's property 'data'
  Rows,       \* [(g, t, x) ...] built from FakeMultiTimeSeries
  Procs,      \* running copies of the scripts
  Script      \* Script[p]: "message_bar" or "plot_line_groups"

VARIABLES pages, changes, count, heap, out, pc, wsOpen,
          line,  \* line[p]: the next step of p's program; Raised once save raised
          hnd    \* hnd[p]: the handle site['/demo'] returned to p

pbVars == <<pages, changes, count, heap, out, pc, wsOpen>>
vars == <<pbVars, line, hnd>>

PB == INSTANCE PageBase

Raised == 0

\* The steps of each script, in source order.
Program(s) ==
  IF s = "message_bar" THEN <<"get", "add", "save">>
  ELSE <<"get", "add", "set_data", "save">>

Card(s) == IF s = "message_bar" THEN MsgCard ELSE PlotCard

At(p, step) ==
  /\ line[p] \in DOMAIN Program(Script[p])
  /\ Program(Script[p])[line[p]] = step

Advance(p) == line' = [line EXCEPT ![p] = @ + 1]

\* The single thread of a script process.
T1 == CHOOSE t \in Tasks : TRUE

-----------------------------------------------------------------------------
\* page = site['/demo']
GetPage(p) ==
  /\ At(p, "get")
  /\ PB!SiteGet(Demo)
  /\ hnd' = [hnd EXCEPT ![p] = Len(pages')]
  /\ Advance(p)

\* page['example'] = ui.form_card(...)  /  v = page.add('example', ui.plot_card(...))
AddCard(p) ==
  /\ At(p, "add")
  /\ PB!AddCard(T1, hnd[p], Example, Card(Script[p]))
  /\ Advance(p) /\ UNCHANGED hnd

\* v.data = [(g, t, x) for ...]
SetData(p) ==
  /\ At(p, "set_data")
  /\ PB!SetRef(T1, hnd[p], Example, DataField, Rows)
  /\ Advance(p) /\ UNCHANGED hnd

\* page.save(): the script goes on, or ends with the ServiceError.
Save(p) ==
  /\ At(p, "save")
  /\ PB!SavePage(T1, hnd[p])
  /\ line' = [line EXCEPT ![p] = IF out'[Len(out')].ok THEN @ + 1 ELSE Raised]
  /\ UNCHANGED hnd

Init ==
  /\ PB!Init
  /\ line = [p \in Procs |-> 1]
  /\ hnd = [p \in Procs |-> 0]

Step(p) == GetPage(p) \/ AddCard(p) \/ SetData(p) \/ Save(p)

Next == \E p \in Procs : Step(p)

Spec == Init /\ [][Next]_vars

-----------------------------------------------------------------------------
\* The operations the hub received for '/demo', in order.
DemoLog == PB!Received(Demo)

(* The rows plot_line_groups.py assigns through v.data land on the plot    *)
(* card, whatever the other scripts writing card 'example' of '/demo' do:  *)
(* in what the hub receives, every set of the card's data is preceded by  *)
(* an add of that card which declares the data buffer ('~data'), with no  *)
(* other add of the card in between.  add and the Ref assignment go in     *)
(* the same buffer, and _diff sends it whole and in order.                 *)
RowsOnPlotCard ==
  \A j \in DOMAIN DemoLog : DemoLog[j].kind = "set" =>
    \E i \in 1..j - 1 :
      /\ DemoLog[i].kind = "add" /\ DemoLog[i].k = DemoLog[j].k
      /\ PB!Marker(DataField) \in DOMAIN DemoLog[i].d
      /\ \A m \in i + 1..j - 1 : ~(DemoLog[m].kind = "add" /\ DemoLog[m].k = DemoLog[j].k)
=============================================================================
