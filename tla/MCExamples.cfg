\* message_bar.py and two copies of plot_line_groups.py run at once against one hub, each save may fail.
CONSTANTS
  demo = demo
  example = example
  fBox = fBox
  fItems = fItems
  fData = fData
  pVal = pVal
  rows = rows
  dt1 = dt1
  t1 = t1
  mb1 = mb1
  plot1 = plot1
  plot2 = plot2
  Urls = {demo}
  CardKeys = {example}
  FieldSeq <- MCFieldSeq
  Prims = {pVal, rows}
  DataObjs = {dt1}
  Bad = Bad
  RefVals = {rows}
  CardVals = {pVal, dt1}
  Dicts = {}
  DictVals = {pVal}
  Tasks = {t1}
  Mode = "sync"
  MaxHandles = 3
  MaxOps = 2
  Demo = demo
  Example = example
  MsgCard <- MCMsgCard
  PlotCard <- MCPlotCard
  DataField = fData
  Rows = rows
  Procs = {mb1, plot1, plot2}
  Script <- MCScript
SPECIFICATION Spec
CHECK_DEADLOCK FALSE
INVARIANT RowsOnPlotCard
