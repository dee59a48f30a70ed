\* The caller edits its own dict, with primitives only, between add() and save().
CONSTANTS
  Urls = {u1}
  CardKeys = {c1}
  FieldSeq <- MCFieldSeq
  Prims <- MCPrimsEdit
  DataObjs = {dt1}
  Bad = Bad
  CardVals <- MCCardVals
  Dicts = {dA}
  MaxHandles = 2
  MaxOps = 2
  u1 = u1
  c1 = c1
  f1 = f1
  f2 = f2
  p1 = p1
  p2 = p2
  dt1 = dt1
  dA = dA
  t1 = t1
  t2 = t2
  RefVals = {p1}
  DictVals <- MCPrimsEdit
  Tasks <- MCTasksSync
  Mode = "sync"
SPECIFICATION Spec
PROPERTY RefinesChangeLog
