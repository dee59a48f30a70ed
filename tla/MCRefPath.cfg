\* page[key] with space-free card keys, then any navigation and assignment.
CONSTANTS
  v1 = v1
  dt1 = dt1
  RootKeys <- MCRootKeys
  Keys <- MCKeys
  Prims = {v1}
  Vals <- MCVals
  DataObjs = {dt1}
  MaxDepth = 3
  MaxOps = 2
SPECIFICATION Spec
INVARIANT PathInjective
INVARIANT DumpedDeep
