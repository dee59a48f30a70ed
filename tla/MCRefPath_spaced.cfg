\* A card key holding a space, passed to page[key].
CONSTANTS
  v1 = v1
  dt1 = dt1
  RootKeys <- MCRootKeysSpaced
  Keys <- MCKeys
  Prims = {v1}
  Vals <- MCVals
  DataObjs = {dt1}
  MaxDepth = 3
  MaxOps = 2
SPECIFICATION Spec
INVARIANT PathInjective
