\* Every data() call over the bounded arguments.
CONSTANTS
  Words = {"a", "b"}
  Elems <- MCElems
  NonStr = NonStrElem
  Sizes <- MCSizes
  NonInt = NonIntSize
  NonStrElem = NonStrElem
  NonIntSize = NonIntSize
  MaxFields = 2
SPECIFICATION Spec
INVARIANT DumpMatchesSpec
