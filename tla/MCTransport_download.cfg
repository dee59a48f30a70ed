\* Downloads of files that may be missing, from a hub that may check credentials on GET.
CONSTANTS
  u1 = u1
  u2 = u2
  x1 = x1
  x2 = x2
  absent = absent
  errBody = errBody
  pFile = pFile
  pDir = pDir
  fA = fA
  fB = fB
  Urls = {u1, u2}
  nA = nA
  Basename <- MCBasename
  Contents = {x1, x2}
  Absent = absent
  ErrBody = errBody
  Paths = {pFile, pDir}
  Dirs = {pDir}
  Files = {fA, fB}
  Mode = "sync"
  MaxFiles = 2
  MaxStored = 3
SPECIFICATION Spec
INVARIANT DownloadFaithful
