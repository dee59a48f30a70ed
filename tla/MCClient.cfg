\* Any environment at import, any configure() calls, and blocking Site loads and uploads in between.
CONSTANTS
  wsDefault = wsDefault
  hubDefault = hubDefault
  idDefault = idDefault
  idA = idA
  secretDefault = secretDefault
  secretA = secretA
  u1 = u1
  u2 = u2
  x1 = x1
  absent = absent
  errBody = errBody
  pFile = pFile
  pDir = pDir
  fA = fA
  fB = fB
  Addrs = {wsDefault}
  DefInternal = wsDefault
  Hubs = {hubDefault}
  DefHub = hubDefault
  KeyIds = {idDefault, idA}
  DefKeyId = idDefault
  Secrets = {secretDefault, secretA}
  DefSecret = secretDefault
  None = None
  Urls = {u1, u2}
  nA = nA
  Basename <- MCBasename
  Contents = {x1}
  Absent = absent
  ErrBody = errBody
  Paths = {pFile, pDir}
  Dirs = {pDir}
  Files = {fA, fB}
  Mode = "sync"
  MaxFiles = 2
  MaxStored = 3
  HubAuth <- MCHubAuth
SPECIFICATION Spec
INVARIANT TypeOK
INVARIANT AuthFollowsConfig
