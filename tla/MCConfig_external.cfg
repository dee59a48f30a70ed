\* The external address after configure(internal_address=...) calls.
CONSTANTS
  Addrs = {wsDefault, wsA, wsB}
  DefInternal = wsDefault
  Hubs = {hubDefault, hubA}
  DefHub = hubDefault
  KeyIds = {idDefault, idA}
  DefKeyId = idDefault
  Secrets = {secretDefault, secretA}
  DefSecret = secretDefault
  None = None
  wsDefault = wsDefault
  wsA = wsA
  wsB = wsB
  hubDefault = hubDefault
  hubA = hubA
  idDefault = idDefault
  idA = idA
  secretDefault = secretDefault
  secretA = secretA
SPECIFICATION Spec
INVARIANT ExternalFollowsInternal
