------------------------------- MODULE Config -------------------------------
(***************************************************************************)
(* The process-wide configuration of telesync/core.py: _Config read from   *)
(* the TELESYNC_* environment at import, configure() that overrides it,    *)
(* and the module-level _client whose basic-auth credentials are fixed     *)
(* when it is constructed.  Addresses and credentials are model values;    *)
(* None also stands for the empty string, which configure treats alike.    *)
(***************************************************************************)
EXTENDS Naturals

CONSTANTS
  Addrs,         \* websocket base addresses (internal / external)
  DefInternal,   \* 'ws://localhost:55556', the built-in internal address
  Hubs,          \* hub addresses
  DefHub,        \* 'http://localhost:55555'
  KeyIds,        \* access key ids
  DefKeyId,      \* 'access_key_id'
  Secrets,       \* access key secrets
  DefSecret,     \* 'access_key_secret'
  None           \* an absent argument or environment variable

ASSUME /\ DefInternal \in Addrs /\ DefHub \in Hubs
       /\ DefKeyId \in KeyIds /\ DefSecret \in Secrets
       /\ None \notin Addrs \cup Hubs \cup KeyIds \cup Secrets

VARIABLES
  internal,      \* _config.internal_address
  external,      \* _config.external_address
  hub,           \* _config.hub_address
  keyId,         \* _config.hub_access_key_id
  keySecret,     \* _config.hub_access_key_secret
  clientAuth,    \* the HTTPBasicAuth pair held by _client
  extExplicit    \* history: the external address was given explicitly

vars == <<internal, external, hub, keyId, keySecret, clientAuth, extExplicit>>

TypeOK ==
  /\ internal \in Addrs /\ external \in Addrs /\ hub \in Hubs
  /\ keyId \in KeyIds /\ keySecret \in Secrets
  /\ clientAuth \in KeyIds \X Secrets
  /\ extExplicit \in BOOLEAN

\* Mutant: os.environ.get without the default.
GetEnvNoDefault(v, default) == v

\* _get_env(key, default)
GetEnv(v, default) == IF v = None THEN default ELSE v

\* Import of the module: _config = _Config(), then _client = _BasicAuthClient().
Init ==
  \E eInt \in Addrs \cup {None}, eExt \in Addrs \cup {None}, eHub \in Hubs \cup {None},
     eId \in KeyIds \cup {None}, eSecret \in Secrets \cup {None} :
    /\ internal = GetEnv(eInt, DefInternal)
    /\ external = GetEnv(eExt, GetEnv(eInt, DefInternal))
    /\ hub = GetEnv(eHub, DefHub)
    /\ keyId = GetEnv(eId, DefKeyId)
    /\ keySecret = GetEnv(eSecret, DefSecret)
    /\ clientAuth = <<keyId, keySecret>>
    /\ extExplicit = (eExt # None)

\* Mutant: configure() without 'global _client' rebinds a local name only.
ConfigureLocalClient(i, e, hu, ki, ks) ==
  /\ internal' = IF i # None THEN i ELSE internal
  /\ external' = CASE e # None                          -> e
                   [] i # None /\ external = DefInternal -> i
                   [] OTHER                             -> external
  /\ hub' = IF hu # None THEN hu ELSE hub
  /\ keyId' = IF ki # None THEN ki ELSE keyId
  /\ keySecret' = IF ks # None THEN ks ELSE keySecret
  /\ clientAuth' = clientAuth
  /\ extExplicit' = (extExplicit \/ e # None)

\* configure(internal_address, external_address, hub_address,
\*           hub_access_key_id, hub_access_key_secret)
Configure(i, e, hu, ki, ks) ==
  /\ internal' = IF i # None THEN i ELSE internal
  /\ external' = CASE e # None                          -> e
                   [] i # None /\ external = DefInternal -> i
                   [] OTHER                             -> external
  /\ hub' = IF hu # None THEN hu ELSE hub
  /\ keyId' = IF ki # None THEN ki ELSE keyId
  /\ keySecret' = IF ks # None THEN ks ELSE keySecret
  /\ clientAuth' = <<keyId', keySecret'>>
  /\ extExplicit' = (extExplicit \/ e # None)

Next ==
  \E i \in Addrs \cup {None}, e \in Addrs \cup {None}, hu \in Hubs \cup {None},
     ki \in KeyIds \cup {None}, ks \in Secrets \cup {None} :
    Configure(i, e, hu, ki, ks)

Spec == Init /\ [][Next]_vars

-----------------------------------------------------------------------------
(* The external address the browser is given follows the internal address *)
(* unless it was set explicitly (TELESYNC_EXTERNAL_ADDRESS or the          *)
(* external_address argument): line 28 defaults it to the internal one,   *)
(* and configure() carries a new internal address over to it.              *)
ExternalFollowsInternal == ~extExplicit => external = internal
=============================================================================
