------------------------------- MODULE Client -------------------------------
(***************************************************************************)
(* The configuration and the transport of telesync/core.py together: the   *)
(* hub accepts one access key pair, and whether a request carries it is    *)
(* no longer a free choice of the environment (Transport's credOK) but     *)
(* what the global _client was built with, which configure() rebuilds.     *)
(* Site.load / upload / download look up the global _client when they are *)
(* called, so a configure() between two calls changes what the second one *)
(* sends.  configure() is a call of its own: it returns None.              *)
(***************************************************************************)
EXTENDS Naturals

CONSTANTS
  Addrs, DefInternal, Hubs, DefHub, KeyIds, DefKeyId, Secrets, DefSecret, None,
  Urls, Contents, Absent, ErrBody, Paths, Dirs, Files, Mode, MaxFiles, MaxStored,
  Basename,
  HubAuth    \* the access key pair the hub accepts

ASSUME HubAuth \in KeyIds \X Secrets

VARIABLES
  internal, external, hub, keyId, keySecret, clientAuth, extExplicit,
  remote, stored, local, disk, getAuth, last

cfgVars == <<internal, external, hub, keyId, keySecret, clientAuth, extExplicit>>
netVars == <<remote, stored, local, disk, getAuth, last>>
vars == <<cfgVars, netVars>>

C == INSTANCE Config
T == INSTANCE Transport WITH credOK <- (clientAuth = HubAuth)

TypeOK == C!TypeOK

\* configure(...): the configuration and _client change; its result is None.
Configure ==
  /\ C!Next
  /\ last' = [op |-> "configure"]
  /\ UNCHANGED <<remote, stored, local, disk, getAuth>>

\* A Site call through the current global _client.
Call == UNCHANGED cfgVars /\ T!Next

Init == C!Init /\ T!Init

Next == Configure \/ Call

Spec == Init /\ [][Next]_vars

-----------------------------------------------------------------------------
\* The access key pair that _config holds now.
ConfigKeys == <<keyId, keySecret>>

(* Whatever the environment set at import and whatever configure() calls  *)
(* came since, the hub refuses a load or an upload for its credentials     *)
(* exactly when the key pair currently in _config is not the one it       *)
(* accepts: _client is rebuilt from _config after every configure(), and  *)
(* Site looks the global _client up at every call.                         *)
AuthFollowsConfig ==
  /\ last.op = "load" /\ Mode = "sync" =>
       (last.err = "none" <=> ConfigKeys = HubAuth /\ remote[last.u] # Absent)
  /\ last.op = "upload" /\ last.err # "FileNotFoundError" =>
       (last.err = "none" <=> ConfigKeys = HubAuth)
=============================================================================
