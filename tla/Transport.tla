----------------------------- MODULE Transport -----------------------------
(***************************************************************************)
(* The read and file-transfer paths of telesync/core.py: Site.load /       *)
(* upload / download and their AsyncSite counterparts, delegating to the   *)
(* global _BasicAuthClient (get, upload, download).  PATCH, the write      *)
(* path, is modelled in PageBase.                                          *)
(*                                                                         *)
(* The hub is the environment.  It answers 200 only to a request carrying  *)
(* the access key pair it accepts, when it has the resource; it stores an  *)
(* upload whole or not at all.  Whether it checks credentials on a plain   *)
(* GET of a file, and whether the configured key pair is the one it        *)
(* accepts, are fixed by Init.  Contents, URLs and paths are model values. *)
(***************************************************************************)
EXTENDS Naturals, Sequences, SequencesExt

CONSTANTS
  Urls,      \* page and file URLs on the hub
  Contents,  \* page states / file contents
  Absent,    \* the hub has nothing at the URL
  ErrBody,   \* the body of a non-200 response
  Paths,     \* local paths passed to download
  Dirs,      \* the paths among them that are directories
  Files,     \* local files passed to upload
  Mode,      \* "sync" (Site) or "async" (AsyncSite)
  MaxFiles,  \* bound on the number of files in one upload
  MaxStored, \* bound on the files the hub stores
  Basename   \* Basename[u]: os.path.basename(u), the last segment of URL u

ASSUME Mode \in {"sync", "async"} /\ Dirs \subseteq Paths /\ DOMAIN Basename = Urls

\* download's target: os.path.join(path, basename(url)) for a directory.
Target(p, u) == IF p \in Dirs THEN <<p, Basename[u]>> ELSE p
Targets == {Target(p, u) : p \in Paths, u \in Urls}

EmptyDict == <<>>   \* the {} AsyncSite.load returns

VARIABLES
  remote,    \* remote[u]: what the hub holds at URL u
  stored,    \* the contents of the files the hub has accepted by upload, in order
  local,     \* local[x]: the content of local file x (a download target)
  disk,      \* disk[f]: the content of upload source f, or Absent if missing
  credOK,    \* the configured access key pair is the one the hub accepts
  getAuth,   \* the hub checks credentials on a GET of a file
  last       \* the last call: its operation, arguments and what it returned

vars == <<remote, stored, local, disk, credOK, getAuth, last>>

-----------------------------------------------------------------------------
\* _BasicAuthClient.get: GET with the key pair; non-200 raises ServiceError.
ClientGet(u) ==
  IF credOK /\ remote[u] # Absent THEN [err |-> "none", val |-> remote[u]]
  ELSE [err |-> "ServiceError", val |-> ErrBody]

\* AsyncSite.load: '# XXX implement', return {}.
AsyncSiteLoad == [err |-> "none", val |-> EmptyDict]

\* Site.load (_client.get) or AsyncSite.load.
Load(u) ==
  /\ last' = [op |-> "load", u |-> u] @@ IF Mode = "sync" THEN ClientGet(u) ELSE AsyncSiteLoad
  /\ UNCHANGED <<remote, stored, local, disk, credOK, getAuth>>

\* Page.load / AsyncPage.load: self.site.load(self.url).
PageLoad(u) == Load(u)

\* _BasicAuthClient.upload via Site.upload / AsyncSite.upload: every file is
\* opened first (the list comprehension raises on a missing one), then one
\* POST /_f; 200 returns the hub's URLs for the files, in order.
Upload(fs) ==
  /\ Len(stored) + Len(fs) <= MaxStored
  /\ LET missing == \E i \in DOMAIN fs : disk[fs[i]] = Absent
     IN  /\ stored' = IF ~missing /\ credOK THEN stored \o [i \in DOMAIN fs |-> disk[fs[i]]] ELSE stored
         /\ last' = [op |-> "upload", fs |-> fs, before |-> Len(stored),
                     err |-> CASE missing -> "FileNotFoundError"
                               [] ~credOK -> "ServiceError"
                               [] OTHER   -> "none",
                     val |-> [i \in DOMAIN fs |-> Len(stored) + i]]
  /\ UNCHANGED <<remote, local, disk, credOK, getAuth>>

\* _BasicAuthClient.download via Site.download / AsyncSite.download: a GET
\* without credentials whose body, whatever the status, is copied to the
\* target file; the target's path is returned.
Download(u, p) ==
  /\ LET body == IF getAuth \/ remote[u] = Absent THEN ErrBody ELSE remote[u]
     IN  local' = [local EXCEPT ![Target(p, u)] = body]
  /\ last' = [op |-> "download", u |-> u, err |-> "none", val |-> Target(p, u)]
  /\ UNCHANGED <<remote, stored, disk, credOK, getAuth>>

Init ==
  /\ remote \in [Urls -> Contents \cup {Absent}]
  /\ stored = <<>>
  /\ local = [x \in Targets |-> Absent]
  /\ disk \in [Files -> Contents \cup {Absent}]
  /\ credOK \in BOOLEAN
  /\ getAuth \in BOOLEAN
  /\ last = [op |-> "none"]

Next ==
  \/ \E u \in Urls : Load(u) \/ PageLoad(u)
  \/ \E fs \in BoundedSeq(Files, MaxFiles) \ {<<>>} : Upload(fs)
  \/ \E u \in Urls, p \in Paths : Download(u, p)

Spec == Init /\ [][Next]_vars

-----------------------------------------------------------------------------
(* download(url, path) streams the remote resource to the target and       *)
(* returns the target's path, transport errors being raised (spec 4.5, 7): *)
(* when it returns, the file at that path holds what the hub has at url.   *)
DownloadFaithful ==
  last.op = "download" /\ last.err = "none" => local[last.val] = remote[last.u]
=============================================================================
