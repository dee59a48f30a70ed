----------------------------- MODULE ChangeLog -----------------------------
(***************************************************************************)
(* What a page handle promises the hub (spec 3, 4.3, 7), with no buffer   *)
(* mechanics: a handle opened on a URL records operations in order; a      *)
(* save hands the hub the whole record at once, appended to what that URL  *)
(* has received, or, when the transmission fails, the record is gone and   *)
(* the hub receives nothing.  Nothing else changes what the hub receives.  *)
(* PageBase instantiates this module with a refinement mapping.            *)
(***************************************************************************)
EXTENDS Sequences, SequencesExt

CONSTANTS
  Handles,  \* page handles
  Urls,     \* page URLs
  NoUrl     \* the URL of a handle not created yet

VARIABLES
  url,      \* url[h]: the URL handle h was opened on, or NoUrl
  pending,  \* pending[h]: operations recorded on h since its last save
  sent      \* sent[u]: the operations the hub received for URL u, in order

vars == <<url, pending, sent>>

Init ==
  /\ url = [h \in Handles |-> NoUrl]
  /\ pending = [h \in Handles |-> <<>>]
  /\ sent = [u \in Urls |-> <<>>]

Open(h, u) ==
  /\ url[h] = NoUrl
  /\ url' = [url EXCEPT ![h] = u]
  /\ UNCHANGED <<pending, sent>>

\* One operation appended to the handle's record; earlier ones untouched.
Record(h) ==
  /\ url[h] # NoUrl
  /\ Len(pending'[h]) = Len(pending[h]) + 1
  /\ IsPrefix(pending[h], pending'[h])
  /\ \A g \in Handles \ {h} : pending'[g] = pending[g]
  /\ UNCHANGED <<url, sent>>

Flush(h) ==
  /\ pending[h] # <<>>
  /\ sent' = [sent EXCEPT ![url[h]] = @ \o pending[h]]
  /\ pending' = [pending EXCEPT ![h] = <<>>]
  /\ UNCHANGED url

Fail(h) ==
  /\ pending[h] # <<>>
  /\ pending' = [pending EXCEPT ![h] = <<>>]
  /\ UNCHANGED <<url, sent>>

Next ==
  \E h \in Handles :
    \/ \E u \in Urls : Open(h, u)
    \/ Record(h)
    \/ Flush(h)
    \/ Fail(h)

Spec == Init /\ [][Next]_vars
=============================================================================
