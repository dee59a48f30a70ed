----------------------------- MODULE MCPageBase -----------------------------
(* Model values and bounds for checking PageBase with TLC.                 *)
EXTENDS PageBase

CONSTANTS u1, c1, f1, f2, p1, p2, dt1, dA, t1, t2

MCFieldSeq == <<f1, f2>>
\* One property name: the coroutine interleavings do not depend on how many.
MCFieldSeq1 == <<f1>>
MCTasksAsync == {t1, t2}
MCTasksSync == {t1}
\* Ui cards carry a placeholder in every field; the caller's own dict only primitives.
MCCardVals == {dt1}
MCDictVals == {p1}
\* The caller's dict may hold a placeholder too.
MCDictValsData == {p1, dt1}
MCRefValsBad == {p1, Bad}
\* The caller may overwrite a property of its dict with another primitive.
MCPrimsEdit == {p1, p2}
=============================================================================
