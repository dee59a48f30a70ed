----------------------------- MODULE MCExamples -----------------------------
(* Model values for checking Examples with TLC.                            *)
EXTENDS Examples, TLC

CONSTANTS demo, example, fBox, fItems, fData, pVal, rows, dt1, t1, mb1, plot1, plot2

MCFieldSeq == <<fBox, fItems, fData>>
\* form_card: box and items, all primitive; plot_card: box and a Data placeholder.
MCMsgCard == [f \in {fBox, fItems} |-> pVal]
MCPlotCard == (fBox :> pVal) @@ (fData :> dt1)
MCScript == (mb1 :> "message_bar") @@ (plot1 :> "plot_line_groups") @@ (plot2 :> "plot_line_groups")
=============================================================================
