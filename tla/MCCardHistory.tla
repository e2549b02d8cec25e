---------------------------- MODULE MCCardHistory ---------------------------
(* The small cards of MCCard, with the memory of CardHistory.               *)
EXTENDS MCCard, CardHistory

HistoryView == <<CardView, historyVars>>
=============================================================================
