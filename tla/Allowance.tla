----------------------------- MODULE Allowance -----------------------------
(***************************************************************************)
(* What a payment mandate promises its owner, without accounts, slots,      *)
(* agents or receipts: a limit the owner may move but never below what is   *)
(* spent, payments that are within it and settle an invoice once, and a     *)
(* revocation that ends it.  Mandate implements it.                         *)
(***************************************************************************)
EXTENDS Naturals

CONSTANTS Holder, Invoice, Sum, None

VARIABLES
    grant,      \* grant[h]: the allowance of a holder, or None
    settled     \* the invoices each holder has paid

allowance == <<grant, settled>>

Grant == [limit : Sum, spent : Sum, state : {"open", "paused", "revoked"}]

Init ==
    /\ grant \in [Holder -> Grant \cup {None}]
    /\ \A h \in Holder : grant[h] # None => grant[h].spent = 0 /\ grant[h].state = "open"
    /\ settled = {}

\* Only the allowance of h moves.
Moves(h) == grant'[h] \in Grant /\ grant' = [grant EXCEPT ![h] = grant'[h]]

Give(h) ==
    /\ grant[h] = None
    /\ Moves(h)
    /\ grant'[h].spent = 0 /\ grant'[h].state = "open"
    /\ UNCHANGED settled

\* The owner may pause, resume and move the limit, as far as it covers what is spent.
Change(h) ==
    /\ grant[h] # None
    /\ grant[h].state # "revoked"
    /\ Moves(h)
    /\ grant'[h].spent = grant[h].spent
    /\ grant'[h].limit # grant[h].limit => grant'[h].limit >= grant[h].spent
    /\ UNCHANGED settled

Spend(h, invoice) ==
    /\ grant[h] # None
    /\ grant[h].state = "open"
    /\ <<h, invoice>> \notin settled
    /\ Moves(h)
    /\ grant'[h].limit = grant[h].limit /\ grant'[h].state = "open"
    /\ grant'[h].spent > grant[h].spent /\ grant'[h].spent <= grant[h].limit
    /\ settled' = settled \cup {<<h, invoice>>}

Next == \E h \in Holder : Give(h) \/ Change(h) \/ \E invoice \in Invoice : Spend(h, invoice)

Spec == Init /\ [][Next]_allowance
=============================================================================
