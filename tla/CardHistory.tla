---------------------------- MODULE CardHistory -----------------------------
(***************************************************************************)
(* The card with a memory of its ledger: what each purchase added to the    *)
(* debt and its refunds took off again, what the current period billed, and *)
(* the digests of its repayments.  The memory follows the ledger events and *)
(* constrains no step.                                                      *)
(***************************************************************************)
EXTENDS Card

VARIABLES
    added,     \* debt each authorization added, fees included
    credited,  \* debt its refunds took off, fees included
    billed,    \* debt added in the current period
    repaid     \* the digests of the repayments of this delegation, in order

historyVars == <<added, credited, billed, repaid>>

HistoryInit ==
    /\ Init
    /\ added = [a \in AuthId |-> 0]
    /\ credited = [a \in AuthId |-> 0]
    /\ billed = 0
    /\ repaid = <<>>

Debt(pol) == pol.statement_outstanding_cents
Raised == Saturating(Debt(policy'), Debt(policy))
Lowered == Saturating(Debt(policy), Debt(policy'))

Logged(kinds) == \E e \in tx'.events : e.kind \in kinds
LoggedFor(a, kinds) == \E e \in tx'.events : e.auth_id = a /\ e.kind \in kinds
NewPeriod == Logged({"roll", "restore"}) \/ ~binding'.delegated

HistoryNext ==
    /\ Next
    /\ added' = [a \in AuthId |->
           IF LoggedFor(a, {"authorize", "capture", "exception"}) THEN added[a] + Raised
           ELSE added[a]]
    /\ credited' = [a \in AuthId |->
           IF LoggedFor(a, {"refund"}) THEN credited[a] + Lowered ELSE credited[a]]
    /\ billed' = IF NewPeriod THEN 0 ELSE billed + Raised
    /\ repaid' = IF ~binding'.delegated THEN <<>>
                 ELSE IF Logged({"repayment"})
                      THEN Append(repaid, (CHOOSE e \in tx'.events : e.kind = "repayment").event_id)
                      ELSE repaid

HistorySpec == HistoryInit /\ [][HistoryNext]_<<vars, historyVars>>

\* policy.rs, on require_billable: budget + fee(budget) is a real ceiling on what
\* one period bills, however the purchases are cut into captures, whatever the
\* issuer reports late or over, and across the owner's edits of the budget.
PeriodCeiling == is_set => billed <= with_fee(policy.terms.budget_cents, policy.terms.fee_bps)

\* repayment.rs, on record_repayment: a statement digest "can be used once", for as
\* long as apply_repayment remembers it: of any REPAYMENT_RING + 1 repayments in a row
\* no two are for the same digest.
DigestUsedOnce ==
    \A i, j \in 1..Len(repaid) :
        i < j /\ repaid[i] = repaid[j] => j - i > REPAYMENT_RING
=============================================================================
