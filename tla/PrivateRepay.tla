---------------------------- MODULE PrivateRepay ----------------------------
(***************************************************************************)
(* Private repayment of a statement (backend connectors/card_issuer/       *)
(* private_repay.rs): an attempt with a reference of its own, payouts of    *)
(* the payment queue on the partner's account that carry it, and the scan   *)
(* of that account by the owner's request and by the reconcile pass.        *)
(***************************************************************************)
EXTENDS Statements

CONSTANTS
    Prober,        \* workers preparing and checking attempts
    MaxAttempts,   \* bound on attempts of a statement (20 in the code)
    MaxChain,      \* bound: transactions on the partner account
    ListLimit,     \* signatures listed per pass (LIST_PAGES * 100)
    TxBudget       \* transactions read per pass (TX_BUDGET)

VARIABLES
    chain,         \* finalized transactions of the partner account: their payouts
    claims,        \* statement that claimed each transaction, 0 for none
    probe          \* where each prober stands

privateVars == <<chain, claims, probe>>
allVars == <<vars, privateVars>>

PrivateInit ==
    /\ Init
    /\ chain = <<>>
    /\ claims = [i \in 1..MaxChain |-> 0]
    /\ probe = [p \in Prober |-> Idle]

\* A queued payout carries the reference of an attempt; `exact` is whether it
\* pays the amount due, in the mint, from the vault, to the partner.
Payout(s, k, exact) == [seq |-> s, attempt |-> k, exact |-> exact]

References == {<<s, k>> \in Seqs \X (1..MaxAttempts) :
                 stmt[s] # NoStatement /\ k <= Len(stmt[s].attempts)}

\* The payment queue settles: one transaction may execute several payouts, of
\* references that were handed out, or of other users (none of ours).
settles ==
    /\ Len(chain) < scene.chain
    /\ \E refs \in {r \in SUBSET References : Cardinality(r) <= 2} :
       \E exact \in BOOLEAN :
         chain' = Append(chain, {Payout(r[1], r[2], exact) : r \in refs})
    /\ UNCHANGED <<vars, claims, probe>>

Open(row) == {k \in DOMAIN row.attempts : row.attempts[k].state = "awaiting_settlement"}
Payable(s) == stmt[s] # NoStatement /\ stmt[s].due > 0
Unrepaid == {"closed", "repayment_mismatch"}

\* prepare: no open attempt; the newest transaction is read before the write.
prepare_reads(p, s) ==
    /\ scene.chain > 0
    /\ probe[p].pc = "idle"
    /\ Payable(s) /\ stmt[s].state \in Unrepaid
    /\ Open(stmt[s]) = {}
    /\ probe' = [probe EXCEPT ![p] = [pc |-> "prepare", seq |-> s, cursor |-> Len(chain)]]
    /\ UNCHANGED <<vars, chain, claims>>

\* The compare-and-swap loop: the row as it is now decides.
prepare(p) ==
    /\ probe[p].pc = "prepare"
    /\ LET s == probe[p].seq
           new == [state |-> "awaiting_settlement", cursor |-> probe[p].cursor]
       IN  IF /\ stmt[s].state \in Unrepaid
              /\ Open(stmt[s]) = {}
              /\ Len(stmt[s].attempts) < MaxAttempts
           THEN stmt' = [stmt EXCEPT ![s].attempts = Append(@, new)]
           ELSE UNCHANGED stmt
    /\ probe' = [probe EXCEPT ![p] = Idle]
    /\ UNCHANGED <<scene, clock, per, posting, billing, receipts, ledger, flight,
                   work, desk, chain, claims>>

\* The oldest transaction a listing newer than the cursor still reaches.
Oldest(cursor) ==
    IF Len(chain) - cursor > ListLimit THEN Len(chain) - ListLimit + 1 ELSE cursor + 1

\* The transactions among `read` that pay the reference.
Carrying(s, k, read) == {i \in read : \E pay \in chain[i] : pay.seq = s /\ pay.attempt = k}

\* Mutant: the cursor moves to the newest signature listed.
AdvanceToNewest(cursor, last) == IF Len(chain) > cursor THEN Len(chain) ELSE cursor
\* The newest transaction checked in full.
Advance(cursor, last) == IF last > cursor THEN last ELSE cursor

\* check_attempt and orphan_check: the row is read, then the account is read
\* oldest first, up to the budget or to a transaction that is not served yet.
scan(p, s) ==
    /\ probe[p].pc = "idle"
    /\ Payable(s)
    /\ \E k \in Open(stmt[s]) :
         LET cursor == stmt[s].attempts[k].cursor
             first == Oldest(cursor)
         IN  \E last \in (first - 1)..Lesser(Len(chain), first + TxBudget - 1) :
               LET hits == Carrying(s, k, first..last)
               IN  probe' = [probe EXCEPT ![p] =
                       [pc |-> IF hits = {} THEN "pending" ELSE "found",
                        seq |-> s, attempt |-> k, hits |-> hits, from |-> cursor,
                        orphan |-> stmt[s].state \notin Unrepaid,
                        cursor |-> IF last < first THEN cursor ELSE Advance(cursor, last)]]
    /\ UNCHANGED <<vars, chain, claims>>

\* update_attempt: compare and swap without a statement transition.
update_attempt(s, k, attempt) ==
    stmt' = [stmt EXCEPT ![s].attempts = [@ EXCEPT ![k] = attempt]]

\* Nothing yet: the attempt waits on, from the transaction reached.
scan_pending(p) ==
    /\ probe[p].pc = "pending"
    /\ LET s == probe[p].seq
           k == probe[p].attempt
       IN  IF probe[p].cursor = probe[p].from THEN UNCHANGED stmt
           ELSE update_attempt(s, k, [state |-> "awaiting_settlement", cursor |-> probe[p].cursor])
    /\ probe' = [probe EXCEPT ![p] = Idle]
    /\ UNCHANGED <<scene, clock, per, posting, billing, receipts, ledger, flight,
                   work, desk, chain, claims>>

Exact(s, k, hits) == {i \in hits : Payout(s, k, TRUE) \in chain[i]}
First(hits) == CHOOSE i \in hits : \A j \in hits : i <= j

\* Mutant: the claim of another statement is not looked at.
ClaimTaken(i, s) == s
Claimed(i, s) == IF claims[i] = 0 THEN s ELSE claims[i]

Settlement(k, i) == [method |-> "settlement", attempt |-> k, tx |-> i]

Attempted(s, k, state) ==
    [stmt[s].attempts EXCEPT ![k].state = state]

\* The first exact payout settles, once its transaction is claimed for this
\* statement, create-only. Anything else found is a mismatch.
check_attempt(p) ==
    /\ probe[p].pc = "found"
    /\ ~probe[p].orphan
    /\ LET s == probe[p].seq
           k == probe[p].attempt
           exact == Exact(s, k, probe[p].hits)
           i == First(exact)
           mine == exact # {} /\ Claimed(i, s) = s
       IN  /\ claims' = IF exact = {} THEN claims ELSE [claims EXCEPT ![i] = Claimed(i, s)]
           /\ IF stmt[s].state \notin Unrepaid THEN UNCHANGED stmt
              ELSE IF mine
              THEN apply_event(s, "receipt_verified",
                       [repayment |-> Settlement(k, i), attempts |-> Attempted(s, k, "verified")])
              ELSE apply_event(s, "receipt_mismatch",
                       [repayment |-> NoEvidence, attempts |-> Attempted(s, k, "mismatch")])
    /\ probe' = [probe EXCEPT ![p] = Idle]
    /\ UNCHANGED <<scene, clock, per, posting, billing, receipts, ledger, flight,
                   work, desk, chain>>

\* The statement was repaid already when the row was read: the payout is kept
\* on the attempt as unapplied.
orphan_check(p) ==
    /\ probe[p].pc = "found"
    /\ probe[p].orphan
    /\ LET s == probe[p].seq
           k == probe[p].attempt
       IN  update_attempt(s, k, [stmt[s].attempts[k] EXCEPT !.state = "unapplied_payout"])
    /\ probe' = [probe EXCEPT ![p] = Idle]
    /\ UNCHANGED <<scene, clock, per, posting, billing, receipts, ledger, flight,
                   work, desk, chain, claims>>

\* The repayment configuration changed since the attempt was opened.
expectations_drifted(s, k) ==
    /\ scene.drift
    /\ Payable(s)
    /\ k \in Open(stmt[s])
    /\ stmt[s].state \in Unrepaid
    /\ update_attempt(s, k, [stmt[s].attempts[k] EXCEPT !.state = "stale"])
    /\ UNCHANGED <<scene, clock, per, posting, billing, receipts, ledger, flight,
                   work, desk, privateVars>>

prober_dies(p) ==
    /\ scene.desksDie
    /\ probe[p].pc # "idle"
    /\ probe' = [probe EXCEPT ![p] = Idle]
    /\ UNCHANGED <<vars, chain, claims>>

\* The partner re-reads the recorded evidence itself.
partner_reverify(s) ==
    LET e == stmt[s].repayment
    IN  IF e.method = "receipt" THEN verify_receipt(s, e.mandate) = "verified"
        ELSE Payout(s, e.attempt, TRUE) \in chain[e.tx]

PrivateNext ==
    \/ StatementStep /\ UNCHANGED privateVars
    \/ \E s \in Seqs :
         /\ stmt[s].state = "repayment_observed"
         /\ partner_books(s, partner_reverify(s))
         /\ UNCHANGED privateVars
    \/ settles
    \/ \E p \in Prober :
         \/ \E s \in Seqs : prepare_reads(p, s) \/ scan(p, s)
         \/ prepare(p) \/ scan_pending(p) \/ check_attempt(p) \/ orphan_check(p)
         \/ prober_dies(p)
    \/ \E s \in Seqs, k \in 1..MaxAttempts : expectations_drifted(s, k)

PrivateSpec == PrivateInit /\ [][PrivateNext]_allVars

---------------------------------------------------------------------------
(* Properties *)

Statements == {s \in Seqs : stmt[s] # NoStatement}

\* A movement is billed by at most one statement and its posting is filed under
\* that one, however many finishers of a close ran, died or raced.
BilledOnce ==
    /\ \A s, t \in Statements : s # t => stmt[s].lines \cap stmt[t].lines = {}
    /\ \A e \in Movement : posting[e].seq # 0 => e \in stmt[posting[e].seq].lines

\* Credit is neither lost nor granted twice between statements: each one starts
\* from the credit the one before it left.
CreditConserved ==
    \A s \in Statements :
      /\ stmt[s].carried = IF s = 1 THEN 0 ELSE stmt[s - 1].forward
      /\ s > 1 => s - 1 \in Statements
      /\ stmt[s].due - stmt[s].forward = Net(stmt[s].lines) - stmt[s].carried

\* Together: what the statements bill is what the card moved (close_statement).
StatementsAddUp == BilledOnce /\ CreditConserved

\* Recording the repayment of one statement never erases debt of another: what
\* the rollup still shows covers every movement that is on no recorded statement.
LaterDebtKept ==
    per.outstanding >=
        Net({e \in Movement : posting[e].state # "none"}
            \ UNION {stmt[s].lines : s \in Statements \cap per.recorded})

\* A discharged statement owed nothing, or the partner booked a payment of its
\* exact amount for it, and no other statement rests on that payment.
DischargedIsPaid ==
    \A s \in Statements :
      stmt[s].state = "discharged" /\ stmt[s].due > 0 =>
        /\ ledger[s] = stmt[s].repayment
        /\ partner_reverify(s)
        /\ \A t \in Statements \ {s} :
             ledger[t].method = "settlement" /\ ledger[s].method = "settlement"
               => ledger[t].tx # ledger[s].tx

\* A payout is never passed over: no transaction that carries the reference of a
\* waiting attempt lies behind its cursor.
NoPayoutPassed ==
    \A s \in Statements : \A k \in Open(stmt[s]) :
      Carrying(s, k, 1..stmt[s].attempts[k].cursor) = {}
=============================================================================
