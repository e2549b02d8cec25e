----------------------------- MODULE CardCredit -----------------------------
(***************************************************************************)
(* What the cardholder owes: refunds, disputes and exceptions reported by   *)
(* the issuer, and statement repayments (lifecycle.rs, repayment.rs).       *)
(***************************************************************************)
EXTENDS CardSpending

\* The reservation passed with an issuer event; NoAuth when its hold is closed.
PassedHold(a) == a # NoAuth => reservation[a] # NoAccount

\* The reservations after `Op` on the one that was passed, if any.
OnPassed(a, Op(_)) ==
    [x \in AuthId |-> IF x = a THEN Op(reservation[x]) ELSE reservation[x]]

Refunded(r, n) == [r EXCEPT !.refunded_cents = r.refunded_cents + n]
PeriodRefunded(pd, n) == [pd EXCEPT !.refunded_cents = pd.refunded_cents + n]

\* A refund lowers the debt, fee included; the budget stays spent.
refund(a, n, id) ==
    /\ AuthorizerSigns
    /\ PassedHold(a)
    /\ n > 0
    /\ FreshEvent(id)
    /\ Fits(period.refunded_cents, n)
    /\ a # NoAuth => require_refundable(reservation[a], n)
    /\ period' = PeriodRefunded(period, n)
    /\ reservation' = OnPassed(a, LAMBDA r : Refunded(r, n))
    /\ policy' = reduce_exposure(Remembered(policy, id), n)
    /\ Appends({"authorizer"}, {Event("refund", a, id, n, "")})
    /\ UNCHANGED <<now, intent, guard, permission, baseVars>>

\* Only an open dispute matters to any other instruction.
record_dispute(a, opened, id) ==
    /\ AuthorizerSigns
    /\ reservation[a] # NoAccount
    /\ FreshEvent(id)
    /\ reservation' = [reservation EXCEPT ![a] = [reservation[a] EXCEPT !.disputed = opened]]
    /\ policy' = Remembered(policy, id)
    /\ Appends({"authorizer"}, {Event("dispute", a, id, 0, "")})
    /\ UNCHANGED <<now, period, intent, guard, permission, baseVars>>

-----------------------------------------------------------------------------
(* record_exception: one disjunct per arm of its match.                     *)

\* The hold was closed, so the clearing has no reservation to land on.
LateCapture(a, n, id) ==
    /\ a = NoAuth
    /\ require_billable(period, n)
    /\ ExposureFits(n)
    /\ period' = [period EXCEPT !.captured_cents = period.captured_cents + n]
    /\ policy' = add_exposure(Remembered(policy, id), n)
    /\ UNCHANGED reservation

OverHoldable(a) ==
    /\ a # NoAuth
    /\ reservation[a].state \in OpenStates

\* The issuer holds more than the policy allowed; nothing caps this.
OverHold(a, n, id) ==
    /\ OverHoldable(a)
    /\ Fits(reservation[a].amount_reserved_cents, n)
    /\ Fits(period.reserved_cents, n)
    /\ Fits(period.exception_cents, n)
    /\ period' = [period EXCEPT !.reserved_cents = period.reserved_cents + n,
                                !.exception_cents = period.exception_cents + n]
    /\ reservation' = OnPassed(a, LAMBDA r :
           [r EXCEPT !.amount_reserved_cents = r.amount_reserved_cents + n])
    /\ policy' = ExceptionOpened(Remembered(policy, id))

CorrectionCredit(a, n, id) ==
    /\ Fits(period.refunded_cents, n)
    /\ a # NoAuth => Fits(reservation[a].refunded_cents, n)
    /\ period' = PeriodRefunded(period, n)
    /\ reservation' = OnPassed(a, LAMBDA r : Refunded(r, n))
    /\ policy' = ExceptionOpened(reduce_exposure(Remembered(policy, id), n))

Debits == {"forced_capture", "over_capture", "correction_debit",
           "return_reversal", "unpaired_capture"}

Debited(r, n, kind) ==
    [r EXCEPT !.captured_cents = r.captured_cents + n,
              !.flags = r.flags \cup {f \in {"over_capture"} : f = kind}]

Debit(a, n, id, kind) ==
    /\ kind \in Debits
    /\ require_billable(period, n)
    /\ Fits(period.exception_cents, n)
    /\ a # NoAuth => Fits(reservation[a].captured_cents, n)
    /\ ExposureFits(n)
    /\ period' = [period EXCEPT !.captured_cents = period.captured_cents + n,
                                !.exception_cents = period.exception_cents + n]
    /\ reservation' = OnPassed(a, LAMBDA r : Debited(r, n, kind))
    /\ policy' = ExceptionOpened(add_exposure(Remembered(policy, id), n))

record_exception(a, n, id, kind) ==
    /\ AuthorizerSigns
    /\ PassedHold(a)
    /\ n > 0
    /\ FreshEvent(id)
    /\ kind # "late_capture" => policy.exceptions_open < MaxU16
    /\ \/ kind = "late_capture" /\ LateCapture(a, n, id)
       \/ kind = "over_hold" /\ OverHold(a, n, id)
       \/ kind = "correction_credit" /\ CorrectionCredit(a, n, id)
       \/ Debit(a, n, id, kind)
    /\ Appends({"authorizer"}, {Event("exception", a, id, n, kind)})
    /\ UNCHANGED <<now, intent, guard, permission, baseVars>>

\* The resolution is remembered under a key of its own: the exception's id is
\* in the ring already.
resolve_exception(id) ==
    /\ OwnerSigns
    /\ FreshEvent(ResolveKey(id))
    /\ policy.exceptions_open > 0
    /\ policy' = [Remembered(policy, ResolveKey(id)) EXCEPT
                     !.exceptions_open = policy.exceptions_open - 1]
    /\ Appends({"owner"}, {Event("resolve_exception", NoAuth, id, 0, "")})
    /\ UNCHANGED <<now, period, reservation, intent, guard, permission, baseVars>>

-----------------------------------------------------------------------------
(* Repayments.                                                              *)

\* On the base layer: ChainPay's execute_payment creates the one receipt of
\* this statement digest under the card's mandate, or the step is refused.
repay_statement(digest, units) ==
    /\ binding.status # "none"
    /\ units > 0
    /\ paid[digest] = 0
    /\ paid' = [paid EXCEPT ![digest] = units]
    /\ Appends({"owner"}, {})
    /\ UNCHANGED <<now, binding, policy, period, reservation, intent, guard,
                   permission, commitment, actions>>

\* A payment that is no whole number of cents rounds down.
paid_cents(digest) == paid[digest] \div UnitsPerCent

\* Mutant: the ring wraps one slot early.
RepaidShortRing(pol, n, digest) ==
    [pol EXCEPT !.statement_outstanding_cents = pol.statement_outstanding_cents - n,
                !.repayment_digests = Push(pol.repayment_digests, digest, REPAYMENT_RING - 1)]
Repaid(pol, n, digest) ==
    [pol EXCEPT !.statement_outstanding_cents = pol.statement_outstanding_cents - n,
                !.repayment_digests = Push(pol.repayment_digests, digest, REPAYMENT_RING)]

apply_repayment(digest, n, method) ==
    /\ n > 0
    /\ ~InRing(policy.repayment_digests, digest)
    /\ n <= policy.statement_outstanding_cents
    /\ policy' = Repaid(policy, n, digest)
    /\ Appends({"authorizer"}, {Event("repayment", NoAuth, digest, n, method)})
    /\ UNCHANGED <<now, period, reservation, intent, guard, permission, baseVars>>

\* Receipt-proven: ChainPay's receipt for this digest covers the amount.
record_repayment(digest, n) ==
    /\ AuthorizerSigns
    /\ paid[digest] > 0
    /\ n <= paid_cents(digest)
    /\ apply_repayment(digest, n, "chainpay_receipt")

\* Attested by the authorizer alone.
record_private_repayment(digest, n) ==
    /\ AuthorizerSigns
    /\ apply_repayment(digest, n, "private_attested")
=============================================================================
