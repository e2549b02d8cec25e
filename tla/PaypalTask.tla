---------------------------- MODULE PaypalTask ----------------------------
(***************************************************************************)
(* One purchased task of the PayPal service, as the record the store keeps *)
(* and the changes the service makes to it under the row lock of           *)
(* `Store::update`: backend/src/paypal/domain.rs, resolution.rs, the       *)
(* claims of ai.rs and the provider observations of observations.rs.       *)
(* Documents, prices and hashes are abstracted: every output costs one,    *)
(* and an output is named by the worker attempt that produced it.          *)
(***************************************************************************)
EXTENDS Integers, Sequences, FiniteSets, FiniteSetsExt

CONSTANTS
    Unit,          \* the outputs a task buys
    NoDelegation   \* the delegation of a task its buyer allocated

amount == Cardinality(Unit)

\* The states of an `Operation`; "none" is the absent one.
Op == {"none", "dispatching", "observed", "unknown"}

\* Operation::unknown never takes back an observation.
unknown(op) == IF op = "observed" THEN op ELSE "unknown"

NewUnit ==
    [rev |-> 0, attempt |-> 0, state |-> "Pending", out |-> 0, redone |-> FALSE]

\* Task::quote_service. `seen` is the provider status of the last order observation.
NewTask ==
    [order |-> "none", orderId |-> FALSE, seen |-> "NONE",
     capture |-> "none", captureId |-> FALSE, captured |-> FALSE,
     review |-> FALSE, funding |-> 0, deleg |-> NoDelegation,
     refund |-> "none", refundId |-> FALSE, refundDone |-> FALSE, legacy |-> {},
     refunds |-> <<>>, log |-> <<>>, units |-> [u \in Unit |-> NewUnit]]

verified_funded(t) == ~t.review /\ (t.funding # 0 \/ t.captured)

-----------------------------------------------------------------------------
(* Money given back (resolution.rs) *)

Amount(r) == Cardinality(r.bind)

TotalOf(t, I) == MapThenSumSet(LAMBDA i : Amount(t.refunds[i]), I)

confirmed_refunds(t) ==
    (IF t.refundDone THEN Cardinality(t.legacy) ELSE 0)
    + TotalOf(t, {i \in DOMAIN t.refunds : t.refunds[i].confirmed})

reserved_refunds(t) ==
    (IF t.refund # "none" THEN Cardinality(t.legacy) ELSE 0)
    + TotalOf(t, {i \in DOMAIN t.refunds : t.refunds[i].op # "none"})

\* Task::net, -1 for the unknown one.
net(t) == IF t.review \/ ~t.captured THEN -1 ELSE amount - confirmed_refunds(t)

\* Mutant: the ledger's refunds only.
LedgerRefunded(t, u) ==
    \E i \in DOMAIN t.refunds :
        t.refunds[i].op # "none" /\ \E b \in t.refunds[i].bind : b.unit = u

refunded_unit(t, u) ==
    \/ u \in t.legacy
    \/ \E i \in DOMAIN t.refunds :
          t.refunds[i].op # "none" /\ \E b \in t.refunds[i].bind : b.unit = u

-----------------------------------------------------------------------------
(* Decisions bound to one revision of one output (resolution.rs) *)

Binding(t, u) == [unit |-> u, rev |-> t.units[u].rev, out |-> t.units[u].out]

Bound(t, b) == b = Binding(t, b.unit)

\* A request identity the task has not seen: a replay changes nothing, a changed reuse conflicts.
Fresh(t, req) == \A i \in DOMAIN t.log : t.log[i].req # req

Appended(t, req, act, bs) == [t EXCEPT !.log = Append(@, [req |-> req, act |-> act, bind |-> bs])]

Decisions(t, b) ==
    {i \in DOMAIN t.log : t.log[i].act \in {"Accept", "Challenge"} /\ t.log[i].bind = {b}}

Challenged(t, b) == Decisions(t, b) # {} /\ t.log[Max(Decisions(t, b))].act = "Challenge"

Disputable(t, b) ==
    \/ t.units[b.unit].state = "Failed"
    \/ t.units[b.unit].state = "Delivered" /\ Challenged(t, b)

MayDecide(t, req, b) == Fresh(t, req) /\ Bound(t, b) /\ t.units[b.unit].state = "Delivered"

\* Mutant: without the check of what was refunded.
ReworkRefunded(t, req, b) == Fresh(t, req) /\ Bound(t, b) /\ verified_funded(t) /\ Disputable(t, b)

MayRework(t, req, b) ==
    /\ Fresh(t, req) /\ Bound(t, b) /\ verified_funded(t)
    /\ ~refunded_unit(t, b.unit)
    /\ Disputable(t, b)

Reworked(t, req, b) ==
    [Appended(t, req, "Rework", {b}) EXCEPT
        !.units[b.unit] = [NewUnit EXCEPT !.rev = t.units[b.unit].rev + 1, !.redone = TRUE]]

validate_refund_bindings(t, bs) ==
    /\ t.funding = 0 /\ t.captured /\ t.captureId /\ ~t.review
    /\ \A b \in bs : Bound(t, b) /\ ~refunded_unit(t, b.unit) /\ Disputable(t, b)

MayPropose(t, req, bs) == Fresh(t, req) /\ bs # {} /\ validate_refund_bindings(t, bs)

Proposed(t, req, bs) ==
    [Appended(t, req, "ProposeRefund", bs) EXCEPT
        !.refunds = Append(@, [bind |-> bs, op |-> "none", id |-> FALSE, confirmed |-> FALSE])]

MayApprove(t, req, i) ==
    /\ t.refunds[i].op = "none" /\ Fresh(t, req)
    /\ validate_refund_bindings(t, t.refunds[i].bind)
    /\ reserved_refunds(t) + Amount(t.refunds[i]) <= amount

Approved(t, req, i) ==
    [Appended(t, req, "ApproveRefund", t.refunds[i].bind) EXCEPT !.refunds[i].op = "dispatching"]

\* The older route: one refund of every failed output, before any proposal exists.
refund_proposal(t) ==
    /\ t.funding = 0 /\ t.refunds = <<>> /\ ~t.review /\ t.captured /\ t.captureId
    /\ \A u \in Unit : t.units[u].state \in {"Delivered", "Failed"}
    /\ \E u \in Unit : t.units[u].state = "Failed"

approve_refund(t) ==
    [t EXCEPT !.refund = "dispatching", !.legacy = {u \in Unit : t.units[u].state = "Failed"}]

-----------------------------------------------------------------------------
(* Provider observations (observations.rs). A view is [status, cap]; `cap` is
   the status of the order's one capture, "NONE" before it. *)

unexplained_refund(t, cap) ==
    \/ cap = "PARTIALLY_REFUNDED" /\ reserved_refunds(t) = 0
    \/ cap = "REFUNDED" /\ reserved_refunds(t) < amount

ObserveOrder(t, v) ==
    [t EXCEPT
        !.orderId = TRUE, !.seen = v.status, !.order = "observed",
        !.captureId = @ \/ v.cap # "NONE",
        !.review = @ \/ v.cap \in {"DECLINED", "REVERSED"} \/ unexplained_refund(t, v.cap),
        !.captured = @ \/ v.cap = "COMPLETED",
        !.capture = IF v.cap = "COMPLETED" /\ @ # "none" THEN "observed" ELSE @]

ObserveRefund(t, status) ==
    [t EXCEPT
        !.refundId = TRUE,
        !.refundDone = @ \/ status = "COMPLETED",
        !.refund = IF status = "COMPLETED" THEN "observed" ELSE @]

ObserveLedger(t, i, status) ==
    [t EXCEPT
        !.refunds[i].id = TRUE,
        !.refunds[i].confirmed = @ \/ status = "COMPLETED",
        !.refunds[i].op = IF status = "COMPLETED" THEN "observed" ELSE unknown(@)]

-----------------------------------------------------------------------------
(* Work on an output (ai.rs) *)

MayClaim(t, u, leaseOver) ==
    /\ verified_funded(t)
    /\ t.refund = "none" \/ t.units[u].redone
    /\ \/ t.units[u].state \in {"Pending", "Unknown"}
       \/ t.units[u].state = "Processing" /\ leaseOver

Claimed(t, u, attempt) ==
    [t EXCEPT !.units[u].state = "Processing", !.units[u].attempt = attempt]

\* A result counts only for the attempt that still holds the output.
Holds(t, u, attempt) == t.units[u].state = "Processing" /\ t.units[u].attempt = attempt

Finished(t, u, attempt, outcome) ==
    IF Holds(t, u, attempt)
    THEN [t EXCEPT !.units[u].state = outcome,
                   !.units[u].out = IF outcome = "Delivered" THEN attempt ELSE @]
    ELSE t
=============================================================================
