------------------------------- MODULE MCCard -------------------------------
(* Small cards for TLC.  Rates: the fee is half of an amount, rounded down. *)
EXTENDS Card, TLC

CONSTANTS owner, issuer, issuer2, shop, grocery, a1, a2, c1, c2, e1, e2, d1, d2, d3

\* `tx` is read by no action: states that differ only in it are the same.
CardView == <<scene, now, binding, policy, period, reservation, intent, guard,
              permission, commitment, actions, paid>>

Policy(budget, most, fee_rate, key) ==
    [budget_cents |-> budget, max_purchase_cents |-> most,
     max_purchases_per_period |-> 2, period_seconds |-> 1, merchants |-> {shop},
     mccs |-> {}, expires_at |-> 0, recurring_allowed |-> FALSE,
     fee_bps |-> fee_rate, authorizer |-> key]

\* What a reconciliation may find: a purchase settled and its hold gone, or the
\* other way round.
Report(captured, reserved) ==
    [policy |-> Policy(3, 2, 1, issuer), period_index |-> 1, captured_cents |-> captured,
     reserved_cents |-> reserved, refunded_cents |-> 0, purchases_count |-> 1,
     exception_cents |-> 0, statement_outstanding_cents |-> captured,
     recon_digest |-> d1]
Reports == {Report(2, 0), Report(0, 2)}

Purchase(most) == [merchant |-> shop, mcc |-> AnyMcc, max_amount_cents |-> most]

Messages(single) == [recurring : {FALSE}, single : single]

\* One hold under one policy.  Each scene below adds what it is about.
Plain ==
    [keys |-> {owner, issuer}, readers |-> {}, auths |-> {a1}, captures |-> {c1},
     events |-> {}, digests |-> {}, policies |-> {Policy(3, 2, 1, issuer)},
     purchases |-> {Purchase(2)}, cents |-> {1, 2}, refunds |-> {}, units |-> {},
     channels |-> Messages({FALSE}), exceptions |-> {}, disputes |-> {},
     freezers |-> {}, recoverers |-> {}, restores |-> {},
     max_commits |-> 0, max_epoch |-> 1, max_now |-> 0]

Edited == {Policy(3, 2, 1, issuer), Policy(2, 2, 1, issuer)}
RotatedPolicies == {Policy(3, 2, 1, issuer), Policy(2, 2, 0, issuer2)}

\* Two purchases: holds, captures in pieces, beyond the hold and late, reversals
\* and a period roll, while the owner edits the budget.
Spend ==
    [Plain EXCEPT !.auths = {a1, a2}, !.captures = {c1, c2}, !.policies = Edited,
                  !.max_now = 1]

\* One purchase, then everything the issuer may report about it.
Reported ==
    [Plain EXCEPT !.events = {e1, e2}, !.refunds = {1, 2}, !.cents = {2},
                  !.exceptions = {"late_capture", "over_capture", "correction_credit"},
                  !.disputes = BOOLEAN]

\* What one period can bill, with adjusted holds and budget edits between.
Billed ==
    [Plain EXCEPT !.captures = {c1, c2}, !.events = {e1}, !.policies = Edited,
                  !.exceptions = {"late_capture", "over_hold", "forced_capture"},
                  !.max_now = 1]

\* Statement repayments, proven by a ChainPay receipt or attested, more of them than
\* the ring remembers.
Repaying(statements) ==
    [Plain EXCEPT !.auths = {a1, a2}, !.captures = {}, !.digests = statements,
                  !.policies = {[Policy(3, 2, 1, issuer) EXCEPT !.recurring_allowed = TRUE]},
                  !.channels = [recurring : BOOLEAN, single : BOOLEAN], !.units = {1, 3}]

\* Recoveries of a card with a live hold, and edits by one party or both; what is
\* restored may be repaid.
Recovering(settled, statements) ==
    [Plain EXCEPT !.keys = {owner, issuer, issuer2}, !.captures = settled,
                  !.digests = statements, !.units = {2}, !.cents = {2},
                  !.policies = RotatedPolicies, !.restores = Reports,
                  !.freezers = Parties, !.recoverers = Parties, !.max_now = 1]

\* A card shared with a reader, used, wiped, delegated again or closed.
Lived ==
    [Plain EXCEPT !.keys = {owner, issuer, issuer2}, !.readers = {owner, issuer, issuer2},
                  !.auths = {a1, a2}, !.captures = {}, !.cents = {1},
                  !.policies = RotatedPolicies, !.freezers = {"owner"}, !.max_epoch = 2]

\* Checkpoints whose actions run in any order, more than once or never.
Checkpointing(commits, until) ==
    [Plain EXCEPT !.purchases = {}, !.policies = Edited, !.freezers = {"owner"},
                  !.max_commits = commits, !.max_epoch = 2, !.max_now = until]

SpendScenes == {Spend, Reported, Billed, Repaying({d1, d2, d3})}
LifeScenes == {Recovering({c1}, {}), Recovering({}, {d1}), Lived,
               Checkpointing(3, 0), Checkpointing(2, 1)}

\* Authorizations, and capture ids, are interchangeable.
CardSymmetry == Permutations(AuthId) \cup Permutations(CaptureId)
=============================================================================
