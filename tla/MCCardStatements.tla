--------------------------- MODULE MCCardStatements --------------------------
(* Small instances of statement billing and repayment for TLC. *)
EXTENDS PrivateRepay

CONSTANTS buy, more, refund, owner, cron, d1, d2

MCMovement == {buy, more, refund}
\* 1 % fee: 101, 202 and -152 cents; a refund larger than the first purchase.
MCAmount == buy :> 100 @@ more :> 200 @@ refund :> -150

\* starts: closes and ticks begun; periods: budget periods; chain: transactions
\* on the partner account.
Scene(movements, closers, starts, periods, closersDie, repayments, desks, desksDie, chn, drift) ==
    [movements |-> movements, closers |-> closers, starts |-> starts,
     periods |-> periods, closersDie |-> closersDie, repayments |-> repayments,
     desks |-> desks, desksDie |-> desksDie, chain |-> chn, drift |-> drift]

MCScenes == {
    \* an owner's close and a reconcile pass race and die
    Scene({buy, refund}, {owner, cron}, 4, 1, TRUE, FALSE, {}, FALSE, 0, FALSE),
    \* periods roll, with the close of one left behind
    Scene({buy, refund}, {cron}, 4, 2, TRUE, FALSE, {}, FALSE, 0, FALSE),
    \* two statements repaid by receipt, two workers discharging, unknown outcomes
    Scene({buy, more}, {owner}, 3, 1, FALSE, TRUE, {d1, d2}, TRUE, 0, FALSE),
    \* credit carried into a statement that is then repaid
    Scene({refund, more}, {owner}, 3, 1, FALSE, TRUE, {d1}, FALSE, 0, FALSE),
    \* one statement repaid privately, configuration drift, probers that die
    Scene({buy}, {owner}, 2, 1, FALSE, FALSE, {}, TRUE, 2, TRUE),
    \* two statements repaid privately, perhaps by one transaction
    Scene({buy, more}, {owner}, 3, 1, FALSE, FALSE, {d1}, FALSE, 1, FALSE)}

Symmetry == Permutations(Desk) \cup Permutations(Prober)
=============================================================================
