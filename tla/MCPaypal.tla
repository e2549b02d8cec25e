------------------------------ MODULE MCPaypal ------------------------------
(* Situations of the PayPal service for TLC. *)
EXTENDS Paypal, TLC

CONSTANTS t1, t2, w1, w2, r1, r2, q1, q2, q3, p1, p2

Quiet ==
    [tasks |-> {t1}, workers |-> {}, readers |-> {r1}, requests |-> {}, payments |-> {}, start |-> "quoted",
     checkout |-> FALSE, faulty |-> {"wire", "worker", "pass"}, outside |-> {}, cancel |-> FALSE,
     reconciles |-> FALSE, periods |-> 0, windows |-> 2, attempts |-> 0, revisions |-> 0, proposals |-> 2,
     task_limit |-> 0, period_limit |-> 0]

\* Checkout and capture, with lost answers or two passes at work.
Buying(readers, faulty) ==
    [Quiet EXCEPT !.checkout = TRUE, !.readers = readers, !.faulty = faulty]

\* The provider holds the capture back, and settles or declines it.
Held == [Buying({r1}, {"wire"}) EXCEPT !.outside = {"pending"}]

\* Refunds by both routes, with lost answers, webhooks and a pass.
Refunding == [Quiet EXCEPT !.start = "worked", !.requests = {q1, q2, q3}]

\* The merchant refunds on the provider's pages and the capture is reversed.
Disputing == [Quiet EXCEPT !.start = "worked", !.outside = {"refund", "reverse"},
                           !.proposals = 1, !.faulty = {"wire"}]

\* Workers, lost leases, rework and refunds.
Reworking(workers, requests) ==
    [Quiet EXCEPT !.start = "captured", !.workers = workers, !.readers = {}, !.requests = requests,
                  !.attempts = 3, !.revisions = 1, !.proposals = 1, !.faulty = {"worker"}]

\* A subscription's first two periods.
Renewing == [Quiet EXCEPT !.start = "active", !.tasks = {}, !.payments = {p1, p2}, !.periods = 2, !.faulty = {"wire"}]

\* A subscription is created and cancelled with lost answers.
Subscribing == [Quiet EXCEPT !.tasks = {}, !.payments = {p1}, !.periods = 1,
                            !.cancel = TRUE, !.faulty = {"wire"}]

\* The terms of a subscription change at the provider.
Revising == [Subscribing EXCEPT !.cancel = FALSE, !.outside = {"terms"}]

\* A history that is too long for the windows, or that the provider cuts short.
Unread == [Renewing EXCEPT !.payments = {p1}, !.windows = 1, !.faulty = {"history"}]

\* One period paid and taken back, with two passes.
Granting == [Quiet EXCEPT !.start = "active", !.tasks = {}, !.payments = {p1}, !.readers = {r1, r2}, !.periods = 1,
                          !.reconciles = TRUE, !.outside = {"take back"}, !.faulty = {}]

\* Two tasks share one period's units; the payment may be taken back.
Spending == [Quiet EXCEPT !.start = "granted", !.tasks = {t1, t2}, !.workers = {w1},
                          !.periods = 1, !.outside = {"take back"}, !.attempts = 1, !.faulty = {},
                          !.task_limit = 2, !.period_limit = 2]

\* A failed output of a prepaid task is done again.
Redoing == [Quiet EXCEPT !.start = "granted", !.workers = {w1}, !.readers = {}, !.requests = {q1, q2},
                         !.periods = 1, !.attempts = 3, !.revisions = 1]

PaypalScenes == {Buying({r1}, {"wire"}), Buying({r1, r2}, {}), Held, Refunding, Disputing,
                 Reworking({w1}, {q1, q2, q3}), Reworking({w1, w2}, {q1, q2}),
                 Subscribing, Revising, Renewing, Unread, Granting, Spending, Redoing}
TwoOutputs == {1, 2}

PaypalSymmetry == Permutations({q1, q2, q3}) \cup Permutations({r1, r2}) \cup Permutations({w1, w2})
=============================================================================
