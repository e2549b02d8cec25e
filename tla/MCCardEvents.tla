---------------------------- MODULE MCCardEvents ----------------------------
(* Small scenes of the issuer side for TLC. *)
EXTENDS CardEvents, TLC

CONSTANTS owner, issuer, a1, a2, i1

Report(kind, n) == [kind |-> kind, n |-> n]

\* One purchase of 2 cents, opened and redeemed; one pass.
Quiet ==
    [tokens |-> {a1}, amount |-> 2, single |-> FALSE, budget |-> 3, authorizer |-> issuer,
     intents |-> {}, opened |-> {i1}, held |-> {}, asks |-> TRUE, standin |-> FALSE, late |-> FALSE,
     storage |-> FALSE, refuses |-> FALSE, crash |-> FALSE, sweeps |-> FALSE,
     blind |-> FALSE, expires |-> FALSE,
     unknowns |-> 0, length |-> 0, reports |-> {}, disputes |-> {}]

\* The checkout: two requests, a lost confirmation.
Checkout == [Quiet EXCEPT !.intents = {i1}, !.opened = {}, !.unknowns = 1, !.refuses = TRUE,
                          !.asks = FALSE]

\* The decision: re-sent requests, lost confirmations, failed writes, crashes.
Deciding == [Quiet EXCEPT !.intents = {i1}, !.late = TRUE, !.storage = TRUE, !.crash = TRUE,
                          !.unknowns = 2, !.refuses = TRUE, !.blind = TRUE]
NotOpened == [Quiet EXCEPT !.opened = {}]

\* A checkout that expires at any point of its way to an approval.
Expiring == [Quiet EXCEPT !.intents = {i1}, !.opened = {}, !.expires = TRUE]

\* Two $0 verifications of one checkout.
Verifying == [Quiet EXCEPT !.tokens = {a1, a2}, !.amount = 0, !.storage = TRUE]

\* An approved purchase and what the issuer reports of it.
Held == [Quiet EXCEPT !.opened = {}, !.held = {a1}, !.asks = FALSE, !.crash = TRUE]

\* Clearings in pieces, above the hold, after a reversal; holds closed meanwhile.
Clearing == [Held EXCEPT !.length = 2, !.sweeps = TRUE,
                         !.reports = {Report("CLEARING", 1),
                                      Report("AUTHORIZATION_REVERSAL", 2)}]
\* An outcome never heard, of the capture or of its retry.
LostClearing == [Held EXCEPT !.length = 1, !.unknowns = 2, !.reports = {Report("CLEARING", 1)}]

\* Holds adjusted, expired, refunded, corrected and disputed.
Adjusting == [Held EXCEPT !.length = 2, !.crash = FALSE,
                          !.reports = {Report("AUTHORIZATION_ADVICE", 1),
                                       Report("AUTHORIZATION_ADVICE", 4),
                                       Report("AUTHORIZATION_EXPIRY", 2), Report("CLEARING", 2)}]
Disputed == [Held EXCEPT !.length = 1, !.crash = FALSE, !.sweeps = TRUE, !.refuses = TRUE,
                         !.disputes = {"opened", "closed"},
                         !.reports = {Report("AUTHORIZATION_REVERSAL", 2)}]

\* Purchases the issuer approved itself, and what comes back of them.
StoodIn == [Quiet EXCEPT !.opened = {}, !.asks = FALSE, !.standin = TRUE, !.crash = TRUE,
                         !.length = 2,
                         !.reports = {Report("CLEARING", 2), Report("RETURN", 1),
                                      Report("CORRECTION_CREDIT", 1),
                                      Report("CORRECTION_DEBIT", 1), Report("RETURN_REVERSAL", 1)}]

\* Single-message purchases: booked by the authorization.
SingleMessage == [Quiet EXCEPT !.single = TRUE, !.unknowns = 1, !.crash = TRUE]
SingleStoodIn == [StoodIn EXCEPT !.single = TRUE, !.length = 1,
                                 !.reports = {Report("RETURN", 1)}]

IssuerScenes == {Checkout, Deciding, NotOpened, Expiring, Verifying, Clearing, LostClearing,
                 Adjusting, Disputed, StoodIn, SingleMessage, SingleStoodIn}
\* A pass, a crash and the closing of the hold, one clearing.
ClosedEarly == {[Held EXCEPT !.amount = 1, !.length = 1, !.sweeps = TRUE,
                             !.reports = {Report("CLEARING", 1)}]}

EventsSymmetry == Permutations(Handler) \cup Permutations(Pass) \cup Permutations(Caller)

\* `tx` is read by no action.
EventsView == <<scene, now, policy, period, reservation, intent, guard, permission, sent, moved,
                checkout, caller, redeemed, claimed, row, asa, truth, pass, posted, stray>>
=============================================================================
