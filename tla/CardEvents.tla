------------------------------ MODULE CardEvents ------------------------------
(***************************************************************************)
(* What happens to a purchase after its authorization: the issuer's events  *)
(* applied to the program, the books and the row (events.rs), ambiguous     *)
(* authorizations resolved against the issuer (reconcile.rs), and final     *)
(* holds closed (capacity.rs).                                              *)
(*                                                                         *)
(* A pass is a webhook delivery or a visit of the reconcile cron; both      *)
(* fetch the issuer's truth themselves, so a delivery that is late, lost,   *)
(* repeated or out of order is a pass that runs at another time.            *)
(***************************************************************************)
EXTENDS CardAuthorization

CONSTANTS Pass, NoPass

VARIABLES
    pass,     \* the passes in progress
    posted,   \* statement postings, keyed by event id
    stray     \* history: authorizations that landed after they were given up

allVars == <<scene, perVars, sent, moved, authVars, pass, posted, stray>>
base == <<perVars, sent, moved>>

EventKey(t, k) == <<t, k>>
VoidKey(t) == <<t, 0>>
DisputeKey(t, kind) == <<t, IF kind = "opened" THEN -1 ELSE -2>>

At(p, q) == pass' = [pass EXCEPT ![p] = q]
Goto(p, pc) == At(p, [pass[p] EXCEPT !.pc = pc])
Ends(p) == At(p, NoPass)

Busy == {p \in Pass : pass[p] # NoPass}

\* States in which the program holds a Reservation for this transaction.
has_reservation(r) ==
    \/ r.hasReservation
    \/ r.state \in ReservationStates /\ ~r.unsolicited

\* The money fields and the lifecycle are the program's, when it can be read.
refresh_from_reservation(r, t) ==
    LET v == reservation[t]
    IN  IF v = NoAccount THEN r
        ELSE [r EXCEPT !.hasReservation = TRUE, !.reserved = v.amount_reserved_cents,
                       !.captured = v.captured_cents, !.refunded = v.refunded_cents,
                       !.state = v.state, !.disputed = v.disputed]

-----------------------------------------------------------------------------
(* Fetching the issuer's truth and loading the row.                         *)

NewPass(t) ==
    [pc |-> "load", t |-> t, seen |-> truth[t], orig |-> NoRow, rec |-> NoRow, k |-> 1,
     new |-> {}, posts |-> {}, stop |-> FALSE, verdict |-> "", held |-> FALSE,
     money |-> NoAccount]

process_transaction(p, t) ==
    /\ pass[p] = NoPass
    /\ truth[t].decision # "none"
    /\ At(p, NewPass(t))
    /\ UNCHANGED <<base, authVars, posted, stray>>

ApprovedAny(events) == \E k \in DOMAIN events : events[k].result = Approved

create_unsolicited(seen) ==
    IF ApprovedAny(seen.events) THEN NewRow("unsolicited", TRUE, "")
    ELSE NewRow("declined", TRUE, Declined)

Loaded(q, r) == [q EXCEPT !.pc = "route", !.orig = r, !.rec = r]

\* A pending row is left to its handler; an ambiguous one is resolved first.
LoadRow(p) ==
    LET q == pass[p]
    IN  /\ q.pc = "load"
        /\ row' = IF row[q.t] = NoRow THEN [row EXCEPT ![q.t] = create_unsolicited(q.seen)]
                  ELSE row
        /\ LET r == row'[q.t]
           IN  CASE r.state = "pending" -> Ends(p)
                 [] r.state = "ambiguous" -> Goto(p, "resolve")
                 [] OTHER -> At(p, Loaded(q, r))
        /\ UNCHANGED <<base, checkout, caller, redeemed, claimed, asa, truth, posted, stray>>

\* The cron takes a pending row over once its handler cannot be deciding.
StalePending(t) ==
    /\ row[t] # NoRow
    /\ row[t].state = "pending"
    /\ truth[t].decision # "none"
    /\ \A h \in Handler : asa[h].t # t
    /\ row' = [row EXCEPT ![t].state = "ambiguous"]
    /\ UNCHANGED <<base, checkout, caller, redeemed, claimed, asa, truth, pass, posted, stray>>

-----------------------------------------------------------------------------
(* reconcile.rs resolve_ambiguous.                                          *)

issuer_approved(seen) == seen.decision = Approved

Verdict(p, state, held, money) ==
    At(p, [pass[p] EXCEPT !.pc = "resolved", !.verdict = state, !.held = held, !.money = money])

\* No hold is a decline only while the authorizer sees the policy: blinded, it
\* cannot tell a missing hold from one it may not read, and concludes nothing.
ReadHold(p) ==
    LET q == pass[p]
        r == reservation[q.t]
    IN  /\ q.pc = "resolve"
        /\ \/ scene.blind /\ Ends(p)
           \/ CASE r = NoAccount -> Verdict(p, "declined", FALSE, NoAccount)
                [] r # NoAccount /\ issuer_approved(q.seen) -> Verdict(p, r.state, TRUE, r)
                [] r # NoAccount /\ ~issuer_approved(q.seen)
                     /\ (r.amount_reserved_cents = 0 \/ r.state \in {"reversed", "expired"})
                       -> Verdict(p, "reversed", TRUE, r)
                [] OTHER -> At(p, [q EXCEPT !.pc = "void", !.money = r])
        /\ UNCHANGED <<base, authVars, posted, stray>>

Voided == {"Confirmed", "DuplicateEvent", "ReservationClosed"}

\* A hold the issuer declined is released.
VoidHold(p) ==
    LET q == pass[p]
    IN  /\ q.pc = "void"
        /\ \E outcome \in Outcomes :
               /\ submit(Ins("reverse", q.t, q.money.amount_reserved_cents,
                             VoidKey(q.t), "reversed"), outcome)
               /\ IF outcome \in Voided THEN Verdict(p, "reversed", TRUE, reservation'[q.t])
                  ELSE Ends(p)
        /\ UNCHANGED <<authVars, posted, stray>>

ResolvedRow(r, q) ==
    LET m == IF q.money = NoAccount THEN r
             ELSE [r EXCEPT !.reserved = q.money.amount_reserved_cents,
                            !.captured = q.money.captured_cents,
                            !.refunded = q.money.refunded_cents]
    IN  [m EXCEPT !.state = q.verdict, !.hasReservation = q.held,
                  !.unsolicited = r.unsolicited \/ (~q.held /\ issuer_approved(q.seen))]

\* A single-message purchase was booked by `authorize` itself: post it here.
PostsSingle(q) ==
    IF q.money = NoAccount THEN {}
    ELSE {t \in {q.t} : "single_message" \in q.money.flags /\ q.money.captured_cents > 0}

WriteResolution(p) ==
    LET q == pass[p]
    IN  /\ q.pc = "resolved"
        /\ row' = IF row[q.t].state \in {"ambiguous", "pending"}
                  THEN [row EXCEPT ![q.t] = ResolvedRow(row[q.t], q)] ELSE row
        /\ posted' = posted \cup PostsSingle(q)
        /\ At(p, Loaded([q EXCEPT !.verdict = "", !.held = FALSE, !.money = NoAccount],
                        row'[q.t]))
        /\ UNCHANGED <<base, checkout, caller, redeemed, claimed, asa, truth, stray>>

\* persist's task after the reply, and statements.rs backfill_postings.
backfill_postings(t) ==
    /\ Single
    /\ row[t] # NoRow
    /\ ~row[t].unsolicited
    /\ row[t].captured > 0
    /\ t \notin posted
    /\ posted' = posted \cup {t}
    /\ UNCHANGED <<base, authVars, pass, stray>>

-----------------------------------------------------------------------------
(* events.rs apply_transaction: one event after the other, in the issuer's  *)
(* order, each one instruction of the program.                              *)

Skip == [label |-> "skip", ins |-> Ins("", NoAuth, 0, VoidKey(NoAuth), "")]
Program(label, op, a, n, id, kind) == [label |-> label, ins |-> Ins(op, a, n, id, kind)]
Exception(kind, a, n, id) == Program(kind, "record_exception", a, n, id, kind)

refundable(r, n) == r.unsolicited \/ r.refunded + n <= r.captured

\* Mutant: a hold that is used up counts as gone.
ClearingByState(q, n, id) ==
    CASE q.rec.state \in OpenStates -> Program("capture", "capture", q.t, n, id, "")
      [] OTHER -> Exception("forced_capture", NoAuth, n, id)
\* Where a clearing goes depends on what became of its hold.
ClearingStep(q, n, id) ==
    CASE has_reservation(q.orig) /\ ~q.orig.closed -> Program("capture", "capture", q.t, n, id, "")
      [] q.orig.closed /\ q.rec.state \in {"reversed", "expired"} ->
             Exception("late_capture", NoAuth, n, id)
      [] q.orig.closed -> Exception("over_capture", NoAuth, n, id)
      [] OTHER -> Exception("forced_capture", NoAuth, n, id)

Step(q, e, id) ==
    LET present == has_reservation(q.orig)
        open    == present /\ ~q.orig.closed
        hold    == IF open THEN q.t ELSE NoAuth
    IN  CASE e.result # Approved -> Skip
          [] e.kind = "RETURN" ->
                 IF refundable(q.rec, e.n) THEN Program("refund", "refund", hold, e.n, id, "")
                 ELSE Skip
          [] e.kind = "FINANCIAL_AUTHORIZATION" /\ ~present ->
                 Exception("unpaired_capture", NoAuth, e.n, id)
          [] e.kind = "AUTHORIZATION_ADVICE" /\ open ->
                 Program("adjust", "adjust_reservation", hold, e.n, id, "")
          [] e.kind = "AUTHORIZATION_REVERSAL" /\ open ->
                 Program("reverse", "reverse", hold, e.n, id, "reversed")
          [] e.kind = "AUTHORIZATION_EXPIRY" /\ open ->
                 Program("expire", "reverse", hold, e.n, id, "expired")
          [] e.kind = "CLEARING" -> ClearingStep(q, e.n, id)
          [] e.kind = "RETURN_REVERSAL" -> Exception("return_reversal", hold, e.n, id)
          [] e.kind = "CORRECTION_CREDIT" -> Exception("correction_credit", hold, e.n, id)
          [] e.kind = "CORRECTION_DEBIT" -> Exception("correction_debit", hold, e.n, id)
          [] OTHER -> Skip

Captures == {"capture", "late_capture", "over_capture", "forced_capture", "unpaired_capture"}

apply_label(r, label, n) ==
    [r EXCEPT !.captured = IF label \in Captures THEN r.captured + n ELSE r.captured,
              !.refunded = IF label = "refund" THEN r.refunded + n ELSE r.refunded,
              !.state = CASE label \in {"forced_capture", "unpaired_capture"} -> "forced_capture"
                          [] label = "refund" /\ r.unsolicited -> "refunded"
                          [] OTHER -> r.state]

NextEvent(q, id) == [q EXCEPT !.k = q.k + 1, !.new = q.new \cup {id}]
Stops(q) == [q EXCEPT !.pc = "settle", !.stop = TRUE]
Clears(q, id) == [q EXCEPT !.rec.pending = {x \in q.rec.pending : x.id # id}]

\* The program did it, now or earlier: the row and the books follow.
Applied(q, s) ==
    [NextEvent(Clears(q, s.ins.id), s.ins.id) EXCEPT
        !.rec = apply_label(Clears(q, s.ins.id).rec, s.label, s.ins.n),
        !.posts = IF Moves(s.ins) THEN q.posts \cup {s.ins.id} ELSE q.posts]

Remembers(q, id) ==
    [q EXCEPT !.rec.pending = q.rec.pending \cup {[id |-> id, sig |-> Len(sent')]}]

\* Mutant: what a retry finds done is not booked.
NothingDone == {}
AlreadyDone == {"DuplicateCapture", "DuplicateEvent"}

\* What each outcome of the event's instruction leads to.
AfterSubmit(q, s, outcome) ==
    CASE outcome \in AlreadyDone \cup {"Confirmed"} -> Applied(q, s)
      [] outcome = "AccountNotInitialized" ->
             Stops([q EXCEPT !.rec.closed = q.rec.closed \/ reservation[q.t] = NoAccount])
      [] outcome = "limit" /\ s.label = "adjust" -> [q EXCEPT !.pc = "over_hold"]
      [] outcome = "Unknown" -> Stops(Remembers(q, s.ins.id))
      [] outcome = "Failed" -> Stops(q)
      [] OTHER -> NextEvent(q, s.ins.id)

Submits(p, q, s) ==
    \E outcome \in Outcomes :
        /\ submit(s.ins, outcome)
        /\ At(p, AfterSubmit(q, s, outcome))

PendingFates(q, id) == {signature_status(x.sig) : x \in {y \in q.rec.pending : y.id = id}}

SendableFates == {"ProgramError", "expired"}

apply_event(p) ==
    LET q  == pass[p]
        id == EventKey(q.t, q.k)
        s  == Step(q, q.seen.events[q.k], id)
        fates == PendingFates(q, id)
    IN  /\ q.pc = "route"
        /\ q.k <= Len(q.seen.events)
        /\ \/ /\ id \in q.orig.applied
              /\ At(p, [q EXCEPT !.k = q.k + 1])
              /\ UNCHANGED base
           \/ /\ id \notin q.orig.applied
              /\ s.label = "skip"
              /\ At(p, NextEvent(q, id))
              /\ UNCHANGED base
           \/ /\ id \notin q.orig.applied
              /\ s.label # "skip"
              /\ "Confirmed" \in fates
              /\ At(p, Applied(q, s))
              /\ UNCHANGED base
           \/ /\ id \notin q.orig.applied
              /\ s.label # "skip"
              /\ fates \subseteq SendableFates
              /\ Submits(p, Clears(q, id), s)
           \/ /\ id \notin q.orig.applied
              /\ s.label # "skip"
              /\ fates \cap {"flying", "expired"} # {}
              /\ At(p, Stops(q))
              /\ UNCHANGED base
        /\ UNCHANGED <<authVars, posted, stray>>

\* An increase that does not fit: the excess is flagged on the hold.
over_hold(p) ==
    LET q  == pass[p]
        id == EventKey(q.t, q.k)
        excess == Saturating(q.seen.events[q.k].n, q.rec.reserved)
    IN  /\ q.pc = "over_hold"
        /\ \E outcome \in Outcomes :
               /\ submit(Ins("record_exception", q.t, excess, id, "over_hold"), outcome)
               /\ At(p, IF outcome \in {"Confirmed", "DuplicateEvent"}
                        THEN [NextEvent(q, id) EXCEPT !.pc = "route"]
                        ELSE Stops(q))
        /\ UNCHANGED <<authVars, posted, stray>>

AllRouted(p) ==
    /\ pass[p].pc = "route"
    /\ pass[p].k > Len(pass[p].seen.events)
    /\ Goto(p, "settle")
    /\ UNCHANGED <<base, authVars, posted, stray>>

\* Re-read the hold, then book what moved money, before the row says applied.
Settle(p) ==
    LET q == pass[p]
    IN  /\ q.pc = "settle"
        /\ At(p, [q EXCEPT !.pc = "merge",
                           !.rec = IF has_reservation(q.orig) /\ ~q.rec.closed
                                   THEN refresh_from_reservation(q.rec, q.t) ELSE q.rec])
        /\ posted' = posted \cup q.posts
        /\ UNCHANGED <<base, authVars, stray>>

\* Merge onto the latest row: the union of the applied ids, and of the other
\* fields only those this pass changed.
Merged(cur, q) ==
    LET Pick(new, old, now_) == IF new # old THEN new ELSE now_
    IN  [cur EXCEPT
            !.applied = cur.applied \cup q.orig.applied \cup q.new,
            !.state = Pick(q.rec.state, q.orig.state, cur.state),
            !.reserved = Pick(q.rec.reserved, q.orig.reserved, cur.reserved),
            !.captured = Pick(q.rec.captured, q.orig.captured, cur.captured),
            !.refunded = Pick(q.rec.refunded, q.orig.refunded, cur.refunded),
            !.disputed = Pick(q.rec.disputed, q.orig.disputed, cur.disputed),
            !.closed = Pick(q.rec.closed, q.orig.closed, cur.closed),
            !.pending = Pick(q.rec.pending, q.orig.pending, cur.pending),
            !.notFinal = cur.notFinal /\ q.new = {}]

\* The transaction is over at the issuer (SETTLED, VOIDED, EXPIRED, DECLINED).
issuer_final(seen) ==
    \/ seen.decision = Declined
    \/ seen.events[Len(seen.events)].kind \notin {"AUTHORIZATION", "AUTHORIZATION_ADVICE"}

program_final(r) ==
    /\ r.state \in {"captured", "reversed", "expired"}
    /\ r.reserved = 0
    /\ ~r.disputed
    /\ has_reservation(r)
    /\ ~r.closed
    /\ ~r.notFinal

ClosesAfter(q) ==
    /\ ~q.stop
    /\ has_reservation(q.orig)
    /\ issuer_final(q.seen)
    /\ program_final([q.rec EXCEPT !.notFinal = q.rec.notFinal /\ q.new = {}])

MergeRow(p) ==
    LET q == pass[p]
        writes == \/ q.new # {}
                  \/ q.rec.closed # q.orig.closed
                  \/ q.rec.pending # q.orig.pending
    IN  /\ q.pc = "merge"
        /\ row' = IF writes
                  THEN [row EXCEPT ![q.t] = [Merged(row[q.t], q) EXCEPT
                                                !.issuerFinal = issuer_final(q.seen)]]
                  ELSE row
        /\ IF ClosesAfter(q) THEN At(p, [NewPass(q.t) EXCEPT !.pc = "close", !.seen = q.seen])
           ELSE Ends(p)
        /\ UNCHANGED <<base, checkout, caller, redeemed, claimed, asa, truth, posted, stray>>

-----------------------------------------------------------------------------
(* capacity.rs: a hold that is final on both sides is closed.               *)

\* The cron's sweep decides on the row it listed.
sweep_reservation(p, t) ==
    /\ scene.sweeps
    /\ pass[p] = NoPass
    /\ row[t] # NoRow
    /\ program_final(row[t])
    /\ row[t].issuerFinal \/ issuer_final(truth[t])
    /\ row' = [row EXCEPT ![t].issuerFinal = TRUE]
    /\ At(p, [NewPass(t) EXCEPT !.pc = "close"])
    /\ UNCHANGED <<base, checkout, caller, redeemed, claimed, asa, truth, posted, stray>>

CloseHold(p) ==
    LET q == pass[p]
    IN  /\ q.pc = "close"
        /\ \E outcome \in Outcomes :
               /\ submit(Ins("close_reservation", q.t, 0, VoidKey(q.t), ""), outcome)
               /\ CASE outcome \in {"Confirmed", "AccountNotInitialized"} -> Goto(p, "mark_closed")
                    [] outcome = "ReservationNotFinal" -> Goto(p, "mark_not_final")
                    [] OTHER -> Ends(p)
        /\ UNCHANGED <<authVars, posted, stray>>

mark_closed(p) ==
    LET q == pass[p]
    IN  /\ q.pc \in {"mark_closed", "mark_not_final"}
        /\ row' = IF q.pc = "mark_closed" THEN [row EXCEPT ![q.t].closed = TRUE]
                  ELSE [row EXCEPT ![q.t].notFinal = TRUE]
        /\ Ends(p)
        /\ UNCHANGED <<base, checkout, caller, redeemed, claimed, asa, truth, posted, stray>>

-----------------------------------------------------------------------------
(* events.rs dispute, and what ends a pass early.                           *)

dispute(p, t, kind) ==
    /\ pass[p] = NoPass
    /\ row[t] # NoRow
    /\ IF has_reservation(row[t]) /\ ~row[t].closed
       THEN \E outcome \in Outcomes :
                /\ submit(Ins("record_dispute", t, 0, DisputeKey(t, kind), kind), outcome)
                /\ IF outcome \in {"Unknown", "Failed"} THEN UNCHANGED pass
                   ELSE At(p, [NewPass(t) EXCEPT !.pc = "dispute", !.verdict = kind])
       ELSE /\ At(p, [NewPass(t) EXCEPT !.pc = "dispute", !.verdict = kind])
            /\ UNCHANGED base
    /\ UNCHANGED <<authVars, posted, stray>>

WriteDispute(p) ==
    LET q == pass[p]
    IN  /\ q.pc = "dispute"
        /\ row' = [row EXCEPT ![q.t].disputed = q.verdict = "opened"]
        /\ Ends(p)
        /\ UNCHANGED <<base, checkout, caller, redeemed, claimed, asa, truth, posted, stray>>

\* The process dies, or storage or the rollup fails it: nothing more is written.
PassDies(p) ==
    /\ scene.crash
    /\ Ends(p)
    /\ UNCHANGED <<base, authVars, posted, stray>>

\* A transaction in flight; an authorization that lands on a row that no longer
\* waits for it is a stray.
Landing(k) ==
    LET ins == sent[k].ins
    IN  /\ LandLate(k)
        /\ stray' = IF ins.op = "authorize" /\ reservation'[ins.a] # reservation[ins.a]
                       /\ \/ row[ins.a].state = "declined"
                          \/ \E p \in Busy : pass[p].t = ins.a /\ pass[p].verdict = "declined"
                    THEN stray \cup {ins.a} ELSE stray
        /\ UNCHANGED <<authVars, pass, posted>>

EventStep ==
    \/ \E p \in Pass, t \in Token : process_transaction(p, t) \/ sweep_reservation(p, t)
    \/ \E t \in Token : StalePending(t) \/ backfill_postings(t)
    \/ \E p \in Pass, t \in Token, kind \in scene.disputes : dispute(p, t, kind)
    \/ \E p \in Busy :
           \/ LoadRow(p) \/ ReadHold(p) \/ VoidHold(p) \/ WriteResolution(p)
           \/ apply_event(p) \/ over_hold(p) \/ AllRouted(p) \/ Settle(p) \/ MergeRow(p)
           \/ CloseHold(p) \/ mark_closed(p) \/ WriteDispute(p) \/ PassDies(p)
    \/ \E k \in DOMAIN sent : Landing(k)

SpendTerms ==
    [ZeroTerms EXCEPT !.budget_cents = scene.budget, !.max_purchase_cents = scene.budget,
                      !.period_seconds = 1, !.merchants = {Shop}, !.authorizer = scene.authorizer]

\* A card with an approved purchase, or with one opened and redeemed, or fresh.
Holding == scene.held
Opened == scene.opened

OpenIntent ==
    [merchant |-> Shop, mcc |-> AnyMcc, max_amount_cents |-> scene.budget,
     policy_version |-> 1, expires_at |-> 1, state |-> "open"]

FreshHold ==
    [amount_reserved_cents |-> Amount, captured_cents |-> 0, refunded_cents |-> 0,
     state |-> "reserved", disputed |-> FALSE, flags |-> {}, capture_ids |-> {},
     hold_expires_at |-> HOLD_TTL_SECONDS, max_amount_cents |-> Amount]

CardInit ==
    /\ now = 0
    /\ binding = [status |-> "active", delegated |-> TRUE, epoch |-> 1, ledgered |-> TRUE]
    /\ policy = [zeroed_policy EXCEPT !.terms = SpendTerms, !.policy_version = 1,
                                      !.members = <<Owner, scene.authorizer>>,
                                      !.ephemeral_count = Cardinality(Holding \cup Opened)]
    /\ period = [zeroed_period EXCEPT !.period_index = 1, !.period_end = 1,
                                      !.purchases_count = Cardinality(Holding),
                                      !.reserved_cents = Amount * Cardinality(Holding)]
    /\ reservation = [a \in AuthId |-> IF a \in Holding THEN FreshHold ELSE NoAccount]
    /\ intent = [i \in IntentId |-> IF i \in Opened THEN OpenIntent ELSE NoAccount]
    /\ guard = NoAccount
    /\ permission = [x \in Private |-> IF x \in {"policy", "period"} \cup Opened \cup Holding
                                       THEN policy.members ELSE NoAccount]
    /\ commitment = [epoch |-> 1, seq |-> 0, policy_version |-> 1, period_index |-> 1]
    /\ actions = {}
    /\ paid = [d \in Digest |-> 0]
    /\ tx = [by |-> {}, events |-> {}]

EventsInit ==
    /\ scene \in Scene
    /\ CardInit
    /\ sent = <<>>
    /\ moved = [id \in AuthId \X (0..scene.length + 1) |-> 0]
    /\ checkout = [i \in IntentId |-> IF i \in Opened
                                      THEN [NoCheckout EXCEPT !.state = "redeemed",
                                                              !.expires = 1, !.rev = 3]
                                      ELSE NoCheckout]
    /\ caller = [c \in Caller |-> IdleCaller]
    /\ redeemed = [i \in IntentId |-> IF i \in Opened THEN 1 ELSE 0]
    /\ claimed = Holding
    /\ row = [t \in AuthId |-> IF t \in Holding
                               THEN [NewRow("reserved", FALSE, Approved) EXCEPT !.reserved = Amount]
                               ELSE NoRow]
    /\ asa = [h \in Handler |-> IdleAsa]
    /\ truth = [t \in AuthId |->
                    IF t \in Holding THEN [decision |-> Approved, standin |-> FALSE,
                                           events |-> <<AuthEvent(Approved)>>]
                    ELSE [decision |-> "none", standin |-> FALSE, events |-> <<>>]]
    /\ pass = [p \in Pass |-> NoPass]
    /\ posted = {}
    /\ stray = {}

EventsNext ==
    /\ \/ AuthorizationStep /\ UNCHANGED <<pass, posted, stray>>
       \/ EventStep
    /\ UNCHANGED scene

EventsSpec == EventsInit /\ [][EventsNext]_allVars

-----------------------------------------------------------------------------
(* Properties.                                                              *)

\* A capability buys once: whatever retries of the checkout, late confirmations
\* of its opening and redemptions interleave (checkout.rs issue, resume, redeem).
CapabilityUsedOnce == \A i \in IntentId : redeemed[i] <= 1

\* The issuer holds our approval only for a purchase the program holds, or has
\* held and closed: not after a lost confirmation, a failed write or a re-sent
\* request (asa.rs evaluate, persist, duplicate).  A $0 verification holds nothing.
ApprovedIsHeld ==
    \A t \in Token :
        truth[t].decision = Approved /\ ~truth[t].standin /\ Amount > 0 =>
            reservation[t] # NoAccount \/ recently_closed(t)

\* No hold is lost: while the program holds money for a purchase, its row is one
\* that still gets resolved or that says so.  The exception is an authorization
\* that lands after reconciliation found no hold (asa.rs, resolve_ambiguous).
HoldsAreKnown ==
    \A t \in Token :
        reservation[t] # NoAccount /\ reservation[t].state \in OpenStates /\ t \notin stray =>
            /\ row[t] # NoRow
            /\ row[t].state \in {"pending", "ambiguous"} \/ has_reservation(row[t])
            /\ ~row[t].closed

\* Together: what the issuer was told, what the program holds and what the rows say of
\* an authorization agree (asa.rs, checkout.rs).
AnswersAreSound == CapabilityUsedOnce /\ ApprovedIsHeld /\ HoldsAreKnown

\* While its hold is not closed an issuer event moves money once, however often
\* and by however many passes it is submitted, with confirmations lost and passes
\* dying anywhere (events.rs apply_transaction over the program's replay rings).
MovesOnceWhileHeld ==
    \A id \in DOMAIN moved : moved[id] > 1 => recently_closed(id[1])

\* The same without the exception, as events.rs says of a retried event.
EventsMoveMoneyOnce == \A id \in DOMAIN moved : moved[id] <= 1

\* The statement follows the program: a posting is for money that moved, and
\* until the hold is closed an event the row counts as applied is posted if it
\* moved any, across crashes and concurrent passes (events.rs: postings before the
\* row is marked applied).
BooksFollowProgram ==
    \A t \in Token : \A k \in DOMAIN truth[t].events :
        LET id == EventKey(t, k)
        IN  /\ id \in posted => moved[id] > 0
            /\ row[t] # NoRow /\ id \in row[t].applied /\ moved[id] > 0
                  => id \in posted \/ recently_closed(t)
=============================================================================
