----------------------------- MODULE Statements -----------------------------
(***************************************************************************)
(* Billing of one simulated-credit card (backend connectors/card_issuer/   *)
(* statements.rs): a posting for every money movement the rollup applied,  *)
(* the four-step close of a statement, its repayment by a ChainPay receipt, *)
(* the simulated partner ledger and the discharge on the rollup.            *)
(***************************************************************************)
EXTENDS Integers, Sequences, FiniteSets, FiniteSetsExt, TLC

CONSTANTS
    Movement,      \* money movements of the card: captures, refunds, adjustments
    Amount,        \* their amounts in cents, negative for a credit
    FeeBps,        \* the card's fee rate
    Owner, Cron,   \* requests closing a statement, reconcile passes
    Desk,          \* workers that carry a repayment forward
    Mandate,       \* mandates the owner may pay a statement under
    MaxSeq,        \* bound: statement numbers
    Scenes         \* bounds of the scenario a behaviour plays, see Init

Closer == Owner \cup Cron
Seqs == 1..MaxSeq

ASSUME FeeAssumption == FeeBps \in 0..10000
ASSUME AmountAssumption == Amount \in [Movement -> Int \ {0}]

VARIABLES
    scene,         \* what the environment may do in this behaviour
    clock,         \* orders the cuts and the stamps of the postings
    per,           \* the rollup: exposure, recorded digests, period
    posting,       \* posting rows, one per movement
    billing,       \* the `billing` part of the card row
    stmt,          \* statement rows
    receipts,      \* finalized ChainPay receipts whose reference is a digest
    ledger,        \* the partner's books, by digest
    flight,        \* record_repayment transactions whose outcome is unknown
    work,          \* where each closing worker stands
    desk           \* where each discharging worker stands

vars == <<scene, clock, per, posting, billing, stmt, receipts, ledger, flight,
          work, desk>>

---------------------------------------------------------------------------
(* Amounts *)

Magnitude(e) == IF Amount[e] < 0 THEN -Amount[e] ELSE Amount[e]

\* The fee on an amount, rounded down.
fee_cents(amount) == (amount * FeeBps) \div 10000

\* What a movement adds to the debt, its fee included.
signed_total(e) ==
    LET gross == Magnitude(e) + fee_cents(Magnitude(e))
    IN  IF Amount[e] < 0 THEN -gross ELSE gross

Net(lines) == MapThenSumSet(signed_total, lines)

AtLeastZero(n) == IF n < 0 THEN 0 ELSE n
Lesser(m, n) == IF m < n THEN m ELSE n

totals(lines, carried) ==
    [total   |-> Net(lines),
     due     |-> AtLeastZero(Net(lines) - carried),
     forward |-> AtLeastZero(carried - Net(lines))]

---------------------------------------------------------------------------
(* State *)

NoPosting == [state |-> "none", at |-> 0, seq |-> 0]
NoClosing == [seq |-> 0, kind |-> "none", period |-> 0, cut |-> 0, op |-> "none"]
NoStatement == [state |-> "none"]
NoEvidence == [method |-> "none"]
NoPlan == -1

Idle == [pc |-> "idle"]

Init ==
    /\ scene \in Scenes
    /\ clock = 1
    /\ per = [outstanding |-> 0, recorded |-> {}, period |-> 1]
    /\ posting = [e \in Movement |-> NoPosting]
    /\ billing = [next |-> 1, closing |-> NoClosing, carried |-> 0, closed |-> 0]
    /\ stmt = [s \in Seqs |-> NoStatement]
    /\ receipts = {}
    /\ ledger = [s \in Seqs |-> NoEvidence]
    /\ flight = {}
    /\ work = [w \in Closer |-> Idle]
    /\ desk = [d \in Desk |-> Idle]

---------------------------------------------------------------------------
(* Postings *)

\* The rollup applies a movement: debt grows by the gross amount, a credit
\* lowers it and stops at zero.
applies(e) ==
    /\ e \in scene.movements
    /\ posting[e].state = "none"
    /\ posting' = [posting EXCEPT ![e].state = "applied"]
    /\ per' = [per EXCEPT !.outstanding = AtLeastZero(@ + signed_total(e))]
    /\ UNCHANGED <<scene, clock, billing, stmt, receipts, ledger, flight, work, desk>>

\* record_posting takes the time first ...
stamps(e) ==
    /\ posting[e].state = "applied"
    /\ posting' = [posting EXCEPT ![e].state = "stamped", ![e].at = clock]
    /\ UNCHANGED <<scene, clock, per, billing, stmt, receipts, ledger, flight, work, desk>>

\* ... and then writes the row, create-only, under the event's own key.
record_posting(e) ==
    /\ posting[e].state = "stamped"
    /\ posting' = [posting EXCEPT ![e].state = "stored"]
    /\ UNCHANGED <<scene, clock, per, billing, stmt, receipts, ledger, flight, work, desk>>

\* The pass that was writing it died; the next delivery of the event, or the
\* backfill of the reconcile pass, writes it with a later time.
posting_lost(e) ==
    /\ scene.closersDie
    /\ posting[e].state = "stamped"
    /\ posting' = [posting EXCEPT ![e].state = "applied", ![e].at = 0]
    /\ UNCHANGED <<scene, clock, per, billing, stmt, receipts, ledger, flight, work, desk>>

postings_under(seq) == {e \in Movement : posting[e].state = "stored" /\ posting[e].seq = seq}

---------------------------------------------------------------------------
(* Closing a statement *)

Wanted(kind, period, op) == [kind |-> kind, period |-> period, op |-> op]
Nothing == Wanted("none", 0, "none")

\* A worker about to reserve: what it wants closed and the cut it took.
Reserving(want, closed) ==
    [pc |-> "reserve", want |-> want, cut |-> clock, closed |-> closed]

\* close_now: the owner's operation, at the period the rollup shows.
close_now(w) ==
    /\ w \in Owner \cap scene.closers
    /\ work[w].pc = "idle"
    /\ clock < scene.starts
    /\ clock' = clock + 1
    /\ work' = [work EXCEPT ![w] = Reserving(Wanted("interim", per.period, w), 0)]
    /\ UNCHANGED <<scene, per, posting, billing, stmt, receipts, ledger, flight, desk>>

Loading(c, want, closed) ==
    [pc |-> "load", closing |-> c, want |-> want, closed |-> closed]

\* Phase 1, compare and swap on the card row: resume the reservation that is
\* there, or take the next number.
reserve(w) ==
    /\ work[w].pc = "reserve"
    /\ LET fresh == [seq |-> billing.next, kind |-> work[w].want.kind,
                     period |-> work[w].want.period, cut |-> work[w].cut,
                     op |-> work[w].want.op]
           c == IF billing.closing # NoClosing THEN billing.closing ELSE fresh
       IN  /\ c.seq \in Seqs
           /\ billing' = IF billing.closing # NoClosing THEN billing
                         ELSE [billing EXCEPT !.closing = c, !.next = c.seq + 1]
           /\ work' = [work EXCEPT ![w] = Loading(c, work[w].want, work[w].closed)]
    /\ UNCHANGED <<scene, clock, per, posting, stmt, receipts, ledger, flight, desk>>

\* finish_close reads the card row for the carried credit ...
finish_close_loads(w) ==
    /\ work[w].pc = "load"
    /\ work' = [work EXCEPT ![w] = [work[w] EXCEPT !.pc = "exists"]
                                   @@ [carried |-> billing.carried]]
    /\ UNCHANGED <<scene, clock, per, posting, billing, stmt, receipts, ledger, flight, desk>>

\* ... then the statement of this number, if there already is one ...
finish_close_finds(w) ==
    /\ work[w].pc = "exists"
    /\ LET old == stmt[work[w].closing.seq]
       IN  work' = [work EXCEPT ![w] =
               IF old = NoStatement THEN [work[w] EXCEPT !.pc = "list"]
               ELSE [work[w] EXCEPT !.pc = "refile"]
                    @@ [lines |-> old.lines, forward |-> old.forward]]
    /\ UNCHANGED <<scene, clock, per, posting, billing, stmt, receipts, ledger, flight, desk>>

InCut(c) == {e \in postings_under(0) : posting[e].at <= c.cut}

\* ... and otherwise the open postings up to the cut.
finish_close_lists(w) ==
    /\ work[w].pc = "list"
    /\ LET lines == InCut(work[w].closing)
       IN  work' = [work EXCEPT ![w] =
               [work[w] EXCEPT !.pc = IF lines = {} THEN "give_back" ELSE "put"]
               @@ [lines |-> lines, forward |-> 0]]
    /\ UNCHANGED <<scene, clock, per, posting, billing, stmt, receipts, ledger, flight, desk>>

NewStatement(lines, carried) ==
    LET t == totals(lines, carried)
    IN  [state |-> IF t.due = 0 THEN "discharged" ELSE "closed",
         lines |-> lines, total |-> t.total, due |-> t.due, forward |-> t.forward,
         carried |-> carried, repayment |-> NoEvidence, plan |-> NoPlan,
         attempts |-> <<>>]

\* The row a create-only write leaves: the first one wins.
\* Mutant: the last one wins.
CreateAlways(old, new) == new
CreateOnly(old, new) == IF old = NoStatement THEN new ELSE old

\* Phase 2, create-only; a finisher that lost goes on with what the winner billed.
finish_close_puts(w) ==
    /\ work[w].pc = "put"
    /\ LET s == work[w].closing.seq
           row == CreateOnly(stmt[s], NewStatement(work[w].lines, work[w].carried))
       IN  /\ stmt' = [stmt EXCEPT ![s] = row]
           /\ work' = [work EXCEPT ![w] =
                  [work[w] EXCEPT !.pc = "refile", !.lines = row.lines,
                                  !.forward = row.forward]]
    /\ UNCHANGED <<scene, clock, per, posting, billing, receipts, ledger, flight, desk>>

\* Phase 3: one posting after the other is filed under the statement.
refile_posting(w) ==
    /\ work[w].pc = "refile"
    /\ \E e \in work[w].lines :
         /\ posting' = [posting EXCEPT ![e].seq = work[w].closing.seq]
         /\ LET rest == work[w].lines \ {e}
            IN  work' = [work EXCEPT ![w] =
                    [work[w] EXCEPT !.lines = rest,
                                    !.pc = IF rest = {} THEN "clear" ELSE "refile"]]
    /\ UNCHANGED <<scene, clock, per, billing, stmt, receipts, ledger, flight, desk>>

\* The reservation the worker resumed was not the close it wants.
ResumedOther(c, want) ==
    \/ c.kind # want.kind
    \/ c.period # want.period
    \/ want.op # "none" /\ c.op \notin {"none", want.op}

\* Such a worker runs its own close next; a reconcile pass goes on to the
\* period's end.
After(w) ==
    IF work[w].want = Nothing
    THEN [pc |-> "period_end", closed |-> work[w].closed]
    ELSE IF ResumedOther(work[w].closing, work[w].want)
    THEN Reserving(work[w].want, 0)
    ELSE Idle

\* Phase 4 on the card row. `billed` is whether a statement was written.
Cleared(b, c, billed, forward) ==
    IF b.closing.seq # c.seq THEN b
    ELSE [next    |-> IF ~billed /\ b.next = c.seq + 1 THEN c.seq ELSE b.next,
          closing |-> NoClosing,
          carried |-> IF billed THEN forward ELSE b.carried,
          closed  |-> IF c.kind = "period_end" THEN c.period ELSE b.closed]

clear_closing(w) ==
    /\ work[w].pc \in {"clear", "give_back"}
    /\ billing' = Cleared(billing, work[w].closing, work[w].pc = "clear", work[w].forward)
    /\ work' = [work EXCEPT ![w] = After(w)]
    /\ clock' = IF work'[w].pc = "reserve" THEN clock + 1 ELSE clock
    /\ UNCHANGED <<scene, per, posting, stmt, receipts, ledger, flight, desk>>

---------------------------------------------------------------------------
(* The reconcile pass *)

\* tick starts from a card row read earlier: it finishes the close that row
\* shows interrupted, then looks at the period.
tick(w) ==
    /\ w \in Cron \cap scene.closers
    /\ work[w].pc = "idle"
    /\ clock < scene.starts
    /\ clock' = clock + 1
    /\ work' = [work EXCEPT ![w] =
           IF billing.closing # NoClosing
           THEN Loading(billing.closing, Nothing, billing.closed)
           ELSE [pc |-> "period_end", closed |-> billing.closed]]
    /\ UNCHANGED <<scene, per, posting, billing, stmt, receipts, ledger, flight, desk>>

PeriodEnd(p) == Reserving(Wanted("period_end", p, "none"), 0)

\* A roll that was never followed by its close is closed first.
period_end_left_behind(w) ==
    /\ work[w].pc = "period_end"
    /\ per.period > work[w].closed + 1
    /\ work' = [work EXCEPT ![w] = PeriodEnd(per.period - 1)]
    /\ UNCHANGED <<scene, clock, per, posting, billing, stmt, receipts, ledger, flight, desk>>

\* The period is over: roll it, and close it once the roll is confirmed.
roll_period(w) ==
    /\ work[w].pc = "period_end"
    /\ per.period <= work[w].closed + 1
    /\ per.period < scene.periods
    /\ per' = [per EXCEPT !.period = @ + 1]
    /\ \E known \in BOOLEAN :
         work' = [work EXCEPT ![w] = IF known THEN PeriodEnd(per.period) ELSE Idle]
    /\ UNCHANGED <<scene, clock, posting, billing, stmt, receipts, ledger, flight, desk>>

\* The period still runs, or the roll did not happen.
period_runs(w) ==
    /\ work[w].pc = "period_end"
    /\ per.period <= work[w].closed + 1
    /\ work' = [work EXCEPT ![w] = Idle]
    /\ UNCHANGED <<scene, clock, per, posting, billing, stmt, receipts, ledger, flight, desk>>

\* A worker dies, or one of its calls fails, between any two steps.
closer_dies(w) ==
    /\ scene.closersDie
    /\ work[w].pc # "idle"
    /\ work' = [work EXCEPT ![w] = Idle]
    /\ UNCHANGED <<scene, clock, per, posting, billing, stmt, receipts, ledger, flight, desk>>

---------------------------------------------------------------------------
(* Repayment by a ChainPay receipt *)

Receipt(m, s, exact) == [mandate |-> m, seq |-> s, exact |-> exact]

\* The owner pays on the base layer. The receipt's address is derived from the
\* mandate and the statement digest, so there is one per pair.
pays(m, s, exact) ==
    /\ scene.repayments
    /\ stmt[s] # NoStatement
    /\ \A r \in receipts : ~(r.mandate = m /\ r.seq = s)
    /\ receipts' = receipts \cup {Receipt(m, s, exact)}
    /\ UNCHANGED <<scene, clock, per, posting, billing, stmt, ledger, flight, work, desk>>

Evidence(m) == [method |-> "receipt", mandate |-> m]

\* Finalized, for this statement's digest, and of the exact amount.
verify_receipt(s, m) ==
    IF Receipt(m, s, TRUE) \in receipts THEN "verified"
    ELSE IF Receipt(m, s, FALSE) \in receipts THEN "mismatch"
    ELSE "not_found"

\* The statement's state after an event, "none" when the event does not apply.
transition(from, event) ==
    CASE from \in {"closed", "repayment_mismatch"} /\ event = "receipt_verified" -> "repayment_observed"
      [] from \in {"closed", "repayment_mismatch"} /\ event = "receipt_mismatch" -> "repayment_mismatch"
      [] from = "repayment_observed" /\ event = "partner_confirmed" -> "partner_confirmed"
      [] from = "partner_confirmed" /\ event = "repayment_recorded" -> "discharged"
      [] OTHER -> "none"

\* Compare and swap through one event; `set` are the other fields it writes.
apply_event(s, event, set) ==
    /\ transition(stmt[s].state, event) # "none"
    /\ stmt' = [stmt EXCEPT ![s] = set @@ [stmt[s] EXCEPT !.state = transition(stmt[s].state, event)]]

\* The owner points at a receipt.
submit_repayment(s, m) ==
    /\ stmt[s] # NoStatement
    /\ stmt[s].due > 0
    /\ \/ /\ verify_receipt(s, m) = "verified"
          /\ apply_event(s, "receipt_verified", [repayment |-> Evidence(m)])
       \/ /\ verify_receipt(s, m) = "mismatch"
          /\ apply_event(s, "receipt_mismatch", [repayment |-> NoEvidence])
    /\ UNCHANGED <<scene, clock, per, posting, billing, receipts, ledger, flight, work, desk>>

---------------------------------------------------------------------------
(* The simulated partner ledger *)

\* The partner re-reads the evidence and books the digest once, create-only.
partner_books(s, verified) ==
    /\ stmt[s].state = "repayment_observed"
    /\ verified
    /\ ledger[s] = NoEvidence
    /\ ledger' = [ledger EXCEPT ![s] = stmt[s].repayment]
    /\ UNCHANGED <<scene, clock, per, posting, billing, stmt, receipts, flight, work, desk>>

\* What is booked must be this evidence; only then is the statement confirmed.
partner_confirm(s) ==
    /\ stmt[s].state = "repayment_observed"
    /\ ledger[s] = stmt[s].repayment
    /\ apply_event(s, "partner_confirmed", <<>>)
    /\ UNCHANGED <<scene, clock, per, posting, billing, receipts, ledger, flight, work, desk>>

---------------------------------------------------------------------------
(* Discharge *)

\* Mutant: what is owed after the statement is left alone, its own total is not
\* the limit.
ClearAllButLater(total, outstanding, after) ==
    IF total <= 0 THEN 0 ELSE AtLeastZero(outstanding - AtLeastZero(after))

\* The exposure a statement still accounts for on the rollup.
exposure_to_clear(total, outstanding, after) ==
    IF total <= 0 THEN 0
    ELSE AtLeastZero(Lesser(total, outstanding - AtLeastZero(after)))

\* discharge reads the policy account with the statement row it was given.
discharge_reads(d, s) ==
    /\ d \in scene.desks
    /\ desk[d].pc = "idle"
    /\ stmt[s].state = "partner_confirmed"
    /\ LET next == IF s \in per.recorded THEN "apply"
                   ELSE IF stmt[s].plan # NoPlan THEN "submit" ELSE "open"
       IN  desk' = [desk EXCEPT ![d] =
               [pc |-> next, seq |-> s, row |-> stmt[s],
                outstanding |-> per.outstanding, net |-> 0]]
    /\ UNCHANGED <<scene, clock, per, posting, billing, stmt, receipts, ledger, flight, work>>

\* net_after: first the open postings ...
net_after_open(d) ==
    /\ desk[d].pc = "open"
    /\ desk' = [desk EXCEPT ![d].pc = "later", ![d].net = Net(postings_under(0))]
    /\ UNCHANGED <<scene, clock, per, posting, billing, stmt, receipts, ledger, flight, work>>

\* ... then every later statement that is not discharged.
LaterOwed(s) ==
    {t \in Seqs : t > s /\ stmt[t] # NoStatement /\ stmt[t].state # "discharged"}

net_after_later(d) ==
    /\ desk[d].pc = "later"
    /\ LET later == UNION {stmt[t].lines : t \in LaterOwed(desk[d].seq)}
       IN  desk' = [desk EXCEPT ![d].pc = "plan", ![d].net = @ + Net(later)]
    /\ UNCHANGED <<scene, clock, per, posting, billing, stmt, receipts, ledger, flight, work>>

\* save_plan: one compare and swap against the row that was read; the amount is
\* fixed before the first submission.
save_plan(d) ==
    /\ desk[d].pc = "plan"
    /\ LET s == desk[d].seq
           amount == exposure_to_clear(desk[d].row.total, desk[d].outstanding, desk[d].net)
           planned == [desk[d].row EXCEPT !.plan = amount]
       IN  IF stmt[s] = desk[d].row
           THEN /\ stmt' = [stmt EXCEPT ![s] = planned]
                /\ desk' = [desk EXCEPT ![d].pc = "submit", ![d].row = planned]
           ELSE /\ desk' = [desk EXCEPT ![d] = Idle]
                /\ UNCHANGED stmt
    /\ UNCHANGED <<scene, clock, per, posting, billing, receipts, ledger, flight, work>>

\* The program records no more than a receipt paid; a private settlement is
\* attested by the authorizer.
ToRecord(row) ==
    IF row.repayment.method = "receipt" THEN Lesser(row.plan, row.due) ELSE row.plan

\* record_repayment on the rollup: a digest once, at most the exposure.
Recordable(s, n) == s \notin per.recorded /\ n <= per.outstanding
Recorded(s, n) == [per EXCEPT !.recorded = @ \cup {s}, !.outstanding = @ - n]

Applying(d) == [desk EXCEPT ![d].pc = "apply"]

\* Nothing left to clear: no transaction.
discharge_of_nothing(d) ==
    /\ desk[d].pc = "submit"
    /\ ToRecord(desk[d].row) = 0
    /\ desk' = Applying(d)
    /\ UNCHANGED <<scene, clock, per, posting, billing, stmt, receipts, ledger, flight, work>>

\* Confirmed, and the digest is then read back from the rollup.
record_repayment(d) ==
    /\ desk[d].pc = "submit"
    /\ LET n == ToRecord(desk[d].row)
       IN  /\ n > 0
           /\ Recordable(desk[d].seq, n)
           /\ per' = Recorded(desk[d].seq, n)
    /\ desk' = Applying(d)
    /\ UNCHANGED <<scene, clock, posting, billing, stmt, receipts, ledger, flight, work>>

\* Refused: as a duplicate it goes on, for any other reason it stops.
record_repayment_refused(d) ==
    /\ desk[d].pc = "submit"
    /\ LET n == ToRecord(desk[d].row)
       IN  n > 0 /\ ~Recordable(desk[d].seq, n)
    /\ desk' = IF desk[d].seq \in per.recorded THEN Applying(d) ELSE [desk EXCEPT ![d] = Idle]
    /\ UNCHANGED <<scene, clock, per, posting, billing, stmt, receipts, ledger, flight, work>>

\* The outcome stays unknown: the transaction may land at any later time.
record_repayment_unknown(d) ==
    /\ scene.desksDie
    /\ desk[d].pc = "submit"
    /\ ToRecord(desk[d].row) > 0
    /\ flight' = flight \cup {<<desk[d].seq, ToRecord(desk[d].row)>>}
    /\ desk' = [desk EXCEPT ![d] = Idle]
    /\ UNCHANGED <<scene, clock, per, posting, billing, stmt, receipts, ledger, work>>

lands(f) ==
    /\ f \in flight
    /\ flight' = flight \ {f}
    /\ per' = IF Recordable(f[1], f[2]) THEN Recorded(f[1], f[2]) ELSE per
    /\ UNCHANGED <<scene, clock, posting, billing, stmt, receipts, ledger, work, desk>>

\* The row is discharged unless another worker was faster.
discharge_applies(d) ==
    /\ desk[d].pc = "apply"
    /\ LET s == desk[d].seq
       IN  IF transition(stmt[s].state, "repayment_recorded") = "none" THEN UNCHANGED stmt
           ELSE apply_event(s, "repayment_recorded", <<>>)
    /\ desk' = [desk EXCEPT ![d] = Idle]
    /\ UNCHANGED <<scene, clock, per, posting, billing, receipts, ledger, flight, work>>

desk_dies(d) ==
    /\ scene.desksDie
    /\ desk[d].pc # "idle"
    /\ desk' = [desk EXCEPT ![d] = Idle]
    /\ UNCHANGED <<scene, clock, per, posting, billing, stmt, receipts, ledger, flight, work>>

---------------------------------------------------------------------------
CloserStep(w) ==
    \/ close_now(w) \/ tick(w) \/ reserve(w)
    \/ finish_close_loads(w) \/ finish_close_finds(w) \/ finish_close_lists(w)
    \/ finish_close_puts(w) \/ refile_posting(w) \/ clear_closing(w)
    \/ period_end_left_behind(w) \/ roll_period(w) \/ period_runs(w)
    \/ closer_dies(w)

DeskStep(d) ==
    \/ \E s \in Seqs : discharge_reads(d, s)
    \/ net_after_open(d) \/ net_after_later(d) \/ save_plan(d)
    \/ discharge_of_nothing(d) \/ record_repayment(d) \/ record_repayment_refused(d)
    \/ record_repayment_unknown(d) \/ discharge_applies(d) \/ desk_dies(d)

StatementStep ==
    \/ \E e \in Movement : applies(e) \/ stamps(e) \/ record_posting(e) \/ posting_lost(e)
    \/ \E w \in Closer : CloserStep(w)
    \/ \E s \in Seqs, m \in Mandate :
         submit_repayment(s, m) \/ (\E exact \in BOOLEAN : pays(m, s, exact))
    \/ \E s \in Seqs : partner_confirm(s)
    \/ \E d \in Desk : DeskStep(d)
    \/ \E f \in flight : lands(f)
=============================================================================
