------------------------------ MODULE CardPer ------------------------------
(***************************************************************************)
(* How the backend reaches the card program: the transactions it signs as   *)
(* the card's authorizer and sends to the private rollup (tee.rs), and the  *)
(* outcomes it can tell apart (program.rs).  The program itself is          *)
(* CardSpending and CardCredit: a transaction that lands is one of their    *)
(* steps.                                                                   *)
(*                                                                         *)
(* A transaction whose sender saw it land is one step.  One whose outcome   *)
(* its sender never heard goes to `sent`, and lands there later or never.   *)
(***************************************************************************)
EXTENDS CardCredit

CONSTANTS Shop, ShopMcc   \* the merchant of every purchase and its category

VARIABLES
    sent,    \* transactions with an unheard outcome: the instruction and its fate
    moved    \* history: how often the program moved money for each event id

perVars == <<now, binding, policy, period, reservation, intent, guard,
             permission, commitment, actions, paid, tx>>

MaxUnknown == scene.unknowns    \* bound on the outcomes that are never heard

Ins(op, a, n, id, kind) == [op |-> op, a |-> a, n |-> n, id |-> id, kind |-> kind]

\* The instruction as a step of the program.
Runs(ins) ==
    \/ /\ ins.op = "open_checkout_intent"
       /\ open_checkout_intent(ins.id, [merchant |-> Shop, mcc |-> AnyMcc,
                                        max_amount_cents |-> ins.n], ins.kind)
    \/ /\ ins.op = "authorize"
       /\ authorize(ins.a, ins.id, ins.n, Shop, ShopMcc, FALSE, ins.kind = "single")
    \/ ins.op = "adjust_reservation" /\ adjust_reservation(ins.a, ins.n)
    \/ ins.op = "capture" /\ capture(ins.a, ins.n, ins.id)
    \/ ins.op = "reverse" /\ reverse(ins.a, ins.n, ins.kind, ins.id)
    \/ ins.op = "refund" /\ refund(ins.a, ins.n, ins.id)
    \/ ins.op = "record_exception" /\ record_exception(ins.a, ins.n, ins.id, ins.kind)
    \/ ins.op = "record_dispute" /\ record_dispute(ins.a, ins.kind = "opened", ins.id)
    \/ ins.op = "close_reservation" /\ close_reservation(ins.a, "authorizer")
    \/ ins.op = "close_checkout_intent" /\ close_checkout_intent(ins.id, "authorizer")

Accepts(ins) == ENABLED Runs(ins)

OnHoldOps == {"adjust_reservation", "capture", "reverse", "record_dispute",
              "close_reservation", "refund", "record_exception"}
EventOps == {"reverse", "refund", "record_exception", "record_dispute"}

\* The error of a refused instruction, as far as a caller looks at it: the
\* checks in the program's order.
error_name(ins) ==
    LET r == reservation[ins.a]
    IN  CASE ins.op \in OnHoldOps /\ ins.a # NoAuth /\ r = NoAccount -> "AccountNotInitialized"
          [] ins.op = "close_checkout_intent" /\ intent[ins.id] = NoAccount
                                                       -> "AccountNotInitialized"
          [] ins.op = "authorize" /\ (r # NoAccount \/ recently_closed(ins.a))
                                                       -> "DuplicateAuthorization"
          [] ins.op = "capture" /\ ins.id \in r.capture_ids -> "DuplicateCapture"
          [] ins.op \in EventOps /\ ~FreshEvent(ins.id) -> "DuplicateEvent"
          [] ins.op \in {"reverse", "adjust_reservation"} /\ r.state \notin OpenStates
                                                       -> "ReservationClosed"
          [] ins.op = "close_reservation" -> "ReservationNotFinal"
          [] OTHER -> "limit"

\* What moves money, booked under the issuer's event id.
Moves(ins) ==
    \/ ins.op \in {"capture", "refund"}
    \/ ins.op = "record_exception" /\ ins.kind # "over_hold"

Lands(ins) ==
    /\ Runs(ins)
    /\ moved' = IF Moves(ins) THEN [moved EXCEPT ![ins.id] = moved[ins.id] + 1] ELSE moved

Errors == {"AccountNotInitialized", "DuplicateAuthorization", "DuplicateCapture",
           "DuplicateEvent", "ReservationClosed", "ReservationNotFinal", "limit"}

\* tee.rs submit: confirmed, refused by the program, never sent, or unheard of
\* by the deadline, when it may still land.
submit(ins, outcome) ==
    \/ /\ outcome = "Confirmed"
       /\ Lands(ins)
       /\ UNCHANGED sent
    \/ /\ outcome \in Errors
       /\ outcome = error_name(ins)
       /\ ~Accepts(ins)
       /\ UNCHANGED <<perVars, sent, moved>>
    \/ /\ outcome = "Unknown"
       /\ Len(sent) < MaxUnknown
       /\ sent' = Append(sent, [ins |-> ins, fate |-> "flying"])
       /\ UNCHANGED <<perVars, moved>>
    \/ /\ outcome = "Failed"
       /\ scene.refuses
       /\ UNCHANGED <<perVars, sent, moved>>

Outcomes == Errors \cup {"Confirmed", "Unknown", "Failed"}

\* signature_status of a transaction that was never heard of.
signature_status(k) == sent[k].fate

Fate(k, fate) == sent' = [sent EXCEPT ![k].fate = fate]

\* A transaction in flight lands, is refused, or its blockhash expires.
LandLate(k) ==
    /\ sent[k].fate = "flying"
    /\ \/ Lands(sent[k].ins) /\ Fate(k, "Confirmed")
       \/ /\ ~Accepts(sent[k].ins)
          /\ Fate(k, "ProgramError")
          /\ UNCHANGED <<perVars, moved>>
       \/ /\ Fate(k, "expired")
          /\ UNCHANGED <<perVars, moved>>
=============================================================================
