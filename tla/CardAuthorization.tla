-------------------------- MODULE CardAuthorization --------------------------
(***************************************************************************)
(* From an agent's checkout to the issuer's answer: checkout intents        *)
(* (checkout.rs), the authorization stream that must decide within the      *)
(* issuer's deadline (asa.rs), and the issuer itself, which re-sends a      *)
(* request, gives up on a late answer, and may approve on its own.          *)
(***************************************************************************)
EXTENDS CardPer

CONSTANTS
    Caller,     \* requests of the agent's checkout, the first one and retries
    Handler,    \* authorization requests being answered
    NoRow, NoIntent

VARIABLES
    checkout,   \* the intent rows: state, expiry, the $0 verification, revision
    caller,     \* checkout requests in progress
    redeemed,   \* history: how often each capability was redeemed
    claimed,    \* the tokens claimed under card-asa:v1:<token>
    row,        \* the transaction row of each token
    asa,        \* the authorization handlers
    truth       \* the issuer: its decision and its events, per token

authVars == <<checkout, caller, redeemed, claimed, row, asa, truth>>

Token == scene.tokens
Amount == scene.amount          \* what every purchase asks for
Single == scene.single          \* single-message (FINANCIAL_AUTHORIZATION)?

-----------------------------------------------------------------------------
(* checkout.rs.  Rows are replaced by compare-and-set on their revision.    *)

IdleCaller == [pc |-> "idle", i |-> NoIntent, rev |-> 0, out |-> ""]

NoCheckout == [state |-> "none", expires |-> 0, verifiedBy |-> NoAuth, rev |-> 0]

Rewritten(r, state) == [r EXCEPT !.state = state, !.rev = r.rev + 1]

put_card_record(i, rev, state) ==
    checkout' = IF checkout[i].rev = rev
                THEN [checkout EXCEPT ![i] = Rewritten(checkout[i], state)]
                ELSE checkout

CallerAt(c, pc, i, rev, out) ==
    caller' = [caller EXCEPT ![c] = [pc |-> pc, i |-> i, rev |-> rev, out |-> out]]

\* The claim is won: the row exists before anything reaches the program.
issue(c, i) ==
    /\ caller[c].pc = "idle"
    /\ checkout[i].state = "none"
    /\ checkout' = [checkout EXCEPT ![i] = [Rewritten(NoCheckout, "opening")
                                               EXCEPT !.expires = now + MAX_INTENT_TTL_SECONDS]]
    /\ CallerAt(c, "open_on_per", i, 1, "")
    /\ UNCHANGED <<perVars, sent, moved, redeemed, claimed, row, asa, truth>>

open_on_per(c) ==
    /\ caller[c].pc = "open_on_per"
    /\ \E outcome \in Outcomes :
           /\ submit(Ins("open_checkout_intent", NoAuth, Amount, caller[c].i,
                         checkout[caller[c].i].expires), outcome)
           /\ CallerAt(c, "write", caller[c].i, caller[c].rev,
                       CASE outcome = "Confirmed" -> "open"
                         [] outcome = "Unknown" -> "unknown"
                         [] OTHER -> "failed")
    /\ UNCHANGED <<checkout, redeemed, claimed, row, asa, truth>>

WriteIntent(c) ==
    /\ caller[c].pc = "write"
    /\ put_card_record(caller[c].i, caller[c].rev, caller[c].out)
    /\ caller' = [caller EXCEPT ![c] = IdleCaller]
    /\ UNCHANGED <<perVars, sent, moved, redeemed, claimed, row, asa, truth>>

\* The same operation again: finish an interrupted open, after asking the rollup.
resume(c, i) ==
    /\ caller[c].pc = "idle"
    /\ checkout[i].state \in {"opening", "unknown"}
    /\ \/ /\ intent[i] # NoAccount
          /\ CallerAt(c, "write", i, checkout[i].rev, "open")
       \/ /\ intent[i] = NoAccount
          /\ checkout[i].state = "opening"
          /\ CallerAt(c, "open_on_per", i, checkout[i].rev, "")
    /\ UNCHANGED <<perVars, sent, moved, checkout, redeemed, claimed, row, asa, truth>>

Unexpired(i) == checkout[i].expires > now

\* The runner uses the capability: consumed before anything reaches the issuer.
redeem(i) ==
    /\ checkout[i].state = "open"
    /\ Unexpired(i)
    /\ checkout' = [checkout EXCEPT ![i] = Rewritten(checkout[i], "redeemed")]
    /\ redeemed' = [redeemed EXCEPT ![i] = redeemed[i] + 1]
    /\ UNCHANGED <<perVars, sent, moved, caller, claimed, row, asa, truth>>

CallerDies(c) ==
    /\ caller[c].pc # "idle"
    /\ caller' = [caller EXCEPT ![c] = IdleCaller]
    /\ UNCHANGED <<perVars, sent, moved, checkout, redeemed, claimed, row, asa, truth>>

\* asa.rs mark_intent.
mark_intent(i, state) ==
    checkout' = IF i = NoIntent \/ checkout[i].state = state THEN checkout
                ELSE [checkout EXCEPT ![i] = Rewritten(checkout[i], state)]

\* Used, or given up once it is past its expiry and the grace (a unit of time).
intent_closable(i) ==
    \/ checkout[i].state = "consumed"
    \/ /\ checkout[i].state \in {"open", "redeemed"}
       /\ now > checkout[i].expires

\* capacity.rs close_intent: after the reply, and by the cron sweep.
close_intent(i) ==
    /\ intent_closable(i)
    /\ \E outcome \in Outcomes :
           /\ submit(Ins("close_checkout_intent", NoAuth, 0, i, ""), outcome)
           /\ IF outcome \in {"Confirmed", "AccountNotInitialized"}
              THEN mark_intent(i, IF checkout[i].state = "consumed" THEN "closed"
                                   ELSE "expired_closed")
              ELSE UNCHANGED checkout
    /\ UNCHANGED <<caller, redeemed, claimed, row, asa, truth>>

-----------------------------------------------------------------------------
(* The issuer.                                                              *)

Approved == "APPROVED"
Declined == "DECLINED"      \* any other result; the issuer treats them alike

IssuerEvent(kind, n, result) == [kind |-> kind, n |-> n, result |-> result]

AuthEvent(result) ==
    IssuerEvent(IF Single THEN "FINANCIAL_AUTHORIZATION" ELSE "AUTHORIZATION", Amount, result)

\* The first answer the issuer gets, or its own timeout, decides.
Decided(t, result, standin) ==
    truth' = IF truth[t].decision # "none" THEN truth
             ELSE [truth EXCEPT ![t] = [decision |-> result, standin |-> standin,
                                        events |-> <<AuthEvent(result)>>]]

\* Our deadline (asa_budget) comes before the issuer's: once it gives up, or a
\* later request does, nothing new is sent for this token.
PastDeadline(t) ==
    \A h \in Handler : asa[h].t = t => asa[h].pc \notin {"create_pending", "evaluate"}

IssuerTimesOut(t) ==
    /\ t \in claimed
    /\ truth[t].decision = "none"
    /\ PastDeadline(t)
    /\ Decided(t, Declined, FALSE)
    /\ UNCHANGED <<perVars, sent, moved, checkout, caller, redeemed, claimed, row, asa>>

\* Stand-in processing: the issuer approves without asking.
StandsIn(t) ==
    /\ scene.standin
    /\ t \notin claimed
    /\ truth[t].decision = "none"
    /\ Decided(t, Approved, TRUE)
    /\ UNCHANGED <<perVars, sent, moved, checkout, caller, redeemed, claimed, row, asa>>

Reports(t, kind, n) ==
    /\ truth[t].decision = Approved
    /\ Len(truth[t].events) <= scene.length
    /\ truth' = [truth EXCEPT ![t].events =
           Append(truth[t].events, IssuerEvent(kind, n, Approved))]
    /\ UNCHANGED <<perVars, sent, moved, checkout, caller, redeemed, claimed, row, asa>>

-----------------------------------------------------------------------------
(* asa.rs.                                                                  *)

IdleAsa == [pc |-> "idle", t |-> NoAuth, i |-> NoIntent, verifiedBy |-> NoAuth,
            result |-> "", state |-> ""]

AsaAt(h, pc) == asa' = [asa EXCEPT ![h].pc = pc]

Replies(h, t, result) ==
    /\ Decided(t, result, FALSE)
    /\ asa' = [asa EXCEPT ![h] = IdleAsa]

NewRow(state, unsolicited, decision) ==
    [state |-> state, decision |-> decision, unsolicited |-> unsolicited,
     hasReservation |-> FALSE, reserved |-> 0, captured |-> 0, refunded |-> 0,
     applied |-> {}, pending |-> {}, closed |-> FALSE, disputed |-> FALSE,
     issuerFinal |-> FALSE, notFinal |-> FALSE]

\* claim_operation: one invocation per token decides, the others watch it.
decide(h, t) ==
    /\ asa[h].pc = "idle"
    /\ truth[t].decision = "none"
    /\ scene.asks
    /\ claimed' = claimed \cup {t}
    /\ asa' = [asa EXCEPT ![h] = [IdleAsa EXCEPT !.pc = IF t \in claimed THEN "duplicate"
                                                        ELSE "create_pending",
                                                 !.t = t]]
    /\ UNCHANGED <<perVars, sent, moved, checkout, caller, redeemed, row, truth>>

\* An open checkout of this card at this merchant: only a redeemed one counts.
find_intent ==
    LET open == {i \in IntentId : checkout[i].state = "redeemed" /\ Unexpired(i)}
    IN  IF open = {} THEN NoIntent ELSE CHOOSE i \in open : TRUE

create_pending(h) ==
    LET t == asa[h].t
    IN  /\ asa[h].pc = "create_pending"
        /\ row' = IF row[t] = NoRow THEN [row EXCEPT ![t] = NewRow("pending", FALSE, "")] ELSE row
        /\ asa' = [asa EXCEPT ![h].pc = "evaluate", ![h].i = find_intent,
                              ![h].verifiedBy = IF find_intent = NoIntent THEN NoAuth
                                                ELSE checkout[find_intent].verifiedBy]
        /\ UNCHANGED <<perVars, sent, moved, checkout, caller, redeemed, claimed, truth>>

\* A visible Reservation supports an approval only as it was asked for.
reservation_decision(r) ==
    CASE ~Single /\ r.state = "reserved" /\ r.amount_reserved_cents = Amount
             -> [result |-> Approved, state |-> "reserved"]
      [] Single /\ r.state = "captured" /\ r.captured_cents = Amount
             -> [result |-> Approved, state |-> "captured"]
      [] OTHER -> [result |-> Declined, state |-> "ambiguous"]

Ambiguous == [result |-> Declined, state |-> "ambiguous"]
Refused == [result |-> Declined, state |-> "declined"]

\* Mutant: an unheard outcome counts as success.
UnheardIsApproved(t, outcome, r) ==
    CASE outcome = "Confirmed" -> {reservation_decision(r)}
      [] outcome = "Unknown" -> {[result |-> Approved, state |-> "reserved"]}
      [] OTHER -> {Refused}
\* What the handler may conclude.  An outcome it did not hear, with the hold seen,
\* is decided as a confirmed one.  A duplicate is refused when the guard ring
\* shows its hold closed, and otherwise follows the hold, if that is seen in time.
Decisions(t, outcome, r) ==
    CASE outcome = "Confirmed" -> {reservation_decision(r)}
      [] outcome = "Unknown" -> {Ambiguous}
      [] outcome = "DuplicateAuthorization" /\ recently_closed(t) -> {Refused, Ambiguous}
      [] outcome = "DuplicateAuthorization" -> {reservation_decision(r), Ambiguous}
      [] OTHER -> {Refused}

\* A $0 request verifies the account, once per checkout and while the card is
\* live; it never reaches the program's `authorize`.
Verifies(h) ==
    /\ ~Single
    /\ asa[h].verifiedBy \in {NoAuth, asa[h].t}
    /\ ~policy.frozen
    /\ policy.recovery_state = "normal"

DecidedAs(h, d) ==
    asa' = [asa EXCEPT ![h].pc = "persist", ![h].result = d.result, ![h].state = d.state]

\* Without a redeemed checkout, or with an attestation that does not permit
\* approvals, nothing is sent.
evaluate(h) ==
    LET t == asa[h].t
    IN  /\ asa[h].pc = "evaluate"
        /\ \/ /\ asa[h].i = NoIntent
              /\ DecidedAs(h, Refused)
              /\ UNCHANGED <<perVars, sent, moved>>
           \/ /\ asa[h].i # NoIntent
              /\ Amount = 0
              /\ DecidedAs(h, IF Verifies(h)
                              THEN [result |-> Approved, state |-> "account_verification"]
                              ELSE Refused)
              /\ UNCHANGED <<perVars, sent, moved>>
           \/ /\ asa[h].i # NoIntent
              /\ Amount > 0
              /\ \E outcome \in Outcomes :
                     /\ submit(Ins("authorize", t, Amount, asa[h].i,
                                   IF Single THEN "single" ELSE "dual"), outcome)
                     /\ \E d \in Decisions(t, outcome, reservation'[t]) : DecidedAs(h, d)
        /\ UNCHANGED <<checkout, caller, redeemed, claimed, row, truth>>

\* Confirmed, but the Reservation was not seen by the deadline.
ObserveTimesOut(h) ==
    /\ asa[h].pc = "persist"
    /\ asa[h].state \in {"reserved", "captured"}
    /\ scene.late
    /\ DecidedAs(h, Ambiguous)
    /\ UNCHANGED <<perVars, sent, moved, checkout, caller, redeemed, claimed, row, truth>>

RowDecided(r, d) ==
    IF r.state # "pending" THEN [r EXCEPT !.decision = d.result]
    ELSE [r EXCEPT !.decision = d.result, !.state = d.state,
                   !.reserved = IF d.state = "reserved" THEN Amount ELSE 0,
                   !.captured = IF d.state = "captured" THEN Amount ELSE 0]

verified(i, t) ==
    checkout' = [checkout EXCEPT ![i].verifiedBy = t, ![i].rev = checkout[i].rev + 1]

\* Durable before the reply.  An approval consumed its intent and a verification
\* is noted on it; that write is not waited for to succeed.
persist(h) ==
    LET t == asa[h].t
    IN  /\ asa[h].pc = "persist"
        /\ row' = [row EXCEPT ![t] = RowDecided(row[t], asa[h])]
        /\ \/ asa[h].state = "account_verification" /\ verified(asa[h].i, t)
           \/ asa[h].state \in {"reserved", "captured"} /\ mark_intent(asa[h].i, "consumed")
           \/ (asa[h].result # Approved \/ scene.storage) /\ UNCHANGED checkout
        /\ Replies(h, t, asa[h].result)
        /\ UNCHANGED <<perVars, sent, moved, caller, redeemed, claimed>>

\* Storage fails: the claim, the pending row or the decision is not durable.
StorageFails(h) ==
    /\ scene.storage
    /\ asa[h].pc \in {"create_pending", "persist"}
    /\ Replies(h, asa[h].t, Declined)
    /\ UNCHANGED <<perVars, sent, moved, checkout, caller, redeemed, claimed, row>>

\* A re-sent request: the recorded decision, or the hold itself, or a decline.
duplicate(h) ==
    LET t == asa[h].t
        r == reservation[t]
    IN  /\ asa[h].pc = "duplicate"
        /\ \/ /\ row[t] # NoRow
              /\ row[t].decision # ""
              /\ Replies(h, t, row[t].decision)
           \/ /\ r # NoAccount
              /\ Amount = IF Single THEN r.captured_cents ELSE r.amount_reserved_cents
              /\ r.state \in {"reserved", "captured"}
              /\ Replies(h, t, Approved)
           \/ /\ PastDeadline(t)
              /\ Replies(h, t, Declined)
        /\ UNCHANGED <<perVars, sent, moved, checkout, caller, redeemed, claimed, row>>

AsaDies(h) ==
    /\ scene.crash
    /\ asa[h].pc # "idle"
    /\ asa' = [asa EXCEPT ![h] = IdleAsa]
    /\ UNCHANGED <<perVars, sent, moved, checkout, caller, redeemed, claimed, row, truth>>

\* Time passes the expiry of every open checkout.
CheckoutsExpire ==
    /\ scene.expires
    /\ now = 0
    /\ now' = now + MAX_INTENT_TTL_SECONDS + 1
    /\ UNCHANGED <<binding, policy, period, reservation, intent, guard, permission, commitment,
                   actions, paid, tx, sent, moved, authVars>>

AuthorizationStep ==
    \/ CheckoutsExpire
    \/ \E c \in Caller, i \in scene.intents : issue(c, i) \/ resume(c, i)
    \/ \E c \in Caller : open_on_per(c) \/ WriteIntent(c) \/ CallerDies(c)
    \/ \E i \in scene.intents : redeem(i) \/ close_intent(i)
    \/ \E t \in Token : IssuerTimesOut(t) \/ StandsIn(t)
    \/ \E t \in Token, e \in scene.reports : Reports(t, e.kind, e.n)
    \/ \E h \in Handler, t \in Token : decide(h, t)
    \/ \E h \in Handler : \/ create_pending(h) \/ evaluate(h) \/ ObserveTimesOut(h)
                          \/ persist(h) \/ StorageFails(h) \/ duplicate(h) \/ AsaDies(h)
=============================================================================
