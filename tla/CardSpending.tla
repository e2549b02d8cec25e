---------------------------- MODULE CardSpending ----------------------------
(***************************************************************************)
(* The spending side of a card: the owner's policy, checkout intents, the   *)
(* issuer's authorization, the life of its hold up to closing it, and the   *)
(* roll to a new budget period (set_policy.rs, intent.rs, authorize.rs,     *)
(* lifecycle.rs, period.rs, close_reservation.rs).                          *)
(***************************************************************************)
EXTENDS CardAccounts

\* Slots 1 and 2 are the owner and the authorizer.
Readers(members) == {members[i] : i \in 3..Len(members)}

\* What also needs the current authorizer's signature.
CreditTermsChange(args) ==
    \/ args.authorizer # policy.terms.authorizer
    \/ args.fee_bps # policy.terms.fee_bps
    \/ args.budget_cents > policy.terms.budget_cents
    \/ args.period_seconds < policy.terms.period_seconds

\* Mutant: the owner's signature is enough.
OwnerEnough(args, by) == "owner" \in by
CoSigned(args, by) == CreditTermsChange(args) => "authorizer" \in by

CoversCommitted(args) ==
    args.budget_cents < policy.terms.budget_cents =>
        args.budget_cents >= period.captured_cents + period.reserved_cents

\* members[2] is the authorizer's place (members[1] in the code).
Rotated(members, key) == [members EXCEPT ![2] = key]

FirstPeriod(pd, args) ==
    IF pd.period_index # 0 THEN pd
    ELSE [pd EXCEPT !.period_index = 1, !.period_end = now + args.period_seconds]

\* A rotation is followed by the policy and period permissions, and only those.
sync_card_permissions(members) == Granted({"policy", "period"}, members)

set_policy(args, by) ==
    LET rotates == policy.members[2] # args.authorizer
        members == Rotated(policy.members, args.authorizer)
    IN  /\ OwnerSigns
        /\ Len(policy.members) >= 2
        /\ policy.recovery_state = "normal"
        /\ validate_policy_args(args)
        /\ is_set => /\ args.authorizer # policy.terms.authorizer => policy.frozen
                     /\ CoSigned(args, by)
                     /\ CoversCommitted(args)
        /\ rotates => args.authorizer \notin Readers(policy.members)
        /\ policy.policy_version < MaxU32
        /\ policy' = [policy EXCEPT !.terms = args, !.members = members,
                                    !.policy_version = policy.policy_version + 1]
        /\ period' = FirstPeriod(period, args)
        /\ permission' = IF rotates THEN sync_card_permissions(members) ELSE permission
        /\ Appends(by, {Event("policy_set", NoAuth, ZeroId, args.budget_cents, policy.frozen)})
        /\ UNCHANGED <<now, reservation, intent, guard, baseVars>>

-----------------------------------------------------------------------------
(* Checkout intents.                                                        *)

validate_open_intent(args, expires_at) ==
    /\ require_spendable
    /\ expires_at > now
    /\ expires_at <= now + MAX_INTENT_TTL_SECONDS
    /\ merchant_allowed(args.merchant)
    /\ args.mcc = AnyMcc \/ mcc_allowed(args.mcc)
    /\ args.max_amount_cents > 0
    /\ args.max_amount_cents <= policy.terms.max_purchase_cents
    /\ args.max_amount_cents <= available

open_checkout_intent(i, args, expires_at) ==
    /\ AuthorizerSigns
    /\ validate_open_intent(args, expires_at)
    /\ intent[i] = NoAccount
    /\ CanSponsor
    /\ CountFits
    /\ intent' = [intent EXCEPT ![i] =
           [merchant |-> args.merchant, mcc |-> args.mcc,
            max_amount_cents |-> args.max_amount_cents,
            policy_version |-> policy.policy_version, expires_at |-> expires_at,
            state |-> "open"]]
    /\ permission' = Granted({i}, policy.members)
    /\ policy' = EphemeralCreated(policy)
    /\ Appends({"authorizer"}, {})
    /\ UNCHANGED <<now, period, reservation, guard, baseVars>>

cancel_checkout_intent(i, who) ==
    /\ EitherSigns(who)
    /\ intent[i] # NoAccount
    /\ intent[i].state = "open"
    /\ intent' = [intent EXCEPT ![i].state = "cancelled"]
    /\ Appends({who}, {})
    /\ UNCHANGED <<now, policy, period, reservation, guard, permission, baseVars>>

close_checkout_intent(i, who) ==
    /\ EitherSigns(who)
    /\ intent[i] # NoAccount
    /\ intent[i].state # "open" \/ now > intent[i].expires_at
    /\ intent' = [intent EXCEPT ![i] = NoAccount]
    /\ permission' = Ungranted({i})
    /\ policy' = EphemeralClosed(policy)
    /\ Appends({who}, {})
    /\ UNCHANGED <<now, period, reservation, guard, baseVars>>

-----------------------------------------------------------------------------
(* The issuer's authorization.                                              *)

recently_closed(a) == guard # NoAccount /\ InRing(guard, a)

validate_authorize(i, n, merchant, mcc, recurring) ==
    /\ require_spendable
    /\ intent[i] # NoAccount
    /\ intent[i].state = "open"
    /\ now <= intent[i].expires_at
    /\ intent[i].policy_version = policy.policy_version
    /\ merchant = intent[i].merchant
    /\ merchant_allowed(merchant)
    /\ mcc_allowed(mcc)
    /\ intent[i].mcc \in {AnyMcc, mcc}
    /\ n > 0
    /\ n <= intent[i].max_amount_cents
    /\ n <= policy.terms.max_purchase_cents
    /\ n <= available
    /\ period.purchases_count < MaxU16
    /\ \/ policy.terms.max_purchases_per_period = 0
       \/ period.purchases_count + 1 <= policy.terms.max_purchases_per_period
    /\ recurring => policy.terms.recurring_allowed

\* A single-message authorization settles at once; any other holds the amount.
NewReservation(i, n, recurring, single) ==
    [amount_reserved_cents |-> IF single THEN 0 ELSE n,
     captured_cents |-> IF single THEN n ELSE 0,
     refunded_cents |-> 0,
     state |-> IF single THEN "captured" ELSE "reserved",
     disputed |-> FALSE,
     flags |-> {f \in {"single_message"} : single} \cup {f \in {"recurring"} : recurring},
     hold_expires_at |-> now + HOLD_TTL_SECONDS, capture_ids |-> {},
     max_amount_cents |-> intent[i].max_amount_cents]

Bought(pd, n, single) ==
    [pd EXCEPT !.purchases_count = pd.purchases_count + 1,
               !.captured_cents = IF single THEN pd.captured_cents + n ELSE pd.captured_cents,
               !.reserved_cents = IF single THEN pd.reserved_cents ELSE pd.reserved_cents + n]

authorize(a, i, n, merchant, mcc, recurring, single) ==
    /\ AuthorizerSigns
    /\ reservation[a] = NoAccount
    /\ ~recently_closed(a)
    /\ validate_authorize(i, n, merchant, mcc, recurring)
    /\ CanSponsor
    /\ CountFits
    /\ single => ExposureFits(n)
    /\ reservation' = [reservation EXCEPT ![a] = NewReservation(i, n, recurring, single)]
    /\ intent' = [intent EXCEPT ![i].state = "consumed"]
    /\ period' = Bought(period, n, single)
    /\ policy' = EphemeralCreated(IF single THEN add_exposure(policy, n) ELSE policy)
    /\ permission' = Granted({a}, policy.members)
    /\ Appends({"authorizer"},
               {Event("authorize", a, ZeroId, n, IF single THEN "captured" ELSE "reserved")})
    /\ UNCHANGED <<now, guard, baseVars>>

-----------------------------------------------------------------------------
(* Issuer events on a hold; a freeze never blocks them.                     *)

\* Mutant: the period keeps the released amount.
NotReleased(pd, n) == pd
Released(pd, n) == [pd EXCEPT !.reserved_cents = Saturating(pd.reserved_cents, n)]

\* The state of a hold that is used up: what was captured decides it.
SpentState(r, otherwise) == IF r.captured_cents > 0 THEN "captured" ELSE otherwise

\* An increase is new spending, within the intent the agent was approved for.
IncreaseAllowed(r, n) ==
    /\ require_spendable
    /\ n + r.captured_cents <= policy.terms.max_purchase_cents
    /\ n + r.captured_cents <= r.max_amount_cents
    /\ n - r.amount_reserved_cents <= available

HoldSet(r, n, otherwise) ==
    [r EXCEPT !.amount_reserved_cents = n,
              !.state = IF n = 0 THEN SpentState(r, otherwise) ELSE r.state]

adjust_reservation(a, n) ==
    LET r    == reservation[a]
        hold == r.amount_reserved_cents
    IN  /\ AuthorizerSigns
        /\ r # NoAccount
        /\ r.state \in OpenStates
        /\ n > hold => IncreaseAllowed(r, n)
        /\ period' = IF n > hold
                     THEN [period EXCEPT !.reserved_cents = period.reserved_cents + (n - hold)]
                     ELSE Released(period, hold - n)
        /\ reservation' = [reservation EXCEPT ![a] = HoldSet(r, n, "reversed")]
        /\ Appends({"authorizer"}, {Event("adjust", a, ZeroId, n, HoldSet(r, n, "reversed").state)})
        /\ UNCHANGED <<now, policy, intent, guard, permission, baseVars>>

\* A capture uses up the hold first; what exceeds it is flagged for review,
\* and one after the hold was reversed or expired is flagged as late.
OnHold(r) == r.state \in OpenStates \cup {"captured"}
FromHold(r, n) == IF OnHold(r) THEN Lesser(n, r.amount_reserved_cents) ELSE 0
\* Mutant: what follows a complete capture is taken for part of the hold.
ExcessOfOpen(r, n) == r.state \in OpenStates /\ n > FromHold(r, n)
Excess(r, n) == OnHold(r) /\ n > FromHold(r, n)

Captured(r, n, id) ==
    LET hold == r.amount_reserved_cents - FromHold(r, n)
    IN  [r EXCEPT !.amount_reserved_cents = hold,
                  !.captured_cents = r.captured_cents + n,
                  !.capture_ids = r.capture_ids \cup {id},
                  !.flags = r.flags \cup {f \in {"over_capture"} : Excess(r, n)}
                                    \cup {f \in {"late_capture"} : ~OnHold(r)},
                  !.state = IF ~OnHold(r) THEN r.state
                            ELSE IF hold = 0 THEN "captured" ELSE "partially_captured"]

PeriodCaptured(r, n) ==
    [Released(period, FromHold(r, n)) EXCEPT
        !.captured_cents = period.captured_cents + n,
        !.exception_cents = IF Excess(r, n) THEN period.exception_cents + (n - FromHold(r, n))
                            ELSE period.exception_cents]

ExceptionOpened(pol) == [pol EXCEPT !.exceptions_open = pol.exceptions_open + 1]

capture(a, n, id) ==
    LET r == reservation[a]
    IN  /\ AuthorizerSigns
        /\ r # NoAccount
        /\ n > 0
        /\ id \notin r.capture_ids
        /\ Cardinality(r.capture_ids) < CAPTURE_RING
        /\ Excess(r, n) => /\ Fits(period.exception_cents, n - FromHold(r, n))
                           /\ policy.exceptions_open < MaxU16
        /\ require_billable(Released(period, FromHold(r, n)), n)
        /\ Fits(r.captured_cents, n)
        /\ ExposureFits(n)
        /\ period' = PeriodCaptured(r, n)
        /\ reservation' = [reservation EXCEPT ![a] = Captured(r, n, id)]
        /\ policy' = add_exposure(IF Excess(r, n) THEN ExceptionOpened(policy) ELSE policy, n)
        /\ Appends({"authorizer"}, {Event("capture", a, id, n, Captured(r, n, id).state)})
        /\ UNCHANGED <<now, intent, guard, permission, baseVars>>

reverse(a, n, reason, id) ==
    LET r        == reservation[a]
        released == Lesser(n, r.amount_reserved_cents)
        after    == HoldSet(r, r.amount_reserved_cents - released, reason)
    IN  /\ AuthorizerSigns
        /\ r # NoAccount
        /\ n > 0
        /\ FreshEvent(id)
        /\ r.state \in OpenStates
        /\ period' = Released(period, released)
        /\ reservation' = [reservation EXCEPT ![a] = after]
        /\ policy' = Remembered(policy, id)
        /\ Appends({"authorizer"}, {Event("reverse", a, id, released, after.state)})
        /\ UNCHANGED <<now, intent, guard, permission, baseVars>>

-----------------------------------------------------------------------------
(* A new period: the allowance starts again, the caller's list of overdue   *)
(* holds expires, and every other hold and the debt carry over.             *)

Overdue(a) == reservation[a].state \in OpenStates /\ now >= reservation[a].hold_expires_at

Expired(r) == [r EXCEPT !.amount_reserved_cents = 0, !.state = "expired"]

HeldBy(auths) == MapThenSumSet(LAMBDA a : reservation[a].amount_reserved_cents, auths)

NextPeriod(pd, released) ==
    [pd EXCEPT !.reserved_cents = Saturating(pd.reserved_cents, released),
               !.period_index = pd.period_index + 1,
               !.period_end = now + policy.terms.period_seconds,
               !.captured_cents = 0, !.refunded_cents = 0,
               !.purchases_count = 0, !.exception_cents = 0]

roll_period(listed) ==
    LET expiring == {a \in listed : Overdue(a)}
        expiries == {Event("reverse", a, ZeroId, reservation[a].amount_reserved_cents, "expired") :
                        a \in expiring}
    IN  /\ AuthorizerSigns
        /\ listed \subseteq Live(reservation)
        /\ now >= period.period_end
        /\ period.period_index < MaxU32
        /\ reservation' = [a \in AuthId |-> IF a \in expiring THEN Expired(reservation[a])
                                            ELSE reservation[a]]
        /\ period' = NextPeriod(period, HeldBy(expiring))
        /\ Appends({"authorizer"},
                   expiries \cup {Event("roll", NoAuth, ZeroId, period'.reserved_cents, "")})
        /\ UNCHANGED <<now, policy, intent, guard, permission, baseVars>>

-----------------------------------------------------------------------------
(* Closing a final hold moves its id to the replay guard.                   *)

is_final(r) ==
    /\ r.state \in {"captured", "reversed", "expired"}
    /\ r.amount_reserved_cents = 0
    /\ ~r.disputed

GuardAfter(a) == Push(IF guard = NoAccount THEN EmptyRing(GUARD_RING) ELSE guard, a, GUARD_RING)

\* The first close also creates the guard.
CountAfterClose(pol) ==
    IF guard = NoAccount THEN EphemeralCreated(EphemeralClosed(pol)) ELSE EphemeralClosed(pol)

close_reservation(a, who) ==
    /\ EitherSigns(who)
    /\ reservation[a] # NoAccount
    /\ is_final(reservation[a])
    /\ guard = NoAccount => CanSponsor
    /\ guard' = GuardAfter(a)
    /\ permission' = IF guard = NoAccount
                     THEN [Ungranted({a}) EXCEPT !["guard"] = policy.members]
                     ELSE Ungranted({a})
    /\ reservation' = [reservation EXCEPT ![a] = NoAccount]
    /\ policy' = CountAfterClose(policy)
    /\ Appends({who}, {Event("close_reservation", a, ZeroId,
                              reservation[a].captured_cents, reservation[a].state)})
    /\ UNCHANGED <<now, period, intent, baseVars>>
=============================================================================
