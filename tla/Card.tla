-------------------------------- MODULE Card --------------------------------
(***************************************************************************)
(* The card_policy program: one card, its owner, the issuer's authorizer    *)
(* and the base layer's scheduled actions, interleaved in any order.        *)
(***************************************************************************)
EXTENDS CardControl

\* What the owner, the issuer and the readers of a card may ask for.
SceneType ==
    [keys : SUBSET Key, readers : SUBSET Key, auths : SUBSET AuthId,
     captures : SUBSET CaptureId, events : SUBSET EventId, digests : SUBSET Digest,
     policies : SUBSET Terms,
     purchases : SUBSET [merchant : Merchant, mcc : Mcc \cup {AnyMcc}, max_amount_cents : U64],
     cents : SUBSET U64, refunds : SUBSET U64, units : SUBSET Nat,
     channels : SUBSET [recurring : BOOLEAN, single : BOOLEAN],
     exceptions : SUBSET STRING, disputes : SUBSET BOOLEAN,
     freezers : SUBSET {"owner", "authorizer"}, recoverers : SUBSET {"owner", "authorizer"},
     restores : SUBSET [policy : Terms, period_index : U32, captured_cents : U64,
                        reserved_cents : U64, refunded_cents : U64, purchases_count : U16,
                        exception_cents : U64, statement_outstanding_cents : U64,
                        recon_digest : Digest],
     max_commits : Nat, max_epoch : Nat, max_now : Nat]

\* The rings have a slot, the accounts are told apart, and none is NoAccount.
ASSUME CardAssumption ==
    /\ Scene \subseteq SceneType
    /\ MaxU16 \in Nat \ {0} /\ MaxU32 \in Nat \ {0} /\ MaxU64 \in Nat
    /\ {CAPTURE_RING, REPAYMENT_RING, EVENT_RING, GUARD_RING} \subseteq Nat \ {0}
    /\ BPS_DENOMINATOR \in Nat \ {0}
    /\ {MAX_INTENT_TTL_SECONDS, HOLD_TTL_SECONDS} \subseteq Nat
    /\ Owner \in Key /\ NoKey \notin Key
    /\ IsFiniteSet(AuthId) /\ IsFiniteSet(IntentId) /\ AuthId \cap IntentId = {}
    /\ (AuthId \cup IntentId) \cap {"policy", "period", "guard", NoAuth, ZeroId} = {}
    /\ NoAccount \notin Reservation \cup CheckoutIntent \cup AuthGuard \cup Seq(Key)

Init ==
    /\ scene \in Scene
    /\ now = 0
    /\ binding = [status |-> "none", delegated |-> FALSE, epoch |-> 0,
                  ledgered |-> FALSE]
    /\ policy = zeroed_policy
    /\ period = zeroed_period
    /\ reservation = [a \in AuthId |-> NoAccount]
    /\ intent = [i \in IntentId |-> NoAccount]
    /\ guard = NoAccount
    /\ permission = [x \in Private |-> NoAccount]
    /\ commitment = [epoch |-> 0, seq |-> 0, policy_version |-> 0, period_index |-> 0]
    /\ actions = {}
    /\ paid = [d \in Digest |-> 0]
    /\ tx = [by |-> {}, events |-> {}]

Tick ==
    /\ now < MaxNow
    /\ now' = now + 1
    /\ Appends({}, {})
    /\ UNCHANGED <<policy, period, reservation, intent, guard, permission, baseVars>>

Parties == {"owner", "authorizer"}

OwnerStep ==
    \/ init_card
    \/ delegate_card
    \/ \E key \in scene.keys : init_permission(key)
    \/ \E key \in scene.readers, listed \in SUBSET Ephemerals : AddReader(key, listed)
    \/ \E key \in scene.readers, listed \in SUBSET Ephemerals : RemoveReader(key, listed)
    \/ \E args \in PolicyArgs, by \in {{"owner"}, Parties} : set_policy(args, by)
    \/ \E id \in scene.events : resolve_exception(id)
    \/ \E d \in scene.digests, units \in Units : repay_statement(d, units)
    \/ unfreeze
    \/ \E args \in RestoreArgs : restore(args)
    \/ \E d \in scene.digests : confirm_reconciled(d)
    \/ \E listed \in SUBSET Ephemerals : wipe_card(listed)
    \/ close_card

IssuerStep ==
    \/ \E i \in IntentId, args \in IntentArgs, ttl \in 1..MAX_INTENT_TTL_SECONDS :
           open_checkout_intent(i, args, now + ttl)
    \/ \E a \in scene.auths, i \in IntentId, n \in Cents, m \in Merchant, c \in Mcc, ch \in Channel :
           authorize(a, i, n, m, c, ch.recurring, ch.single)
    \/ \E a \in scene.auths, n \in Cents \cup {0} : adjust_reservation(a, n)
    \/ \E a \in scene.auths, n \in Cents, id \in scene.captures : capture(a, n, id)
    \/ \E a \in scene.auths, n \in Cents, id \in scene.events, reason \in {"reversed", "expired"} :
           reverse(a, n, reason, id)
    \/ \E a \in scene.auths \cup {NoAuth}, n \in Refunds, id \in scene.events : refund(a, n, id)
    \/ \E a \in scene.auths, opened \in Dispute, id \in scene.events : record_dispute(a, opened, id)
    \/ \E a \in scene.auths \cup {NoAuth}, n \in Cents, id \in scene.events, kind \in ExceptionKind :
           record_exception(a, n, id, kind)
    \/ \E d \in scene.digests, n \in Cents : record_repayment(d, n)
    \/ \E d \in scene.digests, n \in Cents : record_private_repayment(d, n)
    \/ \E listed \in SUBSET Live(reservation) : roll_period(listed)
    \/ checkpoint

EitherStep ==
    \/ \E i \in IntentId, who \in Parties : cancel_checkout_intent(i, who)
    \/ \E i \in IntentId, who \in Parties : close_checkout_intent(i, who)
    \/ \E a \in scene.auths, who \in Parties : close_reservation(a, who)
    \/ \E x \in Ephemerals, who \in Parties : sync_permission(x, who)
    \/ \E who \in Freezer, reason \in FreezeReasons : freeze(who, reason)
    \/ \E who \in Recoverer : recovery_freeze(who)

Next ==
    /\ \/ OwnerStep
       \/ IssuerStep
       \/ EitherStep
       \/ \E action \in actions : write_commitment(action)
       \/ Tick
    /\ UNCHANGED scene

Spec == Init /\ [][Next]_vars

-----------------------------------------------------------------------------
(* Properties.                                                              *)

Checkpoints == [epoch : 0..MaxEpoch, seq : 0..MaxCommitSeq, policy_version : U32,
                period_index : U32]

\* Every account keeps its declared widths: no counter of state.rs wraps.
TypeOK ==
    /\ CardAccountsType
    /\ permission \in [Private -> Seq(Key) \cup {NoAccount}]
    /\ commitment \in Checkpoints
    /\ actions \subseteq Checkpoints
    /\ paid \in [Digest -> Nat]

\* The period's reserved_cents is exactly what the live holds hold, through
\* every release, expiry, roll and wipe (release_hold, roll_period).  A restore
\* may set the two apart, so this is for cards that are never restored.
HoldsAreReserved == HeldBy(Live(reservation)) = period.reserved_cents

\* A reservation is open exactly while it holds money, whichever of capture,
\* reverse, adjust_reservation, roll_period or record_exception touched it last.
OpenIffHeld ==
    \A a \in Live(reservation) :
        reservation[a].state \in OpenStates <=> reservation[a].amount_reserved_cents > 0

\* The replay guard holds each closed authorization once and never one whose
\* reservation lives, so neither of authorize's two checks can miss an id the
\* other was to catch (close_reservation, authorize).
GuardIsExact ==
    guard # NoAccount =>
        /\ \A a \in Live(reservation) : ~InRing(guard, a)
        /\ \A i, j \in DOMAIN guard.slots :
               guard.slots[i] = guard.slots[j] /\ guard.slots[i] # ZeroId => i = j

\* Open holds are counted once in the period, and closed ones once in the guard.
HoldsAreExact == HoldsAreReserved /\ OpenIffHeld /\ GuardIsExact

\* What the period has spent and holds stays within the budget, across owner
\* edits of the budget and issuer events in any order (require_billable,
\* available, set_policy).
CommittedWithinBudget ==
    is_set => period.captured_cents + period.reserved_cents <= policy.terms.budget_cents

\* Without a flag for review, a purchase never holds and captures more than the
\* checkout intent it was approved for (capture, adjust_reservation).
IntentCapsSpend ==
    \A a \in Live(reservation) :
        LET r == reservation[a]
        IN  r.captured_cents + r.amount_reserved_cents > r.max_amount_cents
                => r.flags \cap {"over_capture", "late_capture"} # {}

\* The exceptions that land on a hold without a flag of their own.
Unflagged == {"over_hold"} \cup (Debits \ {"over_capture"})

\* While nobody restores the card from reconciled numbers, only a reported
\* over-hold overruns the period's budget, and only an unflagged exception a
\* purchase's intent (authorize, adjust_reservation, capture, set_policy).
SpendIsCapped ==
    scene.restores = {} =>
        /\ "over_hold" \notin scene.exceptions => CommittedWithinBudget
        /\ scene.exceptions \cap Unflagged = {} => IntentCapsSpend

\* A card in recovery is frozen until it is restored, confirmed and unfrozen, in
\* that order, however freezes of other kinds interleave (freeze.rs).
RecoveryIsFrozen == policy.recovery_state # "normal" => policy.frozen

\* ephemeral_count is the number of live ephemeral accounts, the guard included:
\* what wipe_card relies on to leave none behind (ephemeral_created and _closed).
EphemeralsCounted == policy.ephemeral_count = Cardinality(Ephemerals)

\* Nothing private outlives its card: once the card is undelegated no ephemeral
\* account and no permission remains that nobody could sign for, and until then
\* the count that wipe_card checks is true.
NothingStranded ==
    /\ EphemeralsCounted
    /\ ~binding.delegated =>
           /\ Ephemerals = {}
           /\ \A x \in Private : permission[x] = NoAccount

\* The readers of the policy and the period are always the current members, also
\* after an authorizer rotation (set_policy, init_permission, update_permission).
CardPermissionsCurrent ==
    Len(policy.members) > 0 =>
        \A x \in {"policy", "period"} : permission[x] = policy.members

\* Together: who may read the card is who is a member of it now, and after a wipe
\* nobody and nothing is left (permission.rs, wipe_card).
PermissionsAreSound == NothingStranded /\ CardPermissionsCurrent

\* Signed by one party alone, no instruction rewrites the credit: the owner
\* cannot touch the debt, the counters, the authorizer or the fee, nor enlarge
\* the budget or shorten the period of a set policy; only a wipe of a card that
\* owes and holds nothing clears them (set_policy, restore, wipe_card).
OwnerAloneKeepsCredit ==
    tx'.by = {"owner"} =>
        /\ policy'.statement_outstanding_cents = policy.statement_outstanding_cents
        /\ period'.reserved_cents = period.reserved_cents
        /\ binding'.delegated /\ is_set =>
               /\ period'.captured_cents = period.captured_cents
               /\ policy'.terms.authorizer = policy.terms.authorizer
               /\ policy'.terms.fee_bps = policy.terms.fee_bps
               /\ policy'.terms.budget_cents <= policy.terms.budget_cents
               /\ policy'.terms.period_seconds >= policy.terms.period_seconds

\* Nor can the authorizer alone change the terms or resume a frozen card.
AuthorizerAloneKeepsTerms ==
    tx'.by = {"authorizer"} =>
        /\ policy'.terms = policy.terms
        /\ policy'.members = policy.members
        /\ policy.frozen => policy'.frozen

\* What one signature may do stays one party's business (set_policy, freeze, restore).
PowersAreSeparate == [][OwnerAloneKeepsCredit /\ AuthorizerAloneKeepsTerms]_vars

\* Scheduled commitments may run late, twice or out of order; while the card is
\* delegated once, the public one never goes back to an older policy
\* (checkpoint, write_commitment).
CommitmentAdvances ==
    commitment'.epoch = commitment.epoch =>
        commitment'.policy_version >= commitment.policy_version

CommitmentNeverRewinds == [][CommitmentAdvances]_vars
=============================================================================
