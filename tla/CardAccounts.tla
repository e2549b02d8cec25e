---------------------------- MODULE CardAccounts ----------------------------
(***************************************************************************)
(* The accounts of one card of the card_policy program, and the policy      *)
(* rules over them (state.rs, policy.rs, common.rs, hashes.rs).  Cards      *)
(* share no account, so one card is the whole program.                      *)
(*                                                                         *)
(* Every instruction is one atomic step; a refused instruction is rolled    *)
(* back and is no step.  All-zero identifiers, and currencies other than    *)
(* USD, are refused by every instruction and are not among the inputs.      *)
(***************************************************************************)
EXTENDS Integers, Sequences, FiniteSets, FiniteSetsExt

CONSTANTS
    Key, Owner, NoKey,       \* public keys, the card's owner, Pubkey::default()
    AuthId, NoAuth,          \* issuer authorizations; no reservation is passed
    IntentId,                \* checkout intents
    CaptureId, EventId, Digest, ZeroId,  \* issuer and statement ids; [0u8; 32]
    Merchant, Mcc, AnyMcc,   \* merchants, category codes, mcc = 0
    NoAccount,               \* the account does not exist
    CAPTURE_RING, REPAYMENT_RING, EVENT_RING, GUARD_RING,
    MAX_BUDGET_CENTS, MIN_PERIOD_SECONDS, MAX_FEE_BPS, BPS_DENOMINATOR,
    MAX_INTENT_TTL_SECONDS, HOLD_TTL_SECONDS, MAX_MEMBERS,
    UnitsPerCent,            \* token base units in a cent
    Prefund,                 \* the ephemeral accounts the prefund can sponsor
    MaxU16, MaxU32, MaxU64,
    Scene                    \* what a behaviour is about, see `scene`

VARIABLES
    scene,        \* fixed: what the callers of this behaviour ask for, and its bounds
    now,          \* Clock::get()?.unix_timestamp
    binding,      \* CardBinding.status; is the card delegated, for the nth time;
                  \* has its policy on the base layer any ledger event
    policy,       \* CardPolicy
    period,       \* CardPeriod
    reservation,  \* the Reservation account of each authorization
    intent,       \* the CheckoutIntent account of each intent id
    guard,        \* AuthGuard
    permission,   \* who may read each private account
    commitment,   \* CardCommitment on the base layer
    actions,      \* scheduled write_commitment calls not yet run
    paid,         \* the ChainPay receipt of repay_statement for each digest
    tx            \* the last instruction: its signers and its ledger events

vars == <<scene, now, binding, policy, period, reservation, intent, guard,
          permission, commitment, actions, paid, tx>>

PolicyArgs == scene.policies        \* the terms an owner may sign
IntentArgs == scene.purchases       \* the purchases agents ask for
Cents == scene.cents                \* the amounts of purchases, refunds, repayments
Refunds == scene.refunds
Units == scene.units
Channel == scene.channels           \* the kinds of authorization the issuer sends
ExceptionKind == scene.exceptions   \* the exceptions and disputes it reports
Dispute == scene.disputes
Freezer == scene.freezers           \* who freezes the card, and who starts a recovery
Recoverer == scene.recoverers
RestoreArgs == scene.restores       \* the reconciled numbers a restore may carry
MaxCommitSeq == scene.max_commits   \* bound on the checkpoints taken
MaxEpoch == scene.max_epoch         \* bound on the times the card is delegated
MaxNow == scene.max_now             \* bound on the clock

U16 == 0..MaxU16
U32 == 0..MaxU32
U64 == 0..MaxU64

\* A fixed array of ids written round robin.  The write counter only matters
\* modulo the size, which divides 256, where the u8 counters wrap.
Ring(size, ids) == [slots : [0..size - 1 -> ids \cup {ZeroId}], next : 0..size - 1]
EmptyRing(size) == [slots |-> [i \in 0..size - 1 |-> ZeroId], next |-> 0]
InRing(ring, id) == \E i \in DOMAIN ring.slots : ring.slots[i] = id
Push(ring, id, size) == [slots |-> [ring.slots EXCEPT ![ring.next] = id],
                         next  |-> (ring.next + 1) % size]

\* The terms an owner signs and the policy keeps.
Terms == [budget_cents : U64, max_purchase_cents : U64,
          max_purchases_per_period : U16, period_seconds : U32,
          merchants : SUBSET Merchant, mccs : SUBSET Mcc, expires_at : Nat,
          recurring_allowed : BOOLEAN, fee_bps : U16, authorizer : Key \cup {NoKey}]

FreezeReasons == {"none", "owner", "authorizer_safety", "recovery", "expiry"}
RecoveryStates == {"normal", "frozen", "restored_pending"}

\* `resolve_exception` remembers its event under a hash domain of its own.
ResolveKey(e) == <<"resolve", e>>
ResolveIds == {ResolveKey(e) : e \in EventId}

CardPolicy ==
    [terms : Terms, policy_version : U32, frozen : BOOLEAN,
     freeze_reason : FreezeReasons, recovery_state : RecoveryStates,
     statement_outstanding_cents : U64, exceptions_open : U16,
     members : Seq(Key), commit_seq : 0..MaxCommitSeq,
     recon_digest : Digest \cup {ZeroId},
     repayment_digests : Ring(REPAYMENT_RING, Digest),
     event_ids : Ring(EVENT_RING, EventId \cup ResolveIds),
     ephemeral_count : U16]

CardPeriod ==
    [period_index : U32, period_end : Nat, captured_cents : U64,
     reserved_cents : U64, refunded_cents : U64, purchases_count : U16,
     exception_cents : U64]

OpenStates == {"reserved", "partially_captured"}
ReservationStates == OpenStates \cup {"captured", "reversed", "expired"}
Flags == {"late_capture", "over_capture", "single_message", "recurring"}

Reservation ==
    [amount_reserved_cents : U64, captured_cents : U64,
     refunded_cents : U64, state : ReservationStates, disputed : BOOLEAN,
     flags : SUBSET Flags, hold_expires_at : Nat, capture_ids : SUBSET CaptureId,
     max_amount_cents : U64]

CheckoutIntent ==
    [merchant : Merchant, mcc : Mcc \cup {AnyMcc}, max_amount_cents : U64,
     policy_version : U32, expires_at : Nat,
     state : {"open", "consumed", "cancelled"}]

AuthGuard == Ring(GUARD_RING, AuthId)

\* The accounts that have a permission: the card's two and its ephemerals.
Private == {"policy", "period", "guard"} \cup AuthId \cup IntentId

CardAccountsType ==
    /\ now \in 0..MaxNow
    /\ binding \in [status : {"none", "active", "closed"}, delegated : BOOLEAN,
                   epoch : 0..MaxEpoch, ledgered : BOOLEAN]
    /\ policy \in CardPolicy
    /\ period \in CardPeriod
    /\ reservation \in [AuthId -> Reservation \cup {NoAccount}]
    /\ intent \in [IntentId -> CheckoutIntent \cup {NoAccount}]
    /\ guard \in AuthGuard \cup {NoAccount}

ZeroTerms ==
    [budget_cents |-> 0, max_purchase_cents |-> 0,
     max_purchases_per_period |-> 0, period_seconds |-> 0, merchants |-> {},
     mccs |-> {}, expires_at |-> 0, recurring_allowed |-> FALSE, fee_bps |-> 0,
     authorizer |-> NoKey]

\* A fresh account, and what wipe_card leaves of it.
zeroed_policy ==
    [terms |-> ZeroTerms, policy_version |-> 0, frozen |-> FALSE,
     freeze_reason |-> "none", recovery_state |-> "normal",
     statement_outstanding_cents |-> 0, exceptions_open |-> 0, members |-> <<>>,
     commit_seq |-> 0, recon_digest |-> ZeroId,
     repayment_digests |-> EmptyRing(REPAYMENT_RING),
     event_ids |-> EmptyRing(EVENT_RING), ephemeral_count |-> 0]

zeroed_period ==
    [period_index |-> 0, period_end |-> 0, captured_cents |-> 0,
     reserved_cents |-> 0, refunded_cents |-> 0, purchases_count |-> 0,
     exception_cents |-> 0]

-----------------------------------------------------------------------------
(* Checked and saturating arithmetic; fees (policy.rs).                     *)

Fits(x, y) == x + y <= MaxU64
Saturating(x, y) == IF y \in 0..x THEN x - y ELSE 0
Lesser(x, y) == IF x <= y THEN x ELSE y

\* Mutant: the fee rounds up.
FeeRoundedUp(n, bps) == (n * bps + BPS_DENOMINATOR - 1) \div BPS_DENOMINATOR
fee(n, bps) == (n * bps) \div BPS_DENOMINATOR
with_fee(n, bps) == n + fee(n, bps)

Fee(n) == with_fee(n, policy.terms.fee_bps)

add_exposure(pol, n) ==
    [pol EXCEPT !.statement_outstanding_cents = pol.statement_outstanding_cents + Fee(n)]

ExposureFits(n) == Fits(policy.statement_outstanding_cents, Fee(n))

reduce_exposure(pol, n) ==
    [pol EXCEPT !.statement_outstanding_cents =
        Saturating(pol.statement_outstanding_cents, Fee(n))]

-----------------------------------------------------------------------------
(* Policy rules (policy.rs).                                                *)

is_set == policy.terms.authorizer # NoKey

\* Lists without duplicates or zeros are sets; USD is the only currency.
validate_policy_args(args) ==
    /\ args.max_purchase_cents > 0
    /\ args.max_purchase_cents <= args.budget_cents
    /\ args.budget_cents <= MAX_BUDGET_CENTS
    /\ args.period_seconds >= MIN_PERIOD_SECONDS
    /\ args.fee_bps <= MAX_FEE_BPS
    /\ args.merchants # {} \/ args.mccs # {}
    /\ args.expires_at = 0 \/ args.expires_at > now
    /\ args.authorizer \notin {NoKey, Owner}

is_expired == policy.terms.expires_at # 0 /\ now >= policy.terms.expires_at
merchant_allowed(m) == policy.terms.merchants = {} \/ m \in policy.terms.merchants
mcc_allowed(c) == policy.terms.mccs = {} \/ c \in policy.terms.mccs

require_spendable ==
    /\ is_set
    /\ ~policy.frozen
    /\ policy.recovery_state = "normal"
    /\ ~is_expired

available == Saturating(policy.terms.budget_cents,
                        period.captured_cents + period.reserved_cents)

\* `pd` is the period after any hold release.
require_billable(pd, n) ==
    pd.captured_cents + pd.reserved_cents + n <= policy.terms.budget_cents

require_refundable(r, n) == r.refunded_cents + n <= r.captured_cents

-----------------------------------------------------------------------------
(* Signers, ledger events, replay rings and ephemeral accounts (common.rs,  *)
(* hashes.rs).  Only the instructions that move a card between layers run   *)
(* while it is not delegated; the authorizer is nobody before a policy.     *)

OwnerSigns == binding.delegated
AuthorizerSigns == binding.delegated /\ is_set
EitherSigns(who) == (who = "owner" /\ OwnerSigns) \/ (who = "authorizer" /\ AuthorizerSigns)

Event(kind, auth, id, amount, after) ==
    [kind |-> kind, auth_id |-> auth, event_id |-> id, amount_cents |-> amount,
     state_after |-> after]

\* append_ledger, once per event of the set; `by` signed the instruction.
Appends(by, events) == tx' = [by |-> by, events |-> events]

\* record_event_id: refused while the id is among the last EVENT_RING.
FreshEvent(id) == ~InRing(policy.event_ids, id)
Remembered(pol, id) == [pol EXCEPT !.event_ids = Push(pol.event_ids, id, EVENT_RING)]

Live(f) == {x \in DOMAIN f : f[x] # NoAccount}
Ephemerals == Live(reservation) \cup Live(intent)
                \cup (IF guard = NoAccount THEN {} ELSE {"guard"})
CanSponsor == Cardinality(Ephemerals) < Prefund
CountFits == policy.ephemeral_count < MaxU16

EphemeralCreated(pol) == [pol EXCEPT !.ephemeral_count = pol.ephemeral_count + 1]
EphemeralClosed(pol) == [pol EXCEPT !.ephemeral_count = Saturating(pol.ephemeral_count, 1)]

\* Permissions are always written with the card's current member list.
Granted(accounts, members) ==
    [x \in Private |-> IF x \in accounts THEN members ELSE permission[x]]
Ungranted(accounts) ==
    [x \in Private |-> IF x \in accounts THEN NoAccount ELSE permission[x]]

baseVars == <<binding, commitment, actions, paid>>
=============================================================================
