------------------------------ MODULE CardTypes ------------------------------
(***************************************************************************)
(* Every account of a card keeps the widths that state.rs declares, for     *)
(* every budget, fee, ring size and set of callers.                         *)
(***************************************************************************)
EXTENDS Card, SequenceTheorems, TLAPS

\* What TypeOK rests on: the callers stay within the scene they started in.
Typed == scene \in Scene /\ TypeOK

-----------------------------------------------------------------------------
(* Arithmetic and rings.                                                    *)

LEMMA Widths ==
  /\ MaxU16 \in Nat /\ MaxU16 > 0 /\ MaxU32 \in Nat /\ MaxU32 > 0 /\ MaxU64 \in Nat
  /\ BPS_DENOMINATOR \in Nat \ {0}
  /\ MAX_INTENT_TTL_SECONDS \in Nat /\ HOLD_TTL_SECONDS \in Nat
BY CardAssumption

LEMMA Rings ==
  /\ REPAYMENT_RING \in Nat \ {0} /\ EVENT_RING \in Nat \ {0} /\ GUARD_RING \in Nat \ {0}
BY CardAssumption

\* A saturating subtraction never leaves the width of what it starts from.
LEMMA SaturatingType ==
  ASSUME NEW m \in Nat, NEW x \in 0..m, NEW y
  PROVE  Saturating(x, y) \in 0..m
BY DEF Saturating

LEMMA ZeroFits == 0 \in U16 /\ 0 \in U32 /\ 0 \in U64
BY Widths DEF U16, U32, U64

\* Either of two counters has room for what their sum has room for.
LEMMA SumsFit ==
  ASSUME NEW x \in U64, NEW y \in U64, NEW n \in U64, x + y + n <= MaxU64
  PROVE  x + n \in U64 /\ y + n \in U64
BY Widths DEF U64

\* fee rounds down, so it is never negative.
LEMMA FeeType ==
  ASSUME NEW n \in Nat, NEW bps \in Nat
  PROVE  fee(n, bps) \in Nat /\ with_fee(n, bps) \in Nat
<1>1. n * bps \in Nat
  OBVIOUS
<1>2. (n * bps) \div BPS_DENOMINATOR \in Nat
  BY <1>1, Widths
<1>3. QED
  BY <1>2 DEF fee, with_fee

\* Writing round robin keeps a ring a ring.
LEMMA PushType ==
  ASSUME NEW size \in Nat \ {0}, NEW ids, NEW ring \in Ring(size, ids), NEW id \in ids
  PROVE  Push(ring, id, size) \in Ring(size, ids)
<1>1. (ring.next + 1) % size \in 0..size - 1
  BY DEF Ring
<1>2. [ring.slots EXCEPT ![ring.next] = id] \in [0..size - 1 -> ids \cup {ZeroId}]
  BY DEF Ring
<1>3. QED
  BY <1>1, <1>2 DEF Push, Ring

LEMMA EmptyRingType ==
  ASSUME NEW size \in Nat \ {0}, NEW ids
  PROVE  EmptyRing(size) \in Ring(size, ids)
BY DEF EmptyRing, Ring

-----------------------------------------------------------------------------
(* The policy and the period.                                               *)

\* The part of the policy that money does not touch.
SameControl(p, q) ==
    /\ q.terms = p.terms /\ q.policy_version = p.policy_version
    /\ q.frozen = p.frozen /\ q.recovery_state = p.recovery_state
    /\ q.members = p.members /\ q.commit_seq = p.commit_seq

\* What is owed, and how many ephemeral accounts there are.
SameDebt(p, q) == q.statement_outstanding_cents = p.statement_outstanding_cents
SameCount(p, q) == q.ephemeral_count = p.ephemeral_count

LEMMA FeeOfPurchase ==
  ASSUME Typed, NEW n \in U64
  PROVE  Fee(n) \in Nat
<1>1. policy.terms.fee_bps \in Nat
  BY Widths DEF Typed, TypeOK, CardAccountsType, CardPolicy, Terms, U16
<1>2. n \in Nat
  BY Widths DEF U64
<1>3. QED
  BY <1>1, <1>2, FeeType, Zenon DEF Fee

\* Debt, exceptions, replay rings and ephemeral counts change nothing else.
LEMMA PolicyMoney ==
  ASSUME Typed, NEW p \in CardPolicy, NEW n \in U64
  PROVE  /\ Fits(p.statement_outstanding_cents, Fee(n)) =>
                add_exposure(p, n) \in CardPolicy
         /\ reduce_exposure(p, n) \in CardPolicy
         /\ \A q \in {add_exposure(p, n), reduce_exposure(p, n)} :
                SameControl(p, q) /\ SameCount(p, q)
<1>1. Fee(n) \in Nat /\ p.statement_outstanding_cents \in U64
  BY FeeOfPurchase DEF CardPolicy
<1>2. ASSUME Fits(p.statement_outstanding_cents, Fee(n))
      PROVE  p.statement_outstanding_cents + Fee(n) \in U64
  BY <1>1, <1>2, Widths DEF Fits, U64
<1>3. Saturating(p.statement_outstanding_cents, Fee(n)) \in U64
  BY <1>1, SaturatingType, Widths DEF U64
<1>4. ASSUME Fits(p.statement_outstanding_cents, Fee(n))
      PROVE  add_exposure(p, n) \in CardPolicy
  BY <1>2, <1>4 DEF add_exposure, CardPolicy
<1>5. reduce_exposure(p, n) \in CardPolicy
  BY <1>3 DEF reduce_exposure, CardPolicy
<1>6. /\ SameControl(p, add_exposure(p, n)) /\ SameCount(p, add_exposure(p, n))
      /\ SameControl(p, reduce_exposure(p, n)) /\ SameCount(p, reduce_exposure(p, n))
  BY DEF add_exposure, reduce_exposure, SameControl, SameCount, CardPolicy
<1>7. QED
  BY <1>4, <1>5, <1>6

LEMMA PolicyExceptions ==
  ASSUME NEW p \in CardPolicy
  PROVE  /\ p.exceptions_open < MaxU16 => ExceptionOpened(p) \in CardPolicy
         /\ SameControl(p, ExceptionOpened(p)) /\ SameCount(p, ExceptionOpened(p))
         /\ SameDebt(p, ExceptionOpened(p))
<1>1. ASSUME p.exceptions_open < MaxU16 PROVE ExceptionOpened(p) \in CardPolicy
  <2>1. p.exceptions_open + 1 \in U16
    BY <1>1, Widths DEF CardPolicy, U16
  <2>2. QED
    BY <2>1 DEF ExceptionOpened, CardPolicy
<1>2. /\ SameControl(p, ExceptionOpened(p)) /\ SameCount(p, ExceptionOpened(p))
      /\ SameDebt(p, ExceptionOpened(p))
  BY DEF ExceptionOpened, SameControl, SameCount, SameDebt, CardPolicy
<1>3. QED
  BY <1>1, <1>2

LEMMA PolicyEvents ==
  ASSUME NEW p \in CardPolicy, NEW id \in EventId \cup ResolveIds
  PROVE  /\ Remembered(p, id) \in CardPolicy
         /\ SameControl(p, Remembered(p, id)) /\ SameCount(p, Remembered(p, id))
         /\ SameDebt(p, Remembered(p, id))
         /\ Remembered(p, id).exceptions_open = p.exceptions_open
<1>1. Push(p.event_ids, id, EVENT_RING) \in Ring(EVENT_RING, EventId \cup ResolveIds)
  BY PushType, Rings DEF CardPolicy
<1>2. Remembered(p, id) \in CardPolicy
  BY <1>1 DEF Remembered, CardPolicy
<1>3. /\ SameControl(p, Remembered(p, id)) /\ SameCount(p, Remembered(p, id))
      /\ SameDebt(p, Remembered(p, id))
      /\ Remembered(p, id).exceptions_open = p.exceptions_open
  BY DEF Remembered, SameControl, SameCount, SameDebt, CardPolicy
<1>4. QED
  BY <1>2, <1>3

LEMMA PolicyEphemerals ==
  ASSUME Typed, NEW p \in CardPolicy
  PROVE  /\ p.ephemeral_count < MaxU16 => EphemeralCreated(p) \in CardPolicy
         /\ EphemeralClosed(p) \in CardPolicy
         /\ CountAfterClose(p) \in CardPolicy
         /\ \A q \in {EphemeralCreated(p), EphemeralClosed(p), CountAfterClose(p)} :
                SameControl(p, q) /\ SameDebt(p, q)
<1>1. ASSUME NEW q \in CardPolicy
      PROVE  /\ q.ephemeral_count < MaxU16 => EphemeralCreated(q) \in CardPolicy
             /\ SameControl(q, EphemeralCreated(q)) /\ SameDebt(q, EphemeralCreated(q))
  <2>1. ASSUME q.ephemeral_count < MaxU16 PROVE q.ephemeral_count + 1 \in U16
    BY <2>1, Widths DEF CardPolicy, U16
  <2>2. ASSUME q.ephemeral_count < MaxU16 PROVE EphemeralCreated(q) \in CardPolicy
    BY <2>1, <2>2, Zenon DEF EphemeralCreated, CardPolicy
  <2>3. SameControl(q, EphemeralCreated(q)) /\ SameDebt(q, EphemeralCreated(q))
    BY DEF EphemeralCreated, SameControl, SameDebt, CardPolicy
  <2>4. QED
    BY <2>2, <2>3
<1>2. Saturating(p.ephemeral_count, 1) \in U16
  BY SaturatingType, Widths DEF U16, CardPolicy
<1>3. /\ EphemeralClosed(p) \in CardPolicy
      /\ EphemeralClosed(p).ephemeral_count = Saturating(p.ephemeral_count, 1)
      /\ SameControl(p, EphemeralClosed(p)) /\ SameDebt(p, EphemeralClosed(p))
  BY <1>2 DEF EphemeralClosed, SameControl, SameDebt, CardPolicy
<1>4. Saturating(p.ephemeral_count, 1) < MaxU16
  BY Widths DEF Saturating, U16, CardPolicy
<1>5. /\ CountAfterClose(p) \in CardPolicy
      /\ SameControl(p, CountAfterClose(p)) /\ SameDebt(p, CountAfterClose(p))
  BY <1>1, <1>3, <1>4 DEF CountAfterClose, SameControl, SameDebt
<1>6. QED
  BY <1>1, <1>3, <1>5

LEMMA PeriodEdits ==
  ASSUME NEW pd \in CardPeriod, NEW n \in U64, NEW m
  PROVE  /\ Released(pd, m) \in CardPeriod
         /\ Released(pd, m).captured_cents = pd.captured_cents
         /\ Released(pd, m).reserved_cents = Saturating(pd.reserved_cents, m)
         /\ pd.refunded_cents + n <= MaxU64 => PeriodRefunded(pd, n) \in CardPeriod
         /\ PeriodRefunded(pd, n).captured_cents = pd.captured_cents
         /\ PeriodRefunded(pd, n).reserved_cents = pd.reserved_cents
<1>1. Saturating(pd.reserved_cents, m) \in U64
  BY SaturatingType, Widths DEF U64, CardPeriod
<1>2. ASSUME pd.refunded_cents + n <= MaxU64 PROVE pd.refunded_cents + n \in U64
  BY <1>2, Widths DEF U64, CardPeriod
<1>3. /\ Released(pd, m) \in CardPeriod
      /\ Released(pd, m).captured_cents = pd.captured_cents
      /\ Released(pd, m).reserved_cents = Saturating(pd.reserved_cents, m)
  BY <1>1 DEF Released, CardPeriod
<1>4. ASSUME pd.refunded_cents + n <= MaxU64 PROVE PeriodRefunded(pd, n) \in CardPeriod
  BY <1>2, <1>4 DEF PeriodRefunded, CardPeriod
<1>5. /\ PeriodRefunded(pd, n).captured_cents = pd.captured_cents
      /\ PeriodRefunded(pd, n).reserved_cents = pd.reserved_cents
  BY DEF PeriodRefunded, CardPeriod
<1>6. QED
  BY <1>3, <1>4, <1>5

\* Every edit of a hold that an instruction makes gives a hold again.
LEMMA HoldEdits ==
  ASSUME NEW r \in Reservation, NEW n \in U64
  PROVE  /\ \A otherwise \in ReservationStates : HoldSet(r, n, otherwise) \in Reservation
         /\ \A id \in CaptureId : r.captured_cents + n <= MaxU64 =>
                Captured(r, n, id) \in Reservation
         /\ Expired(r) \in Reservation
         /\ r.refunded_cents + n <= MaxU64 => Refunded(r, n) \in Reservation
         /\ \A kind : r.captured_cents + n <= MaxU64 => Debited(r, n, kind) \in Reservation
         /\ r.amount_reserved_cents + n <= MaxU64 =>
                [r EXCEPT !.amount_reserved_cents = r.amount_reserved_cents + n] \in Reservation
         /\ \A opened \in BOOLEAN : [r EXCEPT !.disputed = opened] \in Reservation
<1>1. \A otherwise \in ReservationStates : HoldSet(r, n, otherwise) \in Reservation
  <2>1. SUFFICES ASSUME NEW otherwise \in ReservationStates
                 PROVE  HoldSet(r, n, otherwise) \in Reservation
    OBVIOUS
  <2>2. (IF n = 0 THEN SpentState(r, otherwise) ELSE r.state) \in ReservationStates
    BY DEF SpentState, Reservation, ReservationStates
  <2>3. QED
    BY <2>2, Zenon DEF HoldSet, Reservation
<1>2. ASSUME NEW id \in CaptureId, r.captured_cents + n <= MaxU64
      PROVE  Captured(r, n, id) \in Reservation
  <2> DEFINE hold == r.amount_reserved_cents - FromHold(r, n)
             flags == r.flags \cup {f \in {"over_capture"} : Excess(r, n)}
                              \cup {f \in {"late_capture"} : ~OnHold(r)}
             state == IF ~OnHold(r) THEN r.state
                      ELSE IF hold = 0 THEN "captured" ELSE "partially_captured"
  <2>1. hold \in U64
    BY Widths DEF FromHold, Lesser, U64, Reservation
  <2>2. r.captured_cents + n \in U64
    BY <1>2, Widths DEF U64, Reservation
  <2>3. r.capture_ids \cup {id} \in SUBSET CaptureId /\ flags \in SUBSET Flags
    BY DEF Reservation, Flags
  <2>4. state \in ReservationStates
    BY DEF Reservation, ReservationStates, OpenStates
  <2> HIDE DEF hold, flags, state
  <2>5. Captured(r, n, id) =
            [r EXCEPT !.amount_reserved_cents = hold, !.captured_cents = r.captured_cents + n,
                      !.capture_ids = r.capture_ids \cup {id}, !.flags = flags, !.state = state]
    BY DEF Captured, hold, flags, state
  <2>6. QED
    BY <2>1, <2>2, <2>3, <2>4, <2>5, Zenon DEF Reservation
<1>3. Expired(r) \in Reservation
  BY ZeroFits, Zenon DEF Expired, Reservation, ReservationStates
<1>4. ASSUME r.refunded_cents + n <= MaxU64 PROVE Refunded(r, n) \in Reservation
  <2>1. r.refunded_cents + n \in U64
    BY <1>4, Widths DEF Reservation, U64
  <2>2. QED
    BY <2>1 DEF Refunded, Reservation
<1>5. ASSUME NEW kind, r.captured_cents + n <= MaxU64 PROVE Debited(r, n, kind) \in Reservation
  <2>1. r.captured_cents + n \in U64
    BY <1>5, Widths DEF Reservation, U64
  <2>2. r.flags \cup {f \in {"over_capture"} : f = kind} \in SUBSET Flags
    BY DEF Reservation, Flags
  <2>3. QED
    BY <2>1, <2>2, Zenon DEF Debited, Reservation
<1>6. ASSUME r.amount_reserved_cents + n <= MaxU64
      PROVE  [r EXCEPT !.amount_reserved_cents = r.amount_reserved_cents + n] \in Reservation
  <2>1. r.amount_reserved_cents + n \in U64
    BY <1>6, Widths DEF Reservation, U64
  <2>2. QED
    BY <2>1 DEF Reservation
<1>7. ASSUME NEW opened \in BOOLEAN PROVE [r EXCEPT !.disputed = opened] \in Reservation
  BY DEF Reservation
<1>8. QED
  BY <1>1, <1>2, <1>3, <1>4, <1>5, <1>6, <1>7

-----------------------------------------------------------------------------
(* One lemma per group of instructions.                                     *)

Binding == [status : {"none", "active", "closed"}, delegated : BOOLEAN,
            epoch : 0..MaxEpoch, ledgered : BOOLEAN]

\* The state after a step is well typed in the scene of the state before it.
TypedAfter ==
    /\ now' \in 0..MaxNow
    /\ binding' \in Binding
    /\ policy' \in CardPolicy
    /\ period' \in CardPeriod
    /\ reservation' \in [AuthId -> Reservation \cup {NoAccount}]
    /\ intent' \in [IntentId -> CheckoutIntent \cup {NoAccount}]
    /\ guard' \in AuthGuard \cup {NoAccount}
    /\ permission' \in [Private -> Seq(Key) \cup {NoAccount}]
    /\ commitment' \in Checkpoints
    /\ actions' \subseteq Checkpoints
    /\ paid' \in [Digest -> Nat]

\* The step opens and closes no reservation, or no intent.
HoldsKept == \A x \in AuthId : (reservation'[x] = NoAccount) <=> (reservation[x] = NoAccount)
IntentsKept == \A x \in IntentId : (intent'[x] = NoAccount) <=> (intent[x] = NoAccount)

LEMMA NoAccountIsNone ==
  NoAccount \notin Reservation /\ NoAccount \notin CheckoutIntent
  /\ NoAccount \notin AuthGuard /\ NoAccount \notin Seq(Key)
BY CardAssumption

LEMMA TypedNow ==
  ASSUME Typed
  PROVE  /\ now \in 0..MaxNow
         /\ binding \in Binding
         /\ policy \in CardPolicy
         /\ period \in CardPeriod
         /\ reservation \in [AuthId -> Reservation \cup {NoAccount}]
         /\ intent \in [IntentId -> CheckoutIntent \cup {NoAccount}]
         /\ guard \in AuthGuard \cup {NoAccount}
         /\ permission \in [Private -> Seq(Key) \cup {NoAccount}]
         /\ commitment \in Checkpoints
         /\ actions \subseteq Checkpoints
         /\ paid \in [Digest -> Nat]
BY DEF Typed, TypeOK, CardAccountsType, Binding

LEMMA TypedNext ==
  ASSUME Typed, TypedAfter, scene' = scene
  PROVE  Typed'
<1>1. /\ MaxNow' = MaxNow /\ MaxEpoch' = MaxEpoch /\ MaxCommitSeq' = MaxCommitSeq
      /\ scene' \in Scene
  BY DEF Typed, MaxNow, MaxEpoch, MaxCommitSeq
<1>2. CardPolicy' = CardPolicy /\ Checkpoints' = Checkpoints /\ Binding' = Binding
  BY <1>1 DEF CardPolicy, Checkpoints, Binding
<1>3. QED
  BY <1>1, <1>2 DEF Typed, TypeOK, CardAccountsType, TypedAfter, Binding

LEMMA SceneBounds ==
  ASSUME scene \in Scene
  PROVE  MaxNow \in Nat /\ MaxEpoch \in Nat /\ MaxCommitSeq \in Nat
BY CardAssumption DEF SceneType, MaxNow, MaxEpoch, MaxCommitSeq

\* What the callers of the scene may ask for.
LEMMA SceneFacts ==
  ASSUME Typed
  PROVE  /\ scene.auths \subseteq AuthId /\ scene.captures \subseteq CaptureId
         /\ scene.events \subseteq EventId /\ scene.digests \subseteq Digest
         /\ scene.keys \subseteq Key /\ scene.readers \subseteq Key
         /\ PolicyArgs \subseteq Terms /\ Cents \subseteq U64 /\ Refunds \subseteq U64
         /\ Units \subseteq Nat /\ Dispute \subseteq BOOLEAN
         /\ Channel \subseteq [recurring : BOOLEAN, single : BOOLEAN]
         /\ IntentArgs \subseteq [merchant : Merchant, mcc : Mcc \cup {AnyMcc},
                                  max_amount_cents : U64]
         /\ MaxNow \in Nat /\ MaxEpoch \in Nat /\ MaxCommitSeq \in Nat
<1>1. scene \in SceneType
  BY CardAssumption DEF Typed
<1>2. QED
  BY <1>1 DEF SceneType, PolicyArgs, Cents, Refunds, Units, Dispute, Channel, IntentArgs,
              MaxNow, MaxEpoch, MaxCommitSeq

\* The clock stays within the scene's horizon.
LEMMA TimeNow ==
  ASSUME Typed
  PROVE  now \in Nat /\ now \in 0..MaxNow /\ MaxNow \in Nat
<1>1. now \in 0..MaxNow /\ MaxNow \in Nat
  BY SceneBounds, Zenon DEF Typed, TypeOK, CardAccountsType
<1>2. QED
  BY <1>1

\* Reading lists are sequences of keys, and permissions are lists or nothing.
LEMMA PermissionEdits ==
  ASSUME Typed, NEW accounts, NEW members \in Seq(Key)
  PROVE  /\ Granted(accounts, members) \in [Private -> Seq(Key) \cup {NoAccount}]
         /\ Ungranted(accounts) \in [Private -> Seq(Key) \cup {NoAccount}]
BY TypedNow DEF Granted, Ungranted

LEMMA PolicyTerms ==
  ASSUME NEW p \in CardPolicy
  PROVE  /\ p.terms \in Terms /\ p.terms.budget_cents \in U64
         /\ p.terms.period_seconds \in U32 /\ p.members \in Seq(Key)
BY DEF CardPolicy, Terms

LEMMA IntentTypes ==
  ASSUME Typed, NEW i \in IntentId
  PROVE  /\ \A args \in IntentArgs, ttl \in 1..MAX_INTENT_TTL_SECONDS :
                open_checkout_intent(i, args, now + ttl) => TypedAfter /\ intent'[i] # NoAccount
         /\ \A who : cancel_checkout_intent(i, who) => TypedAfter /\ IntentsKept
         /\ \A who : close_checkout_intent(i, who) => TypedAfter
<1>1. ASSUME NEW args \in IntentArgs, NEW ttl \in 1..MAX_INTENT_TTL_SECONDS,
             open_checkout_intent(i, args, now + ttl)
      PROVE  TypedAfter /\ intent'[i] # NoAccount
  <2> DEFINE new == [merchant |-> args.merchant, mcc |-> args.mcc,
                     max_amount_cents |-> args.max_amount_cents,
                     policy_version |-> policy.policy_version, expires_at |-> now + ttl,
                     state |-> "open"]
  <2>1. new \in CheckoutIntent
    <3>1. now + ttl \in Nat
      BY TypedNow, SceneFacts, Widths
    <3>2. args \in [merchant : Merchant, mcc : Mcc \cup {AnyMcc}, max_amount_cents : U64]
      BY SceneFacts
    <3>3. policy.policy_version \in U32
      BY TypedNow DEF CardPolicy
    <3>4. QED
      BY <3>1, <3>2, <3>3 DEF CheckoutIntent
  <2> HIDE DEF new
  <2>2. intent' = [intent EXCEPT ![i] = new]
    BY <1>1 DEF open_checkout_intent, new
  <2>3. policy' \in CardPolicy
    BY TypedNow, <1>1, PolicyEphemerals DEF open_checkout_intent, CountFits
  <2>4. permission' \in [Private -> Seq(Key) \cup {NoAccount}]
    BY TypedNow, <1>1, PermissionEdits, PolicyTerms DEF open_checkout_intent
  <2>5. QED
    BY TypedNow, <1>1, <2>1, <2>2, <2>3, <2>4, NoAccountIsNone, ZenonT(40) DEF open_checkout_intent, TypedAfter, baseVars
<1>2. ASSUME NEW who, cancel_checkout_intent(i, who) PROVE TypedAfter /\ IntentsKept
  <2>1. intent[i] \in CheckoutIntent
    BY TypedNow, <1>2 DEF cancel_checkout_intent
  <2>2. intent' = [intent EXCEPT ![i] = [intent[i] EXCEPT !.state = "cancelled"]]
    BY <1>2 DEF cancel_checkout_intent
  <2>3. [intent[i] EXCEPT !.state = "cancelled"] \in CheckoutIntent
    BY <2>1 DEF CheckoutIntent
  <2>4. IntentsKept
    BY TypedNow, <1>2, <2>2, <2>3, NoAccountIsNone, Zenon DEF cancel_checkout_intent, IntentsKept
  <2>5. QED
    BY TypedNow, <1>2, <2>2, <2>3, <2>4 DEF cancel_checkout_intent, TypedAfter, baseVars
<1>3. ASSUME NEW who, close_checkout_intent(i, who) PROVE TypedAfter
  <2>1. policy' \in CardPolicy
    BY TypedNow, <1>3, PolicyEphemerals DEF close_checkout_intent
  <2>2. permission' \in [Private -> Seq(Key) \cup {NoAccount}]
    BY TypedNow, <1>3, PermissionEdits, PolicyTerms, Zenon DEF close_checkout_intent
  <2>3. QED
    BY TypedNow, <1>3, <2>1, <2>2, Zenon DEF close_checkout_intent, TypedAfter, baseVars
<1>4. QED
  BY <1>1, <1>2, <1>3

\* A purchase is only authorized within what is available, so the period's
\* counters stay within the budget, which is a u64.
LEMMA AvailableType ==
  ASSUME Typed
  PROVE  \A n \in Int : n > 0 /\ n <= available =>
             period.captured_cents + period.reserved_cents + n <= MaxU64
<1>1. /\ policy.terms.budget_cents \in 0..MaxU64
      /\ period.captured_cents \in 0..MaxU64 /\ period.reserved_cents \in 0..MaxU64
  BY TypedNow, PolicyTerms DEF CardPeriod, U64
<1>2. QED
  BY <1>1, Widths DEF available, Saturating

LEMMA AuthorizeTypes ==
  ASSUME Typed, NEW a \in AuthId, NEW i \in IntentId, NEW n \in U64, NEW merchant, NEW mcc,
         NEW recurring \in BOOLEAN, NEW single \in BOOLEAN,
         authorize(a, i, n, merchant, mcc, recurring, single)
  PROVE  TypedAfter /\ reservation'[a] # NoAccount /\ IntentsKept
<1>1. intent[i] \in CheckoutIntent
  BY TypedNow DEF authorize, validate_authorize
<1>2. NewReservation(i, n, recurring, single) \in Reservation
  <2> DEFINE flags == {f \in {"single_message"} : single} \cup {f \in {"recurring"} : recurring}
             held == IF single THEN 0 ELSE n
             spent == IF single THEN n ELSE 0
             state == IF single THEN "captured" ELSE "reserved"
  <2>1. held \in U64 /\ spent \in U64 /\ 0 \in U64 /\ now + HOLD_TTL_SECONDS \in Nat
    BY TypedNow, TimeNow, Widths DEF U64
  <2>2. flags \in SUBSET Flags /\ state \in ReservationStates /\ {} \in SUBSET CaptureId
    BY DEF Flags, ReservationStates, OpenStates
  <2>3. intent[i].max_amount_cents \in U64
    BY <1>1 DEF CheckoutIntent
  <2> HIDE DEF flags, held, spent, state
  <2>4. NewReservation(i, n, recurring, single) =
            [amount_reserved_cents |-> held, captured_cents |-> spent, refunded_cents |-> 0,
             state |-> state, disputed |-> FALSE, flags |-> flags,
             hold_expires_at |-> now + HOLD_TTL_SECONDS, capture_ids |-> {},
             max_amount_cents |-> intent[i].max_amount_cents]
    BY DEF NewReservation, flags, held, spent, state
  <2>5. QED
    BY <2>1, <2>2, <2>3, <2>4 DEF Reservation
<1>3. Bought(period, n, single) \in CardPeriod
  <2>1. /\ period.captured_cents + period.reserved_cents + n <= MaxU64
        /\ period.purchases_count < MaxU16
    BY AvailableType, Widths DEF authorize, validate_authorize, U64
  <2>2. period.captured_cents + n \in U64 /\ period.reserved_cents + n \in U64
    BY TypedNow, <2>1, SumsFit DEF CardPeriod
  <2>3. period.purchases_count + 1 \in U16
    BY TypedNow, <2>1, Widths DEF CardPeriod, U16
  <2>4. QED
    BY TypedNow, <2>2, <2>3, Zenon DEF Bought, CardPeriod
<1>4. policy' \in CardPolicy
  <2> DEFINE p == IF single THEN add_exposure(policy, n) ELSE policy
  <2>1. p \in CardPolicy /\ SameCount(policy, p)
    BY TypedNow, PolicyMoney DEF authorize, ExposureFits, SameCount
  <2>2. policy' = EphemeralCreated(p) /\ policy.ephemeral_count < MaxU16
    BY DEF authorize, CountFits
  <2> HIDE DEF p
  <2>3. QED
    BY <2>1, <2>2, PolicyEphemerals DEF SameCount
<1>5. intent' \in [IntentId -> CheckoutIntent \cup {NoAccount}] /\ IntentsKept
  <2>1. intent' = [intent EXCEPT ![i] = [intent[i] EXCEPT !.state = "consumed"]]
    BY DEF authorize
  <2>2. [intent[i] EXCEPT !.state = "consumed"] \in CheckoutIntent
    BY <1>1 DEF CheckoutIntent
  <2>3. QED
    BY TypedNow, <1>1, <2>1, <2>2, NoAccountIsNone, ZenonT(40) DEF IntentsKept
<1>6. permission' \in [Private -> Seq(Key) \cup {NoAccount}]
  BY TypedNow, PermissionEdits, PolicyTerms DEF authorize
<1>7. reservation' \in [AuthId -> Reservation \cup {NoAccount}] /\ reservation'[a] # NoAccount
  BY TypedNow, <1>2, NoAccountIsNone, ZenonT(40) DEF authorize
<1>8. QED
  BY TypedNow, <1>3, <1>4, <1>5, <1>6, <1>7, Zenon DEF authorize, TypedAfter, baseVars

\* Capturing adds to the period what require_billable keeps within the budget.
LEMMA CaptureTypes ==
  ASSUME Typed, NEW a \in AuthId, NEW n \in U64, NEW id \in CaptureId, capture(a, n, id)
  PROVE  TypedAfter /\ HoldsKept
<1> DEFINE r == reservation[a]
           pd == Released(period, FromHold(r, n))
<1>1. r \in Reservation
  BY TypedNow, Zenon DEF capture
<1>2. pd \in CardPeriod /\ pd.captured_cents = period.captured_cents
  BY TypedNow, PeriodEdits
<1>3. pd.captured_cents + pd.reserved_cents + n <= policy.terms.budget_cents
  BY ZenonT(40) DEF capture, require_billable
<1>4. period.captured_cents + n \in U64
  <2>1. pd.captured_cents \in 0..MaxU64 /\ pd.reserved_cents \in 0..MaxU64
    BY <1>2 DEF CardPeriod, U64
  <2>2. policy.terms.budget_cents \in 0..MaxU64 /\ n \in 0..MaxU64
    BY TypedNow, PolicyTerms DEF U64
  <2> HIDE DEF pd
  <2>3. QED
    BY <1>2, <1>3, <2>1, <2>2, Widths DEF U64
<1>5. FromHold(r, n) \in Nat /\ FromHold(r, n) <= n
  <2>1. r.amount_reserved_cents \in 0..MaxU64 /\ n \in 0..MaxU64
    BY <1>1, Zenon DEF Reservation, U64
  <2> HIDE DEF r
  <2>2. QED
    BY <2>1, Widths DEF FromHold, Lesser
<1>6. Excess(r, n) => period.exception_cents + (n - FromHold(r, n)) \in U64
  BY TypedNow, <1>5, Widths DEF capture, Fits, CardPeriod, U64
<1>7. period' \in CardPeriod
  <2> DEFINE e == IF Excess(r, n) THEN period.exception_cents + (n - FromHold(r, n))
                  ELSE period.exception_cents
  <2>1. e \in U64
    BY TypedNow, <1>6 DEF CardPeriod
  <2>2. period' = [pd EXCEPT !.captured_cents = period.captured_cents + n, !.exception_cents = e]
    BY DEF capture, PeriodCaptured
  <2> HIDE DEF e, pd
  <2>3. QED
    BY <1>2, <1>4, <2>1, <2>2, Zenon DEF CardPeriod
<1>8. reservation' \in [AuthId -> Reservation \cup {NoAccount}] /\ HoldsKept
  <2>1. Captured(r, n, id) \in Reservation
    BY <1>1, HoldEdits, Zenon DEF capture, Fits
  <2>2. reservation' = [reservation EXCEPT ![a] = Captured(r, n, id)]
    BY DEF capture
  <2>3. QED
    BY TypedNow, <1>1, <2>1, <2>2, NoAccountIsNone DEF HoldsKept
<1>9. policy' \in CardPolicy
  <2> DEFINE p == IF Excess(r, n) THEN ExceptionOpened(policy) ELSE policy
  <2>1. p \in CardPolicy /\ SameDebt(policy, p)
    <3>1. Excess(r, n) => policy.exceptions_open < MaxU16
      BY DEF capture
    <3>2. QED
      BY TypedNow, <3>1, PolicyExceptions, ZenonT(40) DEF SameDebt
  <2>2. policy' = add_exposure(p, n) /\ ExposureFits(n)
    BY DEF capture
  <2> HIDE DEF p
  <2>3. QED
    BY <2>1, <2>2, PolicyMoney DEF ExposureFits, SameDebt
<1>10. QED
  BY TypedNow, <1>7, <1>8, <1>9 DEF capture, TypedAfter, baseVars

\* Adjusting and reversing a hold, rolling the period and closing a hold.
LEMMA HoldTypes ==
  ASSUME Typed, NEW a \in AuthId
  PROVE  /\ \A n \in U64 : adjust_reservation(a, n) => TypedAfter /\ HoldsKept
         /\ \A n \in U64, id \in EventId, reason \in {"reversed", "expired"} :
                reverse(a, n, reason, id) => TypedAfter /\ HoldsKept
         /\ \A who : close_reservation(a, who) => TypedAfter /\ guard' # NoAccount
<1> DEFINE r == reservation[a]
           hold == r.amount_reserved_cents
<1>1. ASSUME NEW n \in U64, adjust_reservation(a, n) PROVE TypedAfter /\ HoldsKept
  <2>1. r \in Reservation /\ hold \in U64
    BY TypedNow, <1>1 DEF adjust_reservation, Reservation
  <2>2. HoldSet(r, n, "reversed") \in Reservation
    BY <2>1, HoldEdits, Zenon DEF ReservationStates
  <2>3. period' \in CardPeriod
    <3>1. CASE n > hold
      <4>1. n - hold > 0 /\ n - hold <= available /\ n - hold \in U64
        BY <1>1, <2>1, <3>1, Widths DEF adjust_reservation, IncreaseAllowed, U64
      <4>2. period.captured_cents + period.reserved_cents + (n - hold) <= MaxU64
        BY <4>1, AvailableType, Widths DEF U64
      <4>3. period.reserved_cents + (n - hold) \in U64
        BY TypedNow, <4>1, <4>2, SumsFit DEF CardPeriod
      <4>4. period' = [period EXCEPT !.reserved_cents = period.reserved_cents + (n - hold)]
        BY <1>1, <3>1 DEF adjust_reservation
      <4>5. QED
        BY TypedNow, <4>3, <4>4 DEF CardPeriod
    <3>2. CASE ~(n > hold)
      BY TypedNow, <1>1, <3>2, PeriodEdits DEF adjust_reservation
    <3>3. QED
      BY <3>1, <3>2
  <2>4. reservation' = [reservation EXCEPT ![a] = HoldSet(r, n, "reversed")]
    BY <1>1 DEF adjust_reservation
  <2>5. HoldsKept
    BY <2>1, <2>2, <2>4, NoAccountIsNone DEF HoldsKept
  <2>6. QED
    BY TypedNow, <1>1, <2>2, <2>3, <2>5 DEF adjust_reservation, TypedAfter, baseVars
<1>2. ASSUME NEW n \in U64, NEW id \in EventId, NEW reason \in {"reversed", "expired"},
             reverse(a, n, reason, id)
      PROVE  TypedAfter /\ HoldsKept
  <2> DEFINE released == Lesser(n, hold)
  <2>1. r \in Reservation /\ hold \in U64
    BY TypedNow, <1>2, Zenon DEF reverse, Reservation
  <2>2. hold - released \in U64
    BY <2>1, Widths DEF Lesser, U64
  <2>3. HoldSet(r, hold - released, reason) \in Reservation
    BY <2>1, <2>2, HoldEdits, Zenon DEF ReservationStates
  <2>4. period' \in CardPeriod
    BY TypedNow, <1>2, PeriodEdits DEF reverse
  <2>5. policy' \in CardPolicy
    BY TypedNow, <1>2, PolicyEvents DEF reverse
  <2>6. reservation' = [reservation EXCEPT ![a] = HoldSet(r, hold - released, reason)]
    BY <1>2 DEF reverse
  <2> HIDE DEF released, hold
  <2>7. HoldsKept
    BY <2>1, <2>3, <2>6, NoAccountIsNone DEF HoldsKept
  <2>8. QED
    BY TypedNow, <1>2, <2>3, <2>4, <2>5, <2>6, <2>7 DEF reverse, TypedAfter, baseVars
<1>3. ASSUME NEW who, close_reservation(a, who) PROVE TypedAfter /\ guard' # NoAccount
  <2>1. guard' \in AuthGuard
    <3>1. (IF guard = NoAccount THEN EmptyRing(GUARD_RING) ELSE guard) \in AuthGuard
      BY TypedNow, EmptyRingType, Rings DEF AuthGuard
    <3>2. GuardAfter(a) \in AuthGuard
      BY <3>1, PushType, Rings DEF GuardAfter, AuthGuard
    <3>3. QED
      BY <1>3, <3>2 DEF close_reservation
  <2>2. policy' \in CardPolicy
    BY TypedNow, <1>3, PolicyEphemerals, Zenon DEF close_reservation
  <2>3. permission' \in [Private -> Seq(Key) \cup {NoAccount}]
    <3>1. policy.members \in Seq(Key)
      BY TypedNow, PolicyTerms
    <3>2. Ungranted({a}) \in [Private -> Seq(Key) \cup {NoAccount}]
      BY <3>1, PermissionEdits, Zenon
    <3>3. QED
      BY <1>3, <3>1, <3>2, Zenon DEF close_reservation
  <2>4. QED
    BY TypedNow, <1>3, <2>1, <2>2, <2>3, NoAccountIsNone, ZenonT(40) DEF close_reservation, TypedAfter, baseVars
<1>4. QED
  BY <1>1, <1>2, <1>3

LEMMA RollTypes ==
  ASSUME Typed, NEW listed, roll_period(listed)
  PROVE  TypedAfter /\ HoldsKept
<1>1. period' \in CardPeriod
  <2> DEFINE held == HeldBy({a \in listed : Overdue(a)})
  <2>1. Saturating(period.reserved_cents, held) \in U64
    BY TypedNow, SaturatingType, Widths DEF CardPeriod, U64
  <2>2. period.period_index + 1 \in U32
    <3>1. period.period_index < MaxU32
      BY DEF roll_period
    <3>2. period.period_index \in 0..MaxU32
      BY TypedNow, ZenonT(40) DEF CardPeriod, U32
    <3>3. QED
      BY <3>1, <3>2, Widths DEF U32
  <2>3. now + policy.terms.period_seconds \in Nat
    <3>1. policy.terms.period_seconds \in 0..MaxU32
      BY TypedNow, PolicyTerms, Zenon DEF U32
    <3>2. QED
      BY <3>1, TimeNow, Widths
  <2>4. period' = NextPeriod(period, held)
    BY DEF roll_period
  <2> HIDE DEF held
  <2>5. QED
    BY TypedNow, <2>1, <2>2, <2>3, <2>4, ZeroFits, Zenon DEF NextPeriod, CardPeriod
<1>2. reservation' \in [AuthId -> Reservation \cup {NoAccount}] /\ HoldsKept
  <2>1. ASSUME NEW a \in AuthId, a \in listed
        PROVE  reservation[a] # NoAccount /\ Expired(reservation[a]) \in Reservation
    <3>1. reservation[a] \in Reservation
      BY TypedNow, <2>1 DEF roll_period, Live
    <3>2. QED
      BY <3>1, ZeroFits, HoldEdits, NoAccountIsNone, Zenon
  <2>2. reservation' = [a \in AuthId |-> IF a \in {x \in listed : Overdue(x)}
                                         THEN Expired(reservation[a]) ELSE reservation[a]]
    BY DEF roll_period
  <2>3. QED
    BY TypedNow, <2>1, <2>2, NoAccountIsNone DEF HoldsKept
<1>3. QED
  BY TypedNow, <1>1, <1>2 DEF roll_period, TypedAfter, baseVars

LEMMA RefundTypes ==
  ASSUME Typed, NEW a \in AuthId \cup {NoAuth}, NEW n \in U64, NEW id \in EventId,
         refund(a, n, id)
  PROVE  TypedAfter /\ HoldsKept
<1>1. period' \in CardPeriod
  BY TypedNow, PeriodEdits DEF refund, Fits
<1>2. policy' \in CardPolicy
  BY TypedNow, PolicyEvents, PolicyMoney DEF refund
<1>3. reservation' \in [AuthId -> Reservation \cup {NoAccount}] /\ HoldsKept
  <2>1. ASSUME NEW x \in AuthId, x = a
        PROVE  reservation[x] # NoAccount /\ Refunded(reservation[x], n) \in Reservation
    <3>1. reservation[x] \in Reservation
      BY TypedNow, <2>1, CardAssumption DEF refund, PassedHold
    <3>2. reservation[x].refunded_cents + n <= reservation[x].captured_cents
      BY <2>1, CardAssumption DEF refund, require_refundable
    <3>3. reservation[x].refunded_cents + n <= MaxU64
      BY <3>1, <3>2, Widths DEF Reservation, U64
    <3>4. QED
      BY <3>1, <3>3, HoldEdits, NoAccountIsNone, Zenon
  <2>2. reservation' = [x \in AuthId |-> IF x = a THEN Refunded(reservation[x], n)
                                         ELSE reservation[x]]
    BY DEF refund, OnPassed
  <2>3. QED
    BY TypedNow, <2>1, <2>2, NoAccountIsNone DEF HoldsKept
<1>4. QED
  BY TypedNow, <1>1, <1>2, <1>3 DEF refund, TypedAfter, baseVars

LEMMA DisputeTypes ==
  ASSUME Typed, NEW a \in AuthId, NEW opened \in BOOLEAN, NEW id \in EventId,
         record_dispute(a, opened, id)
  PROVE  TypedAfter /\ HoldsKept
<1>1. [reservation[a] EXCEPT !.disputed = opened] \in Reservation
  <2>1. reservation[a] \in Reservation
    BY TypedNow DEF record_dispute
  <2>2. QED
    BY <2>1, ZeroFits, HoldEdits, Zenon
<1>2. policy' \in CardPolicy
  BY TypedNow, PolicyEvents DEF record_dispute
<1>3. reservation' = [reservation EXCEPT ![a] = [reservation[a] EXCEPT !.disputed = opened]]
      /\ reservation[a] # NoAccount
  BY DEF record_dispute
<1>4. HoldsKept
  BY <1>1, <1>3, NoAccountIsNone DEF HoldsKept
<1>5. QED
  BY TypedNow, <1>1, <1>2, <1>4 DEF record_dispute, TypedAfter, baseVars

\* Each arm of record_exception; the debits are capped like a capture is.
LEMMA ExceptionTypes ==
  ASSUME Typed, NEW a \in AuthId \cup {NoAuth}, NEW n \in U64, NEW id \in EventId, NEW kind,
         record_exception(a, n, id, kind)
  PROVE  TypedAfter /\ HoldsKept
<1> DEFINE p == Remembered(policy, id)
<1>1. /\ p \in CardPolicy /\ SameDebt(policy, p)
      /\ p.exceptions_open = policy.exceptions_open
  BY TypedNow, PolicyEvents
<1>2. kind # "late_capture" => policy.exceptions_open < MaxU16
  BY DEF record_exception
<1>3. ASSUME NEW x \in AuthId, x = a PROVE reservation[x] \in Reservation
  BY TypedNow, <1>3, CardAssumption, ZenonT(40) DEF record_exception, PassedHold
<1>4. ASSUME ExposureFits(n)
      PROVE  /\ add_exposure(p, n) \in CardPolicy
             /\ add_exposure(p, n).exceptions_open = policy.exceptions_open
  <2>1. add_exposure(p, n) \in CardPolicy
    BY <1>1, <1>4, PolicyMoney, Zenon DEF ExposureFits, SameDebt
  <2>2. add_exposure(p, n).exceptions_open = p.exceptions_open
    BY <1>1 DEF add_exposure, CardPolicy
  <2>3. QED
    BY <1>1, <2>1, <2>2
<1>5. ASSUME require_billable(period, n) PROVE period.captured_cents + n \in U64
  <2>1. period.captured_cents \in 0..MaxU64 /\ period.reserved_cents \in 0..MaxU64
    BY TypedNow DEF CardPeriod, U64
  <2>2. policy.terms.budget_cents \in 0..MaxU64 /\ n \in 0..MaxU64
    BY TypedNow, PolicyTerms, ZenonT(40) DEF U64
  <2>3. period.captured_cents + period.reserved_cents + n <= policy.terms.budget_cents
    BY <1>5, Zenon DEF require_billable
  <2>4. QED
    BY <2>1, <2>2, <2>3, Widths DEF U64
<1>6. ASSUME NEW x \in U64, Fits(x, n) PROVE x + n \in U64
  BY <1>6, Widths DEF Fits, U64
<1>7. CASE LateCapture(a, n, id)
  <2>1. period' \in CardPeriod
    BY TypedNow, <1>5, <1>7, ZenonT(40) DEF LateCapture, CardPeriod
  <2>2. policy' \in CardPolicy
    BY <1>4, <1>7 DEF LateCapture
  <2>3. QED
    BY TypedNow, <1>7, <2>1, <2>2 DEF LateCapture, record_exception, TypedAfter, HoldsKept, baseVars
<1>8. CASE kind = "over_hold" /\ OverHold(a, n, id)
  <2>1. period.reserved_cents + n \in U64 /\ period.exception_cents + n \in U64
    BY TypedNow, <1>6, <1>8 DEF OverHold, CardPeriod
  <2>2. period' \in CardPeriod
    BY TypedNow, <1>8, <2>1, Zenon DEF OverHold, CardPeriod
  <2>3. policy' \in CardPolicy
    BY <1>1, <1>2, <1>8, PolicyExceptions DEF OverHold
  <2>4. ASSUME NEW x \in AuthId, x = a
        PROVE  [reservation[x] EXCEPT !.amount_reserved_cents =
                   reservation[x].amount_reserved_cents + n] \in Reservation
    BY <1>3, <1>8, <2>4, HoldEdits DEF OverHold, Fits
  <2>5. reservation' = [x \in AuthId |->
            IF x = a THEN [reservation[x] EXCEPT !.amount_reserved_cents =
                              reservation[x].amount_reserved_cents + n]
            ELSE reservation[x]]
    BY <1>8 DEF OverHold, OnPassed
  <2>6. reservation' \in [AuthId -> Reservation \cup {NoAccount}] /\ HoldsKept
    BY TypedNow, <1>3, <2>4, <2>5, NoAccountIsNone DEF HoldsKept
  <2>7. QED
    BY TypedNow, <2>2, <2>3, <2>6 DEF record_exception, TypedAfter, baseVars
<1>9. CASE kind = "correction_credit" /\ CorrectionCredit(a, n, id)
  <2>1. period' \in CardPeriod
    BY TypedNow, <1>9, PeriodEdits, Zenon DEF CorrectionCredit, Fits
  <2>2. policy' \in CardPolicy
    <3>1. /\ reduce_exposure(p, n) \in CardPolicy
          /\ reduce_exposure(p, n).exceptions_open = policy.exceptions_open
      BY <1>1, PolicyMoney, Zenon DEF reduce_exposure, CardPolicy
    <3>2. QED
      BY <1>2, <1>9, <3>1, PolicyExceptions DEF CorrectionCredit
  <2>3. ASSUME NEW x \in AuthId, x = a PROVE Refunded(reservation[x], n) \in Reservation
    BY <1>3, <1>9, <2>3, HoldEdits, CardAssumption, Zenon DEF CorrectionCredit, Fits
  <2>4. reservation' = [x \in AuthId |-> IF x = a THEN Refunded(reservation[x], n)
                                         ELSE reservation[x]]
    BY <1>9, Zenon DEF CorrectionCredit, OnPassed
  <2>5. reservation' \in [AuthId -> Reservation \cup {NoAccount}] /\ HoldsKept
    BY TypedNow, <1>3, <2>3, <2>4, NoAccountIsNone DEF HoldsKept
  <2>6. QED
    BY TypedNow, <2>1, <2>2, <2>5 DEF record_exception, TypedAfter, baseVars
<1>10. CASE Debit(a, n, id, kind)
  <2>1. period.captured_cents + n \in U64 /\ period.exception_cents + n \in U64
    BY TypedNow, <1>5, <1>6, <1>10 DEF Debit, CardPeriod
  <2>2. period' \in CardPeriod
    BY TypedNow, <1>10, <2>1, Zenon DEF Debit, CardPeriod
  <2>3. policy' \in CardPolicy
    BY <1>2, <1>4, <1>10, PolicyExceptions DEF Debit, Debits
  <2>4. ASSUME NEW x \in AuthId, x = a PROVE Debited(reservation[x], n, kind) \in Reservation
    BY <1>3, <1>10, <2>4, HoldEdits, CardAssumption, Zenon DEF Debit, Fits
  <2>5. reservation' = [x \in AuthId |-> IF x = a THEN Debited(reservation[x], n, kind)
                                         ELSE reservation[x]]
    BY <1>10 DEF Debit, OnPassed
  <2>6. reservation' \in [AuthId -> Reservation \cup {NoAccount}] /\ HoldsKept
    BY TypedNow, <1>3, <2>4, <2>5, NoAccountIsNone DEF HoldsKept
  <2>7. QED
    BY TypedNow, <2>2, <2>3, <2>6 DEF record_exception, TypedAfter, baseVars
<1>11. QED
  BY <1>7, <1>8, <1>9, <1>10 DEF record_exception

\* Resolving an exception, and repaying on either layer.
LEMMA RepaymentTypes ==
  ASSUME Typed
  PROVE  /\ \A id \in EventId : resolve_exception(id) => TypedAfter
         /\ \A d \in Digest, units \in Nat : repay_statement(d, units) => TypedAfter
         /\ \A d \in Digest, n \in U64 :
                record_repayment(d, n) \/ record_private_repayment(d, n) => TypedAfter
<1>1. ASSUME NEW id \in EventId, resolve_exception(id) PROVE TypedAfter
  <2> DEFINE p == Remembered(policy, ResolveKey(id))
  <2>1. ResolveKey(id) \in EventId \cup ResolveIds
    BY DEF ResolveIds
  <2>2. p \in CardPolicy
    BY TypedNow, <2>1, PolicyEvents
  <2>3. policy.exceptions_open - 1 \in U16
    <3>1. policy.exceptions_open \in 0..MaxU16
      BY TypedNow DEF CardPolicy, U16
    <3>2. policy.exceptions_open > 0
      BY <1>1 DEF resolve_exception
    <3>3. QED
      BY <3>1, <3>2, Widths DEF U16
  <2>4. policy' = [p EXCEPT !.exceptions_open = policy.exceptions_open - 1]
    BY <1>1 DEF resolve_exception
  <2> HIDE DEF p
  <2>5. policy' \in CardPolicy
    BY <2>2, <2>3, <2>4, ZenonT(40) DEF CardPolicy
  <2>6. QED
    BY TypedNow, <1>1, <2>5 DEF resolve_exception, TypedAfter, baseVars
<1>2. ASSUME NEW d \in Digest, NEW units \in Nat, repay_statement(d, units) PROVE TypedAfter
  BY TypedNow, <1>2 DEF repay_statement, TypedAfter
<1>3. ASSUME NEW d \in Digest, NEW n \in U64, NEW method, apply_repayment(d, n, method)
      PROVE  TypedAfter
  <2>1. policy.statement_outstanding_cents - n \in U64
    <3>1. policy.statement_outstanding_cents \in 0..MaxU64 /\ n \in 0..MaxU64
      BY TypedNow DEF CardPolicy, U64
    <3>2. n <= policy.statement_outstanding_cents
      BY <1>3 DEF apply_repayment
    <3>3. QED
      BY <3>1, <3>2, Widths DEF U64
  <2>2. Push(policy.repayment_digests, d, REPAYMENT_RING) \in Ring(REPAYMENT_RING, Digest)
    BY TypedNow, PushType, Rings DEF CardPolicy
  <2>3. policy' \in CardPolicy
    BY TypedNow, <1>3, <2>1, <2>2, Zenon DEF apply_repayment, Repaid, CardPolicy
  <2>4. QED
    BY TypedNow, <1>3, <2>3 DEF apply_repayment, TypedAfter, baseVars
<1>4. QED
  BY <1>1, <1>2, <1>3 DEF record_repayment, record_private_repayment

-----------------------------------------------------------------------------
(* The owner's terms, readers, freezes, recovery, checkpoints and the wipe.  *)

LEMMA SetPolicyTypes ==
  ASSUME Typed, NEW args \in Terms, NEW by, set_policy(args, by)
  PROVE  TypedAfter
<1>1. args.authorizer \in Key /\ args.period_seconds \in U32
  BY DEF set_policy, validate_policy_args, Terms
<1>2. Rotated(policy.members, args.authorizer) \in Seq(Key)
  <2>1. policy.members \in Seq(Key) /\ 2 \in 1..Len(policy.members)
    BY TypedNow, PolicyTerms DEF set_policy
  <2>2. QED
    BY <1>1, <2>1, ExceptSeq DEF Rotated
<1>3. policy' \in CardPolicy
  <2>1. policy.policy_version + 1 \in U32
    <3>1. policy.policy_version \in 0..MaxU32
      BY TypedNow DEF CardPolicy, U32
    <3>2. policy.policy_version < MaxU32
      BY DEF set_policy
    <3>3. QED
      BY <3>1, <3>2, Widths DEF U32
  <2>2. QED
    BY TypedNow, <1>2, <2>1, Zenon DEF set_policy, CardPolicy
<1>4. period' \in CardPeriod
  <2>1. now + args.period_seconds \in Nat /\ 1 \in U32
    BY TimeNow, <1>1, Widths DEF U32
  <2>2. QED
    BY TypedNow, <2>1, Zenon DEF set_policy, FirstPeriod, CardPeriod
<1>5. permission' \in [Private -> Seq(Key) \cup {NoAccount}]
  BY TypedNow, <1>2, PermissionEdits DEF set_policy, sync_card_permissions
<1>6. QED
  BY TypedNow, <1>3, <1>4, <1>5 DEF set_policy, TypedAfter, baseVars

LEMMA ZeroedTypes ==
  ASSUME scene \in Scene
  PROVE  zeroed_policy \in CardPolicy /\ zeroed_period \in CardPeriod
<1>1. ZeroTerms \in Terms
  BY ZeroFits DEF ZeroTerms, Terms
<1>2. /\ EmptyRing(REPAYMENT_RING) \in Ring(REPAYMENT_RING, Digest)
      /\ EmptyRing(EVENT_RING) \in Ring(EVENT_RING, EventId \cup ResolveIds)
  BY EmptyRingType, Rings
<1>3. <<>> \in Seq(Key) /\ 0 \in 0..MaxCommitSeq
  <2>1. MaxCommitSeq \in Nat
    BY SceneBounds, Zenon
  <2>2. QED
    BY <2>1
<1>4. zeroed_policy \in CardPolicy
  BY <1>1, <1>2, <1>3, ZeroFits DEF zeroed_policy, CardPolicy, FreezeReasons, RecoveryStates
<1>5. zeroed_period \in CardPeriod
  BY ZeroFits DEF zeroed_period, CardPeriod
<1>6. QED
  BY <1>4, <1>5, ZenonT(40)

LEMMA ReaderTypes ==
  ASSUME Typed, NEW key \in Key
  PROVE  /\ init_permission(key) => TypedAfter
         /\ \A listed : AddReader(key, listed) \/ RemoveReader(key, listed) => TypedAfter
<1>1. ASSUME NEW members \in Seq(Key) PROVE [policy EXCEPT !.members = members] \in CardPolicy
  BY TypedNow, Zenon DEF CardPolicy
<1>2. ASSUME init_permission(key) PROVE TypedAfter
  <2> DEFINE members == IF policy.members = <<>> THEN <<Owner, key>> ELSE policy.members
  <2>1. members \in Seq(Key)
    BY TypedNow, PolicyTerms, CardAssumption
  <2>2. policy' = [policy EXCEPT !.members = members] /\ permission' = Created(members)
    BY <1>2 DEF init_permission
  <2> HIDE DEF members
  <2>3. permission' \in [Private -> Seq(Key) \cup {NoAccount}]
    BY <2>1, <2>2, PermissionEdits DEF Created
  <2>4. QED
    BY TypedNow, <1>1, <1>2, <2>1, <2>2, <2>3 DEF init_permission, TypedAfter, baseVars
<1>3. ASSUME NEW members \in Seq(Key), NEW listed, MembersBecome(members, key, listed)
      PROVE  TypedAfter
  <2>1. permission' \in [Private -> Seq(Key) \cup {NoAccount}]
    BY <1>3, PermissionEdits DEF MembersBecome
  <2>2. QED
    BY TypedNow, <1>1, <1>3, <2>1 DEF MembersBecome, TypedAfter, baseVars
<1>4. ASSUME NEW listed, AddReader(key, listed) PROVE TypedAfter
  <2>1. Append(policy.members, key) \in Seq(Key)
    BY TypedNow, PolicyTerms
  <2>2. QED
    BY <1>3, <1>4, <2>1, Zenon DEF AddReader
<1>5. ASSUME NEW listed, RemoveReader(key, listed) PROVE TypedAfter
  <2>1. PICK i \in 3..Len(policy.members) : MembersBecome(Without(policy.members, i), key, listed)
    BY <1>5 DEF RemoveReader
  <2>2. policy.members \in Seq(Key) /\ Len(policy.members) \in Nat
    BY TypedNow, PolicyTerms
  <2>3. Without(policy.members, i) \in Seq(Key)
    <3>1. SubSeq(policy.members, 1, i - 1) \in Seq(Key)
      BY <2>2, SubSeqProperties
    <3>2. SubSeq(policy.members, i + 1, Len(policy.members)) \in Seq(Key)
      BY <2>2, SubSeqProperties
    <3>3. QED
      BY <3>1, <3>2, ConcatProperties DEF Without
  <2>4. QED
    BY <1>3, <2>1, <2>3
<1>6. QED
  BY <1>2, <1>4, <1>5

LEMMA FreezeTypes ==
  ASSUME Typed
  PROVE  /\ \A who, reason : freeze(who, reason) => TypedAfter
         /\ unfreeze => TypedAfter
         /\ \A who : recovery_freeze(who) => TypedAfter
         /\ \A digest : confirm_reconciled(digest) => TypedAfter
<1>1. ASSUME Ledgered PROVE binding' \in Binding
  BY TypedNow, <1>1, Zenon DEF Ledgered, Binding
<1>2. ASSUME NEW who, NEW reason, freeze(who, reason) PROVE TypedAfter
  <2>1. reason \in FreezeReasons
    BY <1>2 DEF freeze, MayFreeze, FreezeReasons
  <2>2. policy' \in CardPolicy
    BY TypedNow, <1>2, <2>1, Zenon DEF freeze, Frozen, CardPolicy
  <2>3. QED
    BY TypedNow, <1>1, <1>2, <2>2 DEF freeze, Ledgered, TypedAfter
<1>3. ASSUME unfreeze PROVE TypedAfter
  <2>1. policy' \in CardPolicy
    BY TypedNow, <1>3 DEF unfreeze, CardPolicy, FreezeReasons
  <2>2. QED
    BY TypedNow, <1>1, <1>3, <2>1 DEF unfreeze, Ledgered, TypedAfter
<1>4. ASSUME NEW who, recovery_freeze(who) PROVE TypedAfter
  <2>1. policy' \in CardPolicy
    BY TypedNow, <1>4 DEF recovery_freeze, Frozen, CardPolicy, FreezeReasons, RecoveryStates
  <2>2. QED
    BY TypedNow, <1>1, <1>4, <2>1 DEF recovery_freeze, Ledgered, TypedAfter
<1>5. ASSUME NEW digest, confirm_reconciled(digest) PROVE TypedAfter
  <2>1. policy' \in CardPolicy
    BY TypedNow, <1>5 DEF confirm_reconciled, CardPolicy, RecoveryStates
  <2>2. QED
    BY TypedNow, <1>5, <2>1 DEF confirm_reconciled, TypedAfter, baseVars
<1>6. QED
  BY <1>2, <1>3, <1>4, <1>5

LEMMA RestoreTypes ==
  ASSUME Typed, NEW args \in RestoreArgs, restore(args)
  PROVE  TypedAfter
<1>1. args \in [policy : Terms, period_index : U32, captured_cents : U64,
                reserved_cents : U64, refunded_cents : U64, purchases_count : U16,
                exception_cents : U64, statement_outstanding_cents : U64,
                recon_digest : Digest]
  <2>1. scene \in SceneType
    BY CardAssumption DEF Typed
  <2>2. QED
    BY <2>1 DEF SceneType, RestoreArgs
<1>2. policy' \in CardPolicy
  <2>1. policy.policy_version + 1 \in U32
    <3>1. policy.policy_version \in 0..MaxU32
      BY TypedNow DEF CardPolicy, U32
    <3>2. policy.policy_version < MaxU32
      BY Zenon DEF restore
    <3>3. QED
      BY <3>1, <3>2, Widths DEF U32
  <2>2. QED
    BY TypedNow, <1>1, <2>1, ZenonT(40) DEF restore, RestoredPolicy, Frozen, CardPolicy, FreezeReasons, RecoveryStates
<1>3. period' \in CardPeriod
  <2>1. args.policy.period_seconds \in U32
    BY <1>1, ZenonT(40) DEF Terms
  <2>2. now + args.policy.period_seconds \in Nat
    BY TimeNow, <2>1, Widths DEF U32
  <2>3. QED
    BY <1>1, <2>2, Zenon DEF restore, RestoredPeriod, CardPeriod
<1>4. QED
  BY TypedNow, <1>2, <1>3 DEF restore, TypedAfter, baseVars

LEMMA CheckpointTypes ==
  ASSUME Typed
  PROVE  /\ checkpoint => TypedAfter
         /\ \A action \in actions : write_commitment(action) => TypedAfter
<1>1. ASSUME checkpoint PROVE TypedAfter
  <2>1. policy.commit_seq + 1 \in 0..MaxCommitSeq
    <3>1. policy.commit_seq \in 0..MaxCommitSeq
      BY TypedNow DEF CardPolicy
    <3>2. policy.commit_seq < MaxCommitSeq
      BY <1>1 DEF checkpoint
    <3>3. QED
      BY <3>1, <3>2, SceneFacts
  <2>2. Checkpointed \in Checkpoints
    BY TypedNow, <2>1 DEF Checkpointed, Checkpoints, Binding, CardPolicy, CardPeriod
  <2>3. policy' \in CardPolicy
    BY TypedNow, <1>1, <2>1, Zenon DEF checkpoint, CardPolicy
  <2>4. QED
    BY TypedNow, <1>1, <2>2, <2>3 DEF checkpoint, TypedAfter
<1>2. ASSUME NEW action \in actions, write_commitment(action) PROVE TypedAfter
  BY TypedNow, <1>2 DEF write_commitment, TypedAfter
<1>3. QED
  BY <1>1, <1>2

\* Creating, delegating, wiping and closing a card, and re-reading a permission.
LEMMA LifeTypes ==
  ASSUME Typed
  PROVE  /\ init_card \/ delegate_card \/ close_card => TypedAfter
         /\ \A listed : wipe_card(listed) => TypedAfter
         /\ \A x, who : sync_permission(x, who) => TypedAfter
<1>1. ASSUME init_card PROVE TypedAfter
  BY TypedNow, <1>1, ZeroedTypes, ZenonT(40) DEF init_card, Binding, TypedAfter, Typed
<1>2. ASSUME delegate_card PROVE TypedAfter
  <2>1. binding.epoch + 1 \in 0..MaxEpoch
    <3>1. binding.epoch \in 0..MaxEpoch
      BY TypedNow DEF Binding
    <3>2. binding.epoch < MaxEpoch
      BY <1>2 DEF delegate_card
    <3>3. MaxEpoch \in Nat
      BY SceneFacts
    <3>4. QED
      BY <3>1, <3>2, <3>3
  <2>2. binding' \in Binding
    BY TypedNow, <1>2, <2>1, Zenon DEF delegate_card, Binding
  <2>3. QED
    BY TypedNow, <1>2, <2>2 DEF delegate_card, TypedAfter
<1>3. ASSUME close_card PROVE TypedAfter
  BY TypedNow, <1>3 DEF close_card, Binding, TypedAfter
<1>4. ASSUME NEW listed, wipe_card(listed) PROVE TypedAfter
  <2>1. binding' \in Binding
    BY TypedNow, <1>4, Zenon DEF wipe_card, Binding
  <2>2. permission' \in [Private -> Seq(Key) \cup {NoAccount}]
    BY TypedNow, <1>4, PermissionEdits, PolicyTerms, Zenon DEF wipe_card
  <2>3. /\ reservation' \in [AuthId -> Reservation \cup {NoAccount}]
        /\ intent' \in [IntentId -> CheckoutIntent \cup {NoAccount}]
        /\ guard' \in AuthGuard \cup {NoAccount}
    BY TypedNow, <1>4 DEF wipe_card
  <2>4. QED
    BY TypedNow, <1>4, <2>1, <2>2, <2>3, ZeroedTypes, Zenon DEF wipe_card, TypedAfter, Typed
<1>5. ASSUME NEW x, NEW who, sync_permission(x, who) PROVE TypedAfter
  <2>1. permission' \in [Private -> Seq(Key) \cup {NoAccount}]
    BY TypedNow, <1>5, PermissionEdits, PolicyTerms, ZenonT(40) DEF sync_permission
  <2>2. QED
    BY TypedNow, <1>5, <2>1, Zenon DEF sync_permission, TypedAfter, baseVars
<1>6. QED
  BY <1>1, <1>2, <1>3, <1>4, <1>5

-----------------------------------------------------------------------------
(* Type correctness.                                                        *)

LEMMA TypedInit == Init => Typed
<1> SUFFICES ASSUME Init PROVE Typed
  BY ZenonT(40)
<1>1. scene \in Scene
  BY ZenonT(40) DEF Init
<1>2. commitment \in Checkpoints /\ actions \subseteq Checkpoints
  BY <1>1, SceneBounds, ZeroFits DEF Init, Checkpoints
<1>3. QED
  BY <1>1, <1>2, SceneBounds, ZeroedTypes DEF Init, Typed, TypeOK, CardAccountsType

\* One step per instruction.
LEMMA TypedStep == Typed /\ [Next]_vars => Typed'
<1> SUFFICES ASSUME Typed, [Next]_vars PROVE Typed'
  BY ZenonT(40)
<1>1. /\ scene.auths \subseteq AuthId /\ scene.captures \subseteq CaptureId
      /\ scene.events \subseteq EventId /\ scene.digests \subseteq Digest
      /\ scene.keys \subseteq Key /\ scene.readers \subseteq Key
      /\ PolicyArgs \subseteq Terms /\ Cents \subseteq U64 /\ Refunds \subseteq U64
      /\ Units \subseteq Nat /\ Dispute \subseteq BOOLEAN
      /\ Cents \cup {0} \subseteq U64
  BY SceneFacts, ZeroFits
<1>2. ASSUME OwnerStep PROVE TypedAfter
  <2>1. ASSUME \/ init_card \/ delegate_card \/ close_card
               \/ \E listed \in SUBSET Ephemerals : wipe_card(listed)
        PROVE  TypedAfter
    BY <2>1, LifeTypes, ZenonT(40)
  <2>2. ASSUME \/ \E key \in scene.keys : init_permission(key)
               \/ \E key \in scene.readers, listed \in SUBSET Ephemerals :
                      AddReader(key, listed) \/ RemoveReader(key, listed)
        PROVE  TypedAfter
    BY <1>1, <2>2, ReaderTypes, ZenonT(40)
  <2>3. ASSUME \/ \E args \in PolicyArgs, by \in {{"owner"}, Parties} : set_policy(args, by)
               \/ \E args \in RestoreArgs : restore(args)
        PROVE  TypedAfter
    BY <1>1, <2>3, SetPolicyTypes, RestoreTypes, ZenonT(40)
  <2>4. ASSUME \/ \E id \in scene.events : resolve_exception(id)
               \/ \E d \in scene.digests, units \in Units : repay_statement(d, units)
               \/ unfreeze
               \/ \E d \in scene.digests : confirm_reconciled(d)
        PROVE  TypedAfter
    BY <1>1, <2>4, RepaymentTypes, FreezeTypes, ZenonT(40)
  <2>5. QED
    BY <1>2, <2>1, <2>2, <2>3, <2>4, ZenonT(40) DEF OwnerStep
<1>3. ASSUME IssuerStep PROVE TypedAfter
  <2>1. ASSUME NEW a \in scene.auths, NEW i \in IntentId, NEW n \in Cents, NEW m \in Merchant,
               NEW c \in Mcc, NEW ch \in Channel,
               authorize(a, i, n, m, c, ch.recurring, ch.single)
        PROVE  TypedAfter
    <3>1. ch.recurring \in BOOLEAN /\ ch.single \in BOOLEAN
      BY SceneFacts, ZenonT(40)
    <3>2. QED
      BY <1>1, <2>1, <3>1, AuthorizeTypes, ZenonT(40)
  <2>2. ASSUME NEW a \in scene.auths \cup {NoAuth}, NEW n, NEW id \in scene.events, NEW kind,
               \/ n \in Refunds /\ refund(a, n, id)
               \/ n \in Cents /\ record_exception(a, n, id, kind)
        PROVE  TypedAfter
    BY <1>1, <2>2, RefundTypes, ExceptionTypes, ZenonT(40)
  <2>3. ASSUME NEW a \in scene.auths,
               \/ \E n \in Cents \cup {0} : adjust_reservation(a, n)
               \/ \E n \in Cents, id \in scene.captures : capture(a, n, id)
               \/ \E n \in Cents, id \in scene.events, reason \in {"reversed", "expired"} :
                      reverse(a, n, reason, id)
               \/ \E opened \in Dispute, id \in scene.events : record_dispute(a, opened, id)
        PROVE  TypedAfter
    BY <1>1, <2>3, HoldTypes, CaptureTypes, DisputeTypes
  <2>4. QED
    BY <1>1, <1>3, <2>1, <2>2, <2>3, IntentTypes, RepaymentTypes, RollTypes, CheckpointTypes, ZenonT(40)
       DEF IssuerStep
<1>4. ASSUME EitherStep PROVE TypedAfter
  BY <1>1, <1>4, IntentTypes, HoldTypes, LifeTypes, FreezeTypes, ZenonT(40) DEF EitherStep
<1>5. ASSUME Tick PROVE TypedAfter
  <2>1. now' \in 0..MaxNow
    BY <1>5, TimeNow DEF Tick
  <2>2. QED
    BY <1>5, <2>1, TypedNow, ZenonT(40) DEF Tick, TypedAfter, baseVars
<1>6. ASSUME UNCHANGED vars PROVE TypedAfter /\ scene' = scene
  BY <1>6, TypedNow DEF vars, TypedAfter
<1>7. CASE Next
  <2>1. TypedAfter /\ scene' = scene
    BY <1>2, <1>3, <1>4, <1>5, <1>7, CheckpointTypes DEF Next
  <2>2. QED
    BY <2>1, TypedNext
<1>8. QED
  BY <1>6, <1>7, TypedNext

\* Every account of a card keeps the widths of state.rs, whatever the owner, the
\* issuer and the scheduled actions do: each counter is checked, capped by the
\* budget or saturates before it could wrap.
THEOREM CardTypeCorrect == Spec => []TypeOK
<1>1. Typed => TypeOK
  BY DEF Typed
<1>2. QED
  BY <1>1, TypedInit, TypedStep, PTL DEF Spec
===========================================================================
