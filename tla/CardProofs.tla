----------------------------- MODULE CardProofs -----------------------------
(***************************************************************************)
(* The four properties of a card's life, for every budget, ring size, set   *)
(* of callers, number of purchases and number of delegations.               *)
(*                                                                          *)
(* Most instructions move money and touch nothing these properties speak    *)
(* of: they are `Quiet`, and one lemma covers them all.                     *)
(***************************************************************************)
EXTENDS CardTypes, FiniteSetTheorems

\* An account that is not there has no permission.
PermissionsNeeded ==
    \A x \in Private : x \notin {"policy", "period"} \cup Ephemerals => permission[x] = NoAccount

\* The card's own two permissions name its members, and there are none without.
ReadersKnown ==
    \A x \in {"policy", "period"} :
        permission[x] = IF policy.members = <<>> THEN NoAccount ELSE policy.members

\* What a card has before its first delegation, and again after a wipe.
Undelegated == ~binding.delegated => Ephemerals = {} /\ policy.members = <<>>

Unborn ==
    /\ binding.delegated => binding.status = "active"
    /\ binding.status = "none" => policy = zeroed_policy /\ period = zeroed_period

Commitments == actions \cup {commitment}

\* Within one delegation the checkpoints are numbered as their policies are, and
\* none is ahead of the card.
CommitsOrdered ==
    /\ \A x \in Commitments : x.epoch <= binding.epoch
    /\ \A x \in Commitments : binding.delegated /\ x.epoch = binding.epoch =>
           x.seq <= policy.commit_seq /\ x.policy_version <= policy.policy_version
    /\ \A x, y \in Commitments : x.epoch = y.epoch /\ x.seq <= y.seq =>
           x.policy_version <= y.policy_version

LifeInv ==
    /\ RecoveryIsFrozen
    /\ EphemeralsCounted
    /\ PermissionsNeeded
    /\ ReadersKnown
    /\ Undelegated
    /\ Unborn
    /\ CommitsOrdered

CardInv == Typed /\ LifeInv


-----------------------------------------------------------------------------
(* Ephemeral accounts.                                                      *)

LEMMA PolicyNumbers ==
  ASSUME NEW p \in CardPolicy PROVE p.policy_version \in Int /\ p.commit_seq \in Int
BY Widths DEF CardPolicy, U32

\* The numbers a checkpoint carries are naturals.
LEMMA CommitNumbers ==
  ASSUME Typed
  PROVE  /\ policy.policy_version \in Nat /\ policy.commit_seq \in Nat /\ binding.epoch \in Nat
         /\ policy.terms.budget_cents \in Nat /\ policy.terms.period_seconds \in Nat
         /\ commitment \in Commitments
         /\ \A x \in Commitments : x.policy_version \in Nat /\ x.seq \in Nat /\ x.epoch \in Nat
<1>1. U32 \subseteq Nat /\ U64 \subseteq Nat
  BY Widths DEF U32, U64
<1>2. MaxEpoch \in Nat /\ MaxCommitSeq \in Nat
  BY SceneFacts
<1>3. 0..MaxEpoch \subseteq Nat /\ 0..MaxCommitSeq \subseteq Nat
  BY <1>2
<1>4. policy.policy_version \in Nat /\ policy.commit_seq \in Nat
  BY <1>1, <1>3, TypedNow, ZenonT(40) DEF CardPolicy
<1>5. binding.epoch \in Nat
  BY <1>3, TypedNow DEF Binding
<1>6. policy.terms.budget_cents \in Nat /\ policy.terms.period_seconds \in Nat
  BY <1>1, PolicyTerms, TypedNow, ZenonT(40)
<1>7. \A x \in Checkpoints : x.policy_version \in Nat /\ x.seq \in Nat /\ x.epoch \in Nat
  BY <1>1, <1>3, ZenonT(40) DEF Checkpoints
<1>8. Commitments \subseteq Checkpoints /\ commitment \in Commitments
  BY TypedNow DEF Commitments
<1>9. QED
  BY <1>4, <1>5, <1>6, <1>7, <1>8

LEMMA EphemeralsNow ==
  ASSUME Typed
  PROVE  /\ Ephemerals = {x \in AuthId : reservation[x] # NoAccount}
                           \cup {x \in IntentId : intent[x] # NoAccount}
                           \cup {x \in {"guard"} : guard # NoAccount}
         /\ IsFiniteSet(Ephemerals) /\ Cardinality(Ephemerals) \in Nat
         /\ Ephemerals \subseteq Private \ {"policy", "period"}
<1>1. Ephemerals = {x \in AuthId : reservation[x] # NoAccount}
                     \cup {x \in IntentId : intent[x] # NoAccount}
                     \cup {x \in {"guard"} : guard # NoAccount}
  BY TypedNow DEF Ephemerals, Live
<1>2. IsFiniteSet(AuthId \cup IntentId \cup {"guard"})
  BY CardAssumption, FS_Union, FS_Singleton, ZenonT(40)
<1>3. IsFiniteSet(Ephemerals)
  BY <1>1, <1>2, FS_Subset
<1>4. Ephemerals \subseteq Private \ {"policy", "period"}
  BY <1>1, CardAssumption DEF Private
<1>5. QED
  BY <1>1, <1>3, <1>4, FS_CardinalityType

LEMMA EphemeralsNext ==
  ASSUME TypedAfter
  PROVE  Ephemerals' = {x \in AuthId : reservation'[x] # NoAccount}
                         \cup {x \in IntentId : intent'[x] # NoAccount}
                         \cup {x \in {"guard"} : guard' # NoAccount}
BY DEF TypedAfter, Ephemerals, Live

-----------------------------------------------------------------------------
(* Quiet steps.                                                             *)

\* What money moves: the debt, the period, and the inside of holds and intents.
Quiet ==
    /\ SameControl(policy, policy') /\ SameCount(policy, policy')
    /\ HoldsKept /\ IntentsKept
    /\ UNCHANGED <<binding, guard, permission, commitment, actions>>
    /\ binding.status = "none" => UNCHANGED <<policy, period>>
    /\ tx'.by = {"owner"} => SameDebt(policy, policy') /\ period' = period

\* What every step is to keep.
Kept == LifeInv' /\ OwnerAloneKeepsCredit /\ AuthorizerAloneKeepsTerms /\ CommitmentAdvances

\* A card is used by its authorizer and its owner only after it was delegated.
LEMMA SignersAreActive ==
  ASSUME Unborn
  PROVE  /\ AuthorizerSigns => binding.status = "active"
         /\ OwnerSigns => binding.status = "active"
         /\ \A who : EitherSigns(who) => binding.status = "active"
BY DEF Unborn, AuthorizerSigns, OwnerSigns, EitherSigns

\* A signature is one party's or both's.
LEMMA OneSigner ==
  ASSUME NEW by, NEW events, Appends(by, events)
  PROVE  tx'.by = by
BY DEF Appends

LEMMA QuietKeeps ==
  ASSUME CardInv, Quiet, TypedAfter
  PROVE  Kept
<1> USE DEF CardInv
<1>1. Ephemerals' = Ephemerals
  BY EphemeralsNow, EphemeralsNext, ZenonT(40) DEF Quiet, HoldsKept, IntentsKept
<1>2. RecoveryIsFrozen' /\ EphemeralsCounted'
  BY <1>1 DEF LifeInv, Quiet, SameControl, SameCount, RecoveryIsFrozen, EphemeralsCounted
<1>3. PermissionsNeeded' /\ ReadersKnown' /\ Undelegated' /\ Unborn'
  BY <1>1 DEF LifeInv, Quiet, SameControl, PermissionsNeeded, ReadersKnown, Undelegated, Unborn
<1>4. CommitsOrdered'
  BY DEF LifeInv, Quiet, SameControl, CommitsOrdered, Commitments
<1>5. OwnerAloneKeepsCredit
  <2>1. policy.terms.budget_cents \in Int /\ policy.terms.period_seconds \in Int
    BY CommitNumbers
  <2>2. QED
    BY <2>1 DEF Quiet, SameControl, SameDebt, OwnerAloneKeepsCredit
<1>6. AuthorizerAloneKeepsTerms /\ CommitmentAdvances
  <2>1. commitment.policy_version \in Int
    BY TypedNow, CommitNumbers DEF Commitments
  <2>2. QED
    BY <2>1 DEF Quiet, SameControl, AuthorizerAloneKeepsTerms, CommitmentAdvances
<1>7. QED
  BY <1>2, <1>3, <1>4, <1>5, <1>6 DEF LifeInv, Kept

\* Captures, releases, disputes and rolls, all of them the issuer's.
LEMMA HoldsQuiet ==
  ASSUME Typed, Unborn, NEW a \in AuthId
  PROVE  /\ \A n \in U64 : adjust_reservation(a, n) => Quiet
         /\ \A n \in U64, id \in CaptureId : capture(a, n, id) => Quiet
         /\ \A n \in U64, id \in EventId, reason \in {"reversed", "expired"} :
                reverse(a, n, reason, id) => Quiet
         /\ \A opened \in BOOLEAN, id \in EventId : record_dispute(a, opened, id) => Quiet
<1> USE SignersAreActive
<1>1. ASSUME NEW n \in U64, adjust_reservation(a, n) PROVE Quiet
  <2>1. HoldsKept
    BY <1>1, HoldTypes
  <2>2. QED
    BY <1>1, <2>1, OneSigner, ZenonT(40)
       DEF adjust_reservation, Quiet, SameControl, SameCount, IntentsKept, baseVars
<1>2. ASSUME NEW n \in U64, NEW id \in CaptureId, capture(a, n, id) PROVE Quiet
  <2> DEFINE p == IF Excess(reservation[a], n) THEN ExceptionOpened(policy) ELSE policy
  <2>1. p \in CardPolicy /\ SameControl(policy, p) /\ SameCount(policy, p)
    <3>1. Excess(reservation[a], n) => policy.exceptions_open < MaxU16
      BY <1>2 DEF capture
    <3>2. QED
      BY TypedNow, <3>1, PolicyExceptions DEF SameControl, SameCount
  <2>2. policy' = add_exposure(p, n)
    BY <1>2 DEF capture
  <2> HIDE DEF p
  <2>3. SameControl(policy, policy') /\ SameCount(policy, policy')
    BY <2>1, <2>2, PolicyMoney DEF SameControl, SameCount
  <2>4. HoldsKept
    BY <1>2, CaptureTypes
  <2>5. QED
    BY <1>2, <2>3, <2>4, OneSigner, ZenonT(40) DEF capture, Quiet, IntentsKept, baseVars
<1>3. ASSUME NEW n \in U64, NEW id \in EventId, NEW reason \in {"reversed", "expired"},
             reverse(a, n, reason, id)
      PROVE  Quiet
  <2>1. HoldsKept
    BY <1>3, HoldTypes
  <2>2. SameControl(policy, policy') /\ SameCount(policy, policy')
    BY TypedNow, <1>3, PolicyEvents DEF reverse
  <2>3. QED
    BY <1>3, <2>1, <2>2, OneSigner DEF reverse, Quiet, IntentsKept, baseVars
<1>4. ASSUME NEW opened \in BOOLEAN, NEW id \in EventId, record_dispute(a, opened, id)
      PROVE  Quiet
  <2>1. HoldsKept
    BY <1>4, DisputeTypes
  <2>2. SameControl(policy, policy') /\ SameCount(policy, policy')
    BY TypedNow, <1>4, PolicyEvents DEF record_dispute
  <2>3. QED
    BY <1>4, <2>1, <2>2, OneSigner DEF record_dispute, Quiet, IntentsKept, baseVars
<1>5. QED
  BY <1>1, <1>2, <1>3, <1>4

LEMMA CreditQuiet ==
  ASSUME Typed, Unborn, NEW a \in AuthId \cup {NoAuth}, NEW n \in U64, NEW id \in EventId
  PROVE  /\ refund(a, n, id) => Quiet
         /\ \A kind : record_exception(a, n, id, kind) => Quiet
<1> USE SignersAreActive
<1> DEFINE p == Remembered(policy, id)
<1>1. p \in CardPolicy /\ SameControl(policy, p) /\ SameCount(policy, p)
  BY TypedNow, PolicyEvents, ZenonT(40)
<1>2. \A q \in {add_exposure(p, n), reduce_exposure(p, n)} :
          SameControl(policy, q) /\ SameCount(policy, q)
  BY <1>1, PolicyMoney DEF SameControl, SameCount
<1>3. \A q \in CardPolicy : SameControl(policy, q) /\ SameCount(policy, q) =>
          SameControl(policy, ExceptionOpened(q)) /\ SameCount(policy, ExceptionOpened(q))
  BY PolicyExceptions DEF SameControl, SameCount
<1>4. ASSUME refund(a, n, id) PROVE Quiet
  <2>1. HoldsKept
    BY <1>4, RefundTypes
  <2>2. SameControl(policy, policy') /\ SameCount(policy, policy')
    BY <1>2, <1>4 DEF refund
  <2>3. QED
    BY <1>4, <2>1, <2>2, OneSigner DEF refund, Quiet, IntentsKept, baseVars
<1>5. ASSUME NEW kind, record_exception(a, n, id, kind) PROVE Quiet
  <2>1. HoldsKept
    BY <1>5, ExceptionTypes
  <2>2. SameControl(policy, policy') /\ SameCount(policy, policy')
    <3>1. CASE LateCapture(a, n, id)
      BY <1>2, <3>1 DEF LateCapture
    <3>2. CASE OverHold(a, n, id)
      BY <1>1, <1>3, <3>2 DEF OverHold
    <3>3. CASE CorrectionCredit(a, n, id)
      <4>1. reduce_exposure(p, n) \in CardPolicy
        BY <1>1, PolicyMoney
      <4>2. QED
        BY <1>2, <1>3, <3>3, <4>1 DEF CorrectionCredit
    <3>4. CASE Debit(a, n, id, kind)
      <4>1. p.statement_outstanding_cents = policy.statement_outstanding_cents
        BY TypedNow, PolicyEvents DEF SameDebt
      <4>2. add_exposure(p, n) \in CardPolicy
        BY <1>1, <3>4, <4>1, PolicyMoney, ZenonT(40) DEF Debit, ExposureFits
      <4>3. QED
        BY <1>2, <1>3, <3>4, <4>2 DEF Debit
    <3>5. QED
      BY <1>5, <3>1, <3>2, <3>3, <3>4, ZenonT(40) DEF record_exception
  <2>3. QED
    BY <1>5, <2>1, <2>2, OneSigner, ZenonT(40) DEF record_exception, Quiet, IntentsKept, baseVars
<1>6. QED
  BY <1>4, <1>5


\* Rolls, repayments, resolved exceptions, cancelled intents, and time.
LEMMA OthersQuiet ==
  ASSUME Typed, Unborn
  PROVE  /\ \A listed : roll_period(listed) => Quiet
         /\ \A id \in EventId : resolve_exception(id) => Quiet
         /\ \A d \in Digest, units \in Nat : repay_statement(d, units) => Quiet
         /\ \A d \in Digest, n \in U64 :
                record_repayment(d, n) \/ record_private_repayment(d, n) => Quiet
         /\ \A i \in IntentId : \A who : cancel_checkout_intent(i, who) => Quiet
         /\ Tick => Quiet
<1> USE SignersAreActive
<1>1. ASSUME NEW listed, roll_period(listed) PROVE Quiet
  <2>1. HoldsKept
    BY <1>1, RollTypes
  <2>2. QED
    BY <1>1, <2>1, OneSigner
       DEF roll_period, Quiet, SameControl, SameCount, IntentsKept, baseVars
<1>2. ASSUME NEW id \in EventId, resolve_exception(id) PROVE Quiet
  <2> DEFINE p == Remembered(policy, ResolveKey(id))
  <2>1. p \in CardPolicy /\ SameControl(policy, p) /\ SameCount(policy, p) /\ SameDebt(policy, p)
    BY TypedNow, PolicyEvents DEF ResolveIds
  <2>2. policy' = [p EXCEPT !.exceptions_open = policy.exceptions_open - 1]
    BY <1>2 DEF resolve_exception
  <2> HIDE DEF p
  <2>3. /\ SameControl(policy, policy') /\ SameCount(policy, policy')
        /\ SameDebt(policy, policy')
    BY <2>1, <2>2 DEF SameControl, SameCount, SameDebt, CardPolicy
  <2>4. QED
    BY <1>2, <2>3 DEF resolve_exception, Quiet, HoldsKept, IntentsKept, baseVars
<1>3. ASSUME NEW d \in Digest, NEW units \in Nat, repay_statement(d, units) PROVE Quiet
  BY <1>3 DEF repay_statement, Quiet, SameControl, SameCount, SameDebt, HoldsKept, IntentsKept
<1>4. ASSUME NEW d \in Digest, NEW n \in U64, NEW method, apply_repayment(d, n, method),
             AuthorizerSigns
      PROVE  Quiet
  <2>1. SameControl(policy, policy') /\ SameCount(policy, policy')
    BY <1>4 DEF apply_repayment, Repaid, SameControl, SameCount, CardPolicy
  <2>2. QED
    BY <1>4, <2>1, OneSigner, ZenonT(40) DEF apply_repayment, Quiet, HoldsKept, IntentsKept, baseVars
<1>5. ASSUME NEW i \in IntentId, NEW who, cancel_checkout_intent(i, who) PROVE Quiet
  <2>1. IntentsKept
    BY <1>5, IntentTypes
  <2>2. QED
    BY <1>5, <2>1
       DEF cancel_checkout_intent, Quiet, SameControl, SameCount, SameDebt, HoldsKept, baseVars
<1>6. ASSUME Tick PROVE Quiet
  BY <1>6 DEF Tick, Quiet, SameControl, SameCount, SameDebt, HoldsKept, IntentsKept, baseVars
<1>7. QED
  BY <1>1, <1>2, <1>3, <1>4, <1>5, <1>6, ZenonT(40) DEF record_repayment, record_private_repayment

-----------------------------------------------------------------------------
(* Steps that create or close ephemeral accounts.                           *)

\* Whatever happens to the ephemerals `gone` and `new`, the rest is as it was.
Exchange(gone, new) ==
    /\ Ephemerals' = (Ephemerals \ gone) \cup new
    /\ policy'.ephemeral_count = Cardinality(Ephemerals')
    /\ SameControl(policy, policy')
    /\ \A x \in Private : x \notin new =>
           permission'[x] = IF x \in gone THEN NoAccount ELSE permission[x]
    /\ binding.delegated
    /\ UNCHANGED <<binding, commitment, actions>>
    /\ tx'.by = {"owner"} => SameDebt(policy, policy') /\ period' = period

LEMMA ExchangeKeeps ==
  ASSUME CardInv, TypedAfter, NEW gone \in SUBSET Ephemerals,
         NEW new \in SUBSET (Private \ {"policy", "period"}),
         Exchange(gone, new)
  PROVE  Kept
<1> USE DEF CardInv
<1>1. RecoveryIsFrozen' /\ EphemeralsCounted'
  BY DEF LifeInv, Exchange, SameControl, RecoveryIsFrozen, EphemeralsCounted
<1>2. PermissionsNeeded'
  BY DEF LifeInv, Exchange, PermissionsNeeded
<1>3. ReadersKnown'
  <2>1. {"policy", "period"} \subseteq Private /\ {"policy", "period"} \cap gone = {}
    BY EphemeralsNow DEF Private
  <2>2. QED
    BY <2>1 DEF LifeInv, Exchange, SameControl, ReadersKnown
<1>4. Undelegated' /\ Unborn'
  BY DEF LifeInv, Exchange, Undelegated, Unborn
<1>5. CommitsOrdered'
  BY DEF LifeInv, Exchange, SameControl, CommitsOrdered, Commitments
<1>6. OwnerAloneKeepsCredit
  <2>1. policy.terms.budget_cents \in Int /\ policy.terms.period_seconds \in Int
    BY CommitNumbers
  <2>2. QED
    BY <2>1 DEF Exchange, SameControl, SameDebt, OwnerAloneKeepsCredit
<1>7. AuthorizerAloneKeepsTerms /\ CommitmentAdvances
  <2>1. commitment.policy_version \in Int
    BY TypedNow, CommitNumbers DEF Commitments
  <2>2. QED
    BY <2>1 DEF Exchange, SameControl, AuthorizerAloneKeepsTerms, CommitmentAdvances
<1>8. QED
  BY <1>1, <1>2, <1>3, <1>4, <1>5, <1>6, <1>7, ZenonT(40) DEF LifeInv, Kept


LEMMA IntentKept ==
  ASSUME CardInv, NEW i \in IntentId
  PROVE  /\ \A args \in IntentArgs, ttl \in 1..MAX_INTENT_TTL_SECONDS :
                open_checkout_intent(i, args, now + ttl) => Kept
         /\ \A who : close_checkout_intent(i, who) => Kept
<1> USE DEF CardInv
<1>1. i \in Private \ {"policy", "period", "guard"} /\ i \notin AuthId
  BY CardAssumption DEF Private
<1>2. policy.ephemeral_count = Cardinality(Ephemerals)
  BY DEF LifeInv, EphemeralsCounted
<1>3. ASSUME NEW args \in IntentArgs, NEW ttl \in 1..MAX_INTENT_TTL_SECONDS,
             open_checkout_intent(i, args, now + ttl)
      PROVE  Kept
  <2>1. TypedAfter /\ intent'[i] # NoAccount
    BY <1>3, IntentTypes, ZenonT(40)
  <2>2. i \notin Ephemerals /\ Ephemerals' = Ephemerals \cup {i}
    BY <1>1, <1>3, <2>1, EphemeralsNow, EphemeralsNext DEF open_checkout_intent
  <2>3. policy'.ephemeral_count = Cardinality(Ephemerals')
    <3>1. policy'.ephemeral_count = policy.ephemeral_count + 1
      BY <1>3 DEF open_checkout_intent, EphemeralCreated, CardPolicy
    <3>2. Cardinality(Ephemerals \cup {i}) = Cardinality(Ephemerals) + 1
      BY <2>2, EphemeralsNow, FS_AddElement, ZenonT(40)
    <3>3. QED
      BY <1>2, <2>2, <3>1, <3>2
  <2>4. SameControl(policy, policy')
    BY TypedNow, <1>3, PolicyEphemerals DEF open_checkout_intent
  <2>5. Exchange({}, {i})
    BY <1>3, <2>2, <2>3, <2>4, OneSigner, ZenonT(40)
       DEF open_checkout_intent, Exchange, Granted, AuthorizerSigns, baseVars
  <2>6. QED
    BY <1>1, <2>1, <2>5, ExchangeKeeps
<1>4. ASSUME NEW who, close_checkout_intent(i, who) PROVE Kept
  <2>1. TypedAfter
    BY <1>4, IntentTypes
  <2>2. i \in Ephemerals /\ Ephemerals' = Ephemerals \ {i}
    BY TypedNow, <1>1, <1>4, <2>1, EphemeralsNow, EphemeralsNext, ZenonT(40) DEF close_checkout_intent
  <2>3. policy'.ephemeral_count = Cardinality(Ephemerals')
    <3>1. policy'.ephemeral_count = Saturating(policy.ephemeral_count, 1)
      BY <1>4 DEF close_checkout_intent, EphemeralClosed, CardPolicy
    <3>2. Cardinality(Ephemerals \ {i}) = Cardinality(Ephemerals) - 1
          /\ Cardinality(Ephemerals \ {i}) \in Nat
      BY <2>2, EphemeralsNow, FS_RemoveElement, FS_CardinalityType
    <3>3. QED
      BY <1>2, <2>2, <3>1, <3>2, EphemeralsNow DEF Saturating
  <2>4. SameControl(policy, policy') /\ SameDebt(policy, policy')
    BY TypedNow, <1>4, PolicyEphemerals DEF close_checkout_intent
  <2>5. Exchange({i}, {})
    BY <1>4, <2>2, <2>3, <2>4
       DEF close_checkout_intent, Exchange, Ungranted, EitherSigns, OwnerSigns,
           AuthorizerSigns, baseVars
  <2>6. QED
    BY <2>1, <2>2, <2>5, ExchangeKeeps
<1>5. QED
  BY <1>3, <1>4

LEMMA HoldKept ==
  ASSUME CardInv, NEW a \in AuthId
  PROVE  /\ \A i \in IntentId, n \in U64, recurring \in BOOLEAN, single \in BOOLEAN : \A m, c :
                authorize(a, i, n, m, c, recurring, single) => Kept
         /\ \A who : close_reservation(a, who) => Kept
<1> USE DEF CardInv
<1>1. a \in Private \ {"policy", "period", "guard"} /\ a \notin IntentId
  BY CardAssumption DEF Private
<1>2. policy.ephemeral_count = Cardinality(Ephemerals)
  BY DEF LifeInv, EphemeralsCounted
<1>3. ASSUME NEW i \in IntentId, NEW n \in U64, NEW m, NEW c, NEW recurring \in BOOLEAN,
             NEW single \in BOOLEAN, authorize(a, i, n, m, c, recurring, single)
      PROVE  Kept
  <2>1. TypedAfter /\ reservation'[a] # NoAccount /\ IntentsKept
    BY <1>3, AuthorizeTypes
  <2>2. a \notin Ephemerals /\ Ephemerals' = Ephemerals \cup {a}
    BY <1>1, <1>3, <2>1, EphemeralsNow, EphemeralsNext, SMTT(30) DEF authorize, IntentsKept
  <2> DEFINE p == IF single THEN add_exposure(policy, n) ELSE policy
  <2>3. p \in CardPolicy /\ SameControl(policy, p) /\ SameCount(policy, p)
    BY TypedNow, <1>3, PolicyMoney DEF authorize, ExposureFits, SameControl, SameCount
  <2>4. policy' = EphemeralCreated(p)
    BY <1>3 DEF authorize
  <2> HIDE DEF p
  <2>5. policy'.ephemeral_count = Cardinality(Ephemerals')
    <3>1. policy'.ephemeral_count = policy.ephemeral_count + 1
      BY <2>3, <2>4 DEF EphemeralCreated, CardPolicy, SameCount
    <3>2. Cardinality(Ephemerals \cup {a}) = Cardinality(Ephemerals) + 1
      BY <2>2, EphemeralsNow, FS_AddElement, ZenonT(40)
    <3>3. QED
      BY <1>2, <2>2, <3>1, <3>2
  <2>6. SameControl(policy, policy')
    BY <2>3, <2>4, PolicyEphemerals, ZenonT(40) DEF SameControl
  <2>7. Exchange({}, {a})
    BY <1>3, <2>2, <2>5, <2>6, OneSigner, ZenonT(40)
       DEF authorize, Exchange, Granted, AuthorizerSigns, baseVars
  <2>8. QED
    BY <1>1, <2>1, <2>7, ExchangeKeeps
<1>4. ASSUME NEW who, close_reservation(a, who) PROVE Kept
  <2>1. TypedAfter /\ guard' # NoAccount
    BY <1>4, HoldTypes
  <2> DEFINE new == {x \in {"guard"} : guard = NoAccount}
  <2>2. /\ a \in Ephemerals /\ Ephemerals' = (Ephemerals \ {a}) \cup new
        /\ new \cap Ephemerals = {}
    <3>1. /\ reservation[a] # NoAccount /\ intent' = intent
          /\ reservation' = [reservation EXCEPT ![a] = NoAccount]
      BY <1>4 DEF close_reservation
    <3>2. a \in Ephemerals /\ new \cap Ephemerals = {}
      BY <1>1, <3>1, EphemeralsNow, CardAssumption, ZenonT(40)
    <3>3. \A x : x \in Ephemerals' <=> x \in (Ephemerals \ {a}) \cup new
      BY TypedNow, <1>1, <2>1, <3>1, EphemeralsNow, EphemeralsNext, ZenonT(40)
    <3>4. QED
      BY <3>2, <3>3
  <2>3. /\ Cardinality(Ephemerals \ {a}) = Cardinality(Ephemerals) - 1
        /\ Cardinality(Ephemerals \ {a}) \in Nat
        /\ IsFiniteSet(Ephemerals \ {a})
    BY <2>2, EphemeralsNow, FS_RemoveElement, FS_CardinalityType, ZenonT(40)
  <2>4. EphemeralClosed(policy).ephemeral_count = Cardinality(Ephemerals \ {a})
        /\ EphemeralClosed(policy) \in CardPolicy
    <3>1. EphemeralClosed(policy).ephemeral_count = Saturating(policy.ephemeral_count, 1)
      BY DEF EphemeralClosed, CardPolicy
    <3>2. QED
      BY TypedNow, <1>2, <2>3, <3>1, EphemeralsNow, PolicyEphemerals DEF Saturating
  <2>5. policy'.ephemeral_count = Cardinality(Ephemerals')
    <3>1. CASE guard = NoAccount
      <4>1. new = {"guard"} /\ "guard" \notin Ephemerals \ {a}
        BY <2>2, <3>1
      <4>2. policy'.ephemeral_count = EphemeralClosed(policy).ephemeral_count + 1
        BY <1>4, <2>4, <3>1 DEF close_reservation, CountAfterClose, EphemeralCreated, CardPolicy
      <4>3. Cardinality((Ephemerals \ {a}) \cup {"guard"}) = Cardinality(Ephemerals \ {a}) + 1
        BY <2>3, <4>1, FS_AddElement, ZenonT(40)
      <4>4. QED
        BY <2>2, <2>4, <4>1, <4>2, <4>3, ZenonT(40)
    <3>2. CASE guard # NoAccount
      BY <1>4, <2>2, <2>4, <3>2, ZenonT(40) DEF close_reservation, CountAfterClose
    <3>3. QED
      BY <3>1, <3>2
  <2>6. SameControl(policy, policy') /\ SameDebt(policy, policy')
    BY TypedNow, <1>4, PolicyEphemerals, ZenonT(40) DEF close_reservation
  <2>7. ASSUME NEW x \in Private, x \notin new
        PROVE  permission'[x] = IF x \in {a} THEN NoAccount ELSE permission[x]
    BY <1>4, <2>7, ZenonT(40) DEF close_reservation, Ungranted
  <2>8. binding.delegated
    BY <1>4 DEF close_reservation, EitherSigns, OwnerSigns, AuthorizerSigns
  <2>9. Exchange({a}, new)
    BY <1>4, <2>2, <2>5, <2>6, <2>7, <2>8, ZenonT(40) DEF close_reservation, Exchange, baseVars
  <2>10. new \in SUBSET (Private \ {"policy", "period"})
    BY DEF Private
  <2>11. QED
    BY <2>1, <2>2, <2>9, <2>10, ExchangeKeeps, ZenonT(40)
<1>5. QED
  BY <1>3, <1>4


-----------------------------------------------------------------------------
(* Steps that change who reads the card.                                    *)

\* The members become `members`, and the card's own two permissions follow.
Readmits(members) ==
    /\ policy'.members = members /\ members # <<>>
    /\ policy'.frozen = policy.frozen /\ policy'.recovery_state = policy.recovery_state
    /\ policy'.commit_seq = policy.commit_seq
    /\ policy.policy_version <= policy'.policy_version
    /\ SameCount(policy, policy')
    /\ \A x \in {"policy", "period"} : permission'[x] = members
    /\ \A x \in Private : x \notin {"policy", "period"} \cup Ephemerals =>
           permission'[x] = permission[x]
    /\ binding.delegated
    /\ UNCHANGED <<reservation, intent, guard, binding, commitment, actions>>

LEMMA ReadmitsKeeps ==
  ASSUME CardInv, TypedAfter, NEW members, Readmits(members)
  PROVE  LifeInv' /\ CommitmentAdvances
<1> USE DEF CardInv
<1>1. Ephemerals' = Ephemerals
  BY DEF Readmits, Ephemerals, Live
<1>2. RecoveryIsFrozen' /\ EphemeralsCounted'
  BY <1>1 DEF LifeInv, Readmits, SameCount, RecoveryIsFrozen, EphemeralsCounted
<1>3. PermissionsNeeded' /\ ReadersKnown' /\ Undelegated' /\ Unborn'
  BY <1>1, ZenonT(40) DEF LifeInv, Readmits, PermissionsNeeded, ReadersKnown, Undelegated, Unborn
<1>4. CommitsOrdered'
  <2>1. policy.policy_version \in Int /\ policy'.policy_version \in Int
    BY TypedNow, Widths DEF TypedAfter, CardPolicy, U32
  <2>2. \A x \in Commitments : x.policy_version \in Int
    BY TypedNow, Widths DEF Commitments, Checkpoints, U32
  <2>3. QED
    BY <2>1, <2>2 DEF LifeInv, Readmits, CommitsOrdered, Commitments
<1>5. CommitmentAdvances
  BY TypedNow, Widths DEF Readmits, CommitmentAdvances, Checkpoints, U32
<1>6. QED
  BY <1>2, <1>3, <1>4, <1>5, ZenonT(40) DEF LifeInv

LEMMA SetPolicyKept ==
  ASSUME CardInv, NEW args \in Terms, NEW by \in {{"owner"}, Parties}, set_policy(args, by)
  PROVE  Kept
<1> USE DEF CardInv
<1>1. TypedAfter
  BY SetPolicyTypes
<1> DEFINE members == Rotated(policy.members, args.authorizer)
<1>2. /\ policy.members \in Seq(Key) /\ 2 \in DOMAIN policy.members /\ policy.members # <<>>
      /\ args.authorizer \in Key
  BY TypedNow, PolicyTerms DEF set_policy, validate_policy_args, Terms
<1>3. members # <<>>
  <2>1. 2 \in DOMAIN members
    BY <1>2 DEF Rotated
  <2>2. DOMAIN <<>> = {}
    OBVIOUS
  <2> HIDE DEF members
  <2>3. QED
    BY <2>1, <2>2
<1>4. ASSUME policy.members[2] = args.authorizer PROVE members = policy.members
  <2>1. /\ members \in Seq(Key) /\ Len(members) = Len(policy.members)
        /\ \A j \in 1..Len(policy.members) : members[j] = policy.members[j]
    BY <1>2, <1>4, ExceptSeq DEF Rotated
  <2> HIDE DEF members
  <2>2. QED
    BY <1>2, <2>1, SeqEqual
<1> HIDE DEF members
<1>5. policy' = [policy EXCEPT !.terms = args, !.members = members,
                               !.policy_version = policy.policy_version + 1]
  BY DEF set_policy, members
<1>6. permission' = IF policy.members[2] # args.authorizer
                    THEN Granted({"policy", "period"}, members) ELSE permission
  BY DEF set_policy, sync_card_permissions, members
<1>7. \A x \in {"policy", "period"} : permission[x] = policy.members
  BY <1>2 DEF LifeInv, ReadersKnown
<1>8. /\ policy'.members = members /\ policy'.terms = args
      /\ policy'.frozen = policy.frozen /\ policy'.recovery_state = policy.recovery_state
      /\ policy'.commit_seq = policy.commit_seq
      /\ policy'.policy_version = policy.policy_version + 1
      /\ SameCount(policy, policy') /\ SameDebt(policy, policy')
  BY <1>5 DEF CardPolicy, SameCount, SameDebt
<1>9. \A x \in {"policy", "period"} : permission'[x] = members
  BY <1>4, <1>6, <1>7 DEF Granted, Private
<1>10. Readmits(members)
  <2>1. policy.policy_version <= policy'.policy_version
    BY TypedNow, <1>8, Widths DEF CardPolicy, U32
  <2>2. \A x \in Private : x \notin {"policy", "period"} => permission'[x] = permission[x]
    BY <1>6 DEF Granted
  <2>3. QED
    BY <1>3, <1>8, <1>9, <2>1, <2>2, ZenonT(40) DEF set_policy, Readmits, OwnerSigns, baseVars
<1>11. tx'.by = by
  BY OneSigner DEF set_policy
<1>12. OwnerAloneKeepsCredit
  <2>1. period'.reserved_cents = period.reserved_cents
        /\ period'.captured_cents = period.captured_cents
    BY DEF set_policy, FirstPeriod, CardPeriod
  <2>2. ASSUME by = {"owner"}, is_set PROVE ~CreditTermsChange(args)
    BY <2>2, ZenonT(40) DEF set_policy, CoSigned
  <2>3. policy.terms.budget_cents \in Int /\ policy.terms.period_seconds \in Int
    BY CommitNumbers
  <2>4. args.budget_cents \in Int /\ args.period_seconds \in Int
    BY Widths DEF Terms, U64, U32
  <2>5. QED
    BY <1>8, <1>11, <2>1, <2>2, <2>3, <2>4 DEF OwnerAloneKeepsCredit, SameDebt, CreditTermsChange
<1>13. AuthorizerAloneKeepsTerms
  <2>1. "owner" \in by /\ "owner" \notin {"authorizer"}
    BY DEF Parties
  <2>2. QED
    BY <1>11, <2>1, ZenonT(40) DEF AuthorizerAloneKeepsTerms
<1>14. QED
  BY <1>1, <1>10, <1>12, <1>13, ReadmitsKeeps DEF Kept

LEMMA ReaderKept ==
  ASSUME CardInv, NEW key \in Key
  PROVE  /\ init_permission(key) => Kept
         /\ \A listed : AddReader(key, listed) \/ RemoveReader(key, listed) => Kept
<1> USE DEF CardInv
<1>1. ASSUME NEW members, policy' = [policy EXCEPT !.members = members], members # <<>>,
             \A x \in {"policy", "period"} : permission'[x] = members,
             \A x \in Private : x \notin {"policy", "period"} \cup Ephemerals =>
                 permission'[x] = permission[x],
             OwnerSigns, tx'.by = {"owner"}, TypedAfter,
             UNCHANGED <<period, reservation, intent, guard, baseVars>>
      PROVE  Kept
  <2>1. /\ policy'.members = members /\ policy'.terms = policy.terms
        /\ policy'.frozen = policy.frozen /\ policy'.recovery_state = policy.recovery_state
        /\ policy'.commit_seq = policy.commit_seq
        /\ policy'.policy_version = policy.policy_version
        /\ SameCount(policy, policy') /\ SameDebt(policy, policy')
    BY <1>1 DEF CardPolicy, SameCount, SameDebt
  <2>2. policy.policy_version <= policy'.policy_version
    BY TypedNow, <2>1, Widths DEF CardPolicy, U32
  <2>3. Readmits(members)
    BY <1>1, <2>1, <2>2 DEF Readmits, OwnerSigns, baseVars
  <2>4. OwnerAloneKeepsCredit
    <3>1. policy.terms.budget_cents \in Int /\ policy.terms.period_seconds \in Int
      BY CommitNumbers
    <3>2. QED
      BY <1>1, <2>1, <3>1 DEF OwnerAloneKeepsCredit, SameDebt
  <2>5. QED
    BY <1>1, <2>3, <2>4, ReadmitsKeeps, ZenonT(40) DEF AuthorizerAloneKeepsTerms, Kept
<1>2. ASSUME init_permission(key) PROVE Kept
  <2> DEFINE members == IF policy.members = <<>> THEN <<Owner, key>> ELSE policy.members
  <2>1. members # <<>>
    OBVIOUS
  <2>2. /\ policy.members = <<>> => \A x \in {"policy", "period"} : permission[x] = NoAccount
        /\ policy.members # <<>> => \A x \in {"policy", "period"} : permission[x] = members
    BY DEF LifeInv, ReadersKnown
  <2>3. policy' = [policy EXCEPT !.members = members] /\ permission' = Created(members)
    BY <1>2 DEF init_permission
  <2>4. \A x \in {"policy", "period"} : permission'[x] = members
    BY <2>2, <2>3 DEF Created, Granted, Private
  <2>5. \A x \in Private : x \notin {"policy", "period"} => permission'[x] = permission[x]
    BY <2>3 DEF Created, Granted
  <2> HIDE DEF members
  <2>6. TypedAfter /\ tx'.by = {"owner"} /\ OwnerSigns
    BY <1>2, ReaderTypes, OneSigner DEF init_permission
  <2>7. UNCHANGED <<period, reservation, intent, guard, baseVars>>
    BY <1>2 DEF init_permission
  <2>8. QED
    BY <1>1, <2>1, <2>3, <2>4, <2>5, <2>6, <2>7, ZenonT(40)
<1>3. ASSUME NEW members, members # <<>>, NEW listed, MembersBecome(members, key, listed),
             OwnerSigns, TypedAfter
      PROVE  Kept
  <2>1. \A x \in {"policy", "period"} : permission'[x] = members
    BY <1>3 DEF MembersBecome, Granted, Private
  <2>2. \A x \in Private : x \notin {"policy", "period"} \cup Ephemerals =>
            permission'[x] = permission[x]
    BY <1>3 DEF MembersBecome, Granted
  <2>3. QED
    BY <1>1, <1>3, <2>1, <2>2, OneSigner DEF MembersBecome
<1>4. ASSUME NEW listed, AddReader(key, listed) PROVE Kept
  <2>1. Append(policy.members, key) # <<>>
    BY TypedNow, PolicyTerms, AppendProperties
  <2>2. QED
    BY <1>3, <1>4, <2>1, ReaderTypes, ZenonT(40) DEF AddReader
<1>5. ASSUME NEW listed, RemoveReader(key, listed) PROVE Kept
  <2>1. PICK i \in 3..Len(policy.members) : MembersBecome(Without(policy.members, i), key, listed)
    BY <1>5 DEF RemoveReader
  <2>2. Without(policy.members, i) # <<>>
    <3>1. policy.members \in Seq(Key) /\ Len(policy.members) \in Nat
      BY TypedNow, PolicyTerms
    <3> DEFINE front == SubSeq(policy.members, 1, i - 1)
               rest == SubSeq(policy.members, i + 1, Len(policy.members))
    <3>2. front \in Seq(Key) /\ Len(front) = i - 1 /\ rest \in Seq(Key)
      BY <3>1, SubSeqProperties
    <3>3. Without(policy.members, i) = front \o rest
      BY DEF Without
    <3> HIDE DEF front, rest
    <3>4. Len(front \o rest) > 0
      <4>1. Len(front) \in Nat \ {0} /\ Len(rest) \in Nat
        BY <3>1, <3>2, LenProperties
      <4>2. Len(front \o rest) = Len(front) + Len(rest)
        BY <3>2, ConcatProperties, ZenonT(40)
      <4>3. QED
        BY <4>1, <4>2
    <3>5. Len(<<>>) = 0
      OBVIOUS
    <3>6. QED
      BY <3>3, <3>4, <3>5
  <2>3. QED
    BY <1>3, <1>5, <2>1, <2>2, ReaderTypes, ZenonT(40) DEF RemoveReader
<1>6. QED
  BY <1>2, <1>4, <1>5


-----------------------------------------------------------------------------
(* Freezes, recovery and checkpoints.                                       *)

\* Nothing but the flags, terms and numbering of the policy, and what is owed.
Settles ==
    /\ policy'.members = policy.members /\ SameCount(policy, policy')
    /\ policy'.recovery_state # "normal" => policy'.frozen
    /\ policy.commit_seq <= policy'.commit_seq
    /\ policy.policy_version <= policy'.policy_version
    /\ binding'.delegated = binding.delegated /\ binding'.status = binding.status
    /\ binding'.epoch = binding.epoch
    /\ binding.status # "none"
    /\ UNCHANGED <<reservation, intent, guard, permission>>

LEMMA SettlesKeeps ==
  ASSUME CardInv, TypedAfter, Settles
  PROVE  /\ RecoveryIsFrozen' /\ EphemeralsCounted' /\ PermissionsNeeded' /\ ReadersKnown'
         /\ Undelegated' /\ Unborn'
         /\ UNCHANGED <<commitment, actions>> => CommitsOrdered' /\ CommitmentAdvances
<1> USE DEF CardInv
<1>1. Ephemerals' = Ephemerals
  BY ZenonT(40) DEF Settles, Ephemerals, Live
<1>2. RecoveryIsFrozen' /\ EphemeralsCounted'
  BY <1>1, ZenonT(40) DEF LifeInv, Settles, SameCount, RecoveryIsFrozen, EphemeralsCounted
<1>3. PermissionsNeeded' /\ ReadersKnown' /\ Undelegated' /\ Unborn'
  BY <1>1 DEF LifeInv, Settles, PermissionsNeeded, ReadersKnown, Undelegated, Unborn
<1>4. ASSUME UNCHANGED <<commitment, actions>> PROVE CommitsOrdered' /\ CommitmentAdvances
  <2>1. /\ policy.policy_version \in Int /\ policy'.policy_version \in Int
        /\ policy.commit_seq \in Int /\ policy'.commit_seq \in Int
    <3>1. policy \in CardPolicy /\ policy' \in CardPolicy
      BY TypedNow, Zenon DEF TypedAfter
    <3>2. QED
      BY <3>1, PolicyNumbers, Zenon
  <2>2. \A x \in Commitments : x.policy_version \in Nat /\ x.seq \in Nat
    BY CommitNumbers, Zenon
  <2>3. CommitsOrdered'
    BY <1>4, <2>1, <2>2 DEF LifeInv, Settles, CommitsOrdered, Commitments
  <2>4. CommitmentAdvances
    BY <1>4, <2>2 DEF CommitmentAdvances, Commitments
  <2>5. QED
    BY <2>3, <2>4, ZenonT(40)
<1>5. QED
  BY <1>2, <1>3, <1>4, ZenonT(40)

LEMMA FreezeKept ==
  ASSUME CardInv
  PROVE  /\ \A who, reason : freeze(who, reason) => Kept
         /\ unfreeze => Kept
         /\ \A who : recovery_freeze(who) => Kept
         /\ \A digest : confirm_reconciled(digest) => Kept
<1> USE DEF CardInv
\* A flag of the policy changes; only the owner lifts a freeze.
<1>1. ASSUME TypedAfter, NEW frozen \in BOOLEAN, NEW reason, NEW state,
             policy' = [policy EXCEPT !.frozen = frozen, !.freeze_reason = reason,
                                      !.recovery_state = state],
             state # "normal" => frozen,
             tx'.by = {"owner"} \/ frozen,
             Ledgered \/ UNCHANGED <<binding, commitment, actions>>,
             binding.status # "none",
             UNCHANGED <<period, reservation, intent, guard, permission>>
      PROVE  Kept
  <2>1. /\ policy'.members = policy.members /\ policy'.terms = policy.terms
        /\ policy'.commit_seq = policy.commit_seq
        /\ policy'.policy_version = policy.policy_version
        /\ policy'.frozen = frozen /\ policy'.recovery_state = state
        /\ SameCount(policy, policy') /\ SameDebt(policy, policy')
    BY <1>1 DEF CardPolicy, SameCount, SameDebt
  <2>2. /\ binding'.delegated = binding.delegated /\ binding'.status = binding.status
        /\ binding'.epoch = binding.epoch /\ UNCHANGED <<commitment, actions>>
    BY TypedNow, <1>1 DEF Ledgered, Binding
  <2>3. Settles
    <3>1. /\ policy.commit_seq <= policy'.commit_seq
          /\ policy.policy_version <= policy'.policy_version
      BY <2>1, CommitNumbers
    <3>2. QED
      BY <1>1, <2>1, <2>2, <3>1, ZenonT(40) DEF Settles
  <2>4. OwnerAloneKeepsCredit
    <3>1. policy.terms.budget_cents \in Int /\ policy.terms.period_seconds \in Int
      BY CommitNumbers
    <3>2. QED
      BY <1>1, <2>1, <3>1 DEF OwnerAloneKeepsCredit, SameDebt
  <2>5. AuthorizerAloneKeepsTerms
    BY <1>1, <2>1, ZenonT(40) DEF AuthorizerAloneKeepsTerms
  <2>6. QED
    BY <1>1, <2>2, <2>3, <2>4, <2>5, SettlesKeeps, ZenonT(40) DEF LifeInv, Kept
<1>2. policy = [policy EXCEPT !.frozen = policy.frozen, !.freeze_reason = policy.freeze_reason,
                              !.recovery_state = policy.recovery_state]
      /\ policy.frozen \in BOOLEAN
  BY TypedNow, ZenonT(40) DEF CardPolicy
<1>3. policy.recovery_state # "normal" => policy.frozen
  BY DEF LifeInv, RecoveryIsFrozen
<1>4. \A who : Reaches(who) => binding.status # "none"
  BY SignersAreActive DEF LifeInv, Reaches, OwnerReaches
<1>5. ASSUME NEW who, NEW reason, freeze(who, reason) PROVE Kept
  <2>1. TypedAfter
    BY <1>5, FreezeTypes
  <2>2. CASE policy.frozen
    BY <1>1, <1>2, <1>3, <1>4, <1>5, <2>1, <2>2, ZenonT(40) DEF freeze
  <2>3. CASE ~policy.frozen
    <3>1. policy' = [policy EXCEPT !.frozen = TRUE, !.freeze_reason = reason,
                                   !.recovery_state = policy.recovery_state]
      BY <1>5, <2>3, ZenonT(40) DEF freeze, Frozen, CardPolicy
    <3>2. QED
      BY <1>1, <1>4, <1>5, <2>1, <3>1, ZenonT(40) DEF freeze
  <2>4. QED
    BY <2>2, <2>3
<1>6. ASSUME unfreeze PROVE Kept
  <2>1. TypedAfter /\ tx'.by = {"owner"}
    BY <1>6, FreezeTypes, OneSigner DEF unfreeze
  <2>2. policy' = [policy EXCEPT !.frozen = FALSE, !.freeze_reason = "none",
                                 !.recovery_state = policy.recovery_state]
    BY <1>6 DEF unfreeze, CardPolicy
  <2>3. policy.recovery_state = "normal" /\ binding.status # "none"
    BY <1>6 DEF unfreeze, MayUnfreeze, OwnerReaches
  <2>4. QED
    BY <1>1, <1>6, <2>1, <2>2, <2>3, ZenonT(40) DEF unfreeze
<1>7. ASSUME NEW who, recovery_freeze(who) PROVE Kept
  <2>1. TypedAfter
    BY <1>7, FreezeTypes
  <2>2. policy' = [policy EXCEPT !.frozen = TRUE, !.freeze_reason = "recovery",
                                 !.recovery_state = "frozen"]
    BY <1>7 DEF recovery_freeze, Frozen, CardPolicy
  <2>3. QED
    BY <1>1, <1>4, <1>7, <2>1, <2>2, ZenonT(40) DEF recovery_freeze
<1>8. ASSUME NEW digest, confirm_reconciled(digest) PROVE Kept
  <2>1. TypedAfter /\ tx'.by = {"owner"} /\ binding.status # "none"
    BY <1>8, FreezeTypes, OneSigner, SignersAreActive DEF LifeInv, confirm_reconciled
  <2>2. policy' = [policy EXCEPT !.frozen = policy.frozen, !.freeze_reason = policy.freeze_reason,
                                 !.recovery_state = "normal"]
    BY <1>8, ZenonT(40) DEF confirm_reconciled, CardPolicy
  <2>3. QED
    BY <1>1, <1>2, <1>8, <2>1, <2>2, ZenonT(40) DEF confirm_reconciled, baseVars
<1>9. QED
  BY <1>5, <1>6, <1>7, <1>8

\* A restore is signed by both, so it may rewrite everything but the freeze.
LEMMA RestoreKept ==
  ASSUME CardInv, NEW args \in RestoreArgs, restore(args)
  PROVE  Kept
<1> USE DEF CardInv
<1>1. TypedAfter /\ tx'.by = {"owner", "authorizer"} /\ binding.status # "none"
  BY RestoreTypes, OneSigner, SignersAreActive, ZenonT(40) DEF LifeInv, restore
<1>2. /\ policy'.members = policy.members /\ SameCount(policy, policy')
      /\ policy'.frozen /\ policy'.commit_seq = policy.commit_seq
      /\ policy'.policy_version = policy.policy_version + 1
  BY TypedNow, ZenonT(40) DEF restore, RestoredPolicy, Frozen, CardPolicy, SameCount
<1>3. /\ policy.commit_seq <= policy'.commit_seq
      /\ policy.policy_version <= policy'.policy_version
  BY <1>2, CommitNumbers
<1>4. Settles
  BY <1>1, <1>2, <1>3, ZenonT(40) DEF restore, Settles, baseVars
<1>5. UNCHANGED <<commitment, actions>>
  BY DEF restore, baseVars
<1>6. OwnerAloneKeepsCredit /\ AuthorizerAloneKeepsTerms
  <2>1. {"owner", "authorizer"} # {"owner"} /\ {"owner", "authorizer"} # {"authorizer"}
    <3>1. "owner" \in {"owner", "authorizer"} /\ "authorizer" \in {"owner", "authorizer"}
          /\ "owner" \notin {"authorizer"} /\ "authorizer" \notin {"owner"}
      OBVIOUS
    <3>2. QED
      BY <3>1, ZenonT(40)
  <2>2. QED
    BY <1>1, <2>1, ZenonT(40) DEF OwnerAloneKeepsCredit, AuthorizerAloneKeepsTerms
<1>7. QED
  BY <1>1, <1>4, <1>5, <1>6, SettlesKeeps, ZenonT(40) DEF LifeInv, Kept

LEMMA CheckpointKept ==
  ASSUME CardInv
  PROVE  /\ checkpoint => Kept
         /\ \A action \in actions : write_commitment(action) => Kept
<1> USE DEF CardInv
<1>1. /\ \A x \in Commitments : /\ x.policy_version \in Int /\ x.seq \in Int /\ x.epoch \in Int
      /\ policy.policy_version \in Int /\ policy.commit_seq \in Int /\ binding.epoch \in Int
  BY CommitNumbers
<1>2. ASSUME checkpoint PROVE Kept
  <2>1. TypedAfter /\ tx'.by = {"authorizer"} /\ binding.delegated /\ binding.status # "none"
    BY <1>2, CheckpointTypes, OneSigner, SignersAreActive DEF LifeInv, checkpoint, AuthorizerSigns
  <2>2. /\ SameCount(policy, policy') /\ policy'.terms = policy.terms
        /\ policy'.members = policy.members /\ policy'.frozen = policy.frozen
        /\ policy'.recovery_state = policy.recovery_state
        /\ policy'.policy_version = policy.policy_version
        /\ policy'.commit_seq = policy.commit_seq + 1
    BY <1>2 DEF checkpoint, CardPolicy, SameCount
  <2>3. Settles
    BY <1>1, <1>2, <2>1, <2>2 DEF LifeInv, RecoveryIsFrozen, checkpoint, Settles
  <2> DEFINE c == Checkpointed
  <2>4. /\ c.epoch = binding.epoch /\ c.seq = policy.commit_seq + 1
        /\ c.policy_version = policy.policy_version
    BY DEF Checkpointed
  <2>5. Commitments' = Commitments \cup {c}
    BY <1>2 DEF checkpoint, Commitments
  <2> HIDE DEF c
  <2>6. CommitsOrdered'
    <3>1. \A x \in Commitments : x.epoch <= binding.epoch
      BY DEF LifeInv, CommitsOrdered
    <3>2. \A x \in Commitments : x.epoch = binding.epoch =>
              x.seq <= policy.commit_seq /\ x.policy_version <= policy.policy_version
      BY <2>1 DEF LifeInv, CommitsOrdered
    <3>3. \A x, y \in Commitments : x.epoch = y.epoch /\ x.seq <= y.seq =>
              x.policy_version <= y.policy_version
      BY DEF LifeInv, CommitsOrdered
    <3>4. binding' = binding
      BY <1>2 DEF checkpoint
    <3>5. \A x \in Commitments' : x.epoch <= binding.epoch
      <4>1. binding.epoch <= binding.epoch
        BY <1>1
      <4>2. QED
        BY <2>4, <2>5, <3>1, <4>1, ZenonT(40)
    <3>6. \A x \in Commitments' : x.epoch = binding.epoch =>
              x.seq <= policy'.commit_seq /\ x.policy_version <= policy'.policy_version
      <4>1. \A x \in Commitments \cup {c} : x.epoch = binding.epoch =>
                x.seq <= policy.commit_seq + 1 /\ x.policy_version <= policy.policy_version
        <5>1. \A x \in Commitments : x.seq \in Int /\ x.policy_version \in Int
          BY <1>1, Zenon
        <5>2. policy.commit_seq \in Int /\ policy.policy_version \in Int
          BY <1>1, Zenon
        <5>3. QED
          BY <2>4, <3>2, <5>1, <5>2
      <4>2. QED
        BY <2>2, <2>5, <4>1, ZenonT(40)
    <3>7. \A x, y \in Commitments' : x.epoch = y.epoch /\ x.seq <= y.seq =>
              x.policy_version <= y.policy_version
      BY <1>1, <2>4, <2>5, <3>2, <3>3
    <3>8. QED
      BY <3>4, <3>5, <3>6, <3>7, ZenonT(40) DEF CommitsOrdered
  <2>7. OwnerAloneKeepsCredit
    BY <2>1, ZenonT(40) DEF OwnerAloneKeepsCredit
  <2>8. AuthorizerAloneKeepsTerms
    BY <2>2 DEF AuthorizerAloneKeepsTerms
  <2>9. CommitmentAdvances
    <3>1. commitment \in Commitments /\ commitment' = commitment
      BY <1>2 DEF Commitments, checkpoint
    <3>2. QED
      BY <1>1, <3>1 DEF CommitmentAdvances
  <2>10. QED
    BY <2>1, <2>3, <2>6, <2>7, <2>8, <2>9, SettlesKeeps, ZenonT(40) DEF LifeInv, Kept
<1>3. ASSUME NEW action \in actions, write_commitment(action) PROVE Kept
  <2>1. action \in Commitments /\ commitment \in Commitments /\ Commitments' \subseteq Commitments
    BY <1>3 DEF write_commitment, Commitments
  <2>2. UNCHANGED <<binding, policy, period, reservation, intent, guard, permission, actions>>
        /\ commitment' = action /\ action.seq > commitment.seq
    BY <1>3 DEF write_commitment, Newer
  <2>3. CommitsOrdered'
    BY <2>1, <2>2 DEF LifeInv, CommitsOrdered
  <2>4. CommitmentAdvances
    <3>1. action.epoch = commitment.epoch => commitment.policy_version <= action.policy_version
      <4>1. action.seq \in Int /\ commitment.seq \in Int
        BY <1>1, <2>1, Zenon
      <4>2. commitment.seq <= action.seq
        BY <2>2, <4>1
      <4>3. QED
        BY <2>1, <4>2, Zenon DEF LifeInv, CommitsOrdered
    <3>2. QED
      BY <1>1, <2>1, <2>2, <3>1, ZenonT(40) DEF CommitmentAdvances
  <2>5. Ephemerals' = Ephemerals
    BY <2>2 DEF Ephemerals, Live
  <2>6. /\ RecoveryIsFrozen' /\ EphemeralsCounted' /\ PermissionsNeeded' /\ ReadersKnown'
        /\ Undelegated' /\ Unborn'
    BY <2>2, <2>5, ZenonT(40) DEF LifeInv, RecoveryIsFrozen, EphemeralsCounted, PermissionsNeeded,
                      ReadersKnown, Undelegated, Unborn
  <2>7. tx'.by = {}
    BY <1>3, OneSigner, ZenonT(40) DEF write_commitment
  <2>8. OwnerAloneKeepsCredit /\ AuthorizerAloneKeepsTerms
    BY <2>7 DEF OwnerAloneKeepsCredit, AuthorizerAloneKeepsTerms
  <2>9. QED
    BY <2>3, <2>4, <2>6, <2>8, ZenonT(40) DEF LifeInv, Kept
<1>4. QED
  BY <1>2, <1>3, ZenonT(40)


-----------------------------------------------------------------------------
(* Creating, delegating, wiping and closing a card.                         *)

LEMMA SyncKept ==
  ASSUME CardInv, NEW x \in Ephemerals, NEW who, sync_permission(x, who)
  PROVE  Kept
<1> USE DEF CardInv
<1>1. TypedAfter
  BY LifeTypes, ZenonT(40)
<1>2. Ephemerals' = Ephemerals
  BY DEF sync_permission, Ephemerals, Live
<1>3. policy'.ephemeral_count = Cardinality(Ephemerals')
  BY <1>2 DEF sync_permission, LifeInv, EphemeralsCounted
<1>4. Exchange({}, {x})
  BY <1>2, <1>3, ZenonT(40) DEF sync_permission, Exchange, Granted, SameControl, SameDebt, EitherSigns,
                    OwnerSigns, AuthorizerSigns, baseVars
<1>5. x \in Private \ {"policy", "period"}
  BY EphemeralsNow
<1>6. QED
  BY <1>1, <1>4, <1>5, ExchangeKeeps, ZenonT(40)

\* Before the first delegation nothing is there, and after a wipe nothing is left.
LEMMA LifeKept ==
  ASSUME CardInv
  PROVE  /\ init_card \/ delegate_card \/ close_card => Kept
         /\ \A listed : wipe_card(listed) => Kept
<1> USE DEF CardInv
<1>1. /\ \A x \in Commitments : x.policy_version \in Int /\ x.epoch \in Int
      /\ binding.epoch \in Int /\ commitment \in Commitments
      /\ policy.terms.budget_cents \in Int /\ policy.terms.period_seconds \in Int
  BY CommitNumbers
<1>2. ASSUME init_card \/ delegate_card \/ close_card PROVE Kept
  <2>1. /\ UNCHANGED <<policy, period, reservation, intent, guard, permission, commitment, actions>>
        /\ tx'.by = {"owner"} /\ ~binding.delegated
    BY <1>2, OneSigner, ZenonT(40) DEF LifeInv, Unborn, init_card, delegate_card, close_card
  <2>2. Ephemerals' = Ephemerals /\ Commitments' = Commitments
    BY <2>1, ZenonT(40) DEF Ephemerals, Live, Commitments
  <2>3. /\ RecoveryIsFrozen' /\ EphemeralsCounted' /\ PermissionsNeeded' /\ ReadersKnown'
        /\ Undelegated'
    BY <2>1, <2>2 DEF LifeInv, RecoveryIsFrozen, EphemeralsCounted, PermissionsNeeded,
                      ReadersKnown, Undelegated
  <2>4. Unborn'
    BY TypedNow, <1>2, <2>1, ZenonT(40) DEF Unborn, init_card, delegate_card, close_card, Binding
  <2>5. CommitsOrdered'
    <3>1. \/ binding'.delegated = FALSE /\ binding'.epoch = binding.epoch
          \/ binding'.epoch = binding.epoch + 1
      BY TypedNow, <1>2, <2>1, ZenonT(40) DEF init_card, delegate_card, close_card, Binding
    <3>2. QED
      BY <1>1, <2>1, <2>2, <3>1 DEF LifeInv, CommitsOrdered
  <2>6. OwnerAloneKeepsCredit /\ AuthorizerAloneKeepsTerms /\ CommitmentAdvances
    BY <1>1, <2>1 DEF OwnerAloneKeepsCredit, AuthorizerAloneKeepsTerms, CommitmentAdvances
  <2>7. QED
    BY <2>3, <2>4, <2>5, <2>6, ZenonT(40) DEF LifeInv, Kept
<1>3. ASSUME NEW listed, wipe_card(listed) PROVE Kept
  <2>1. TypedAfter /\ tx'.by = {"owner"}
    BY <1>3, LifeTypes, OneSigner, ZenonT(40) DEF wipe_card
  <2>2. listed = Ephemerals
    <3>1. listed \subseteq Ephemerals /\ Cardinality(Ephemerals) <= Cardinality(listed)
      BY <1>3, ZenonT(40) DEF wipe_card, AllListed, LifeInv, EphemeralsCounted
    <3>2. Cardinality(listed) \in Nat /\ Cardinality(listed) <= Cardinality(Ephemerals)
      BY <3>1, EphemeralsNow, FS_Subset, FS_CardinalityType
    <3>3. QED
      BY <3>1, <3>2, EphemeralsNow, FS_Subset
  <2>3. Ephemerals' = {}
    <3>1. \A a \in AuthId : reservation'[a] = NoAccount
      BY <1>3, <2>2, EphemeralsNow DEF wipe_card
    <3>2. \A i \in IntentId : intent'[i] = NoAccount
      BY <1>3, <2>2, EphemeralsNow DEF wipe_card
    <3>3. guard' = NoAccount
      BY <1>3, <2>2, EphemeralsNow DEF wipe_card
    <3>4. QED
      BY <2>1, <3>1, <3>2, <3>3, EphemeralsNext, ZenonT(40)
  <2>4. /\ policy'.members = <<>> /\ policy'.ephemeral_count = 0
        /\ policy'.recovery_state = "normal" /\ policy'.statement_outstanding_cents = 0
        /\ period'.reserved_cents = 0
    BY <1>3 DEF wipe_card, zeroed_policy, zeroed_period
  <2>5. /\ binding'.delegated = FALSE /\ binding'.epoch = binding.epoch
        /\ binding'.status = binding.status /\ binding.status = "active"
        /\ UNCHANGED <<commitment, actions>>
    BY <1>3, SignersAreActive DEF LifeInv, wipe_card, Binding
  <2>6. \A x \in Private : permission'[x] = NoAccount
    BY <1>3, <2>2, ZenonT(40) DEF wipe_card, Ungranted, LifeInv, PermissionsNeeded
  <2>7. RecoveryIsFrozen' /\ EphemeralsCounted'
    BY <2>3, <2>4, FS_EmptySet DEF RecoveryIsFrozen, EphemeralsCounted
  <2>8. PermissionsNeeded' /\ ReadersKnown' /\ Undelegated' /\ Unborn'
    BY <2>3, <2>4, <2>5, <2>6, ZenonT(40)
       DEF PermissionsNeeded, ReadersKnown, Undelegated, Unborn, Private
  <2>9. CommitsOrdered' /\ CommitmentAdvances
    BY <1>1, <2>5 DEF LifeInv, CommitsOrdered, Commitments, CommitmentAdvances
  <2>10. OwnerAloneKeepsCredit /\ AuthorizerAloneKeepsTerms
    BY <1>3, <2>1, <2>4, <2>5, ZenonT(40)
       DEF wipe_card, OwnerAloneKeepsCredit, AuthorizerAloneKeepsTerms
  <2>11. QED
    BY <2>7, <2>8, <2>9, <2>10, ZenonT(40) DEF LifeInv, Kept
<1>4. QED
  BY <1>2, <1>3, ZenonT(40)

-----------------------------------------------------------------------------
(* The theorems.                                                            *)

LEMMA CardInit == Init => CardInv
<1> SUFFICES ASSUME Init PROVE CardInv
  OBVIOUS
<1>1. Typed
  BY TypedInit, ZenonT(40)
<1>2. Ephemerals = {}
  BY DEF Init, Ephemerals, Live
<1>3. RecoveryIsFrozen /\ EphemeralsCounted
  BY <1>2, FS_EmptySet, ZenonT(40) DEF Init, zeroed_policy, RecoveryIsFrozen, EphemeralsCounted
<1>4. PermissionsNeeded /\ ReadersKnown /\ Undelegated /\ Unborn
  BY <1>2, ZenonT(40) DEF Init, zeroed_policy, PermissionsNeeded, ReadersKnown, Undelegated, Unborn, Private
<1>5. CommitsOrdered
  BY DEF Init, CommitsOrdered, Commitments
<1>6. QED
  BY <1>1, <1>3, <1>4, <1>5 DEF CardInv, LifeInv

\* One case per instruction.
LEMMA CardStep == CardInv /\ Next => Kept
<1> SUFFICES ASSUME CardInv, Next PROVE Kept
  OBVIOUS
<1>1. Typed /\ Unborn
  BY DEF CardInv, LifeInv
<1>2. /\ scene.auths \subseteq AuthId /\ scene.captures \subseteq CaptureId
      /\ scene.events \subseteq EventId /\ scene.digests \subseteq Digest
      /\ scene.keys \subseteq Key /\ scene.readers \subseteq Key
      /\ PolicyArgs \subseteq Terms /\ Cents \subseteq U64 /\ Refunds \subseteq U64
      /\ Units \subseteq Nat /\ Dispute \subseteq BOOLEAN
      /\ Cents \cup {0} \subseteq U64
  BY <1>1, SceneFacts, ZeroFits
<1>3. ASSUME Quiet PROVE Kept
  <2>1. TypedAfter
    <3>1. Typed'
      BY <1>1, TypedStep
    <3>2. scene' = scene
      BY DEF Next
    <3>3. MaxNow' = MaxNow /\ MaxEpoch' = MaxEpoch /\ MaxCommitSeq' = MaxCommitSeq
      BY <3>2 DEF MaxNow, MaxEpoch, MaxCommitSeq
    <3>4. CardPolicy' = CardPolicy /\ Checkpoints' = Checkpoints
      BY <3>3, ZenonT(40) DEF CardPolicy, Checkpoints
    <3>5. QED
      BY <3>1, <3>3, <3>4 DEF Typed, TypeOK, CardAccountsType, TypedAfter, Binding
  <2>2. QED
    BY <1>3, <2>1, QuietKeeps, ZenonT(40)
<1>4. ASSUME OwnerStep PROVE Kept
  <2>1. ASSUME NEW args \in PolicyArgs, NEW by \in {{"owner"}, Parties}, set_policy(args, by)
        PROVE  Kept
    BY <1>2, <2>1, SetPolicyKept, ZenonT(40)
  <2>2. ASSUME \/ \E id \in scene.events : resolve_exception(id)
               \/ \E d \in scene.digests, units \in Units : repay_statement(d, units)
        PROVE  Kept
    BY <1>1, <1>2, <1>3, <2>2, OthersQuiet, ZenonT(40)
  <2>3. QED
    BY <1>2, <1>4, <2>1, <2>2, LifeKept, ReaderKept, FreezeKept, RestoreKept, ZenonT(40) DEF OwnerStep
<1>5. ASSUME IssuerStep PROVE Kept
  <2>1. ASSUME NEW a \in scene.auths, NEW i \in IntentId, NEW n \in Cents, NEW m \in Merchant,
               NEW c \in Mcc, NEW ch \in Channel,
               authorize(a, i, n, m, c, ch.recurring, ch.single)
        PROVE  Kept
    <3>1. ch.recurring \in BOOLEAN /\ ch.single \in BOOLEAN
      BY <1>1, SceneFacts, ZenonT(40)
    <3>2. QED
      BY <1>2, <2>1, <3>1, HoldKept, ZenonT(40)
  <2>2. ASSUME NEW a \in scene.auths \cup {NoAuth}, NEW n, NEW id \in scene.events, NEW kind,
               \/ n \in Refunds /\ refund(a, n, id)
               \/ n \in Cents /\ record_exception(a, n, id, kind)
        PROVE  Kept
    BY <1>1, <1>2, <1>3, <2>2, CreditQuiet, ZenonT(40)
  <2>3. ASSUME NEW a \in scene.auths,
               \/ \E n \in Cents \cup {0} : adjust_reservation(a, n)
               \/ \E n \in Cents, id \in scene.captures : capture(a, n, id)
               \/ \E n \in Cents, id \in scene.events, reason \in {"reversed", "expired"} :
                      reverse(a, n, reason, id)
               \/ \E opened \in Dispute, id \in scene.events : record_dispute(a, opened, id)
        PROVE  Kept
    BY <1>1, <1>2, <1>3, <2>3, HoldsQuiet, ZenonT(40)
  <2>4. ASSUME \/ \E d \in scene.digests, n \in Cents :
                      record_repayment(d, n) \/ record_private_repayment(d, n)
               \/ \E listed \in SUBSET Live(reservation) : roll_period(listed)
        PROVE  Kept
    BY <1>1, <1>2, <1>3, <2>4, OthersQuiet, ZenonT(40)
  <2>5. QED
    BY <1>5, <2>1, <2>2, <2>3, <2>4, IntentKept, CheckpointKept, ZenonT(40) DEF IssuerStep
<1>6. ASSUME EitherStep PROVE Kept
  <2>1. ASSUME NEW i \in IntentId, NEW who, cancel_checkout_intent(i, who) PROVE Kept
    BY <1>1, <1>3, <2>1, OthersQuiet, ZenonT(40)
  <2>2. QED
    BY <1>2, <1>6, <2>1, IntentKept, HoldKept, SyncKept, FreezeKept, ZenonT(40) DEF EitherStep
<1>7. ASSUME Tick PROVE Kept
  BY <1>1, <1>3, <1>7, OthersQuiet
<1>8. QED
  BY <1>4, <1>5, <1>6, <1>7, CheckpointKept DEF Next

LEMMA CardInvStep == CardInv /\ [Next]_vars => CardInv'
<1> SUFFICES ASSUME CardInv, [Next]_vars PROVE CardInv'
  OBVIOUS
<1>1. Typed'
  BY TypedStep DEF CardInv
<1>2. CASE Next
  BY <1>1, <1>2, CardStep DEF CardInv, Kept
<1>3. CASE UNCHANGED vars
  <2>1. Ephemerals' = Ephemerals
    BY <1>3, ZenonT(40) DEF vars, Ephemerals, Live
  <2>2. LifeInv'
    BY <1>3, <2>1, ZenonT(40) DEF vars, CardInv, LifeInv, RecoveryIsFrozen, EphemeralsCounted,
        PermissionsNeeded, ReadersKnown, Undelegated, Unborn, CommitsOrdered, Commitments
  <2>3. QED
    BY <1>1, <2>2 DEF CardInv
<1>4. QED
  BY <1>2, <1>3, ZenonT(40)

\* A card in recovery stays frozen until it was restored, confirmed and unfrozen:
\* no other freeze, unfreeze or policy change interleaves past it (freeze.rs).
THEOREM CardRecoveryIsFrozen == Spec => []RecoveryIsFrozen
<1>1. CardInv => RecoveryIsFrozen
  BY DEF CardInv, LifeInv
<1>2. QED
  BY <1>1, CardInit, CardInvStep, PTL DEF Spec

\* Who may read a card is who is a member of it now, and a wiped card leaves no
\* account and no permission behind: the caller's list of ephemerals is complete
\* exactly when it is as long as ephemeral_count says (permission.rs, wipe_card).
THEOREM CardPermissionsAreSound == Spec => []PermissionsAreSound
<1>1. CardInv => PermissionsAreSound
  <2> SUFFICES ASSUME CardInv PROVE PermissionsAreSound
    OBVIOUS
  <2>1. NothingStranded
    BY DEF CardInv, LifeInv, NothingStranded, Undelegated, PermissionsNeeded, ReadersKnown
  <2>2. CardPermissionsCurrent
    <3>1. Len(<<>>) = 0
      OBVIOUS
    <3>2. QED
      BY <3>1 DEF CardInv, LifeInv, ReadersKnown, CardPermissionsCurrent
  <2>3. QED
    BY <2>1, <2>2 DEF PermissionsAreSound
<1>2. QED
  BY <1>1, CardInit, CardInvStep, PTL DEF Spec

\* One signature alone never does the other party's part: the owner cannot touch
\* the debt, the counters or the credit terms, nor the authorizer the terms, the
\* readers or a freeze (set_policy.rs, freeze.rs, card.rs).
THEOREM CardPowersAreSeparate == Spec => PowersAreSeparate
<1>1. CardInv /\ [Next]_vars => [OwnerAloneKeepsCredit /\ AuthorizerAloneKeepsTerms]_vars
  BY CardStep DEF Kept
<1>2. QED
  BY <1>1, CardInit, CardInvStep, PTL DEF Spec, PowersAreSeparate

\* While a card is delegated once, the public commitment never goes back to an
\* older policy, in whatever order its scheduled actions run (commitment.rs).
THEOREM CardCommitmentNeverRewinds == Spec => CommitmentNeverRewinds
<1>1. CardInv /\ [Next]_vars => [CommitmentAdvances]_vars
  BY CardStep DEF Kept
<1>2. QED
  BY <1>1, CardInit, CardInvStep, PTL DEF Spec, CommitmentNeverRewinds
=============================================================================
