--------------------------- MODULE CardSpendProofs ---------------------------
(***************************************************************************)
(* What a card may spend, for every budget, fee, ring size and number of    *)
(* purchases: open holds hold money, a closed authorization stays in the    *)
(* guard alone, and neither the budget nor an intent is overrun unflagged.  *)
(***************************************************************************)
EXTENDS CardTypes

\* OpenIffHeld and IntentCapsSpend, of one hold.
OpenHold(r) == r.state \in OpenStates <=> r.amount_reserved_cents > 0

CappedHold(r) ==
    r.captured_cents + r.amount_reserved_cents > r.max_amount_cents
        => r.flags \cap {"over_capture", "late_capture"} # {}

\* Nothing is spent before there is a policy.
Unspent == ~is_set => period.captured_cents = 0 /\ period.reserved_cents = 0

Overrun == "over_hold" \in scene.exceptions \/ scene.restores # {}
Unreviewed == scene.exceptions \cap Unflagged # {}

Spending ==
    /\ OpenIffHeld
    /\ Unspent
    /\ ~Overrun => CommittedWithinBudget
    /\ ~Unreviewed => IntentCapsSpend

SpendInv == Typed /\ Spending /\ GuardIsExact

-----------------------------------------------------------------------------
(* Edits of one hold.                                                       *)

LEMMA HoldCents ==
  ASSUME NEW r \in Reservation
  PROVE  /\ r.amount_reserved_cents \in Nat /\ r.captured_cents \in Nat
         /\ r.max_amount_cents \in Nat
BY Widths DEF Reservation, U64

LEMMA HoldsStayOpen ==
  ASSUME NEW r \in Reservation, OpenHold(r), NEW n \in U64
  PROVE  /\ r.state \in OpenStates =>
                OpenHold(HoldSet(r, n, "reversed")) /\ OpenHold(HoldSet(r, n, "expired"))
         /\ \A id : OpenHold(Captured(r, n, id))
         /\ OpenHold(Expired(r))
         /\ OpenHold(Refunded(r, n))
         /\ \A kind : OpenHold(Debited(r, n, kind))
         /\ r.state \in OpenStates =>
                OpenHold([r EXCEPT !.amount_reserved_cents = r.amount_reserved_cents + n])
         /\ \A opened : OpenHold([r EXCEPT !.disputed = opened])
<1>1. n \in Nat
  BY Widths DEF U64
<1>2. ASSUME r.state \in OpenStates, NEW o \in {"reversed", "expired"}
      PROVE  OpenHold(HoldSet(r, n, o))
  <2>1. /\ HoldSet(r, n, o).amount_reserved_cents = n
        /\ HoldSet(r, n, o).state = IF n = 0 THEN SpentState(r, o) ELSE r.state
    BY DEF HoldSet, Reservation
  <2>2. SpentState(r, o) \notin OpenStates
    BY DEF SpentState, OpenStates
  <2>3. QED
    BY <1>1, <1>2, <2>1, <2>2 DEF OpenHold
<1>3. ASSUME NEW id PROVE OpenHold(Captured(r, n, id))
  <2> DEFINE hold == r.amount_reserved_cents - FromHold(r, n)
             state == IF ~OnHold(r) THEN r.state
                      ELSE IF hold = 0 THEN "captured" ELSE "partially_captured"
  <2>1. Captured(r, n, id).amount_reserved_cents = hold /\ Captured(r, n, id).state = state
    BY DEF Captured, Reservation
  <2>2. hold \in Nat /\ (~OnHold(r) => hold = r.amount_reserved_cents)
    BY <1>1, HoldCents DEF FromHold, Lesser
  <2> HIDE DEF hold
  <2>3. QED
    BY <2>1, <2>2 DEF OpenHold, OnHold, OpenStates
<1>4. OpenHold(Expired(r)) /\ OpenHold(Refunded(r, n))
  BY DEF OpenHold, Expired, Refunded, Reservation, OpenStates
<1>5. ASSUME NEW kind PROVE OpenHold(Debited(r, n, kind))
  BY DEF OpenHold, Debited, Reservation
<1>6. ASSUME r.state \in OpenStates
      PROVE  OpenHold([r EXCEPT !.amount_reserved_cents = r.amount_reserved_cents + n])
  <2>1. r.amount_reserved_cents + n > 0
    BY <1>1, <1>6, HoldCents DEF OpenHold
  <2>2. QED
    BY <1>6, <2>1 DEF OpenHold, Reservation
<1>7. ASSUME NEW opened PROVE OpenHold([r EXCEPT !.disputed = opened])
  BY DEF OpenHold, Reservation
<1>8. QED
  BY <1>2, <1>3, <1>4, <1>5, <1>6, <1>7

LEMMA HoldsStayCapped ==
  ASSUME NEW r \in Reservation, CappedHold(r), NEW n \in U64
  PROVE  /\ \A o : \/ n <= r.amount_reserved_cents
                   \/ n + r.captured_cents <= r.max_amount_cents
                => CappedHold(HoldSet(r, n, o))
         /\ \A id : CappedHold(Captured(r, n, id))
         /\ CappedHold(Expired(r))
         /\ CappedHold(Refunded(r, n))
         /\ CappedHold(Debited(r, n, "over_capture"))
         /\ \A opened : CappedHold([r EXCEPT !.disputed = opened])
<1>1. n \in Nat
  BY Widths DEF U64
<1> USE HoldCents
<1>2. ASSUME NEW o, n <= r.amount_reserved_cents \/ n + r.captured_cents <= r.max_amount_cents
      PROVE  CappedHold(HoldSet(r, n, o))
  <2>1. /\ HoldSet(r, n, o).amount_reserved_cents = n
        /\ HoldSet(r, n, o).captured_cents = r.captured_cents
        /\ HoldSet(r, n, o).max_amount_cents = r.max_amount_cents
        /\ HoldSet(r, n, o).flags = r.flags
    BY DEF HoldSet, Reservation
  <2>2. QED
    BY <1>1, <1>2, <2>1 DEF CappedHold
<1>3. ASSUME NEW id PROVE CappedHold(Captured(r, n, id))
  <2>1. /\ Captured(r, n, id).amount_reserved_cents = r.amount_reserved_cents - FromHold(r, n)
        /\ Captured(r, n, id).captured_cents = r.captured_cents + n
        /\ Captured(r, n, id).max_amount_cents = r.max_amount_cents
        /\ Captured(r, n, id).flags = r.flags \cup {f \in {"over_capture"} : Excess(r, n)}
                                              \cup {f \in {"late_capture"} : ~OnHold(r)}
    BY DEF Captured, Reservation
  <2>2. FromHold(r, n) \in Nat
    BY <1>1 DEF FromHold, Lesser
  <2>3. CASE OnHold(r) /\ ~Excess(r, n)
    <3>1. n <= FromHold(r, n)
      BY <1>1, <2>2, <2>3 DEF Excess
    <3>2. (r.captured_cents + n) + (r.amount_reserved_cents - FromHold(r, n))
              <= r.captured_cents + r.amount_reserved_cents
      BY <1>1, <2>2, <3>1
    <3>3. (r.captured_cents + n) + (r.amount_reserved_cents - FromHold(r, n))
              > r.max_amount_cents
          => r.captured_cents + r.amount_reserved_cents > r.max_amount_cents
      BY <1>1, <2>2, <3>2
    <3>4. QED
      BY <2>1, <3>3 DEF CappedHold
  <2>4. CASE Excess(r, n)
    BY <2>1, <2>4 DEF CappedHold
  <2>5. CASE ~OnHold(r)
    BY <2>1, <2>5, Zenon DEF CappedHold
  <2>6. QED
    BY <2>3, <2>4, <2>5
<1>4. CappedHold(Expired(r))
  <2>1. /\ Expired(r).amount_reserved_cents = 0
        /\ Expired(r).captured_cents = r.captured_cents
        /\ Expired(r).max_amount_cents = r.max_amount_cents /\ Expired(r).flags = r.flags
    BY DEF Expired, Reservation
  <2>2. QED
    BY <2>1 DEF CappedHold
<1>5. CappedHold(Refunded(r, n)) /\ \A opened : CappedHold([r EXCEPT !.disputed = opened])
  BY DEF CappedHold, Refunded, Reservation
<1>6. CappedHold(Debited(r, n, "over_capture"))
  BY Zenon DEF CappedHold, Debited, Reservation
<1>7. QED
  BY <1>2, <1>3, <1>4, <1>5, <1>6

-----------------------------------------------------------------------------
(* The invariant as a fact about every hold, before and after a step.        *)

LEMMA HoldsNow ==
  ASSUME Typed
  PROVE  /\ Live(reservation) = {x \in AuthId : reservation[x] # NoAccount}
         /\ \A x \in Live(reservation) : reservation[x] \in Reservation
BY TypedNow DEF Live

LEMMA HoldsNext ==
  ASSUME TypedAfter
  PROVE  /\ Live(reservation)' = {x \in AuthId : reservation'[x] # NoAccount}
         /\ \A x \in Live(reservation)' : reservation'[x] \in Reservation
BY DEF TypedAfter, Live

LEMMA OpenIffHeldIs ==
  /\ OpenIffHeld <=> \A x \in Live(reservation) : OpenHold(reservation[x])
  /\ IntentCapsSpend <=> \A x \in Live(reservation) : CappedHold(reservation[x])
BY DEF OpenIffHeld, OpenHold, IntentCapsSpend, CappedHold

LEMMA OpenIffHeldNext ==
  /\ OpenIffHeld' <=> \A x \in Live(reservation)' : OpenHold(reservation'[x])
  /\ IntentCapsSpend' <=> \A x \in Live(reservation)' : CappedHold(reservation'[x])
BY DEF OpenIffHeld, OpenHold, IntentCapsSpend, CappedHold


HoldsFine == OpenIffHeld /\ (~Unreviewed => IntentCapsSpend) /\ GuardIsExact
BudgetFine == Unspent /\ (~Overrun => CommittedWithinBudget)

\* A step that opens and closes no hold keeps the holds fine when it keeps each.
LEMMA EditedHolds ==
  ASSUME SpendInv, TypedAfter, HoldsKept, guard' = guard, scene' = scene,
         \A x \in Live(reservation) : OpenHold(reservation'[x]),
         ~Unreviewed => \A x \in Live(reservation) : CappedHold(reservation'[x])
  PROVE  HoldsFine'
<1>1. Live(reservation)' = Live(reservation)
  BY HoldsNow, HoldsNext DEF HoldsKept, SpendInv
<1>2. OpenIffHeld' /\ (~Unreviewed' => IntentCapsSpend')
  BY <1>1, OpenIffHeldNext DEF Unreviewed
<1>3. GuardIsExact'
  BY <1>1 DEF SpendInv, GuardIsExact, InRing
<1>4. QED
  BY <1>2, <1>3 DEF HoldsFine

LEMMA SameHolds ==
  ASSUME SpendInv, UNCHANGED <<reservation, guard, scene>>
  PROVE  HoldsFine'
<1>1. Live(reservation)' = Live(reservation)
  BY DEF Live
<1>2. OpenIffHeld' /\ (~Unreviewed' => IntentCapsSpend')
  BY <1>1, OpenIffHeldIs, OpenIffHeldNext DEF SpendInv, Spending, Unreviewed
<1>3. GuardIsExact'
  BY <1>1 DEF SpendInv, GuardIsExact, InRing
<1>4. QED
  BY <1>2, <1>3 DEF HoldsFine

\* One hold becomes `r`.
LEMMA OneHold ==
  ASSUME SpendInv, TypedAfter, HoldsKept, guard' = guard, scene' = scene,
         NEW a \in Live(reservation), NEW r, OpenHold(r), ~Unreviewed => CappedHold(r),
         reservation' = [reservation EXCEPT ![a] = r]
  PROVE  HoldsFine'
<1>1. \A x \in Live(reservation) : reservation'[x] = IF x = a THEN r ELSE reservation[x]
  BY TypedNow, HoldsNow DEF SpendInv
<1>2. \A x \in Live(reservation) : OpenHold(reservation'[x])
  BY <1>1, OpenIffHeldIs DEF SpendInv, Spending
<1>3. ASSUME ~Unreviewed PROVE \A x \in Live(reservation) : CappedHold(reservation'[x])
  BY <1>1, <1>3, OpenIffHeldIs DEF SpendInv, Spending
<1>4. QED
  BY <1>2, <1>3, EditedHolds

LEMMA Counters ==
  ASSUME Typed
  PROVE  /\ period.captured_cents \in Nat /\ period.reserved_cents \in Nat
         /\ policy.terms.budget_cents \in Nat
BY TypedNow, PolicyTerms, Widths DEF CardPeriod, U64

LEMMA CountersNext ==
  ASSUME TypedAfter
  PROVE  period'.captured_cents \in Nat /\ period'.reserved_cents \in Nat
BY Widths DEF TypedAfter, CardPeriod, U64

\* Under the same terms, spending less, or within the budget, keeps the budget fine.
LEMMA BudgetStep ==
  ASSUME SpendInv, TypedAfter, scene' = scene, policy'.terms = policy.terms,
         \/ period'.captured_cents + period'.reserved_cents
                <= period.captured_cents + period.reserved_cents
         \/ /\ is_set
            /\ \/ Overrun
               \/ period'.captured_cents + period'.reserved_cents <= policy.terms.budget_cents
  PROVE  BudgetFine'
<1> DEFINE spent == period.captured_cents + period.reserved_cents
           after == period'.captured_cents + period'.reserved_cents
<1>1. is_set' = is_set /\ Overrun' = Overrun
  BY DEF is_set, Overrun
<1>2. /\ period.captured_cents \in Nat /\ period.reserved_cents \in Nat
      /\ period'.captured_cents \in Nat /\ period'.reserved_cents \in Nat
      /\ policy.terms.budget_cents \in Nat
  BY Counters, CountersNext DEF SpendInv
<1>3. ASSUME ~is_set PROVE period'.captured_cents = 0 /\ period'.reserved_cents = 0
  BY <1>2, <1>3 DEF SpendInv, Spending, Unspent
<1>4. ASSUME is_set, ~Overrun PROVE after <= policy.terms.budget_cents
  BY <1>2, <1>4 DEF SpendInv, Spending, CommittedWithinBudget
<1>5. QED
  BY <1>1, <1>3, <1>4 DEF BudgetFine, Unspent, CommittedWithinBudget


-----------------------------------------------------------------------------
(* One lemma per group of instructions.                                     *)

Fine == HoldsFine /\ BudgetFine

\* Released never adds to what is held.
LEMMA ReleasedCents ==
  ASSUME NEW pd \in CardPeriod, NEW n
  PROVE  /\ Released(pd, n).captured_cents = pd.captured_cents
         /\ Released(pd, n).reserved_cents \in Nat
         /\ Released(pd, n).reserved_cents <= pd.reserved_cents
<1>1. pd.reserved_cents \in Nat
  BY Widths DEF CardPeriod, U64
<1>2. Saturating(pd.reserved_cents, n) \in Nat
      /\ Saturating(pd.reserved_cents, n) <= pd.reserved_cents
  BY <1>1 DEF Saturating
<1>3. QED
  BY <1>2, ZeroFits, PeriodEdits

LEMMA AdjustFine ==
  ASSUME SpendInv, scene' = scene, NEW a \in AuthId, NEW n \in U64, adjust_reservation(a, n)
  PROVE  Fine'
<1> USE DEF SpendInv
<1> DEFINE r == reservation[a]
           hold == r.amount_reserved_cents
<1>1. TypedAfter /\ HoldsKept
  BY HoldTypes
<1>2. /\ a \in Live(reservation) /\ r \in Reservation /\ r.state \in OpenStates
      /\ OpenHold(r) /\ (~Unreviewed => CappedHold(r)) /\ is_set
  BY HoldsNow, OpenIffHeldIs DEF Spending, adjust_reservation, AuthorizerSigns
<1>3. hold \in Nat /\ n \in Nat /\ r.captured_cents \in Nat /\ r.max_amount_cents \in Nat
  BY <1>2, HoldCents, Widths DEF U64
<1>4. HoldsFine'
  <2>1. n <= hold \/ n + r.captured_cents <= r.max_amount_cents
    BY <1>3 DEF adjust_reservation, IncreaseAllowed
  <2>2. /\ OpenHold(HoldSet(r, n, "reversed"))
        /\ ~Unreviewed => CappedHold(HoldSet(r, n, "reversed"))
    BY <1>2, <2>1, HoldsStayOpen, HoldsStayCapped, Zenon
  <2>3. reservation' = [reservation EXCEPT ![a] = HoldSet(r, n, "reversed")] /\ guard' = guard
    BY DEF adjust_reservation
  <2>4. QED
    BY <1>1, <1>2, <2>2, <2>3, OneHold, Zenon
<1>5. BudgetFine'
  <2>1. policy' = policy
    BY DEF adjust_reservation
  <2>2. CASE n > hold
    <3>1. n - hold <= available
      BY <2>2 DEF adjust_reservation, IncreaseAllowed
    <3>2. period' = [period EXCEPT !.reserved_cents = period.reserved_cents + (n - hold)]
      BY <2>2 DEF adjust_reservation
    <3>3. /\ period'.captured_cents = period.captured_cents
          /\ period'.reserved_cents = period.reserved_cents + (n - hold)
      BY <3>2 DEF CardPeriod
    <3>4. period'.captured_cents + period'.reserved_cents <= policy.terms.budget_cents
      BY <1>3, <2>2, <3>1, <3>3, Counters, SMTT(30) DEF available, Saturating
    <3>5. QED
      BY <1>1, <1>2, <2>1, <3>4, BudgetStep
  <2>3. CASE ~(n > hold)
    <3>1. period' = Released(period, hold - n)
      BY <2>3 DEF adjust_reservation
    <3>2. period'.captured_cents + period'.reserved_cents
              <= period.captured_cents + period.reserved_cents
      BY TypedNow, <3>1, ReleasedCents, Counters
    <3>3. QED
      BY <1>1, <2>1, <3>2, BudgetStep
  <2>4. QED
    BY <2>2, <2>3
<1>6. QED
  BY <1>4, <1>5 DEF Fine

LEMMA CaptureFine ==
  ASSUME SpendInv, scene' = scene, NEW a \in AuthId, NEW n \in U64, NEW id \in CaptureId,
         capture(a, n, id)
  PROVE  Fine'
<1> USE DEF SpendInv
<1> DEFINE r == reservation[a]
           pd == Released(period, FromHold(r, n))
<1>1. TypedAfter /\ HoldsKept
  BY CaptureTypes
<1>2. /\ a \in Live(reservation) /\ r \in Reservation
      /\ OpenHold(r) /\ (~Unreviewed => CappedHold(r)) /\ is_set
  BY HoldsNow, OpenIffHeldIs DEF Spending, capture, AuthorizerSigns
<1>3. HoldsFine'
  <2>1. OpenHold(Captured(r, n, id)) /\ (~Unreviewed => CappedHold(Captured(r, n, id)))
    BY <1>2, HoldsStayOpen, HoldsStayCapped, Zenon
  <2>2. reservation' = [reservation EXCEPT ![a] = Captured(r, n, id)] /\ guard' = guard
    BY DEF capture
  <2>3. QED
    BY <1>1, <1>2, <2>1, <2>2, OneHold, Zenon
<1>4. policy'.terms = policy.terms
  <2> DEFINE p == IF Excess(r, n) THEN ExceptionOpened(policy) ELSE policy
  <2>1. p \in CardPolicy /\ p.terms = policy.terms
    BY TypedNow, PolicyExceptions DEF capture, SameControl
  <2>2. policy' = add_exposure(p, n)
    BY DEF capture
  <2> HIDE DEF p
  <2>3. QED
    BY <2>1, <2>2, PolicyMoney, Zenon DEF SameControl
<1>5. period'.captured_cents + period'.reserved_cents <= policy.terms.budget_cents
  <2>1. pd \in CardPeriod /\ pd.captured_cents = period.captured_cents
        /\ pd.reserved_cents \in Nat
    BY TypedNow, PeriodEdits, ReleasedCents, ZenonT(40)
  <2>2. pd.captured_cents + pd.reserved_cents + n <= policy.terms.budget_cents
    BY DEF capture, require_billable
  <2>3. period'.captured_cents = period.captured_cents + n
        /\ period'.reserved_cents = pd.reserved_cents
    <3>1. \E e : period' = [pd EXCEPT !.captured_cents = period.captured_cents + n,
                                      !.exception_cents = e]
      BY Zenon DEF capture, PeriodCaptured
    <3> HIDE DEF pd
    <3>2. QED
      BY <2>1, <3>1, SMTT(30) DEF CardPeriod
  <2> HIDE DEF pd
  <2>4. n \in Nat
    BY Widths DEF U64
  <2>5. QED
    BY <2>1, <2>2, <2>3, <2>4, Counters
<1>6. BudgetFine'
  BY <1>1, <1>2, <1>4, <1>5, BudgetStep
<1>7. QED
  BY <1>3, <1>6 DEF Fine

LEMMA ReverseFine ==
  ASSUME SpendInv, scene' = scene, NEW a \in AuthId, NEW n \in U64, NEW id \in EventId
  PROVE  /\ \A reason \in {"reversed", "expired"} : reverse(a, n, reason, id) => Fine'
         /\ \A opened \in BOOLEAN : record_dispute(a, opened, id) => Fine'
<1> USE DEF SpendInv
<1> DEFINE r == reservation[a]
<1>1. reservation[a] # NoAccount =>
          /\ a \in Live(reservation) /\ r \in Reservation
          /\ OpenHold(r) /\ (~Unreviewed => CappedHold(r))
  BY HoldsNow, OpenIffHeldIs DEF Spending
<1>2. ASSUME NEW reason \in {"reversed", "expired"}, reverse(a, n, reason, id) PROVE Fine'
  <2> DEFINE left == r.amount_reserved_cents - Lesser(n, r.amount_reserved_cents)
  <2>1. TypedAfter /\ HoldsKept
    BY <1>2, HoldTypes
  <2>2. reservation[a] # NoAccount /\ r.state \in OpenStates
    BY <1>2 DEF reverse
  <2>3. left \in U64 /\ left <= r.amount_reserved_cents
    BY <1>1, <2>2, Widths DEF Lesser, Reservation, U64
  <2>4. reservation' = [reservation EXCEPT ![a] = HoldSet(r, left, reason)] /\ guard' = guard
    BY <1>2 DEF reverse
  <2> HIDE DEF left
  <2>5. OpenHold(HoldSet(r, left, reason)) /\ (~Unreviewed => CappedHold(HoldSet(r, left, reason)))
    BY <1>1, <2>2, <2>3, HoldsStayOpen, HoldsStayCapped, Zenon
  <2>6. HoldsFine'
    BY <1>1, <2>1, <2>2, <2>4, <2>5, OneHold, ZenonT(40)
  <2>7. policy'.terms = policy.terms
    BY TypedNow, <1>2, PolicyEvents, Zenon DEF reverse, SameControl
  <2>8. period'.captured_cents + period'.reserved_cents
            <= period.captured_cents + period.reserved_cents
    BY TypedNow, <1>2, ReleasedCents, Counters, SMTT(30) DEF reverse
  <2>9. QED
    BY <2>1, <2>6, <2>7, <2>8, BudgetStep DEF Fine
<1>3. ASSUME NEW opened \in BOOLEAN, record_dispute(a, opened, id) PROVE Fine'
  <2>1. TypedAfter /\ HoldsKept
    BY <1>3, DisputeTypes
  <2>2. reservation[a] # NoAccount
    BY <1>3 DEF record_dispute
  <2>3. reservation' = [reservation EXCEPT ![a] = [r EXCEPT !.disputed = opened]] /\ guard' = guard
    BY <1>3 DEF record_dispute
  <2>4. /\ OpenHold([r EXCEPT !.disputed = opened])
        /\ ~Unreviewed => CappedHold([r EXCEPT !.disputed = opened])
    BY <1>1, <2>2, HoldsStayOpen, HoldsStayCapped, Zenon
  <2>5. HoldsFine'
    BY <1>1, <2>1, <2>2, <2>3, <2>4, OneHold, Zenon
  <2>6. policy'.terms = policy.terms /\ period' = period
    BY TypedNow, <1>3, PolicyEvents DEF record_dispute, SameControl
  <2>7. QED
    BY <2>1, <2>5, <2>6, BudgetStep, Counters DEF Fine
<1>4. QED
  BY <1>2, <1>3

LEMMA RollFine ==
  ASSUME SpendInv, scene' = scene, NEW listed, roll_period(listed)
  PROVE  Fine'
<1> USE DEF SpendInv
<1>1. TypedAfter /\ HoldsKept
  BY RollTypes
<1>2. \A x \in Live(reservation) :
          reservation'[x] \in {reservation[x], Expired(reservation[x])}
  BY HoldsNow DEF roll_period
<1>3. \A x \in Live(reservation) : OpenHold(reservation'[x])
  BY <1>2, HoldsNow, OpenIffHeldIs, HoldsStayOpen, ZeroFits, Zenon DEF Spending
<1>4. ~Unreviewed => \A x \in Live(reservation) : CappedHold(reservation'[x])
  BY <1>2, HoldsNow, OpenIffHeldIs, HoldsStayCapped, ZeroFits DEF Spending
<1>5. HoldsFine'
  BY <1>1, <1>3, <1>4, EditedHolds DEF roll_period
<1>6. \E released : /\ period'.captured_cents = 0
                    /\ period'.reserved_cents = Saturating(period.reserved_cents, released)
  BY TypedNow DEF roll_period, NextPeriod, CardPeriod
<1>7. period'.captured_cents + period'.reserved_cents
          <= period.captured_cents + period.reserved_cents
  BY <1>6, Counters DEF Saturating
<1>8. QED
  BY <1>1, <1>5, <1>7, BudgetStep DEF roll_period, Fine


\* An issuer event edits the hold it is passed with, if it is passed with one.
LEMMA PassedHolds ==
  ASSUME SpendInv, TypedAfter, HoldsKept, guard' = guard, scene' = scene,
         NEW a, a \in AuthId => reservation[a] # NoAccount,
         \A x \in AuthId : x # a => reservation'[x] = reservation[x],
         a \in AuthId => OpenHold(reservation'[a]),
         a \in AuthId /\ ~Unreviewed => CappedHold(reservation'[a])
  PROVE  HoldsFine'
<1> USE DEF SpendInv
<1>1. \A x \in Live(reservation) : OpenHold(reservation'[x])
  BY HoldsNow, OpenIffHeldIs DEF Spending
<1>2. ASSUME ~Unreviewed PROVE \A x \in Live(reservation) : CappedHold(reservation'[x])
  BY <1>2, HoldsNow, OpenIffHeldIs DEF Spending
<1>3. QED
  BY <1>1, <1>2, EditedHolds

LEMMA CreditFine ==
  ASSUME SpendInv, scene' = scene, NEW a \in AuthId \cup {NoAuth}, NEW n \in U64,
         NEW id \in EventId
  PROVE  /\ refund(a, n, id) => Fine'
         /\ \A kind \in ExceptionKind : record_exception(a, n, id, kind) => Fine'
<1> USE DEF SpendInv
<1> DEFINE r == reservation[a]
           p == Remembered(policy, id)
<1>1. NoAuth \notin AuthId
  BY CardAssumption
<1>2. p \in CardPolicy /\ p.terms = policy.terms
  BY TypedNow, PolicyEvents, Zenon DEF SameControl
<1>3. \A q \in {add_exposure(p, n), reduce_exposure(p, n)} : q.terms = policy.terms
  BY <1>2, PolicyMoney DEF SameControl
<1>4. \A q \in CardPolicy : q.terms = policy.terms => ExceptionOpened(q).terms = policy.terms
  BY PolicyExceptions DEF SameControl
<1>5. ASSUME a \in AuthId, PassedHold(a)
      PROVE  /\ r # NoAccount /\ r \in Reservation
             /\ OpenHold(r) /\ (~Unreviewed => CappedHold(r))
  BY <1>1, <1>5, HoldsNow, OpenIffHeldIs DEF Spending, PassedHold
<1>6. ASSUME require_billable(period, n)
      PROVE  (period.captured_cents + n) + period.reserved_cents <= policy.terms.budget_cents
  BY <1>6, Counters, Widths DEF require_billable, U64
<1>7. ASSUME PassedHold(a), reservation' = OnPassed(a, LAMBDA x : Refunded(x, n)),
             TypedAfter, HoldsKept, guard' = guard
      PROVE  HoldsFine'
  <2>1. \A x \in AuthId : x # a => reservation'[x] = reservation[x]
    BY <1>7 DEF OnPassed
  <2>2. a \in AuthId => reservation'[a] = Refunded(r, n)
    BY <1>7 DEF OnPassed
  <2>3. a \in AuthId => /\ OpenHold(Refunded(r, n))
                        /\ ~Unreviewed => CappedHold(Refunded(r, n))
    BY <1>5, <1>7, HoldsStayOpen, HoldsStayCapped, Zenon
  <2>4. QED
    BY <1>5, <1>7, <2>1, <2>2, <2>3, PassedHolds, Zenon
<1>8. ASSUME refund(a, n, id) PROVE Fine'
  <2>1. TypedAfter /\ HoldsKept
    BY <1>8, RefundTypes
  <2>2. HoldsFine'
    BY <1>7, <1>8, <2>1 DEF refund
  <2>3. /\ policy'.terms = policy.terms
        /\ period'.captured_cents = period.captured_cents
        /\ period'.reserved_cents = period.reserved_cents
    BY TypedNow, <1>3, <1>8, PeriodEdits DEF refund
  <2>4. QED
    BY <2>1, <2>2, <2>3, BudgetStep, Counters DEF Fine
<1>9. ASSUME NEW kind \in ExceptionKind, record_exception(a, n, id, kind) PROVE Fine'
  <2>1. TypedAfter /\ HoldsKept
    BY <1>9, ExceptionTypes
  <2>2. is_set /\ guard' = guard /\ PassedHold(a)
    BY <1>9 DEF record_exception, AuthorizerSigns
  <2>3. CASE LateCapture(a, n, id)
    <3>1. HoldsFine'
      BY <2>2, <2>3, SameHolds DEF LateCapture
    <3>2. policy'.terms = policy.terms
      BY <1>3, <2>3 DEF LateCapture
    <3>3. /\ period'.captured_cents = period.captured_cents + n
          /\ period'.reserved_cents = period.reserved_cents
      BY <2>3 DEF LateCapture, CardPeriod
    <3>4. QED
      BY <1>6, <2>1, <2>2, <2>3, <3>1, <3>2, <3>3, BudgetStep, ZenonT(40) DEF LateCapture, Fine
  <2>4. CASE kind = "over_hold" /\ OverHold(a, n, id)
    <3>1. Overrun /\ Unreviewed
      BY <2>4 DEF Overrun, Unreviewed, Unflagged, ExceptionKind
    <3>2. a \in AuthId /\ r.state \in OpenStates
      BY <2>4 DEF OverHold, OverHoldable
    <3>3. /\ \A x \in AuthId : x # a => reservation'[x] = reservation[x]
          /\ reservation'[a] = [r EXCEPT !.amount_reserved_cents = r.amount_reserved_cents + n]
      BY <2>4, <3>2 DEF OverHold, OnPassed
    <3>4. OpenHold([r EXCEPT !.amount_reserved_cents = r.amount_reserved_cents + n])
      BY <1>5, <2>2, <3>2, HoldsStayOpen
    <3>5. HoldsFine'
      BY <1>5, <2>1, <2>2, <3>1, <3>2, <3>3, <3>4, PassedHolds
    <3>6. policy'.terms = policy.terms
      BY <1>2, <1>4, <2>4, ZenonT(40) DEF OverHold
    <3>7. QED
      BY <2>1, <2>2, <3>1, <3>5, <3>6, BudgetStep, ZenonT(40) DEF Fine
  <2>5. CASE CorrectionCredit(a, n, id)
    <3>1. HoldsFine'
      BY <1>7, <2>1, <2>2, <2>5 DEF CorrectionCredit
    <3>2. policy'.terms = policy.terms
      <4>1. reduce_exposure(p, n) \in CardPolicy
        BY <1>2, PolicyMoney
      <4>2. QED
        BY <1>3, <1>4, <2>5, <4>1, ZenonT(40) DEF CorrectionCredit
    <3>3. /\ period'.captured_cents = period.captured_cents
          /\ period'.reserved_cents = period.reserved_cents
      BY TypedNow, <2>5, PeriodEdits, Zenon DEF CorrectionCredit
    <3>4. QED
      BY <2>1, <3>1, <3>2, <3>3, BudgetStep, Counters DEF Fine
  <2>6. CASE Debit(a, n, id, kind)
    <3>1. Unreviewed \/ kind = "over_capture"
      BY <2>6 DEF Debit, Unreviewed, Unflagged, ExceptionKind
    <3>2. /\ \A x \in AuthId : x # a => reservation'[x] = reservation[x]
          /\ a \in AuthId => reservation'[a] = Debited(r, n, kind)
      BY <2>6 DEF Debit, OnPassed
    <3>3. a \in AuthId => /\ OpenHold(Debited(r, n, kind))
                          /\ ~Unreviewed => CappedHold(Debited(r, n, kind))
      BY <1>5, <2>2, <3>1, HoldsStayOpen, HoldsStayCapped, Zenon
    <3>4. HoldsFine'
      BY <1>5, <2>1, <2>2, <3>2, <3>3, PassedHolds, Zenon
    <3>5. policy'.terms = policy.terms
      <4>1. p.statement_outstanding_cents = policy.statement_outstanding_cents
        BY TypedNow, PolicyEvents DEF SameDebt
      <4>2. add_exposure(p, n) \in CardPolicy
        BY <1>2, <2>6, <4>1, PolicyMoney DEF Debit, ExposureFits
      <4>3. QED
        BY <1>3, <1>4, <2>6, <4>2 DEF Debit
    <3>6. /\ period'.captured_cents = period.captured_cents + n
          /\ period'.reserved_cents = period.reserved_cents
      BY <2>6 DEF Debit, CardPeriod
    <3>7. QED
      BY <1>6, <2>1, <2>2, <2>6, <3>4, <3>5, <3>6, BudgetStep, ZenonT(40) DEF Debit, Fine
  <2>7. QED
    BY <1>9, <2>3, <2>4, <2>5, <2>6 DEF record_exception
<1>10. QED
  BY <1>8, <1>9

-----------------------------------------------------------------------------
(* Opening and closing a hold.                                              *)

LEMMA AuthorizeFine ==
  ASSUME SpendInv, scene' = scene, NEW a \in AuthId, NEW i \in IntentId, NEW n \in U64,
         NEW m, NEW c, NEW recurring \in BOOLEAN, NEW single \in BOOLEAN,
         authorize(a, i, n, m, c, recurring, single)
  PROVE  Fine'
<1> USE DEF SpendInv
<1> DEFINE new == NewReservation(i, n, recurring, single)
<1>1. TypedAfter /\ reservation'[a] # NoAccount
  BY AuthorizeTypes
<1>2. /\ reservation' = [reservation EXCEPT ![a] = new] /\ guard' = guard
      /\ reservation[a] = NoAccount /\ is_set
  BY DEF authorize, AuthorizerSigns
<1>3. n \in Nat /\ n > 0 /\ n <= intent[i].max_amount_cents /\ n <= available
      /\ intent[i] \in CheckoutIntent
  BY TypedNow, Widths DEF authorize, validate_authorize, U64
<1>4. intent[i].max_amount_cents \in Nat
  <2>1. intent[i].max_amount_cents \in 0..MaxU64
    BY <1>3, Zenon DEF CheckoutIntent, U64
  <2>2. QED
    BY <2>1, Widths
<1>5. OpenHold(new) /\ CappedHold(new)
  BY <1>3, <1>4 DEF NewReservation, OpenHold, CappedHold, OpenStates
<1> HIDE DEF new
<1>6. Live(reservation)' = Live(reservation) \cup {a}
  BY TypedNow, <1>1, <1>2, HoldsNow, HoldsNext, Zenon
<1>7. \A x \in Live(reservation)' : reservation'[x] = IF x = a THEN new ELSE reservation[x]
  BY TypedNow, <1>2, <1>6, HoldsNow
<1>8. OpenIffHeld' /\ (~Unreviewed' => IntentCapsSpend')
  <2>1. \A x \in Live(reservation)' : OpenHold(reservation'[x])
    BY <1>5, <1>6, <1>7, OpenIffHeldIs DEF Spending
  <2>2. ~Unreviewed => \A x \in Live(reservation)' : CappedHold(reservation'[x])
    BY <1>5, <1>6, <1>7, OpenIffHeldIs DEF Spending
  <2>3. QED
    BY <2>1, <2>2, OpenIffHeldNext DEF Unreviewed
<1>9. GuardIsExact'
  <2>1. guard # NoAccount => ~InRing(guard, a)
    BY DEF authorize, recently_closed
  <2>2. QED
    BY <1>2, <1>6, <2>1, Zenon DEF GuardIsExact, InRing
<1>10. policy'.terms = policy.terms
  <2> DEFINE p == IF single THEN add_exposure(policy, n) ELSE policy
  <2>1. p \in CardPolicy /\ p.terms = policy.terms
    BY TypedNow, PolicyMoney DEF authorize, ExposureFits, SameControl
  <2>2. policy' = EphemeralCreated(p)
    BY DEF authorize
  <2> HIDE DEF p
  <2>3. QED
    BY <2>1, <2>2, PolicyEphemerals, Zenon DEF SameControl
<1>11. period'.captured_cents + period'.reserved_cents <= policy.terms.budget_cents
  <2>1. /\ period'.captured_cents = IF single THEN period.captured_cents + n
                                    ELSE period.captured_cents
        /\ period'.reserved_cents = IF single THEN period.reserved_cents
                                    ELSE period.reserved_cents + n
    BY DEF authorize, Bought, CardPeriod
  <2>2. period.captured_cents + period.reserved_cents + n <= policy.terms.budget_cents
    BY <1>3, Counters DEF available, Saturating
  <2>3. QED
    BY <1>3, <2>1, <2>2, Counters
<1>12. BudgetFine'
  BY <1>1, <1>2, <1>10, <1>11, BudgetStep
<1>13. QED
  BY <1>8, <1>9, <1>12 DEF Fine, HoldsFine

\* The closed id takes the oldest slot, and was in none before.
LEMMA CloseFine ==
  ASSUME SpendInv, scene' = scene, NEW a \in AuthId, NEW who, close_reservation(a, who)
  PROVE  Fine'
<1> USE DEF SpendInv
<1>1. TypedAfter
  BY HoldTypes
<1>2. /\ reservation' = [reservation EXCEPT ![a] = NoAccount] /\ a \in Live(reservation)
      /\ period' = period /\ policy'.terms = policy.terms
  BY TypedNow, HoldsNow, PolicyEphemerals, ZenonT(40) DEF close_reservation, SameControl
<1>3. Live(reservation)' = Live(reservation) \ {a}
  BY TypedNow, <1>1, <1>2, HoldsNow, HoldsNext, Zenon
<1>4. \A x \in Live(reservation)' : reservation'[x] = reservation[x]
  BY TypedNow, <1>2, <1>3, HoldsNow, Zenon
<1>5. OpenIffHeld' /\ (~Unreviewed' => IntentCapsSpend')
  <2>1. \A x \in Live(reservation)' : OpenHold(reservation'[x])
    BY <1>3, <1>4, OpenIffHeldIs DEF Spending
  <2>2. ~Unreviewed => \A x \in Live(reservation)' : CappedHold(reservation'[x])
    BY <1>3, <1>4, OpenIffHeldIs, ZenonT(40) DEF Spending
  <2>3. QED
    BY <2>1, <2>2, OpenIffHeldNext DEF Unreviewed
<1>6. GuardIsExact'
  <2> DEFINE ring == IF guard = NoAccount THEN EmptyRing(GUARD_RING) ELSE guard
  <2>1. ring \in AuthGuard
    BY TypedNow, EmptyRingType, Rings DEF AuthGuard
  <2>2. ring.slots \in [0..GUARD_RING - 1 -> AuthId \cup {ZeroId}] /\ ring.next \in 0..GUARD_RING - 1
    BY <2>1, ZenonT(40) DEF AuthGuard, Ring
  <2>3. guard'.slots = [ring.slots EXCEPT ![ring.next] = a]
    BY ZenonT(40) DEF close_reservation, GuardAfter, Push
  <2>4. ZeroId \notin AuthId /\ Live(reservation) \subseteq AuthId
    BY HoldsNow, CardAssumption
  <2>5. \A x \in Live(reservation) : \A j \in 0..GUARD_RING - 1 : ring.slots[j] # x
    BY <2>2, <2>4, Zenon DEF GuardIsExact, InRing, EmptyRing
  <2>6. \A j, k \in 0..GUARD_RING - 1 :
            ring.slots[j] = ring.slots[k] /\ ring.slots[j] # ZeroId => j = k
    BY <2>2, Zenon DEF GuardIsExact, EmptyRing
  <2> HIDE DEF ring
  <2>7. /\ DOMAIN guard'.slots = 0..GUARD_RING - 1
        /\ \A j \in 0..GUARD_RING - 1 :
               guard'.slots[j] = IF j = ring.next THEN a ELSE ring.slots[j]
    BY <2>2, <2>3, Zenon
  <2>8. \A x \in Live(reservation)' : \A j \in 0..GUARD_RING - 1 : guard'.slots[j] # x
    BY <1>3, <2>5, <2>7
  <2>9. \A j, k \in 0..GUARD_RING - 1 :
            guard'.slots[j] = guard'.slots[k] /\ guard'.slots[j] # ZeroId => j = k
    BY <1>2, <2>5, <2>6, <2>7
  <2>10. QED
    BY <2>7, <2>8, <2>9 DEF GuardIsExact, InRing
<1>7. period'.captured_cents + period'.reserved_cents
          <= period.captured_cents + period.reserved_cents
  BY <1>2, Counters
<1>8. BudgetFine'
  BY <1>1, <1>2, <1>7, BudgetStep
<1>9. QED
  BY <1>5, <1>6, <1>8 DEF Fine, HoldsFine


-----------------------------------------------------------------------------
(* The terms, the life of the card, and the steps that spend nothing.       *)

LEMMA SetPolicyFine ==
  ASSUME SpendInv, scene' = scene, NEW args \in Terms, NEW by, set_policy(args, by)
  PROVE  Fine'
<1> USE DEF SpendInv
<1>1. HoldsFine'
  BY SameHolds DEF set_policy
<1>2. policy'.terms = args /\ args.authorizer # NoKey
  BY DEF set_policy, validate_policy_args, CardPolicy
<1>3. /\ period'.captured_cents = period.captured_cents
      /\ period'.reserved_cents = period.reserved_cents
  BY DEF set_policy, FirstPeriod, CardPeriod
<1>4. is_set' /\ Overrun' = Overrun
  BY <1>2 DEF is_set, Overrun
<1>5. args.budget_cents \in Nat
  BY Widths DEF Terms, U64
<1>6. ASSUME ~Overrun
      PROVE  period.captured_cents + period.reserved_cents <= args.budget_cents
  <2>1. CASE is_set
    <3>1. period.captured_cents + period.reserved_cents <= policy.terms.budget_cents
      BY <1>6, <2>1 DEF Spending, CommittedWithinBudget
    <3>2. args.budget_cents < policy.terms.budget_cents =>
              args.budget_cents >= period.captured_cents + period.reserved_cents
      BY <2>1 DEF set_policy, CoversCommitted
    <3>3. QED
      BY <1>5, <3>1, <3>2, Counters
  <2>2. CASE ~is_set
    BY <1>5, <2>2 DEF Spending, Unspent
  <2>3. QED
    BY <2>1, <2>2
<1>7. BudgetFine'
  BY <1>2, <1>3, <1>4, <1>6 DEF BudgetFine, Unspent, CommittedWithinBudget
<1>8. QED
  BY <1>1, <1>7 DEF Fine

\* A restore sets the counters as it was told, which is an overrun of its own.
LEMMA RestoreFine ==
  ASSUME SpendInv, scene' = scene, NEW args \in RestoreArgs, restore(args)
  PROVE  Fine'
<1>1. HoldsFine'
  BY SameHolds DEF restore
<1>2. Overrun' /\ is_set'
  BY TypedNow DEF SpendInv, Overrun, is_set, RestoreArgs, restore, RestoredPolicy, Frozen,
                  CardPolicy, validate_policy_args
<1>3. QED
  BY <1>1, <1>2, ZenonT(40) DEF Fine, BudgetFine, Unspent

LEMMA LifeFine ==
  ASSUME SpendInv, scene' = scene
  PROVE  /\ init_card => Fine'
         /\ \A listed : wipe_card(listed) => Fine'
<1> USE DEF SpendInv
<1>1. ASSUME policy' = zeroed_policy, period' = zeroed_period PROVE BudgetFine'
  BY <1>1 DEF zeroed_policy, zeroed_period, ZeroTerms, BudgetFine, Unspent, is_set,
              CommittedWithinBudget
<1>2. ASSUME init_card PROVE Fine'
  BY <1>1, <1>2, SameHolds DEF init_card, Fine
<1>3. ASSUME NEW listed, wipe_card(listed) PROVE Fine'
  <2>1. TypedAfter
    BY <1>3, LifeTypes
  <2>2. /\ Live(reservation)' \subseteq Live(reservation)
        /\ \A x \in Live(reservation)' : reservation'[x] = reservation[x]
    BY <1>3, <2>1, HoldsNow, HoldsNext, Zenon DEF wipe_card
  <2>3. OpenIffHeld' /\ (~Unreviewed' => IntentCapsSpend')
    BY <2>2, OpenIffHeldIs, OpenIffHeldNext DEF Spending, Unreviewed
  <2>4. guard' \in {guard, NoAccount}
    BY <1>3 DEF wipe_card
  <2>5. GuardIsExact'
    BY <2>2, <2>4 DEF GuardIsExact, InRing
  <2>6. QED
    BY <1>1, <1>3, <2>3, <2>5 DEF wipe_card, Fine, HoldsFine
<1>4. QED
  BY <1>2, <1>3, Zenon

LEMMA StillFine ==
  ASSUME SpendInv, UNCHANGED <<scene, period, reservation, guard>>, policy'.terms = policy.terms
  PROVE  Fine'
<1>1. HoldsFine'
  BY SameHolds, SMTT(30)
<1>2. BudgetFine'
  BY Zenon DEF SpendInv, Spending, BudgetFine, Unspent, Overrun, is_set, CommittedWithinBudget
<1>3. QED
  BY <1>1, <1>2 DEF Fine

\* The terms survive everything but set_policy, restore, init_card and wipe_card.
LEMMA TermsKept ==
  ASSUME Typed
  PROVE  /\ \A i, args, at : open_checkout_intent(i, args, at) => policy'.terms = policy.terms
         /\ \A i, who : close_checkout_intent(i, who) => policy'.terms = policy.terms
         /\ \A id \in EventId : resolve_exception(id) => policy'.terms = policy.terms
         /\ \A d, n, method : apply_repayment(d, n, method) => policy'.terms = policy.terms
         /\ \A key : init_permission(key) => policy'.terms = policy.terms
         /\ \A members, key, listed : MembersBecome(members, key, listed) =>
                policy'.terms = policy.terms
         /\ \A who, reason : freeze(who, reason) => policy'.terms = policy.terms
         /\ unfreeze => policy'.terms = policy.terms
         /\ \A who : recovery_freeze(who) => policy'.terms = policy.terms
         /\ \A d : confirm_reconciled(d) => policy'.terms = policy.terms
         /\ checkpoint => policy'.terms = policy.terms
<1> USE TypedNow
<1>1. ASSUME NEW id \in EventId, resolve_exception(id) PROVE policy'.terms = policy.terms
  <2> DEFINE p == Remembered(policy, ResolveKey(id))
  <2>1. p \in CardPolicy /\ p.terms = policy.terms
    BY PolicyEvents DEF ResolveIds, SameControl
  <2>2. policy' = [p EXCEPT !.exceptions_open = policy.exceptions_open - 1]
    BY <1>1 DEF resolve_exception
  <2> HIDE DEF p
  <2>3. QED
    BY <2>1, <2>2 DEF CardPolicy
<1>2. ASSUME NEW who, NEW reason, freeze(who, reason) PROVE policy'.terms = policy.terms
  BY <1>2, SMTT(30) DEF freeze, Frozen, CardPolicy
<1>3. ASSUME NEW i, NEW args, NEW at, open_checkout_intent(i, args, at)
      PROVE  policy'.terms = policy.terms
  BY <1>3, PolicyEphemerals, ZenonT(40) DEF open_checkout_intent, SameControl
<1>4. ASSUME NEW i, NEW who, close_checkout_intent(i, who) PROVE policy'.terms = policy.terms
  BY <1>4, PolicyEphemerals, Zenon DEF close_checkout_intent, SameControl
<1>5. ASSUME NEW d, NEW n, NEW method, apply_repayment(d, n, method)
      PROVE  policy'.terms = policy.terms
  BY <1>5 DEF apply_repayment, Repaid, CardPolicy
<1>6. ASSUME NEW members, policy' = [policy EXCEPT !.members = members]
      PROVE  policy'.terms = policy.terms
  BY <1>6 DEF CardPolicy
<1>7. ASSUME NEW key, init_permission(key) PROVE policy'.terms = policy.terms
  BY <1>6, <1>7 DEF init_permission
<1>8. ASSUME NEW members, NEW key, NEW listed, MembersBecome(members, key, listed)
      PROVE  policy'.terms = policy.terms
  BY <1>6, <1>8 DEF MembersBecome
<1>9. /\ unfreeze => policy'.terms = policy.terms
      /\ \A d : confirm_reconciled(d) => policy'.terms = policy.terms
      /\ checkpoint => policy'.terms = policy.terms
  BY DEF unfreeze, confirm_reconciled, checkpoint, CardPolicy
<1>10. ASSUME NEW who, recovery_freeze(who) PROVE policy'.terms = policy.terms
  BY <1>10 DEF recovery_freeze, Frozen, CardPolicy
<1>11. QED
  BY <1>1, <1>2, <1>3, <1>4, <1>5, <1>7, <1>8, <1>9, <1>10, Zenon

\* Everything that moves no money between a budget, a hold and the guard.
Idle ==
    \/ delegate_card \/ close_card \/ unfreeze \/ checkpoint \/ Tick
    \/ \E key : init_permission(key)
    \/ \E key, listed : AddReader(key, listed) \/ RemoveReader(key, listed)
    \/ \E id \in EventId : resolve_exception(id)
    \/ \E d, units : repay_statement(d, units)
    \/ \E d, n : record_repayment(d, n) \/ record_private_repayment(d, n)
    \/ \E d : confirm_reconciled(d)
    \/ \E i, args, at : open_checkout_intent(i, args, at)
    \/ \E i, who : cancel_checkout_intent(i, who) \/ close_checkout_intent(i, who)
    \/ \E x, who : sync_permission(x, who)
    \/ \E who, reason : freeze(who, reason)
    \/ \E who : recovery_freeze(who)
    \/ \E action : write_commitment(action)

LEMMA IdleFine ==
  ASSUME SpendInv, scene' = scene, Idle
  PROVE  Fine'
<1>1. UNCHANGED <<period, reservation, guard>>
  BY ZenonT(40) DEF Idle, delegate_card, close_card, unfreeze, checkpoint, Tick, init_permission, AddReader,
     RemoveReader, MembersBecome, resolve_exception, repay_statement, record_repayment,
     record_private_repayment, apply_repayment, confirm_reconciled, open_checkout_intent,
     cancel_checkout_intent, close_checkout_intent, sync_permission, freeze, recovery_freeze,
     write_commitment
<1>2. policy'.terms = policy.terms
  BY TermsKept, ZenonT(40) DEF SpendInv, Idle, delegate_card, close_card, Tick, AddReader, RemoveReader,
     repay_statement, record_repayment, record_private_repayment, cancel_checkout_intent,
     sync_permission, write_commitment
<1>3. QED
  BY <1>1, <1>2, StillFine, SMTT(30)

-----------------------------------------------------------------------------
(* The theorems.                                                            *)

LEMMA SpendInit == Init => SpendInv
<1> SUFFICES ASSUME Init PROVE SpendInv
  OBVIOUS
<1>1. Typed
  BY TypedInit
<1>2. Live(reservation) = {}
  BY DEF Init, Live
<1>3. OpenIffHeld /\ IntentCapsSpend /\ GuardIsExact
  BY <1>2, ZenonT(40) DEF Init, OpenIffHeld, IntentCapsSpend, GuardIsExact
<1>4. Unspent /\ CommittedWithinBudget
  BY Zenon DEF Init, zeroed_policy, zeroed_period, ZeroTerms, is_set, Unspent, CommittedWithinBudget
<1>5. QED
  BY <1>1, <1>3, <1>4 DEF SpendInv, Spending

\* One case per instruction.
LEMMA SpendStep == SpendInv /\ [Next]_vars => SpendInv'
<1> SUFFICES ASSUME SpendInv, [Next]_vars PROVE SpendInv'
  OBVIOUS
<1>1. Typed' /\ scene' = scene
  BY TypedStep DEF SpendInv, Next, vars
<1>2. /\ scene.auths \subseteq AuthId /\ scene.captures \subseteq CaptureId
      /\ scene.events \subseteq EventId
      /\ PolicyArgs \subseteq Terms /\ Cents \subseteq U64 /\ Refunds \subseteq U64
      /\ Dispute \subseteq BOOLEAN /\ Cents \cup {0} \subseteq U64
  BY SceneFacts, ZeroFits, ZenonT(40) DEF SpendInv
<1>3. ASSUME OwnerStep PROVE Fine'
  <2>1. \/ Idle \/ init_card
        \/ \E args \in PolicyArgs, by \in {{"owner"}, Parties} : set_policy(args, by)
        \/ \E args \in RestoreArgs : restore(args)
        \/ \E listed \in SUBSET Ephemerals : wipe_card(listed)
    BY <1>2, <1>3, ZenonT(40) DEF OwnerStep, Idle
  <2>2. QED
    BY <1>1, <1>2, <2>1, IdleFine, LifeFine, SetPolicyFine, RestoreFine, SMTT(30)
<1>4. ASSUME IssuerStep PROVE Fine'
  <2>1. ASSUME NEW a \in scene.auths, NEW i \in IntentId, NEW n \in Cents, NEW m \in Merchant,
               NEW c \in Mcc, NEW ch \in Channel,
               authorize(a, i, n, m, c, ch.recurring, ch.single)
        PROVE  Fine'
    <3>1. ch.recurring \in BOOLEAN /\ ch.single \in BOOLEAN
      BY SceneFacts, SMTT(30) DEF SpendInv
    <3>2. QED
      BY <1>1, <1>2, <2>1, <3>1, AuthorizeFine, ZenonT(40)
  <2>2. ASSUME NEW a \in scene.auths \cup {NoAuth}, NEW n, NEW id \in scene.events,
               \/ n \in Refunds /\ refund(a, n, id)
               \/ n \in Cents /\ \E kind \in ExceptionKind : record_exception(a, n, id, kind)
        PROVE  Fine'
    BY <1>1, <1>2, <2>2, CreditFine, SMTT(30)
  <2>3. ASSUME NEW a \in scene.auths,
               \/ \E n \in Cents \cup {0} : adjust_reservation(a, n)
               \/ \E n \in Cents, id \in scene.captures : capture(a, n, id)
               \/ \E n \in Cents, id \in scene.events, reason \in {"reversed", "expired"} :
                      reverse(a, n, reason, id)
               \/ \E opened \in Dispute, id \in scene.events : record_dispute(a, opened, id)
        PROVE  Fine'
    BY <1>1, <1>2, <2>3, AdjustFine, CaptureFine, ReverseFine, ZeroFits, ZenonT(40)
  <2>4. ASSUME \E listed \in SUBSET Live(reservation) : roll_period(listed) PROVE Fine'
    BY <1>1, <2>4, RollFine, SMTT(30)
  <2>5. ASSUME \/ \E i \in IntentId, args \in IntentArgs, ttl \in 1..MAX_INTENT_TTL_SECONDS :
                      open_checkout_intent(i, args, now + ttl)
               \/ \E d \in scene.digests, n \in Cents : record_repayment(d, n)
               \/ \E d \in scene.digests, n \in Cents : record_private_repayment(d, n)
               \/ checkpoint
        PROVE  Fine'
    BY <1>1, <2>5, IdleFine, ZenonT(40) DEF Idle
  <2>6. QED
    BY <1>4, <2>1, <2>2, <2>3, <2>4, <2>5, ZenonT(40) DEF IssuerStep
<1>5. ASSUME EitherStep PROVE Fine'
  <2>1. \/ Idle
        \/ \E a \in scene.auths, who \in Parties : close_reservation(a, who)
    BY <1>5, Zenon DEF EitherStep, Idle
  <2>2. QED
    BY <1>1, <1>2, <2>1, IdleFine, CloseFine, SMTT(30)
<1>6. ASSUME Tick \/ \E action \in actions : write_commitment(action) PROVE Fine'
  BY <1>1, <1>6, IdleFine DEF Idle
<1>7. ASSUME UNCHANGED vars PROVE Fine'
  BY <1>1, <1>7, StillFine DEF vars
<1>8. Fine'
  BY <1>3, <1>4, <1>5, <1>6, <1>7 DEF Next
<1>9. QED
  BY <1>1, <1>8 DEF SpendInv, Spending, Fine, HoldsFine, BudgetFine

\* However captures, adjustments, reversals, exceptions, rolls and the owner's
\* edits interleave, only a reported over-hold or a restore overruns the period's
\* budget, and only an unflagged exception a purchase's intent (policy.rs,
\* authorize.rs, lifecycle.rs, set_policy.rs).
THEOREM CardSpendIsCapped == Spec => []SpendIsCapped
<1>1. SpendInv => SpendIsCapped
  BY DEF SpendInv, Spending, Overrun, Unreviewed, SpendIsCapped
<1>2. QED
  BY <1>1, SpendInit, SpendStep, PTL DEF Spec

\* A hold is open exactly while it holds money, and a closed authorization is in
\* the replay guard once and has no live reservation, restored cards included:
\* HoldsAreExact without its sum (lifecycle.rs, close_reservation.rs, authorize.rs).
THEOREM CardHoldsAreOpen == Spec => [](OpenIffHeld /\ GuardIsExact)
<1>1. SpendInv => OpenIffHeld /\ GuardIsExact
  BY DEF SpendInv, Spending
<1>2. QED
  BY <1>1, SpendInit, SpendStep, PTL DEF Spec
=============================================================================
