---------------------------- MODULE OutboxProofs ----------------------------
(***************************************************************************)
(* The outbox keeps its promises for any receipts, endpoints, lease tokens, *)
(* attempt limit, backoff and batch size.                                   *)
(***************************************************************************)
EXTENDS Outbox, FiniteSetTheorems, TLAPS

\* Tokens of the attempts of a delivery that were leased and not sent yet.
Held(d) == {k \in Token : \E t \in task : t.delivery = d /\ t.token = k /\ t.outcome = "none"}

Attempts(d) == IF d \in Rows THEN delivery[d].attempts ELSE 0

RowsHaveCause ==
    \A d \in Rows :
        /\ event[d[1]] # NoRow
        /\ subscription[d[2]] # NoRow /\ subscription[d[2]].age >= payment[d[1]].age

TasksHaveRows == \A t \in task : t.delivery \in Rows

LeasesAreUnique ==
    \A t, u \in task : t.delivery = u.delivery /\ t.token = u.token => t = u

\* What was sent and what may still be sent is paid for: by whole budgets, and by
\* the attempts of the current one.
Paid(d) ==
    /\ IsFiniteSet(Held(d))
    /\ posts[d] + Cardinality(Held(d)) <= MAX_ATTEMPTS * (budgets[d] - 1) + Attempts(d)
SendsAreAttempts == \A d \in Delivery : Paid(d)

BodiesAreStored ==
    \A r \in Receipt : posted[r] \subseteq {event[r]} /\ (posted[r] # {} => event[r] # NoRow)

OutboxInvariant ==
    /\ TypeOK
    /\ ConfirmedHasEvent /\ RowsHaveCause
    /\ TasksHaveRows /\ LeasesAreUnique
    /\ SendsAreAttempts
    /\ BodiesAreStored

-----------------------------------------------------------------------------
(* Rows and numbers.                                                        *)

\* A budget of attempts more is a whole budget more.
LEMMA OneBudgetMore ==
  ASSUME NEW b \in Nat \ {0}, NEW m \in Nat
  PROVE  /\ m * (b - 1) \in Nat /\ m * b \in Nat /\ m * b = m * (b - 1) + m
         /\ m * ((b + 1) - 1) = m * b
OBVIOUS

\* What the dispatcher writes to a row is a row again.
LEMMA RowEdits ==
  ASSUME NEW row \in DeliveryRow
  PROVE  /\ apply_exhaust(row) \in DeliveryRow
         /\ apply_exhaust(row).attempts = row.attempts
         /\ \A n \in Int : /\ [row EXCEPT !.due_in = n] \in DeliveryRow
                           /\ [row EXCEPT !.due_in = n].attempts = row.attempts
         /\ \A token \in Token : row.attempts < MAX_ATTEMPTS =>
                /\ apply_claim(row, token) \in DeliveryRow
                /\ apply_claim(row, token).attempts = row.attempts + 1
         /\ \A t \in ClaimedDelivery : t.outcome # "none" =>
                /\ apply_outcome(row, t) \in DeliveryRow
                /\ apply_outcome(row, t).attempts = row.attempts
<1>1. MAX_ATTEMPTS \in Nat /\ LEASE \in Int
  BY OutboxAssumption
<1>2. /\ apply_exhaust(row) \in DeliveryRow /\ apply_exhaust(row).attempts = row.attempts
  BY Zenon DEF apply_exhaust, DeliveryRow, DeliveryState
<1>3. ASSUME NEW n \in Int
      PROVE  [row EXCEPT !.due_in = n] \in DeliveryRow
             /\ [row EXCEPT !.due_in = n].attempts = row.attempts
  BY DEF DeliveryRow
<1>4. ASSUME NEW token \in Token, row.attempts < MAX_ATTEMPTS
      PROVE  /\ apply_claim(row, token) \in DeliveryRow
             /\ apply_claim(row, token).attempts = row.attempts + 1
  BY <1>1, <1>4 DEF apply_claim, DeliveryRow, DeliveryState
<1>5. ASSUME NEW t \in ClaimedDelivery, t.outcome # "none"
      PROVE  /\ apply_outcome(row, t) \in DeliveryRow
             /\ apply_outcome(row, t).attempts = row.attempts
  BY <1>5, ZenonT(40) DEF apply_outcome, DeliveryRow, DeliveryState, ClaimedDelivery
<1>6. QED
  BY <1>2, <1>3, <1>4, <1>5

\* A new row is one of no attempts.
LEMMA NewRows ==
  ASSUME NEW age \in Nat
  PROVE  /\ new_delivery(age) \in DeliveryRow /\ new_delivery(age).attempts = 0
         /\ apply_redeliver \in DeliveryRow /\ apply_redeliver.attempts = 0
BY OutboxAssumption DEF new_delivery, apply_redeliver, DeliveryRow, DeliveryState, Smaller

\* A task that was answered is a task, and no longer waits to be sent.
LEMMA AnswerEdits ==
  ASSUME NEW t \in ClaimedDelivery
  PROVE  /\ \A o \in {"delivered", "exhausted"} :
                /\ [t EXCEPT !.outcome = o] \in ClaimedDelivery
                /\ [t EXCEPT !.outcome = o].outcome = o
                /\ [t EXCEPT !.outcome = o].delivery = t.delivery
                /\ [t EXCEPT !.outcome = o].token = t.token
         /\ \A floor \in Nat :
                /\ Failed(t, floor) \in ClaimedDelivery
                /\ Failed(t, floor).outcome # "none"
                /\ Failed(t, floor).delivery = t.delivery
                /\ Failed(t, floor).token = t.token
<1>1. ASSUME NEW floor \in Nat PROVE backoff_ms(t.attempts, floor) \in Int
  <2>1. Len(BACKOFF) \in Nat \ {0} /\ \A i \in 1..Len(BACKOFF) : BACKOFF[i] \in Nat
    BY OutboxAssumption
  <2>2. t.attempts \in Nat \ {0}
    BY OutboxAssumption DEF ClaimedDelivery
  <2>3. Smaller(t.attempts, Len(BACKOFF)) \in 1..Len(BACKOFF)
    BY <2>1, <2>2 DEF Smaller
  <2>4. QED
    BY <2>1, <2>3 DEF backoff_ms, Larger
<1>2. QED
  BY <1>1, Zenon DEF Failed, ClaimedDelivery


-----------------------------------------------------------------------------
(* Events.                                                                  *)

\* A step that leaves leases, rows' attempts and histories alone keeps the count.
LEMMA SendsKept ==
  ASSUME SendsAreAttempts, UNCHANGED <<posts, budgets>>,
         \A d \in Delivery : Held(d)' = Held(d) /\ Attempts(d)' = Attempts(d)
  PROVE  SendsAreAttempts'
<1> SUFFICES ASSUME NEW d \in Delivery PROVE Paid(d)'
  BY DEF SendsAreAttempts
<1>1. Paid(d) /\ posts'[d] = posts[d] /\ budgets'[d] = budgets[d]
  BY DEF SendsAreAttempts
<1>2. Held(d)' = Held(d) /\ Attempts(d)' = Attempts(d)
  OBVIOUS
<1>3. QED
  BY <1>1, <1>2, Zenon DEF Paid

\* The tokens held are those of the tasks.
LEMMA HeldKept == ASSUME UNCHANGED task PROVE \A d : Held(d)' = Held(d)
BY DEF Held

\* Emitting an event: the body and the fan-out of a receipt that had none.
LEMMA EmitKeepsInv ==
  ASSUME OutboxInvariant, NEW r \in Receipt, NEW body \in Body, NEW age \in Nat,
         payment' \in [Receipt -> [status: {"open", "confirmed"}, age: Nat, armed: BOOLEAN]],
         payment'[r].status = "confirmed", payment'[r].age = age,
         event[r] # NoRow => payment'[r].age = payment[r].age,
         \A o \in Receipt \ {r} : payment'[o] = payment[o],
         UNCHANGED <<hooks, subscription, task, history>>, Emit(r, body, age)
  PROVE  OutboxInvariant'
<1> USE DEF OutboxInvariant
<1>1. CASE event[r] # NoRow
  <2>1. UNCHANGED <<event, delivery>>
    BY <1>1, Zenon DEF Emit
  <2>2. TypeOK'
    BY <2>1 DEF TypeOK, history
  <2>3. ConfirmedHasEvent'
    BY <1>1, <2>1 DEF ConfirmedHasEvent
  <2>4. RowsHaveCause'
    <3>1. \A o \in Receipt : event[o] # NoRow => payment'[o].age = payment[o].age
      OBVIOUS
    <3>2. QED
      BY <2>1, <3>1 DEF RowsHaveCause, Rows, Delivery
  <2>5. TasksHaveRows' /\ LeasesAreUnique' /\ BodiesAreStored'
    BY <2>1 DEF TasksHaveRows, LeasesAreUnique, BodiesAreStored, Rows, history
  <2>6. SendsAreAttempts'
    <3>1. \A d \in Delivery : Attempts(d)' = Attempts(d)
      BY <2>1 DEF Attempts, Rows
    <3>2. QED
      BY <3>1, HeldKept, SendsKept DEF history
  <2>7. QED
    BY <2>2, <2>3, <2>4, <2>5, <2>6
<1>2. CASE event[r] = NoRow
  <2>1. /\ event' = [event EXCEPT ![r] = body]
        /\ delivery' = [d \in Delivery |->
               IF d[1] = r /\ d[2] \in FanOut(age) /\ delivery[d] = NoRow
               THEN new_delivery(age) ELSE delivery[d]]
    BY <1>2, Zenon DEF Emit
  <2>2. event'[r] = body /\ body # NoRow /\ \A o \in Receipt \ {r} : event'[o] = event[o]
    BY <2>1, OutboxAssumption DEF TypeOK
  <2>3. \A d \in Delivery : d[1] = r => delivery[d] = NoRow
    BY <1>2 DEF RowsHaveCause, Rows
  <2>4. \A d \in Delivery : delivery'[d] \in DeliveryRow \cup {NoRow}
    BY <2>1, NewRows DEF TypeOK
  <2>5. TypeOK'
    <3>1. delivery' \in [Delivery -> DeliveryRow \cup {NoRow}]
      BY <2>1, <2>4
    <3>2. event' \in [Receipt -> Body \cup {NoRow}]
      BY <2>1 DEF TypeOK
    <3>3. QED
      BY <3>1, <3>2 DEF TypeOK, history
  <2>6. ConfirmedHasEvent'
    BY <2>2 DEF ConfirmedHasEvent
  <2>7. RowsHaveCause'
    <3> SUFFICES ASSUME NEW d \in Delivery, delivery'[d] # NoRow
                 PROVE  /\ event'[d[1]] # NoRow
                        /\ subscription[d[2]] # NoRow
                        /\ subscription[d[2]].age >= payment'[d[1]].age
      BY DEF RowsHaveCause, Rows
    <3>1. d[1] \in Receipt
      BY DEF Delivery
    <3>2. CASE d[1] = r
      <4>1. d[2] \in FanOut(age)
        BY <2>1, <2>3, <3>2
      <4>2. QED
        BY <2>2, <3>2, <4>1 DEF FanOut, Active
    <3>3. CASE d[1] # r
      <4>1. delivery'[d] = delivery[d]
        BY <2>1, <3>3
      <4>2. QED
        BY <2>2, <3>1, <3>3, <4>1 DEF RowsHaveCause, Rows
    <3>4. QED
      BY <3>2, <3>3
  <2>8. TasksHaveRows' /\ LeasesAreUnique'
    <3>1. \A d \in Rows : delivery'[d] = delivery[d]
      BY <2>1 DEF Rows
    <3>2. QED
      BY <3>1 DEF TasksHaveRows, LeasesAreUnique, Rows
  <2>9. BodiesAreStored'
    BY <1>2, <2>2 DEF BodiesAreStored, history
  <2>10. SendsAreAttempts'
    <3>1. ASSUME NEW d \in Delivery PROVE Attempts(d)' = Attempts(d)
      <4>1. CASE d \in Rows
        BY <2>1, <4>1 DEF Attempts, Rows
      <4>2. CASE d \notin Rows
        BY <2>1, <4>2, NewRows DEF Attempts, Rows
      <4>3. QED
        BY <4>1, <4>2
    <3>2. QED
      BY <3>1, HeldKept, SendsKept DEF history
  <2>11. QED
    BY <2>5, <2>6, <2>7, <2>8, <2>9, <2>10
<1>3. QED
  BY <1>1, <1>2


\* The three ways an event is written.
LEMMA EventsKeepInv ==
  ASSUME OutboxInvariant, NEW r \in Receipt, NEW body \in Body,
         \/ put_payment_with_events(r, body)
         \/ ConfirmAgain(r, body)
         \/ reconcile(r, body)
  PROVE  OutboxInvariant'
<1>1. CASE put_payment_with_events(r, body)
  <2>1. /\ payment' = [payment EXCEPT ![r] =
                           [status |-> "confirmed", age |-> 0, armed |-> hooks]]
        /\ payment[r].status = "open" /\ event[r] = NoRow
        /\ payment' \in [Receipt -> [status: {"open", "confirmed"}, age: Nat, armed: BOOLEAN]]
    BY <1>1 DEF put_payment_with_events, OutboxInvariant, TypeOK, ConfirmedHasEvent
  <2>2. /\ payment'[r] = [status |-> "confirmed", age |-> 0, armed |-> hooks]
        /\ \A o \in Receipt \ {r} : payment'[o] = payment[o]
    BY <2>1 DEF OutboxInvariant, TypeOK
  <2>3. CASE hooks
    BY <1>1, <2>1, <2>2, <2>3, EmitKeepsInv DEF put_payment_with_events
  <2>4. CASE ~hooks
    <3>1. UNCHANGED <<hooks, event, subscription, delivery, task, posts, budgets, posted>>
      BY <1>1, <2>4 DEF put_payment_with_events, history
    <3>2. TypeOK' /\ ConfirmedHasEvent'
      BY <2>1, <2>2, <2>4, <3>1 DEF OutboxInvariant, TypeOK, ConfirmedHasEvent
    <3>3. RowsHaveCause'
      BY <2>1, <2>2, <3>1 DEF OutboxInvariant, RowsHaveCause, Rows, Delivery
    <3>4. TasksHaveRows' /\ LeasesAreUnique' /\ BodiesAreStored'
      BY <3>1 DEF OutboxInvariant, TasksHaveRows, LeasesAreUnique, BodiesAreStored, Rows
    <3>5. SendsAreAttempts'
      <4>1. \A d \in Delivery : Attempts(d)' = Attempts(d)
        BY <3>1 DEF Attempts, Rows
      <4>2. QED
        BY <3>1, <4>1, HeldKept, SendsKept DEF OutboxInvariant
    <3>6. QED
      BY <3>2, <3>3, <3>4, <3>5 DEF OutboxInvariant
  <2>5. QED
    BY <2>3, <2>4
<1>2. CASE ConfirmAgain(r, body)
  <2>1. UNCHANGED payment /\ payment[r].status = "confirmed" /\ payment[r].age = 0
    BY <1>2 DEF ConfirmAgain
  <2>2. QED
    BY <1>2, <2>1, EmitKeepsInv DEF ConfirmAgain, OutboxInvariant, TypeOK
<1>3. CASE reconcile(r, body)
  <2>1. UNCHANGED payment /\ payment[r].status = "confirmed" /\ payment[r].age \in Nat
    BY <1>3 DEF reconcile, OutboxInvariant, TypeOK
  <2>2. QED
    BY <1>3, <2>1, EmitKeepsInv DEF reconcile, OutboxInvariant, TypeOK
<1>4. QED
  BY <1>1, <1>2, <1>3

-----------------------------------------------------------------------------
(* The owner's requests.                                                    *)

\* Rows keep their keys and their attempts.
LEMMA RowsKept ==
  ASSUME OutboxInvariant, UNCHANGED <<task, posts, budgets>>,
         delivery' \in [Delivery -> DeliveryRow \cup {NoRow}],
         \A d \in Delivery \ Rows : delivery'[d] = NoRow,
         \A d \in Rows : delivery'[d] \in DeliveryRow /\ delivery'[d].attempts = delivery[d].attempts
  PROVE  Rows' = Rows /\ TasksHaveRows' /\ LeasesAreUnique' /\ SendsAreAttempts'
<1>1. Rows' = Rows
  BY OutboxAssumption DEF Rows
<1>2. \A d \in Delivery : Attempts(d)' = Attempts(d)
  BY <1>1 DEF Attempts
<1>3. QED
  BY <1>1, <1>2, HeldKept, SendsKept DEF OutboxInvariant, TasksHaveRows, LeasesAreUnique

LEMMA CreateKeepsInv ==
  ASSUME OutboxInvariant, NEW s \in Subscription, create_webhook_subscription(s)
  PROVE  OutboxInvariant'
<1>1. /\ subscription[s] = NoRow
      /\ subscription' = [subscription EXCEPT ![s] = [status |-> "active", age |-> 0]]
      /\ UNCHANGED <<hooks, payment, event, delivery, task, posts, budgets, posted>>
  BY DEF create_webhook_subscription, history
<1>2. TypeOK'
  BY <1>1 DEF OutboxInvariant, TypeOK, SubscriptionRow
<1>3. ConfirmedHasEvent' /\ BodiesAreStored'
  BY <1>1 DEF OutboxInvariant, ConfirmedHasEvent, BodiesAreStored
<1>4. RowsHaveCause'
  <2>1. \A d \in Rows : d[2] \in Subscription \ {s}
    BY <1>1 DEF OutboxInvariant, RowsHaveCause, Rows, Delivery
  <2>2. QED
    BY <1>1, <2>1 DEF OutboxInvariant, RowsHaveCause, Rows, TypeOK
<1>5. TasksHaveRows' /\ LeasesAreUnique'
  BY <1>1 DEF OutboxInvariant, TasksHaveRows, LeasesAreUnique, Rows
<1>6. SendsAreAttempts'
  <2>1. \A d \in Delivery : Attempts(d)' = Attempts(d)
    BY <1>1 DEF Attempts, Rows
  <2>2. QED
    BY <1>1, <2>1, HeldKept, SendsKept DEF OutboxInvariant
<1>7. QED
  BY <1>2, <1>3, <1>4, <1>5, <1>6 DEF OutboxInvariant

LEMMA DisableKeepsInv ==
  ASSUME OutboxInvariant, NEW s \in Subscription, disable_webhook_subscription(s)
  PROVE  OutboxInvariant'
<1>1. /\ s \in Existing
      /\ subscription' = [subscription EXCEPT ![s] =
             [status |-> "disabled", age |-> subscription[s].age]]
      /\ delivery' = [d \in Delivery |->
             IF d \in Rows /\ d[2] = s /\ delivery[d].state \in {"pending", "retry_scheduled"}
             THEN apply_exhaust(delivery[d]) ELSE delivery[d]]
      /\ UNCHANGED <<hooks, payment, event, task, posts, budgets, posted>>
  BY DEF disable_webhook_subscription, history
<1>2. /\ subscription[s] \in SubscriptionRow
      /\ \A d \in Rows : delivery[d] \in DeliveryRow
  BY <1>1 DEF OutboxInvariant, TypeOK, Existing, Rows
<1>3. /\ \A d \in Delivery \ Rows : delivery'[d] = NoRow
      /\ \A d \in Rows : delivery'[d] \in DeliveryRow /\ delivery'[d].attempts = delivery[d].attempts
  BY <1>1, <1>2, RowEdits DEF Rows
<1>4. delivery' \in [Delivery -> DeliveryRow \cup {NoRow}]
  BY <1>1, <1>3
<1>5. Rows' = Rows /\ TasksHaveRows' /\ LeasesAreUnique' /\ SendsAreAttempts'
  BY <1>1, <1>3, <1>4, RowsKept
<1>6. subscription' \in [Subscription -> SubscriptionRow \cup {NoRow}]
      /\ \A x \in Subscription : subscription[x] # NoRow =>
             subscription'[x] # NoRow /\ subscription'[x].age = subscription[x].age
  BY <1>1, <1>2, OutboxAssumption DEF OutboxInvariant, TypeOK, SubscriptionRow
<1>7. TypeOK'
  BY <1>1, <1>4, <1>6 DEF OutboxInvariant, TypeOK
<1>8. ConfirmedHasEvent' /\ BodiesAreStored'
  BY <1>1 DEF OutboxInvariant, ConfirmedHasEvent, BodiesAreStored
<1>9. RowsHaveCause'
  <2>1. \A d \in Rows : d[2] \in Subscription
    BY DEF Rows, Delivery
  <2>2. QED
    BY <1>1, <1>5, <1>6, <2>1 DEF OutboxInvariant, RowsHaveCause
<1>10. QED
  BY <1>5, <1>7, <1>8, <1>9 DEF OutboxInvariant

\* A fresh budget pays for whatever the last one left unsent.
LEMMA RedeliverKeepsInv ==
  ASSUME OutboxInvariant, NEW d \in Delivery, redeliver_webhook(d)
  PROVE  OutboxInvariant'
<1>1. /\ d \in Rows
      /\ delivery' = [delivery EXCEPT ![d] = apply_redeliver]
      /\ budgets' = [budgets EXCEPT ![d] = budgets[d] + 1]
      /\ UNCHANGED <<hooks, payment, event, subscription, task, posts, posted>>
  BY DEF redeliver_webhook
<1>2. /\ apply_redeliver \in DeliveryRow /\ apply_redeliver.attempts = 0
      /\ apply_redeliver # NoRow
  BY NewRows, OutboxAssumption
<1>3. TypeOK'
  BY <1>1, <1>2 DEF OutboxInvariant, TypeOK
<1>4. Rows' = Rows
  BY <1>1, <1>2 DEF Rows, OutboxInvariant, TypeOK
<1>5. ConfirmedHasEvent' /\ RowsHaveCause' /\ TasksHaveRows' /\ LeasesAreUnique' /\ BodiesAreStored'
  BY <1>1, <1>4 DEF OutboxInvariant, ConfirmedHasEvent, RowsHaveCause, TasksHaveRows,
                    LeasesAreUnique, BodiesAreStored
<1>6. SendsAreAttempts'
  <2> SUFFICES ASSUME NEW e \in Delivery PROVE Paid(e)'
    BY DEF SendsAreAttempts
  <2>1. Paid(e) /\ Held(e)' = Held(e) /\ posts'[e] = posts[e]
    BY <1>1, HeldKept DEF OutboxInvariant, SendsAreAttempts
  <2>2. CASE e # d
    <3>1. Attempts(e)' = Attempts(e) /\ budgets'[e] = budgets[e]
      BY <1>1, <1>4, <2>2 DEF Attempts, OutboxInvariant, TypeOK
    <3>2. QED
      BY <2>1, <3>1, Zenon DEF Paid
  <2>3. CASE e = d
    <3>1. Attempts(d)' = 0 /\ budgets'[d] = budgets[d] + 1
      BY <1>1, <1>2, <1>4 DEF Attempts, OutboxInvariant, TypeOK
    <3>2. Attempts(d) \in 0..MAX_ATTEMPTS /\ MAX_ATTEMPTS \in Nat
      BY <1>1, OutboxAssumption DEF Attempts, OutboxInvariant, TypeOK, Rows, DeliveryRow
    <3>3. budgets[d] \in Nat \ {0} /\ posts[d] \in Nat
      BY DEF OutboxInvariant, TypeOK
    <3>4. Cardinality(Held(d)) \in Nat
      BY <2>1, <2>3, FS_CardinalityType DEF Paid
    <3>5. posts[d] + Cardinality(Held(d)) <= MAX_ATTEMPTS * (budgets[d] - 1) + Attempts(d)
      BY <2>1, <2>3 DEF Paid
    <3>6. posts[d] + Cardinality(Held(d)) <= MAX_ATTEMPTS * ((budgets[d] + 1) - 1) + 0
      BY <3>2, <3>3, <3>4, <3>5, OneBudgetMore
    <3>7. QED
      BY <2>1, <2>3, <3>1, <3>6 DEF Paid
  <2>4. QED
    BY <2>2, <2>3
<1>7. QED
  BY <1>3, <1>5, <1>6 DEF OutboxInvariant


-----------------------------------------------------------------------------
(* The dispatcher.                                                          *)

\* Leasing one more attempt of a delivery counts one more of its attempts.
LEMMA LeaseCounts ==
  ASSUME TypeOK, NEW d \in Delivery, Paid(d), NEW token \in Token, token \notin Held(d),
         Held(d)' = Held(d) \cup {token}, Attempts(d) \in Nat,
         Attempts(d)' = Attempts(d) + 1,
         UNCHANGED <<posts, budgets>>
  PROVE  Paid(d)'
<1>1. IsFiniteSet(Held(d))
  BY DEF Paid
<1>2. Cardinality(Held(d)) \in Nat
  BY <1>1, FS_CardinalityType
<1>3. /\ IsFiniteSet(Held(d) \cup {token})
      /\ Cardinality(Held(d) \cup {token}) = Cardinality(Held(d)) + 1
  BY <1>1, FS_AddElement
<1>4. /\ posts[d] \in Nat /\ budgets[d] \in Nat \ {0} /\ MAX_ATTEMPTS \in Nat
      /\ MAX_ATTEMPTS * (budgets[d] - 1) \in Nat
  <2>1. posts[d] \in Nat /\ budgets[d] \in Nat \ {0}
    BY Zenon DEF TypeOK
  <2>2. QED
    BY <2>1, OutboxAssumption, OneBudgetMore, Zenon
<1>5. posts[d] + Cardinality(Held(d)) <= MAX_ATTEMPTS * (budgets[d] - 1) + Attempts(d)
  BY DEF Paid
<1>6. posts[d] + (Cardinality(Held(d)) + 1) <= MAX_ATTEMPTS * (budgets[d] - 1) + (Attempts(d) + 1)
  BY <1>2, <1>4, <1>5
<1>7. QED
  BY <1>3, <1>6 DEF Paid

\* Tasks that are fewer hold fewer tokens.
LEMMA FewerHeld ==
  ASSUME TypeOK, NEW d \in Delivery, Paid(d), Held(d)' \subseteq Held(d),
         Attempts(d)' = Attempts(d), UNCHANGED <<posts, budgets>>, Attempts(d) \in Nat
  PROVE  Paid(d)'
<1>1. IsFiniteSet(Held(d))
  BY DEF Paid
<1>2. IsFiniteSet(Held(d)') /\ Cardinality(Held(d)') <= Cardinality(Held(d))
  BY <1>1, FS_Subset
<1>3. Cardinality(Held(d)) \in Nat /\ Cardinality(Held(d)') \in Nat
  BY <1>1, <1>2, FS_CardinalityType
<1>4. posts[d] \in Nat /\ MAX_ATTEMPTS * (budgets[d] - 1) \in Nat
  <2>1. posts[d] \in Nat /\ budgets[d] \in Nat \ {0}
    BY Zenon DEF TypeOK
  <2>2. QED
    BY <2>1, OutboxAssumption, OneBudgetMore, Zenon
<1>5. posts[d] + Cardinality(Held(d)) <= MAX_ATTEMPTS * (budgets[d] - 1) + Attempts(d)
  BY DEF Paid
<1>6. posts[d] + Cardinality(Held(d)') <= MAX_ATTEMPTS * (budgets[d] - 1) + Attempts(d)
  BY <1>2, <1>3, <1>4, <1>5
<1>7. QED
  BY <1>2, <1>6 DEF Paid

\* Attempts are counted in a row's range.
LEMMA AttemptsType ==
  ASSUME TypeOK, NEW d \in Delivery
  PROVE  Attempts(d) \in 0..MAX_ATTEMPTS /\ Attempts(d) \in Nat /\ MAX_ATTEMPTS \in Nat
BY OutboxAssumption DEF TypeOK, Attempts, Rows, DeliveryRow

LEMMA ClaimKeepsInv ==
  ASSUME OutboxInvariant, NEW token \in Token, claim_webhook_deliveries(token)
  PROVE  OutboxInvariant'
<1>1. PICK batch \in Batches :
        /\ delivery' = [d \in Delivery |->
               IF d \in {e \in batch : claim_action(e)} THEN apply_claim(delivery[d], token)
               ELSE IF d \in batch THEN apply_exhaust(delivery[d])
               ELSE delivery[d]]
        /\ task' = task \cup {Leased(d, token) : d \in {e \in batch : claim_action(e)}}
  BY DEF claim_webhook_deliveries
<1>2. /\ FreshToken(token)
      /\ UNCHANGED <<hooks, payment, event, subscription, posts, budgets, posted>>
  BY DEF claim_webhook_deliveries, history
<1> DEFINE claimed == {e \in batch : claim_action(e)}
<1>3. batch \subseteq Rows /\ claimed \subseteq batch
  BY DEF Batches, Due
<1>4. \A d \in Rows : delivery[d] \in DeliveryRow /\ d \in Delivery
  BY DEF OutboxInvariant, TypeOK, Rows
<1>5. \A d \in claimed :
        /\ delivery'[d] \in DeliveryRow /\ delivery'[d].attempts = delivery[d].attempts + 1
        /\ delivery[d].attempts < MAX_ATTEMPTS
  BY <1>1, <1>3, <1>4, RowEdits DEF claim_action
<1>6. \A d \in Rows \ claimed :
        delivery'[d] \in DeliveryRow /\ delivery'[d].attempts = delivery[d].attempts
  BY <1>1, <1>4, RowEdits
<1>7. \A d \in Delivery \ Rows : delivery'[d] = NoRow
  BY <1>1, <1>3 DEF Rows
<1>8. Rows' = Rows
  BY <1>3, <1>5, <1>6, <1>7, OutboxAssumption, ZenonT(40) DEF Rows
<1>9. \A d \in claimed :
        /\ Leased(d, token) \in ClaimedDelivery
        /\ Leased(d, token).delivery = d /\ Leased(d, token).token = token
        /\ Leased(d, token).outcome = "none"
  <2> SUFFICES ASSUME NEW d \in claimed
               PROVE  /\ Leased(d, token) \in ClaimedDelivery
                      /\ Leased(d, token).delivery = d /\ Leased(d, token).token = token
                      /\ Leased(d, token).outcome = "none"
    OBVIOUS
  <2>1. delivery[d].attempts \in 0..MAX_ATTEMPTS /\ MAX_ATTEMPTS \in Nat
    BY <1>3, <1>4, OutboxAssumption DEF DeliveryRow
  <2>2. delivery[d].attempts + 1 \in 1..MAX_ATTEMPTS
    BY <1>5, <2>1
  <2>3. d \in Delivery
    BY <1>3, <1>4
  <2>4. QED
    BY <2>2, <2>3 DEF Leased, ClaimedDelivery
<1> HIDE DEF claimed
<1>10. task' = task \cup {Leased(d, token) : d \in claimed}
  BY <1>1 DEF claimed
<1>11. TypeOK'
  <2>1. delivery' \in [Delivery -> DeliveryRow \cup {NoRow}]
    BY <1>1, <1>5, <1>6, <1>7
  <2>2. task' \subseteq ClaimedDelivery
    <3>1. task \subseteq ClaimedDelivery
      BY DEF OutboxInvariant, TypeOK
    <3>2. \A d \in claimed : Leased(d, token) \in ClaimedDelivery
      BY <1>9, Zenon
    <3>3. {Leased(d, token) : d \in claimed} \subseteq ClaimedDelivery
      BY <3>2, Zenon
    <3>4. QED
      BY <1>10, <3>1, <3>3, Zenon
  <2>3. QED
    BY <1>2, <2>1, <2>2 DEF OutboxInvariant, TypeOK
<1>12. ConfirmedHasEvent' /\ RowsHaveCause' /\ BodiesAreStored'
  BY <1>2, <1>8 DEF OutboxInvariant, ConfirmedHasEvent, RowsHaveCause, BodiesAreStored
<1>13. TasksHaveRows'
  BY <1>3, <1>8, <1>9, <1>10 DEF OutboxInvariant, TasksHaveRows, claimed
<1>14. LeasesAreUnique'
  <2> SUFFICES ASSUME NEW t \in task', NEW u \in task',
                      t.delivery = u.delivery, t.token = u.token
               PROVE  t = u
    BY DEF LeasesAreUnique
  <2>1. \A x \in task : x.token # token
    BY <1>2 DEF FreshToken
  <2>2. CASE t \in task /\ u \in task
    BY <2>2 DEF OutboxInvariant, LeasesAreUnique
  <2>3. CASE t \notin task /\ u \notin task
    <3>1. PICK d \in claimed, e \in claimed : t = Leased(d, token) /\ u = Leased(e, token)
      BY <1>10, <2>3
    <3>2. QED
      BY <1>9, <3>1
  <2>4. QED
    BY <1>9, <1>10, <2>1, <2>2, <2>3
<1>15. SendsAreAttempts'
  <2> SUFFICES ASSUME NEW d \in Delivery PROVE Paid(d)'
    BY DEF SendsAreAttempts
  <2>1. Paid(d) /\ TypeOK /\ Attempts(d) \in Nat
    BY AttemptsType DEF OutboxInvariant, SendsAreAttempts
  <2>2. CASE d \in claimed
    <3>1. token \notin Held(d)
      BY <1>2 DEF Held, FreshToken
    <3>2. Held(d)' = Held(d) \cup {token}
      BY <1>9, <1>10, <2>2 DEF Held
    <3>3. Attempts(d)' = Attempts(d) + 1
      BY <1>3, <1>5, <1>8, <2>2 DEF Attempts, claimed
    <3>4. QED
      BY <1>2, <2>1, <3>1, <3>2, <3>3, LeaseCounts
  <2>3. CASE d \notin claimed
    <3>1. Held(d)' = Held(d)
      BY <1>9, <1>10, <2>3 DEF Held
    <3>2. Attempts(d)' = Attempts(d)
      BY <1>6, <1>8, <2>3 DEF Attempts
    <3>3. QED
      BY <1>2, <2>1, <3>1, <3>2, FewerHeld
  <2>4. QED
    BY <2>2, <2>3
<1>16. QED
  BY <1>11, <1>12, <1>13, <1>14, <1>15 DEF OutboxInvariant


\* An attempt that is over: its task stays, its token is held no longer, and at
\* most one request more was sent.
LEMMA AttemptEnds ==
  ASSUME OutboxInvariant, NEW t \in task, t.outcome = "none", NEW u \in ClaimedDelivery,
         u.outcome # "none", u.delivery = t.delivery, u.token = t.token,
         task' = (task \ {t}) \cup {u},
         NEW n \in {0, 1}, posts' = [posts EXCEPT ![t.delivery] = posts[t.delivery] + n],
         UNCHANGED <<delivery, budgets>>
  PROVE  TasksHaveRows' /\ LeasesAreUnique' /\ SendsAreAttempts'
<1>1. t \in ClaimedDelivery /\ t.delivery \in Delivery /\ t.token \in Token
  BY DEF OutboxInvariant, TypeOK, ClaimedDelivery
<1>2. TasksHaveRows'
  BY DEF OutboxInvariant, TasksHaveRows, Rows
<1>3. LeasesAreUnique'
  BY DEF OutboxInvariant, LeasesAreUnique
<1>4. SendsAreAttempts'
  <2> SUFFICES ASSUME NEW d \in Delivery PROVE Paid(d)'
    BY DEF SendsAreAttempts
  <2>1. Paid(d) /\ TypeOK /\ Attempts(d) \in Nat /\ Attempts(d)' = Attempts(d)
    BY AttemptsType DEF OutboxInvariant, SendsAreAttempts, Attempts, Rows
  <2>2. CASE d # t.delivery
    <3>1. Held(d)' = Held(d) /\ posts'[d] = posts[d]
      BY <2>1, <2>2 DEF Held, TypeOK
    <3>2. QED
      BY <2>1, <3>1, Zenon DEF Paid
  <2>3. CASE d = t.delivery
    <3>1. t.token \in Held(d)
      BY <1>1, <2>3 DEF Held
    <3>2. Held(d)' \subseteq Held(d) \ {t.token}
      BY <2>3 DEF Held, OutboxInvariant, LeasesAreUnique
    <3>3. IsFiniteSet(Held(d)) /\ IsFiniteSet(Held(d) \ {t.token})
      BY <2>1, FS_RemoveElement DEF Paid
    <3>4. Cardinality(Held(d) \ {t.token}) = Cardinality(Held(d)) - 1
      BY <3>1, <3>3, FS_RemoveElement
    <3>5. IsFiniteSet(Held(d)') /\ Cardinality(Held(d)') <= Cardinality(Held(d) \ {t.token})
      BY <3>2, <3>3, FS_Subset
    <3>6. Cardinality(Held(d)) \in Nat /\ Cardinality(Held(d)') \in Nat
      BY <3>3, <3>5, FS_CardinalityType
    <3>7. /\ posts[d] \in Nat /\ MAX_ATTEMPTS * (budgets[d] - 1) \in Nat
          /\ posts'[d] = posts[d] + n /\ n <= 1 /\ n \in Nat
      <4>1. posts[d] \in Nat /\ posts'[d] = posts[d] + n
        BY <2>1, <2>3 DEF TypeOK
      <4>2. budgets[d] \in Nat \ {0} /\ MAX_ATTEMPTS \in Nat
        BY <2>1, OutboxAssumption DEF TypeOK
      <4>3. QED
        BY <4>1, <4>2, OneBudgetMore
    <3>8. posts[d] + Cardinality(Held(d)) <= MAX_ATTEMPTS * (budgets[d] - 1) + Attempts(d)
      BY <2>1, ZenonT(40) DEF Paid
    <3>9. (posts[d] + n) + Cardinality(Held(d)') <= MAX_ATTEMPTS * (budgets[d] - 1) + Attempts(d)
      BY <2>1, <3>4, <3>5, <3>6, <3>7, <3>8
    <3>10. QED
      BY <2>1, <3>5, <3>7, <3>9 DEF Paid
  <2>4. QED
    BY <2>2, <2>3
<1>5. QED
  BY <1>2, <1>3, <1>4

LEMMA DeliverKeepsInv ==
  ASSUME OutboxInvariant, NEW t \in task, deliver(t)
  PROVE  OutboxInvariant'
<1>1. /\ t \in ClaimedDelivery /\ t.delivery \in Rows /\ t.delivery \in Delivery
      /\ t.delivery[1] \in Receipt
  BY DEF OutboxInvariant, TypeOK, TasksHaveRows, ClaimedDelivery, Delivery
<1>2. t.outcome = "none" /\ UNCHANGED <<hooks, payment, event, subscription, delivery, budgets>>
  BY DEF deliver, rowVars
<1>3. PICK u \in ClaimedDelivery :
        /\ u.outcome # "none" /\ u.delivery = t.delivery /\ u.token = t.token
        /\ task' = (task \ {t}) \cup {u}
  <2>1. RETRY_AFTER \subseteq Nat /\ 0 \in Nat
    BY OutboxAssumption
  <2>2. \/ Answered(t, [t EXCEPT !.outcome = "exhausted"])
        \/ Answered(t, [t EXCEPT !.outcome = "delivered"])
        \/ \E floor \in Nat : Answered(t, Failed(t, floor))
    BY <2>1, Zenon DEF deliver
  <2>3. QED
    BY <1>1, <2>2, AnswerEdits, ZenonT(40) DEF Answered
<1> DEFINE r == t.delivery[1]
<1>4. event[r] # NoRow /\ event[r] \in Body
  BY <1>1 DEF OutboxInvariant, RowsHaveCause, TypeOK
<1>5. \/ UNCHANGED <<posts, posted>>
      \/ /\ posts' = [posts EXCEPT ![t.delivery] = posts[t.delivery] + 1]
         /\ posted' = [posted EXCEPT ![r] = posted[r] \cup {event[r]}]
  BY Zenon DEF deliver
<1>6. PICK n \in {0, 1} : posts' = [posts EXCEPT ![t.delivery] = posts[t.delivery] + n]
  <2>1. CASE UNCHANGED <<posts, posted>>
    <3>1. posts' = [posts EXCEPT ![t.delivery] = posts[t.delivery] + 0]
      BY <1>1, <2>1 DEF OutboxInvariant, TypeOK
    <3>2. QED
      BY <3>1
  <2>2. QED
    BY <1>5, <2>1
<1>7. TasksHaveRows' /\ LeasesAreUnique' /\ SendsAreAttempts'
  BY <1>2, <1>3, <1>6, AttemptEnds, Zenon
<1>8. \A x \in Receipt : posted'[x] = posted[x] \/ (x = r /\ posted'[x] = posted[x] \cup {event[r]})
  BY <1>5, ZenonT(40) DEF OutboxInvariant, TypeOK
<1>9. BodiesAreStored'
  BY <1>2, <1>4, <1>8 DEF OutboxInvariant, BodiesAreStored
<1>10. TypeOK'
  <2>1. posts' \in [Delivery -> Nat]
    BY <1>1, <1>6 DEF OutboxInvariant, TypeOK
  <2>2. posted' \in [Receipt -> SUBSET Body]
    BY <1>1, <1>4, <1>5 DEF OutboxInvariant, TypeOK
  <2>3. task' \subseteq ClaimedDelivery
    BY <1>3 DEF OutboxInvariant, TypeOK
  <2>4. QED
    BY <1>2, <2>1, <2>2, <2>3 DEF OutboxInvariant, TypeOK
<1>11. ConfirmedHasEvent' /\ RowsHaveCause'
  BY <1>2 DEF OutboxInvariant, ConfirmedHasEvent, RowsHaveCause, Rows
<1>12. QED
  BY <1>7, <1>9, <1>10, <1>11 DEF OutboxInvariant

\* Tasks that end, recorded or not, hold nothing any more.
LEMMA TasksEnd ==
  ASSUME OutboxInvariant, task' \subseteq task, UNCHANGED <<posts, budgets>>,
         Rows' = Rows, \A d \in Rows : delivery'[d].attempts = delivery[d].attempts
  PROVE  TasksHaveRows' /\ LeasesAreUnique' /\ SendsAreAttempts'
<1>1. TasksHaveRows' /\ LeasesAreUnique'
  BY DEF OutboxInvariant, TasksHaveRows, LeasesAreUnique
<1>2. ASSUME NEW d \in Delivery PROVE Paid(d)'
  <2>1. Paid(d) /\ TypeOK /\ Attempts(d) \in Nat /\ Attempts(d)' = Attempts(d)
    BY AttemptsType DEF OutboxInvariant, SendsAreAttempts, Attempts
  <2>2. Held(d)' \subseteq Held(d)
    BY DEF Held
  <2>3. QED
    BY <2>1, <2>2, FewerHeld
<1>3. QED
  BY <1>1, <1>2 DEF SendsAreAttempts

LEMMA CompleteKeepsInv ==
  ASSUME OutboxInvariant, NEW t \in task, complete_webhook_delivery(t)
  PROVE  OutboxInvariant'
<1>1. /\ t.outcome # "none" /\ task' = task \ {t}
      /\ delivery' = [delivery EXCEPT ![t.delivery] =
             IF Holds(t) THEN apply_outcome(delivery[t.delivery], t) ELSE delivery[t.delivery]]
      /\ UNCHANGED <<hooks, payment, event, subscription, posts, budgets, posted>>
  BY DEF complete_webhook_delivery, history
<1>2. t \in ClaimedDelivery /\ t.delivery \in Rows /\ delivery[t.delivery] \in DeliveryRow
  BY DEF OutboxInvariant, TypeOK, TasksHaveRows, Rows
<1> DEFINE row == IF Holds(t) THEN apply_outcome(delivery[t.delivery], t) ELSE delivery[t.delivery]
<1>3. row \in DeliveryRow /\ row.attempts = delivery[t.delivery].attempts /\ row # NoRow
  BY <1>1, <1>2, RowEdits, OutboxAssumption, Zenon
<1>4. delivery' = [delivery EXCEPT ![t.delivery] = row]
  BY <1>1
<1> HIDE DEF row
<1>5. /\ delivery' \in [Delivery -> DeliveryRow \cup {NoRow}] /\ Rows' = Rows
      /\ \A d \in Rows : delivery'[d].attempts = delivery[d].attempts
  BY <1>2, <1>3, <1>4 DEF OutboxInvariant, TypeOK, Rows
<1>6. TasksHaveRows' /\ LeasesAreUnique' /\ SendsAreAttempts'
  BY <1>1, <1>5, TasksEnd
<1>7. TypeOK'
  BY <1>1, <1>5, ZenonT(40) DEF OutboxInvariant, TypeOK
<1>8. ConfirmedHasEvent' /\ RowsHaveCause' /\ BodiesAreStored'
  BY <1>1, <1>5 DEF OutboxInvariant, ConfirmedHasEvent, RowsHaveCause, BodiesAreStored
<1>9. QED
  BY <1>6, <1>7, <1>8 DEF OutboxInvariant

LEMMA DeathKeepsInv ==
  ASSUME OutboxInvariant, (\E t \in task : Crash(t)) \/ Restart
  PROVE  OutboxInvariant'
<1>1. /\ task' \subseteq task /\ hooks' \in BOOLEAN
      /\ UNCHANGED <<payment, event, subscription, delivery, posts, budgets, posted>>
  BY Zenon DEF Crash, Restart, rowVars, history, OutboxInvariant, TypeOK
<1>2. TasksHaveRows' /\ LeasesAreUnique' /\ SendsAreAttempts'
  BY <1>1, TasksEnd DEF Rows
<1>3. TypeOK'
  BY <1>1 DEF OutboxInvariant, TypeOK
<1>4. ConfirmedHasEvent' /\ RowsHaveCause' /\ BodiesAreStored'
  BY <1>1 DEF OutboxInvariant, ConfirmedHasEvent, RowsHaveCause, BodiesAreStored, Rows
<1>5. QED
  BY <1>2, <1>3, <1>4 DEF OutboxInvariant


-----------------------------------------------------------------------------
(* Time.                                                                    *)

\* Who is older stays at least as old.
LEMMA AgesKeepOrder ==
  ASSUME NEW m \in Nat, NEW n \in Nat
  PROVE  Aged(m) \in Nat /\ (m >= n => Aged(m) >= Aged(n))
BY OutboxAssumption DEF Aged, Smaller

LEMMA TickKeepsInv ==
  ASSUME OutboxInvariant, Tick
  PROVE  OutboxInvariant'
<1>1. /\ payment' = [r \in Receipt |-> [payment[r] EXCEPT !.age = Aged(payment[r].age)]]
      /\ subscription' = [s \in Subscription |->
             IF s \in Existing THEN [subscription[s] EXCEPT !.age = Aged(subscription[s].age)]
             ELSE NoRow]
      /\ delivery' = [d \in Delivery |->
             IF d \in Rows THEN [delivery[d] EXCEPT !.due_in = Lower(delivery[d].due_in)]
             ELSE NoRow]
      /\ task' = {[t EXCEPT !.delay = Lower(t.delay)] : t \in task}
      /\ UNCHANGED <<hooks, event, posts, budgets, posted>>
  BY DEF Tick, history
<1>2. \A n \in Int : Lower(n) \in Int
  BY OutboxAssumption DEF Lower
<1>3. \A r \in Receipt :
        /\ payment[r].age \in Nat /\ Aged(payment[r].age) \in Nat
        /\ payment'[r] \in [status: {"open", "confirmed"}, age: Nat, armed: BOOLEAN]
        /\ payment'[r].status = payment[r].status /\ payment'[r].armed = payment[r].armed
        /\ payment'[r].age = Aged(payment[r].age)
  <2> SUFFICES ASSUME NEW r \in Receipt
      PROVE  /\ payment[r].age \in Nat /\ Aged(payment[r].age) \in Nat
             /\ payment'[r] \in [status: {"open", "confirmed"}, age: Nat, armed: BOOLEAN]
             /\ payment'[r].status = payment[r].status /\ payment'[r].armed = payment[r].armed
             /\ payment'[r].age = Aged(payment[r].age)
    OBVIOUS
  <2>1. payment[r] \in [status: {"open", "confirmed"}, age: Nat, armed: BOOLEAN]
    BY DEF OutboxInvariant, TypeOK
  <2>2. Aged(payment[r].age) \in Nat
    BY <2>1, AgesKeepOrder
  <2>3. QED
    BY <1>1, <2>1, <2>2
<1>4. \A s \in Existing :
        /\ subscription[s].age \in Nat
        /\ subscription'[s] \in SubscriptionRow /\ subscription'[s].age = Aged(subscription[s].age)
  <2> SUFFICES ASSUME NEW s \in Existing
      PROVE  /\ subscription[s].age \in Nat
             /\ subscription'[s] \in SubscriptionRow
             /\ subscription'[s].age = Aged(subscription[s].age)
    OBVIOUS
  <2>1. subscription[s] \in SubscriptionRow /\ s \in Subscription
    BY DEF OutboxInvariant, TypeOK, Existing
  <2>2. subscription[s].age \in Nat /\ Aged(subscription[s].age) \in Nat
    BY <2>1, AgesKeepOrder DEF SubscriptionRow
  <2>3. QED
    BY <1>1, <2>1, <2>2 DEF SubscriptionRow
<1>5. \A d \in Rows : /\ delivery'[d] \in DeliveryRow
                      /\ delivery'[d].attempts = delivery[d].attempts
  <2> SUFFICES ASSUME NEW d \in Rows
               PROVE delivery'[d] \in DeliveryRow /\ delivery'[d].attempts = delivery[d].attempts
    OBVIOUS
  <2>1. delivery[d] \in DeliveryRow /\ d \in Delivery
    BY DEF OutboxInvariant, TypeOK, Rows
  <2>2. Lower(delivery[d].due_in) \in Int
    BY <1>2, <2>1 DEF DeliveryRow
  <2>3. QED
    BY <1>1, <2>1, <2>2, RowEdits, Zenon
<1>6. \A d \in Delivery \ Rows : delivery'[d] = NoRow
  BY <1>1, ZenonT(40)
<1>7. Rows' = Rows
  BY <1>5, <1>6, OutboxAssumption DEF Rows
<1>8. \A t \in task : LET u == [t EXCEPT !.delay = Lower(t.delay)]
                      IN  /\ u \in ClaimedDelivery /\ u.delivery = t.delivery
                          /\ u.token = t.token /\ u.outcome = t.outcome
  BY <1>2 DEF OutboxInvariant, TypeOK, ClaimedDelivery
<1>9. TypeOK'
  <2>1. delivery' \in [Delivery -> DeliveryRow \cup {NoRow}]
    BY <1>1, <1>5, <1>6, Zenon
  <2>2. subscription' \in [Subscription -> SubscriptionRow \cup {NoRow}]
    BY <1>1, <1>4, Zenon
  <2>3. payment' \in [Receipt -> [status: {"open", "confirmed"}, age: Nat, armed: BOOLEAN]]
    BY <1>1, <1>3
  <2>4. task' \subseteq ClaimedDelivery
    BY <1>1, <1>8
  <2>5. QED
    BY <1>1, <2>1, <2>2, <2>3, <2>4 DEF OutboxInvariant, TypeOK
<1>10. ConfirmedHasEvent' /\ BodiesAreStored'
  BY <1>1, <1>3 DEF OutboxInvariant, ConfirmedHasEvent, BodiesAreStored
<1>11. RowsHaveCause'
  <2> SUFFICES ASSUME NEW d \in Rows
               PROVE  /\ event[d[1]] # NoRow
                      /\ subscription'[d[2]] # NoRow
                      /\ subscription'[d[2]].age >= payment'[d[1]].age
    BY <1>1, <1>7 DEF RowsHaveCause
  <2>1. d[1] \in Receipt /\ d[2] \in Existing
    BY DEF OutboxInvariant, RowsHaveCause, Rows, Delivery, Existing
  <2>2. event[d[1]] # NoRow /\ subscription[d[2]].age >= payment[d[1]].age
    BY DEF OutboxInvariant, RowsHaveCause
  <2>3. Aged(subscription[d[2]].age) >= Aged(payment[d[1]].age)
    BY <1>3, <1>4, <2>1, <2>2, AgesKeepOrder
  <2>4. QED
    BY <1>3, <1>4, <2>1, <2>2, <2>3, OutboxAssumption
<1>12. TasksHaveRows'
  BY <1>1, <1>7, <1>8, Zenon DEF OutboxInvariant, TasksHaveRows
<1>13. LeasesAreUnique'
  <2> SUFFICES ASSUME NEW t \in task', NEW u \in task',
                      t.delivery = u.delivery, t.token = u.token
               PROVE  t = u
    BY DEF LeasesAreUnique
  <2>1. PICK x \in task, y \in task : /\ t = [x EXCEPT !.delay = Lower(x.delay)]
                                      /\ u = [y EXCEPT !.delay = Lower(y.delay)]
    BY <1>1
  <2>2. x = y
    BY <1>8, <2>1 DEF OutboxInvariant, LeasesAreUnique
  <2>3. QED
    BY <2>1, <2>2
<1>14. SendsAreAttempts'
  <2>1. ASSUME NEW d \in Delivery PROVE Held(d)' = Held(d)
    <3>1. ASSUME NEW k \in Held(d) PROVE k \in Held(d)'
      <4>1. PICK t \in task : t.delivery = d /\ t.token = k /\ t.outcome = "none"
        BY DEF Held
      <4>2. [t EXCEPT !.delay = Lower(t.delay)] \in task'
        BY <1>1, Zenon
      <4>3. QED
        BY <1>8, <4>1, <4>2, Zenon DEF Held
    <3>2. ASSUME NEW k \in Held(d)' PROVE k \in Held(d)
      <4>1. PICK u \in task' : u.delivery = d /\ u.token = k /\ u.outcome = "none"
        BY DEF Held
      <4>2. PICK t \in task : u = [t EXCEPT !.delay = Lower(t.delay)]
        BY <1>1
      <4>3. QED
        BY <1>8, <4>1, <4>2 DEF Held
    <3>3. QED
      BY <3>1, <3>2
  <2>2. \A d \in Delivery : Attempts(d)' = Attempts(d)
    BY <1>5, <1>7 DEF Attempts
  <2>3. QED
    BY <1>1, <2>1, <2>2, SendsKept DEF OutboxInvariant
<1>15. QED
  BY <1>9, <1>10, <1>11, <1>12, <1>13, <1>14 DEF OutboxInvariant

-----------------------------------------------------------------------------
(* The theorems.                                                            *)

LEMMA OutboxStarts == Init => OutboxInvariant
<1> SUFFICES ASSUME Init PROVE OutboxInvariant
  OBVIOUS
<1>1. TypeOK
  BY DEF Init, TypeOK
<1>2. Rows = {} /\ task = {}
  BY ZenonT(40) DEF Init, Rows
<1>3. ConfirmedHasEvent /\ RowsHaveCause /\ TasksHaveRows /\ LeasesAreUnique /\ BodiesAreStored
  BY <1>2 DEF Init, ConfirmedHasEvent, RowsHaveCause, TasksHaveRows, LeasesAreUnique,
              BodiesAreStored
<1>4. ASSUME NEW d \in Delivery PROVE Paid(d)
  <2>1. Held(d) = {} /\ Attempts(d) = 0 /\ posts[d] = 0 /\ budgets[d] = 1
    BY <1>2 DEF Held, Attempts, Init
  <2>2. IsFiniteSet(Held(d)) /\ Cardinality(Held(d)) = 0
    BY <2>1, FS_EmptySet
  <2>3. MAX_ATTEMPTS * (1 - 1) = 0
    BY OutboxAssumption
  <2>4. QED
    BY <2>1, <2>2, <2>3 DEF Paid
<1>5. QED
  BY <1>1, <1>3, <1>4 DEF OutboxInvariant, SendsAreAttempts

LEMMA OutboxSteps == OutboxInvariant /\ [Next]_vars => OutboxInvariant'
<1> SUFFICES ASSUME OutboxInvariant, [Next]_vars PROVE OutboxInvariant'
  BY ZenonT(40)
<1>1. CASE UNCHANGED vars
  <2>1. UNCHANGED <<hooks, payment, event, subscription, delivery, task, posts, budgets, posted>>
    BY <1>1 DEF vars
  <2>2. SendsAreAttempts'
    <3>1. \A d \in Delivery : Attempts(d)' = Attempts(d)
      BY <2>1 DEF Attempts, Rows
    <3>2. QED
      BY <2>1, <3>1, HeldKept, SendsKept DEF OutboxInvariant
  <2>3. QED
    BY <2>1, <2>2 DEF OutboxInvariant, TypeOK, ConfirmedHasEvent, RowsHaveCause, TasksHaveRows,
                      LeasesAreUnique, BodiesAreStored, Rows
<1>2. CASE Next
  BY <1>2, EventsKeepInv, CreateKeepsInv, DisableKeepsInv, RedeliverKeepsInv, ClaimKeepsInv,
     DeliverKeepsInv, CompleteKeepsInv, DeathKeepsInv, TickKeepsInv DEF Next, Dispatch, Finish
<1>3. QED
  BY <1>1, <1>2

\* What is announced of a payment, to whom, in which words and how often: whatever
\* passes overlap, die or record late, a payment confirmed under enabled webhooks has
\* its event, only endpoints of its time get it, every request carries the same body,
\* and no endpoint is sent more than MAX_ATTEMPTS requests per budget
\* (put_payment_with_events, reconcile, claim_webhook_deliveries, deliver).
THEOREM OutboxStaysSound == Spec => []OutboxIsSound
<1>1. OutboxInvariant => OutboxIsSound
  <2> SUFFICES ASSUME OutboxInvariant PROVE OutboxIsSound
    OBVIOUS
  <2>1. ConfirmedHasEvent /\ OnlyEarlierEndpoints
    BY DEF OutboxInvariant, RowsHaveCause, OnlyEarlierEndpoints
  <2>2. ASSUME NEW r \in Receipt PROVE Cardinality(posted[r]) <= 1
    <3>1. IsFiniteSet({event[r]}) /\ Cardinality({event[r]}) = 1
      BY FS_Singleton, Zenon
    <3>2. posted[r] \subseteq {event[r]}
      BY DEF OutboxInvariant, BodiesAreStored
    <3>3. Cardinality(posted[r]) <= Cardinality({event[r]})
      BY <3>1, <3>2, FS_Subset
    <3>4. QED
      BY <3>1, <3>3
  <2>3. ASSUME NEW d \in Delivery PROVE posts[d] <= MAX_ATTEMPTS * budgets[d]
    <3>1. Paid(d) /\ TypeOK
      BY DEF OutboxInvariant, SendsAreAttempts
    <3>2. Attempts(d) \in 0..MAX_ATTEMPTS /\ MAX_ATTEMPTS \in Nat
      BY <3>1, AttemptsType
    <3>3. posts[d] \in Nat /\ budgets[d] \in Nat \ {0}
      BY <3>1 DEF TypeOK
    <3>4. Cardinality(Held(d)) \in Nat
      BY <3>1, FS_CardinalityType DEF Paid
    <3>5. posts[d] + Cardinality(Held(d)) <= MAX_ATTEMPTS * (budgets[d] - 1) + Attempts(d)
      BY <3>1 DEF Paid
    <3>6. QED
      BY <3>2, <3>3, <3>4, <3>5, OneBudgetMore
  <2>4. QED
    BY <2>1, <2>2, <2>3 DEF OutboxIsSound, EventsAreStable, BytesAreStable, PostsWithinBudget
<1>2. QED
  BY <1>1, OutboxStarts, OutboxSteps, PTL DEF Spec
=============================================================================
