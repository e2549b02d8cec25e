------------------------------- MODULE Outbox -------------------------------
(***************************************************************************)
(* The owner webhook outbox of one owner: events written with the payment   *)
(* that confirms, one delivery per event and endpoint, and dispatcher       *)
(* passes that lease, send and record deliveries while others overlap or    *)
(* die (storage/webhooks.rs, webhooks/dispatch.rs, server_webhooks.rs and   *)
(* their mirror convex/webhooks.ts).                                        *)
(*                                                                          *)
(* Times are kept relative to the clock: ages grow and `due_in` falls with  *)
(* every Tick, so a bounded state covers an unbounded run.                  *)
(***************************************************************************)
EXTENDS Integers, FiniteSets, Sequences

CONSTANTS
    Receipt,         \* receipts of the owner's payments
    Subscription,    \* random subscription ids
    Token,           \* random lease tokens
    Body,            \* what an event may say: `decimals` is read or null
    NoRow, NoToken,  \* model values
    MAX_ATTEMPTS, BACKOFF, RETRY_AFTER, LEASE, BATCH, LOOKBACK,
    MAX_ACTIVE, MAX_ROWS,
    MaxBudgets,      \* bound: attempt budgets of one delivery
    Overdue          \* rows overdue by at least this many ticks are tied

Delivery == Receipt \X Subscription
DeliveryState == {"pending", "delivering", "delivered", "retry_scheduled", "exhausted"}
Settled == {"delivered", "exhausted"}

SubscriptionRow == [status: {"active", "disabled"}, age: Nat]
DeliveryRow ==
    [state: DeliveryState, attempts: 0..MAX_ATTEMPTS, due_in: Int, lease: Token \cup {NoToken}]
ClaimedDelivery ==
    [delivery: Delivery, token: Token, attempts: 1..MAX_ATTEMPTS,
     outcome: {"none", "delivered", "retry_scheduled", "exhausted"}, delay: Int]

ASSUME OutboxAssumption ==
    /\ MAX_ATTEMPTS \in Nat \ {0}
    /\ LEASE \in Nat \ {0}
    /\ BATCH \in Nat \ {0}
    /\ BACKOFF \in Seq(Nat) /\ BACKOFF # <<>>
    /\ {LOOKBACK, MAX_ACTIVE, MAX_ROWS, MaxBudgets, Overdue} \subseteq Nat
    /\ RETRY_AFTER \subseteq Nat
    /\ NoRow \notin Body /\ NoRow \notin SubscriptionRow /\ NoRow \notin DeliveryRow
    /\ NoToken \notin Token

VARIABLES
    hooks,          \* OWNER_WEBHOOKS_ENABLED of the running process
    payment,        \* payment[r]: confirmed or not, how long ago, and under hooks or not
    event,          \* webhook_events: the body stored for a receipt
    subscription,   \* webhook_subscriptions
    delivery,       \* webhook_deliveries
    task,           \* deliveries a dispatcher pass holds: ClaimedDelivery and its outcome
    posts,          \* history: requests sent for a delivery
    budgets,        \* history: attempt budgets a delivery was given
    posted          \* history: bodies the endpoint was sent for a receipt

rowVars == <<event, subscription, delivery>>
history == <<posts, budgets, posted>>
vars == <<hooks, payment, event, subscription, delivery, task, posts, budgets, posted>>

TypeOK ==
    /\ hooks \in BOOLEAN
    /\ payment \in [Receipt -> [status: {"open", "confirmed"}, age: Nat, armed: BOOLEAN]]
    /\ event \in [Receipt -> Body \cup {NoRow}]
    /\ subscription \in [Subscription -> SubscriptionRow \cup {NoRow}]
    /\ delivery \in [Delivery -> DeliveryRow \cup {NoRow}]
    /\ task \subseteq ClaimedDelivery
    /\ posts \in [Delivery -> Nat] /\ budgets \in [Delivery -> Nat \ {0}]
    /\ posted \in [Receipt -> SUBSET Body]

Rows == {d \in Delivery : delivery[d] # NoRow}
Active == {s \in Subscription : subscription[s] # NoRow /\ subscription[s].status = "active"}
Existing == {s \in Subscription : subscription[s] # NoRow}

Lower(n) == IF n > -Overdue THEN n - 1 ELSE n
Smaller(m, n) == IF m < n THEN m ELSE n
Larger(m, n) == IF m > n THEN m ELSE n

-----------------------------------------------------------------------------
(* Events.                                                                  *)

new_delivery(age) ==
    [state |-> "pending", attempts |-> 0, due_in |-> -Smaller(age, Overdue),
     lease |-> NoToken]

\* Endpoints that existed when the payment confirmed, `age` ticks ago.
FanOut(age) == {s \in Active : subscription[s].age >= age}

\* memory_emit: first write wins, and the rows go in with the event.
Emit(r, body, age) ==
    IF event[r] # NoRow
    THEN UNCHANGED <<event, delivery>>
    ELSE /\ event' = [event EXCEPT ![r] = body]
         /\ delivery' = [d \in Delivery |->
                IF d[1] = r /\ d[2] \in FanOut(age) /\ delivery[d] = NoRow
                THEN new_delivery(age) ELSE delivery[d]]

\* put_payment_with_events: the confirmation and its event are one write.
\* Mutant: the event is left to the reconcile pass.
ConfirmAlone(r, body) ==
    /\ payment[r].status = "open"
    /\ payment' = [payment EXCEPT ![r] = [status |-> "confirmed", age |-> 0, armed |-> hooks]]
    /\ UNCHANGED <<hooks, rowVars, task, history>>
put_payment_with_events(r, body) ==
    /\ payment[r].status = "open"
    /\ payment' = [payment EXCEPT ![r] = [status |-> "confirmed", age |-> 0, armed |-> hooks]]
    /\ IF hooks THEN Emit(r, body, 0) ELSE UNCHANGED <<event, delivery>>
    /\ UNCHANGED <<hooks, subscription, task, history>>

\* A second confirmation of a payment another request has just confirmed: the
\* write is skipped and its event meets the one already there.
ConfirmAgain(r, body) ==
    /\ hooks
    /\ payment[r] = [status |-> "confirmed", age |-> 0, armed |-> TRUE]
    /\ Emit(r, body, 0)
    /\ UNCHANGED <<hooks, payment, subscription, task, history>>

\* One payment of the reconcile pass; its event carries the confirmation's time.
reconcile(r, body) ==
    /\ hooks
    /\ payment[r].status = "confirmed"
    /\ payment[r].age <= LOOKBACK
    /\ event[r] = NoRow
    /\ Emit(r, body, payment[r].age)
    /\ UNCHANGED <<hooks, payment, subscription, task, history>>

-----------------------------------------------------------------------------
(* The owner's requests.                                                    *)

create_webhook_subscription(s) ==
    /\ hooks
    /\ subscription[s] = NoRow
    /\ Cardinality(Active) < MAX_ACTIVE
    /\ Cardinality(Existing) < MAX_ROWS
    /\ subscription' = [subscription EXCEPT ![s] = [status |-> "active", age |-> 0]]
    /\ UNCHANGED <<hooks, payment, event, delivery, task, history>>

apply_exhaust(row) == [row EXCEPT !.state = "exhausted", !.lease = NoToken]

\* A request already in flight cannot be recalled.
disable_webhook_subscription(s) ==
    /\ hooks
    /\ s \in Existing
    /\ subscription' = [subscription EXCEPT ![s] =
           [status |-> "disabled", age |-> subscription[s].age]]
    /\ delivery' = [d \in Delivery |->
           IF d \in Rows /\ d[2] = s /\ delivery[d].state \in {"pending", "retry_scheduled"}
           THEN apply_exhaust(delivery[d]) ELSE delivery[d]]
    /\ UNCHANGED <<hooks, payment, event, task, history>>

\* A fresh attempt budget for the same event.
apply_redeliver ==
    [state |-> "pending", attempts |-> 0, due_in |-> 0, lease |-> NoToken]

redeliver_webhook(d) ==
    /\ hooks
    /\ d \in Rows
    /\ delivery[d].state \notin {"pending", "delivering"}
    /\ d[2] \in Active
    /\ budgets[d] < MaxBudgets
    /\ delivery' = [delivery EXCEPT ![d] = apply_redeliver]
    /\ budgets' = [budgets EXCEPT ![d] = budgets[d] + 1]
    /\ UNCHANGED <<hooks, payment, event, subscription, task, posts, posted>>

-----------------------------------------------------------------------------
(* The dispatcher.                                                          *)

\* Mutant: a row left `delivering` by a dead pass is not due again.
DueUnlessLeased(d) ==
    /\ delivery[d].state \in {"pending", "retry_scheduled"}
    /\ delivery[d].due_in <= 0
is_due(d) ==
    /\ delivery[d].state \in {"pending", "retry_scheduled", "delivering"}
    /\ delivery[d].due_in <= 0

Due == {d \in Rows : is_due(d)}

\* The first `limit` due rows, oldest first.
Batches ==
    {b \in SUBSET Due :
        /\ Cardinality(b) = Smaller(BATCH, Cardinality(Due))
        /\ \A d \in b, e \in Due \ b : delivery[d].due_in <= delivery[e].due_in}

claim_action(d) ==
    /\ d[2] \in Active
    /\ delivery[d].attempts < MAX_ATTEMPTS

apply_claim(row, token) ==
    [state |-> "delivering", attempts |-> row.attempts + 1, due_in |-> LEASE,
     lease |-> token]

\* A task's token is compared with its own row's only, so a token no task holds
\* is as good as one never used.
FreshToken(token) == \A t \in task : t.token # token

Leased(d, token) ==
    [delivery |-> d, token |-> token, attempts |-> delivery[d].attempts + 1,
     outcome |-> "none", delay |-> 0]

\* A due row whose endpoint is disabled, or out of attempts, is exhausted instead.
claim_webhook_deliveries(token) ==
    /\ hooks
    /\ FreshToken(token)
    /\ Due # {}
    /\ \E batch \in Batches :
           LET claimed == {d \in batch : claim_action(d)}
           IN  /\ delivery' = [d \in Delivery |->
                      IF d \in claimed THEN apply_claim(delivery[d], token)
                      ELSE IF d \in batch THEN apply_exhaust(delivery[d])
                      ELSE delivery[d]]
               /\ task' = task \cup {Leased(d, token) : d \in claimed}
    /\ UNCHANGED <<hooks, payment, event, subscription, history>>

backoff_ms(attempts, floor) ==
    Larger(BACKOFF[Smaller(attempts, Len(BACKOFF))], floor)

Failed(t, floor) ==
    IF t.attempts >= MAX_ATTEMPTS
    THEN [t EXCEPT !.outcome = "exhausted"]
    ELSE [t EXCEPT !.outcome = "retry_scheduled", !.delay = backoff_ms(t.attempts, floor)]

Answered(t, answered) == task' = (task \ {t}) \cup {answered}

\* One attempt.  The secrets or the address are refused; or nothing answers,
\* which the endpoint may have processed all the same; or it answers.
deliver(t) ==
    /\ t.outcome = "none"
    /\ \/ /\ Answered(t, [t EXCEPT !.outcome = "exhausted"])
          /\ UNCHANGED <<posts, posted>>
       \/ /\ Answered(t, Failed(t, 0))
          /\ UNCHANGED <<posts, posted>>
       \/ /\ \/ Answered(t, [t EXCEPT !.outcome = "delivered"])
             \/ \E floor \in RETRY_AFTER : Answered(t, Failed(t, floor))
          /\ posts' = [posts EXCEPT ![t.delivery] = posts[t.delivery] + 1]
          /\ posted' = [posted EXCEPT ![t.delivery[1]] =
                            posted[t.delivery[1]] \cup {event[t.delivery[1]]}]
    /\ UNCHANGED <<hooks, payment, rowVars, budgets>>

apply_outcome(row, t) ==
    [row EXCEPT !.state = t.outcome, !.lease = NoToken,
                !.due_in = IF t.outcome = "retry_scheduled" THEN t.delay ELSE row.due_in]

Holds(t) ==
    /\ delivery[t.delivery].state = "delivering"
    /\ delivery[t.delivery].lease = t.token

\* A stale holder's outcome is refused.
complete_webhook_delivery(t) ==
    /\ t.outcome # "none"
    /\ task' = task \ {t}
    /\ delivery' = [delivery EXCEPT ![t.delivery] =
           IF Holds(t) THEN apply_outcome(delivery[t.delivery], t) ELSE delivery[t.delivery]]
    /\ UNCHANGED <<hooks, payment, event, subscription, history>>

\* The pass dies, or its storage call fails, before the outcome is recorded.
Crash(t) ==
    /\ task' = task \ {t}
    /\ UNCHANGED <<hooks, payment, rowVars, history>>

-----------------------------------------------------------------------------
(* The environment.                                                         *)

\* The process restarts with webhooks on or off.
Restart ==
    /\ hooks' = ~hooks
    /\ task' = {}
    /\ UNCHANGED <<payment, rowVars, history>>

Aged(n) == Smaller(n + 1, LOOKBACK + 1)

Tick ==
    /\ payment' = [r \in Receipt |-> [payment[r] EXCEPT !.age = Aged(payment[r].age)]]
    /\ subscription' = [s \in Subscription |->
           IF s \in Existing THEN [subscription[s] EXCEPT !.age = Aged(subscription[s].age)]
           ELSE NoRow]
    /\ delivery' = [d \in Delivery |->
           IF d \in Rows THEN [delivery[d] EXCEPT !.due_in = Lower(delivery[d].due_in)]
           ELSE NoRow]
    /\ task' = {[t EXCEPT !.delay = Lower(t.delay)] : t \in task}
    /\ UNCHANGED <<hooks, event, history>>

Init ==
    /\ hooks \in BOOLEAN
    /\ payment = [r \in Receipt |-> [status |-> "open", age |-> 0, armed |-> FALSE]]
    /\ event = [r \in Receipt |-> NoRow]
    /\ subscription = [s \in Subscription |-> NoRow]
    /\ delivery = [d \in Delivery |-> NoRow]
    /\ task = {}
    /\ posts = [d \in Delivery |-> 0]
    /\ budgets = [d \in Delivery |-> 1]
    /\ posted = [r \in Receipt |-> {}]

Dispatch == \E token \in Token : claim_webhook_deliveries(token)
Finish == \E t \in task : deliver(t) \/ complete_webhook_delivery(t)

Next ==
    \/ \E r \in Receipt, body \in Body :
           \/ put_payment_with_events(r, body)
           \/ ConfirmAgain(r, body)
           \/ reconcile(r, body)
    \/ \E s \in Subscription :
           \/ create_webhook_subscription(s)
           \/ disable_webhook_subscription(s)
    \/ \E d \in Delivery : redeliver_webhook(d)
    \/ Dispatch
    \/ Finish
    \/ \E t \in task : Crash(t)
    \/ Restart
    \/ Tick

Spec == Init /\ [][Next]_vars

\* The scheduled workflow keeps running passes, a pass that is alive works its
\* leases off, and time goes on.  Nothing is assumed of crashes or receivers.
Fairness == WF_vars(Dispatch) /\ WF_vars(Finish) /\ WF_vars(Tick)

FairSpec == Spec /\ Fairness

-----------------------------------------------------------------------------
(* Properties.                                                              *)

\* A crash cannot leave a payment confirmed under enabled webhooks without its
\* event, and no event announces a payment that is not confirmed.
ConfirmedHasEvent ==
    \A r \in Receipt :
        /\ payment[r].armed => event[r] # NoRow
        /\ event[r] # NoRow => payment[r].status = "confirmed"

\* Only endpoints that existed when the payment confirmed are sent its event,
\* even when the reconcile pass writes the event later.
OnlyEarlierEndpoints ==
    \A d \in Rows :
        subscription[d[2]] # NoRow /\ subscription[d[2]].age >= payment[d[1]].age

\* Whatever passes crash, overlap or record late, an endpoint is sent at most
\* MAX_ATTEMPTS requests for each budget the owner gave the delivery.
PostsWithinBudget == \A d \in Delivery : posts[d] <= MAX_ATTEMPTS * budgets[d]

\* Every request for a receipt carries the same bytes: a concurrent or repaired
\* emission never rewrites the stored body.
BytesAreStable == \A r \in Receipt : Cardinality(posted[r]) <= 1

\* An event says the same, to the same endpoints, whoever writes it and whenever.
EventsAreStable == OnlyEarlierEndpoints /\ BytesAreStable

\* Together: what the outbox announces, to whom, in which words and how often, is
\* settled by the payment and the owner alone (put_payment_with_events, reconcile,
\* claim_webhook_deliveries).
OutboxIsSound == ConfirmedHasEvent /\ EventsAreStable /\ PostsWithinBudget

\* While webhooks stay enabled every delivery is delivered or exhausted in the
\* end, however many passes die while they hold it.
EveryDeliverySettles ==
    <>[]hooks => \A d \in Delivery :
        delivery[d] # NoRow ~> (delivery[d] # NoRow /\ delivery[d].state \in Settled)
=============================================================================
