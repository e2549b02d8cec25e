------------------------------- MODULE Paypal -------------------------------
(***************************************************************************)
(* The PayPal service: cash orders and prepaid allowances over one store,  *)
(* one inbox and one pool of document workers.                             *)
(***************************************************************************)
EXTENDS PaypalOrders, PaypalSubscriptions

\* A task whose order was captured, with the given outputs.
Paid(us) ==
    [NewTask EXCEPT !.order = "observed", !.orderId = TRUE, !.seen = "COMPLETED",
                    !.capture = "observed", !.captureId = TRUE, !.captured = TRUE, !.units = us]

\* One output failed, the others delivered by the first attempts.
SomeFailed == [u \in Unit |-> [NewUnit EXCEPT !.attempt = u, !.state = IF u = 1 THEN "Failed" ELSE "Delivered",
                                              !.out = IF u = 1 THEN 0 ELSE u]]

PaidOrder == [NewOrder EXCEPT !.order = "COMPLETED", !.orders = 1, !.capture = "COMPLETED", !.captures = 1]

ActiveSub == [NewSub EXCEPT !.made = TRUE, !.create = "observed", !.pid = TRUE, !.status = "ACTIVE", !.next = 1]

FirstPayment == CHOOSE y \in Payment : TRUE

Init ==
    /\ scene \in Scene
    /\ now = 0
    /\ task = [id \in Task |->
         CASE id \in scene.tasks /\ scene.start = "captured" -> Paid([u \in Unit |-> NewUnit])
           [] id \in scene.tasks /\ scene.start = "worked" -> Paid(SomeFailed)
           [] OTHER -> NewTask]
    /\ prov = [id \in Task |-> IF task[id].captured THEN PaidOrder ELSE NewOrder]
    /\ attempts = IF scene.start # "worked" THEN <<>>
                  ELSE [u \in Unit |-> [id |-> CHOOSE id \in scene.tasks : TRUE, unit |-> u, rev |-> 0]]
    /\ ai = [w \in Worker |-> IdleWorker]
    /\ sub = CASE scene.start = "active" -> ActiveSub
               [] scene.start = "granted" -> [ActiveSub EXCEPT !.proofs = {[id |-> FirstPayment, time |-> 0]}]
               [] OTHER -> NewSub
    /\ psub = CASE scene.start = "active" -> [NewPsub EXCEPT !.status = "ACTIVE", !.next = 1]
                [] scene.start = "granted" ->
                     [NewPsub EXCEPT !.status = "ACTIVE", !.next = 1,
                                     !.pays[FirstPayment] = [time |-> 0, status |-> "COMPLETED"]]
                [] OTHER -> NewPsub
    /\ periods = [k \in Period |->
         CASE scene.start = "active" /\ k = 1 -> [NewPeriod EXCEPT !.recorded = TRUE]
           [] scene.start = "granted" /\ k = 1 ->
                [NewPeriod EXCEPT !.recorded = TRUE, !.payment = FirstPayment, !.remaining = GRANT]
           [] OTHER -> NewPeriod]
    /\ ledger = IF scene.start = "granted"
                THEN {Entry(<<"grant", FirstPayment>>, 1, "grant", GRANT, NoDelegation)} ELSE {}
    /\ deleg = [made |-> FALSE, revoked |-> FALSE, expired |-> FALSE]
    /\ notices = {} /\ inbox = {} /\ done = {}
    /\ calls = {}
    /\ pass = [r \in Reader |-> IdlePass]

Orders ==
    \/ \E c \in calls : Serve(c) \/ Answer(c) \/ HandlerDies(c)
    \/ \E id \in scene.tasks :
         \/ checkout(id) \/ refund(id)
         \/ Approve(id) \/ CaptureSettles(id) \/ RefundOutside(id) \/ Reverse(id)
         \/ \E k \in RefundKey : RefundCompletes(id, k)
         \/ \E req \in scene.requests :
              resolution_refund(id, req) \/ resolution_proposal(id, req)
    \/ \E r \in scene.readers :
         \/ \E id \in scene.tasks, cap \in BOOLEAN : reconcile(r, id, cap)
         \/ \E e \in inbox : process_event(r, e)
         \/ ReadOrder(r) \/ ReadRefund(r) \/ ReadLedger(r) \/ ApplyRead(r) \/ FinishPass(r) \/ capture(r)
         \/ EventRefund(r) \/ EventReversed(r) \/ EventOrder(r)

Subscriptions ==
    /\ scene.periods > 0
    /\ \/ create \/ cancel \/ delegate \/ revoke \/ DelegationExpires \/ subscription_view
       \/ Activate \/ ChangeTerms \/ Tick
       \/ \E y \in scene.payments : Collect(y)
       \/ \E y \in Payment : TakeBack(y)
       \/ \E c \in calls : ServeSub(c) \/ AnswerSub(c)
       \/ \E id \in scene.tasks, d \in {NoDelegation, Delegate} : allocate(id, d)
       \/ \E r \in scene.readers :
            \/ reconcile_subscription(r) \/ ReadPlan(r) \/ ReadSubscription(r) \/ ApplyView(r)
            \/ CutOff(r) \/ ReadWindow(r) \/ Grant(r) \/ BlockTasks(r) \/ EndSubPass(r)
            \/ \E e \in inbox : subscription_event(r, e)

Work ==
    \/ \E w \in scene.workers :
         claim(w) \/ finish(w) \/ WorkerDies(w) \/ \E id \in scene.tasks : process(w, id)
    \/ \E id \in scene.tasks, req \in scene.requests :
         rework(id, req) \/ \E act \in {"Accept", "Challenge"} : decision(id, req, act)

Inbox ==
    \/ \E e \in notices : webhook(e)
    \/ \E r \in scene.readers : PassFails(r)

Next == Orders \/ Subscriptions \/ Work \/ Inbox

Spec == Init /\ [][Next]_vars

-----------------------------------------------------------------------------

\* The refunds sent or made for an output on the service's own account.
RefundsOf(id, u) ==
    {k \in RefundKey \ {Outside} : u \in prov[id].refunds[k].of}
    \cup {c.key : c \in {d \in calls : d.id = id /\ d.kind = "refund" /\ u \in d.of}}

\* Whatever answers are lost, handlers die and requests repeat, the service opens one
\* order, takes one capture and pays an output back once: claims are written under the
\* row lock before the mutation is sent (routes.rs checkout, capture, refund,
\* resolution_refund), and the older refund and the refund ledger exclude each other's
\* outputs (refunded_unit).
MoneyMovesOnce ==
    \A id \in Task :
        /\ prov[id].orders <= 1 /\ prov[id].captures <= 1
        /\ \A u \in Unit : Cardinality(RefundsOf(id, u)) <= 1

\* An output paid back is the one that stands: neither a rework nor a late result
\* replaces an output after its refund was approved (Task::rework, Ai::run).
RefundedOutputStands ==
    \A id \in Task : \A i \in DOMAIN task[id].refunds :
        task[id].refunds[i].op # "none" => \A b \in task[id].refunds[i].bind : Bound(task[id], b)

\* Nothing is on its way: no call, no pass and no webhook.
AtRest == calls = {} /\ notices = {} /\ inbox = {} /\ \A r \in Reader : pass[r].at = "idle"

\* When nothing is in flight the task knows its capture, and a net cost it states is what
\* the provider really kept (Task::net): lost answers were read back from webhooks, and a
\* change made outside the service, or a capture the provider declined, put the task
\* under review.
NetIsTrueAtRest ==
    AtRest => \A id \in scene.tasks :
        /\ prov[id].capture = "COMPLETED" => task[id].captured \/ task[id].review
        /\ prov[id].capture = "DECLINED" => task[id].review
        /\ net(task[id]) >= 0 =>
             /\ prov[id].capture = "COMPLETED" /\ ~prov[id].reversed
             /\ net(task[id]) = amount - GivenBack(prov[id], {"COMPLETED"})

\* The service's account of the money is the provider's: nothing moved twice, and a net
\* cost it states is right (routes.rs, Task::net).
MoneyIsTrue == MoneyMovesOnce /\ NetIsTrueAtRest

\* A delivered output came from an attempt at that output and that revision: the result
\* of a worker that lost its lease is dropped (Ai::run, the check of `attempt`).
OutputIsOfItsRevision ==
    \A id \in Task, u \in Unit :
        LET x == task[id].units[u]
        IN  x.out # 0 => attempts[x.out] = [id |-> id, unit |-> u, rev |-> x.rev]

\* The outputs a task shows are those that were made, and paid back, for it (Ai::run).
OutputsStand == RefundedOutputStands /\ OutputIsOfItsRevision

Booked(k, kind) == MapThenSumSet(LAMBDA e : e.units, {e \in ledger : e.period = k /\ e.kind = kind})

\* The units left of a period are what its ledger says: granted once, reserved by tasks,
\* given back once for an output that failed in time, and written off once when the period
\* is over, in every order of finishing, failing, reworking and reading (account_allowance,
\* allocate, grant_payments, subscription_view); and what a delegate's tasks hold of a
\* period stays within its ceiling whatever was given back.
QuotaBalances ==
    \A k \in Period :
        /\ periods[k].remaining = Booked(k, "grant") - Booked(k, "reserve") + Booked(k, "restore") - Booked(k, "expiry")
        /\ periods[k].remaining \in 0 .. GRANT
        /\ amount * Cardinality({id \in Task : task[id].funding = k /\ task[id].deleg = Delegate}) <= scene.period_limit

\* No units are allocated and no output is claimed on an allowance once its subscription is
\* under review, although the subscription, its periods and its tasks are marked by
\* separate statements and new periods are recorded meanwhile (block_subscription,
\* observe_subscription, allocate, account_allowance).
ReviewStopsWork ==
    [][sub.review =>
        /\ \A id \in Task : task[id].funding = 0 => task'[id].funding = 0
        /\ \A n \in DOMAIN attempts' \ DOMAIN attempts : task[attempts'[n].id].funding = 0]_vars

\* Units are granted for payments the provider collected on the first tick of that very
\* period, one period to a payment (grant_payments, canonical_payments).
GrantsArePaid ==
    \A k \in Period : periods[k].payment # NoPayment =>
        /\ psub.pays[periods[k].payment].time = StartOf(k)
        /\ \A j \in Period : periods[j].payment = periods[k].payment => j = k

\* An allowance is paid for, and every unit of it is accounted for (grant_payments,
\* account_allowance).
AllowanceIsTrue == QuotaBalances /\ GrantsArePaid
=============================================================================
