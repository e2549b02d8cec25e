------------------------ MODULE PaypalSubscriptions ------------------------
(***************************************************************************)
(* Prepaid service access (backend/src/paypal/subscriptions.rs): a monthly *)
(* subscription whose verified payments grant units for one calendar       *)
(* period, the allocation of units to tasks by the buyer or a delegated    *)
(* agent, and the review that blocks all of it when evidence contradicts.  *)
(***************************************************************************)
EXTENDS PaypalStore

NewSub == [made |-> FALSE, create |-> "none", cancel |-> "none", pid |-> FALSE,
           status |-> "CREATE_PENDING", review |-> FALSE, next |-> 0, proofs |-> {}]

-----------------------------------------------------------------------------
(* The provider's subscription: [status, next, terms, pays]; `next` counts the
   periods billed so far, `pays` gives each payment its tick and its status. *)

NoPay == [time |-> 0, status |-> "NONE"]
NewPsub == [status |-> "NONE", next |-> 0, terms |-> TRUE, pays |-> [y \in Payment |-> NoPay]]

SubView == [status |-> psub.status, next |-> psub.next, terms |-> psub.terms]

\* The transactions of the window that covers one period.
Window(k) ==
    {[id |-> y, time |-> psub.pays[y].time, status |-> psub.pays[y].status] :
        y \in {x \in Payment : psub.pays[x].status # "NONE" /\ psub.pays[x].time \div 2 + 1 = k}}

SubCall(kind) == [id |-> Sub, kind |-> kind, key |-> 0, of |-> {}, live |-> TRUE, state |-> "sent", val |-> {}]

ServeSub(c) ==
    /\ c.id = Sub /\ c.state = "sent"
    /\ \E reached \in BOOLEAN, lost \in BOOLEAN :
         /\ "wire" \in scene.faulty \/ (reached /\ ~lost)
         /\ psub' = IF ~reached THEN psub
                    ELSE [psub EXCEPT !.status = IF c.kind = "subscribe" THEN "APPROVAL_PENDING" ELSE "CANCELLED"]
         /\ calls' = (calls \ {c}) \cup
              IF ~c.live THEN {}
              ELSE IF lost \/ ~reached THEN {[c EXCEPT !.state = "failed"]}
              ELSE {[c EXCEPT !.state = "answered",
                              !.val = {[status |-> psub'.status, next |-> psub.next, terms |-> psub.terms]}]}
    /\ UNCHANGED <<scene, now, task, bookVars, subVars, mailVars, prov, pass, workVars>>

Outwardly == UNCHANGED <<scene, now, task, bookVars, subVars, inbox, done, calls, prov, pass, workVars>>

\* The buyer approves on the provider's page; billing starts with the first period.
Activate ==
    /\ psub.status = "APPROVAL_PENDING" /\ now = 0
    /\ psub' = [psub EXCEPT !.status = "ACTIVE", !.next = 1]
    /\ notices' = notices \cup {Event(Sub, "billing", 0)}
    /\ Outwardly

\* A payment of the current period, on its first tick or late.
Collect(y) ==
    /\ psub.status = "ACTIVE" /\ psub.pays[y].status = "NONE" /\ Current <= scene.periods
    /\ psub' = [psub EXCEPT !.pays[y] = [time |-> now, status |-> "COMPLETED"]]
    /\ notices' = notices \cup {Event(Sub, "sale", y)}
    /\ Outwardly

TakeBack(y) ==
    /\ "take back" \in scene.outside /\ psub.pays[y].status = "COMPLETED"
    /\ \E s \in {"REFUNDED", "REVERSED"} : psub' = [psub EXCEPT !.pays[y].status = s]
    /\ notices' = notices \cup {Event(Sub, "taken back", y)}
    /\ Outwardly

\* The merchant edits the plan or the subscription at the provider.
ChangeTerms ==
    /\ "terms" \in scene.outside /\ psub.status = "ACTIVE" /\ psub.terms
    /\ psub' = [psub EXCEPT !.terms = FALSE]
    /\ UNCHANGED notices
    /\ Outwardly

\* Time passes; the provider bills the next period as it starts.
Tick ==
    /\ now < 2 * scene.periods
    /\ now' = now + 1
    /\ psub' = IF psub.status = "ACTIVE" THEN [psub EXCEPT !.next = (now + 1) \div 2 + 1] ELSE psub
    /\ UNCHANGED <<scene, task, bookVars, subVars, mailVars, calls, prov, pass, workVars>>

-----------------------------------------------------------------------------
(* Creating and cancelling *)

create ==
    /\ ~sub.made
    /\ sub' = [sub EXCEPT !.made = TRUE, !.create = "dispatching"]
    /\ calls' = calls \cup {SubCall("subscribe")}
    /\ UNCHANGED <<scene, now, task, bookVars, deleg, mailVars, prov, psub, pass, workVars>>

cancel ==
    /\ scene.cancel /\ sub.pid /\ sub.cancel = "none"
    /\ sub' = [sub EXCEPT !.cancel = "dispatching"]
    /\ calls' = calls \cup {SubCall("cancel")}
    /\ UNCHANGED <<scene, now, task, bookVars, deleg, mailVars, prov, psub, pass, workVars>>

-----------------------------------------------------------------------------
(* Observing the schedule *)

\* Subscription::observe. A schedule never goes back.
observe(s, v) ==
    IF ~v.terms THEN [s EXCEPT !.review = TRUE]
    ELSE [s EXCEPT
            !.pid = TRUE, !.status = v.status, !.create = "observed",
            !.cancel = IF v.status = "CANCELLED" /\ @ # "none" THEN "observed" ELSE @,
            !.review = @ \/ (v.next # 0 /\ v.next < s.next),
            !.next = IF v.next # 0 /\ v.next >= s.next THEN v.next ELSE @]

\* The periods a schedule names are recorded with it, and a review blocks them all.
Recorded(P, s) ==
    [k \in Period |->
        [P[k] EXCEPT !.recorded = @ \/ k <= s.next,
                     !.blocked = @ \/ (s.review /\ (P[k].recorded \/ k <= s.next))]]

observe_subscription(v) ==
    /\ sub' = observe(sub, v)
    /\ periods' = Recorded(periods, sub')

AnswerSub(c) ==
    /\ c.id = Sub /\ c.state # "sent"
    /\ CASE c.kind = "subscribe" /\ c.state = "answered" ->
               observe_subscription(CHOOSE v \in c.val : TRUE)
         [] c.kind = "subscribe" /\ c.state = "failed" ->
               /\ sub' = [sub EXCEPT !.create = IF @ = "dispatching" THEN "unknown" ELSE @]
               /\ UNCHANGED periods
         [] OTHER ->
               /\ sub' = [sub EXCEPT !.cancel = IF c.state = "answered" THEN "observed" ELSE "unknown"]
               /\ UNCHANGED periods
    /\ calls' = calls \ {c}
    /\ UNCHANGED <<scene, now, task, ledger, deleg, mailVars, prov, psub, pass, workVars>>

-----------------------------------------------------------------------------
(* Granting *)

OnTime(time) == time % 2 = 0
PeriodAt(time) == time \div 2 + 1

Completed(H) == {h \in H : h.status = "COMPLETED"}
Proof(h) == [id |-> h.id, time |-> h.time]

\* canonical_payments: one status for a payment, none taken back, none of a known
\* payment missing its completion, and one payment for the start of a period.
canonical_payments(s, H) ==
    /\ \A g, h \in H : g.id = h.id => g.status = h.status
    /\ \A h \in H : h.status \notin {"REFUNDED", "REVERSED"}
    /\ \A h \in H, a \in s.proofs : a.id = h.id => h.status = "COMPLETED" /\ a = Proof(h)
    /\ LET proofs == s.proofs \cup {Proof(h) : h \in Completed(H)}
       IN  s.next # 0 => \A a, b \in proofs :
              OnTime(a.time) /\ OnTime(b.time) /\ PeriodAt(a.time) = PeriodAt(b.time) => a = b

Unpaid(k) == periods[k].recorded /\ periods[k].payment = NoPayment

\* The payments that no period holds yet.
NewPayments(H) == {h \in Completed(H) : \A k \in Period : periods[k].payment # h.id}

\* In the order of their times each new payment finds one unpaid period begun, its own, on time.
Unambiguous(H) ==
    \A h \in NewPayments(H) :
         /\ sub.next # 0 /\ OnTime(h.time)
         /\ {k \in Period : Unpaid(k) /\ StartOf(k) <= h.time}
              = {PeriodAt(g.time) : g \in {f \in NewPayments(H) : f.time <= h.time}}

PaidBy(H, k) == CHOOSE y \in Payment : \E h \in NewPayments(H) : h.id = y /\ PeriodAt(h.time) = k

GrantEntries(H) ==
    {Entry(<<"grant", h.id>>, PeriodAt(h.time), "grant", GRANT, NoDelegation) : h \in NewPayments(H)}
    \cup {Entry(<<"expiry", PeriodAt(h.time)>>, PeriodAt(h.time), "expiry", GRANT, NoDelegation) :
             h \in {g \in NewPayments(H) : EndOf(PeriodAt(g.time)) <= now}}

\* Everything the history proves, or a review and nothing.
grant_payments(H) ==
    IF ~sub.review /\ canonical_payments(sub, H) /\ Unambiguous(H)
    THEN /\ sub' = [sub EXCEPT !.proofs = @ \cup {Proof(h) : h \in NewPayments(H)}]
         /\ ledger' = ledger \cup NewIn(ledger, GrantEntries(H))
         /\ periods' = [k \in Period |->
                IF \E h \in NewPayments(H) : PeriodAt(h.time) = k
                THEN [periods[k] EXCEPT !.payment = PaidBy(H, k),
                                        !.remaining = IF EndOf(k) <= now THEN 0 ELSE GRANT]
                ELSE periods[k]]
    ELSE /\ sub' = [sub EXCEPT !.review = TRUE]
         /\ periods' = Recorded(periods, sub')
         /\ UNCHANGED ledger

\* Reading a subscription writes off what is left of the periods that are over.
WriteOff ==
    LET over == {k \in Period : EndOf(k) <= now /\ periods[k].remaining > 0}
    IN  /\ ledger' = ledger \cup NewIn(ledger,
             {Entry(<<"expiry", k>>, k, "expiry", periods[k].remaining, NoDelegation) : k \in over})
        /\ periods' = [k \in Period |-> IF k \in over THEN [periods[k] EXCEPT !.remaining = 0] ELSE periods[k]]

subscription_view ==
    /\ WriteOff
    /\ UNCHANGED <<scene, now, task, subVars, mailVars, wireVars, pass, workVars>>

-----------------------------------------------------------------------------
(* App::reconcile_subscription, one provider read to a step *)

SubPassed == UNCHANGED <<scene, now, deleg, notices, wireVars, workVars>>

reconcile_subscription(r) ==
    /\ scene.reconciles /\ sub.pid /\ pass[r].at = "idle"
    /\ Step(r, PassOn(Sub, "plan", FALSE, {}))
    /\ UNCHANGED <<task, bookVars, sub, inbox, done>> /\ SubPassed

\* block_subscription: the subscription and its periods, then its tasks in a second statement.
BlockSubscription ==
    /\ sub' = [sub EXCEPT !.review = TRUE]
    /\ periods' = Recorded(periods, sub')

\* The second statement; the pass then ends or goes on to read the plan.
BlockTasks(r) ==
    /\ pass[r].at \in {"block, end", "block, go on"}
    /\ task' = [id \in Task |-> IF task[id].funding # 0 THEN [task[id] EXCEPT !.review = TRUE] ELSE task[id]]
    /\ CASE pass[r].at = "block, go on" -> Step(r, [pass[r] EXCEPT !.at = "plan"])
         [] pass[r].at = "block, end" /\ pass[r].ok -> Step(r, [pass[r] EXCEPT !.at = "view"])
         [] OTHER -> End(r)
    /\ UNCHANGED <<bookVars, sub, inbox, done>> /\ SubPassed

\* A plan that no longer matches the terms blocks; the event is then handled.
ReadPlan(r) ==
    /\ pass[r].at = "plan"
    /\ IF psub.terms
       THEN Step(r, [pass[r] EXCEPT !.at = "subscription"]) /\ UNCHANGED <<sub, periods>>
       ELSE Step(r, [pass[r] EXCEPT !.at = "block, end"]) /\ BlockSubscription
    /\ UNCHANGED <<task, ledger, inbox, done>> /\ SubPassed

ReadSubscription(r) ==
    /\ pass[r].at = "subscription"
    /\ Step(r, [pass[r] EXCEPT !.at = "read", !.val = {SubView}])
    /\ UNCHANGED <<task, bookVars, sub, inbox, done>> /\ SubPassed

\* An event whose subscription does not have the approved terms leaves the
\* provider's identity unknown: the pass fails there, and the event stays.
ApplyView(r) ==
    /\ pass[r].at \in {"read", "event read"} /\ pass[r].id = Sub
    /\ observe_subscription(CHOOSE v \in pass[r].val : TRUE)
    /\ CASE pass[r].at = "read" ->
              Step(r, [pass[r] EXCEPT !.at = "history", !.val = {}, !.todo = 1 .. Current])
         [] pass[r].at = "event read" /\ sub'.pid -> Step(r, [pass[r] EXCEPT !.at = "plan", !.val = {}])
         [] OTHER -> End(r)
    /\ UNCHANGED <<task, ledger, inbox, done>> /\ SubPassed

\* A review that also fails the pass.
BlockAndFail(r) ==
    /\ Step(r, [pass[r] EXCEPT !.at = "block, end", !.ok = FALSE])
    /\ BlockSubscription

\* More history than the windows cover.
CutOff(r) ==
    /\ pass[r].at = "history" /\ Cardinality(pass[r].todo) > scene.windows
    /\ BlockAndFail(r)
    /\ UNCHANGED <<task, ledger, inbox, done>> /\ SubPassed

\* One window of the history; an incomplete one, or contrary evidence in what was
\* read so far, blocks at once.
ReadWindow(r) ==
    LET p == pass[r]  H == p.val \cup Window(Min(p.todo))
    IN  /\ p.at = "history" /\ Cardinality(p.todo) \in 1 .. scene.windows
        /\ \/ /\ canonical_payments(sub, H)
              /\ Step(r, [p EXCEPT !.val = H, !.todo = @ \ {Min(@)}])
              /\ UNCHANGED <<sub, periods>>
           \/ /\ "history" \in scene.faulty \/ ~canonical_payments(sub, H)
              /\ BlockAndFail(r)
        /\ UNCHANGED <<task, ledger, inbox, done>> /\ SubPassed

Grant(r) ==
    /\ pass[r].at = "history" /\ pass[r].todo = {}
    /\ grant_payments(pass[r].val)
    /\ Step(r, [pass[r] EXCEPT !.at = "view", !.val = {}])
    /\ UNCHANGED <<task, inbox, done>> /\ SubPassed

\* The pass ends with a view of the subscription; only then is its event marked.
EndSubPass(r) ==
    /\ pass[r].at = "view"
    /\ WriteOff
    /\ mark_event(pass[r]) /\ End(r)
    /\ UNCHANGED <<task, sub>> /\ SubPassed

-----------------------------------------------------------------------------
(* App::subscription_event *)

\* A billing event carries the local identity; a sale only the provider's, or a recorded payment.
SubRelated(e) ==
    e.type = "billing" \/ sub.pid \/ \E k \in Period : periods[k].payment = e.key

subscription_event(r, e) ==
    /\ e \in inbox /\ e.id = Sub /\ pass[r].at = "idle" /\ SubRelated(e)
    /\ LET p == PassOn(Sub, "plan", FALSE, {e})
       IN  CASE e.type = "taken back" ->
                  Step(r, [p EXCEPT !.at = "block, go on"]) /\ BlockSubscription
             [] e.type = "billing" /\ ~sub.pid ->
                  Step(r, [p EXCEPT !.at = "event read", !.val = {SubView}]) /\ UNCHANGED <<sub, periods>>
             [] OTHER -> Step(r, p) /\ UNCHANGED <<sub, periods>>
    /\ UNCHANGED <<task, ledger, inbox, done>> /\ SubPassed

-----------------------------------------------------------------------------
(* Spending the allowance *)

units(t) == amount

Reserved(d, k) ==
    MapThenSumSet(LAMBDA e : e.units, {e \in ledger : e.kind = "reserve" /\ e.deleg = d /\ e.period = k})

\* The delegation row, locked: still open, and with room for the whole task.
DelegationAllows(k, t) ==
    /\ deleg.made /\ ~deleg.revoked /\ ~deleg.expired
    /\ units(t) <= scene.task_limit
    /\ Reserved(Delegate, k) + units(t) <= scene.period_limit

Allowance(k, t) ==
    /\ periods[k].recorded /\ periods[k].payment # NoPayment
    /\ ~periods[k].blocked /\ ~sub.review
    /\ periods[k].remaining >= units(t)

OneFunding(t) == t.funding = 0 /\ t.order = "none" /\ ~t.captured /\ t.capture = "none"

allocate(id, d) ==
    LET t == task[id]  k == Current
    IN  /\ k \in Period /\ OneFunding(t) /\ Allowance(k, t)
        /\ d = NoDelegation \/ DelegationAllows(k, t)
        /\ periods' = [periods EXCEPT ![k].remaining = @ - units(t)]
        /\ ledger' = ledger \cup NewIn(ledger, {Entry(<<"reserve", id>>, k, "reserve", units(t), d)})
        /\ task' = [task EXCEPT ![id].funding = k, ![id].deleg = d]
        /\ UNCHANGED <<scene, now, subVars, mailVars, wireVars, pass, workVars>>

Delegated == UNCHANGED <<scene, now, task, bookVars, sub, mailVars, wireVars, pass, workVars>>

delegate ==
    /\ scene.period_limit > 0 /\ sub.made /\ ~deleg.made
    /\ deleg' = [deleg EXCEPT !.made = TRUE]
    /\ Delegated

revoke ==
    /\ deleg.made /\ ~deleg.revoked
    /\ deleg' = [deleg EXCEPT !.revoked = TRUE]
    /\ Delegated

DelegationExpires ==
    /\ deleg.made /\ ~deleg.expired
    /\ deleg' = [deleg EXCEPT !.expired = TRUE]
    /\ Delegated
=============================================================================
