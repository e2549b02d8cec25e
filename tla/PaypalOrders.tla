---------------------------- MODULE PaypalOrders ----------------------------
(***************************************************************************)
(* Cash purchases through PayPal orders: checkout, capture and refunds     *)
(* (backend/src/paypal/routes.rs). Every mutation is claimed in the task   *)
(* row before it is sent and never sent again; what the answer loses is    *)
(* read back by reconciliation passes and by verified webhook events.      *)
(***************************************************************************)
EXTENDS PaypalStore

\* The one refund of the older route, and one made outside the service.
LegacyKey == 0
Outside == -1
RefundKey == Outside .. MAX_PROPOSALS

-----------------------------------------------------------------------------
(* The provider *)

NewOrder == [order |-> "NONE", orders |-> 0, capture |-> "NONE", captures |-> 0, reversed |-> FALSE,
             refunds |-> [k \in RefundKey |-> [status |-> "NONE", of |-> {}]]]

\* The amount the provider has given back for a task.
GivenBack(o, status) ==
    MapThenSumSet(LAMBDA k : Cardinality(o.refunds[k].of),
                  {k \in RefundKey : o.refunds[k].status \in status})

CaptureStatus(o) ==
    CASE o.reversed -> "REVERSED"
      [] ~o.reversed /\ GivenBack(o, {"COMPLETED"}) = amount -> "REFUNDED"
      [] ~o.reversed /\ GivenBack(o, {"COMPLETED"}) \in 1 .. amount - 1 -> "PARTIALLY_REFUNDED"
      [] OTHER -> o.capture

View(o) == [status |-> o.order, cap |-> CaptureStatus(o)]
RefundView(o, k) == [status |-> o.refunds[k].status, cap |-> "NONE"]

Call(id, kind, key, of) ==
    [id |-> id, kind |-> kind, key |-> key, of |-> of, live |-> TRUE, state |-> "sent", val |-> {}]

\* What serving a call does to the provider's order; the same order when it is refused.
Served(o, c) ==
    CASE c.kind = "create" -> {[o EXCEPT !.order = "CREATED", !.orders = @ + 1]}
      [] c.kind = "capture" ->
            IF o.order = "APPROVED"
            THEN {[o EXCEPT !.order = "COMPLETED", !.capture = s, !.captures = @ + 1] :
                     s \in {"COMPLETED"} \cup {x \in {"PENDING"} : "pending" \in scene.outside}}
            ELSE {o}
      [] c.kind = "refund" ->
            IF GivenBack(o, {"PENDING", "COMPLETED"}) + Cardinality(c.of) <= amount
            THEN {[o EXCEPT !.refunds[c.key] = [status |-> s, of |-> c.of]] : s \in {"PENDING", "COMPLETED"}}
            ELSE {o}

ViewFor(o, c) == IF c.kind = "refund" THEN RefundView(o, c.key) ELSE View(o)

\* The webhooks a change of the provider's order sets off.
Announces(id, o, p) ==
    {Event(id, "captured", 0) : x \in {"COMPLETED"} \cap ({p.capture} \ {o.capture})}
    \cup {Event(id, "denied", 0) : x \in {"DECLINED"} \cap ({p.capture} \ {o.capture})}
    \cup {Event(id, "order", 0) : x \in {"APPROVED"} \cap ({p.order} \ {o.order})}
    \cup {Event(id, "refunded", k) : k \in
            {j \in RefundKey : p.refunds[j].status = "COMPLETED" /\ o.refunds[j].status # "COMPLETED"}}
    \cup {Event(id, "reversed", 0) : x \in {TRUE} \cap ({p.reversed} \ {o.reversed})}

Becomes(id, p) ==
    /\ prov' = [prov EXCEPT ![id] = p]
    /\ notices' = notices \cup Announces(id, prov[id], p)

\* A request reaches the provider. Its answer reaches the handler, or is lost;
\* or the request never arrives.
Serve(c) ==
    /\ c.id \in Task /\ c.state = "sent"
    /\ \/ \E p \in Served(prov[c.id], c), lost \in IF "wire" \in scene.faulty THEN BOOLEAN ELSE {FALSE} :
            /\ Becomes(c.id, p)
            /\ calls' = (calls \ {c}) \cup
                 IF ~c.live THEN {}
                 ELSE IF lost \/ p = prov[c.id] THEN {[c EXCEPT !.state = "failed"]}
                 ELSE {[c EXCEPT !.state = "answered", !.val = {ViewFor(p, c)}]}
       \/ /\ "wire" \in scene.faulty
          /\ calls' = (calls \ {c}) \cup IF c.live THEN {[c EXCEPT !.state = "failed"]} ELSE {}
          /\ UNCHANGED <<prov, notices>>
    /\ UNCHANGED <<scene, now, task, bookVars, subVars, inbox, done, psub, pass, workVars>>

External == UNCHANGED <<scene, now, task, bookVars, subVars, inbox, done, calls, psub, pass, workVars>>

Approve(id) ==
    /\ prov[id].order = "CREATED"
    /\ Becomes(id, [prov[id] EXCEPT !.order = "APPROVED"])
    /\ External

\* A capture under the provider's review is settled, or declined.
CaptureSettles(id) ==
    /\ prov[id].capture = "PENDING"
    /\ \E s \in {"COMPLETED", "DECLINED"} : Becomes(id, [prov[id] EXCEPT !.capture = s])
    /\ External

RefundCompletes(id, k) ==
    /\ prov[id].refunds[k].status = "PENDING"
    /\ Becomes(id, [prov[id] EXCEPT !.refunds[k].status = "COMPLETED"])
    /\ External

\* The merchant refunds one output in the provider's own dashboard.
RefundOutside(id) ==
    /\ "refund" \in scene.outside /\ prov[id].capture = "COMPLETED" /\ prov[id].refunds[Outside].status = "NONE"
    /\ GivenBack(prov[id], {"PENDING", "COMPLETED"}) < amount
    /\ \E u \in Unit :
         Becomes(id, [prov[id] EXCEPT !.refunds[Outside] = [status |-> "COMPLETED", of |-> {u}]])
    /\ External

Reverse(id) ==
    /\ "reverse" \in scene.outside /\ prov[id].capture = "COMPLETED" /\ ~prov[id].reversed
    /\ Becomes(id, [prov[id] EXCEPT !.reversed = TRUE])
    /\ External

-----------------------------------------------------------------------------
(* Handlers that claim a mutation and send it *)

Sends(c) == calls' = calls \cup {c}

Dispatched == UNCHANGED <<scene, now, subVars, mailVars, prov, psub, workVars>>

\* Only an unfunded quote without an order starts one; every other caller gets None.
start_checkout(t) == t.funding = 0 /\ t.order = "none"

checkout(id) ==
    /\ scene.checkout
    /\ update(id, start_checkout, LAMBDA t : [t EXCEPT !.order = "dispatching"])
    /\ Sends(Call(id, "create", 0, {}))
    /\ UNCHANGED pass /\ Dispatched

refund(id) ==
    /\ update(id, LAMBDA t : refund_proposal(t) /\ t.refund = "none", approve_refund)
    /\ Sends(Call(id, "refund", LegacyKey, task'[id].legacy))
    /\ UNCHANGED pass /\ Dispatched

resolution_refund(id, req) ==
    /\ \E i \in DOMAIN task[id].refunds :
         /\ update(id, LAMBDA t : MayApprove(t, req, i), LAMBDA t : Approved(t, req, i))
         /\ Sends(Call(id, "refund", i, {b.unit : b \in task[id].refunds[i].bind}))
    /\ UNCHANGED pass /\ Dispatched

\* What the handler makes of the answer it got.
ObserveAnswer(t, c) ==
    LET v == CHOOSE x \in c.val : TRUE
    IN  CASE c.kind # "refund" -> ObserveOrder(t, v)
          [] c.kind = "refund" /\ c.key = LegacyKey -> ObserveRefund(t, v.status)
          [] OTHER -> ObserveLedger(t, c.key, v.status)

MarkUnknown(t, c) ==
    CASE c.kind = "create" -> [t EXCEPT !.order = unknown(@)]
      [] c.kind = "capture" -> [t EXCEPT !.capture = unknown(@)]
      [] c.kind = "refund" /\ c.key = LegacyKey -> [t EXCEPT !.refund = unknown(@)]
      [] OTHER -> [t EXCEPT !.refunds[c.key].op = unknown(@)]

Answer(c) ==
    /\ c.id \in Task /\ c.state # "sent"
    /\ update(c.id, Always, LAMBDA t : IF c.state = "answered" THEN ObserveAnswer(t, c) ELSE MarkUnknown(t, c))
    /\ calls' = calls \ {c}
    /\ UNCHANGED <<scene, now, subVars, mailVars, prov, psub, pass, workVars>>

HandlerDies(c) ==
    /\ "wire" \in scene.faulty /\ c.live
    /\ calls' = (calls \ {c}) \cup IF c.state = "sent" THEN {[c EXCEPT !.live = FALSE]} ELSE {}
    /\ UNCHANGED <<scene, now, task, bookVars, subVars, mailVars, prov, psub, pass, workVars>>

-----------------------------------------------------------------------------
(* App::reconcile: the order, then the older refund, then each refund whose
   provider identity was known when the pass came to them. *)

Passed == UNCHANGED <<scene, now, subVars, wireVars, workVars>>

reconcile(r, id, cap) ==
    /\ scene.checkout /\ pass[r].at = "idle"
    /\ task[id].order # "none" \* for a capture, the digest's approval
    /\ Step(r, PassOn(id, "order", cap, {}))
    /\ UNCHANGED <<task, bookVars, mailVars>> /\ Passed

ReadOrder(r) ==
    /\ pass[r].at = "order"
    /\ IF task[pass[r].id].orderId
       THEN Step(r, [pass[r] EXCEPT !.at = "order read", !.val = {View(prov[pass[r].id])}])
       ELSE Step(r, [pass[r] EXCEPT !.at = "refund"])
    /\ UNCHANGED <<task, bookVars, mailVars>> /\ Passed

ReadRefund(r) ==
    /\ pass[r].at = "refund"
    /\ LET t == task[pass[r].id]
       IN  IF t.refundId
           THEN Step(r, [pass[r] EXCEPT !.at = "refund read", !.val = {RefundView(prov[pass[r].id], LegacyKey)}])
           ELSE Step(r, [pass[r] EXCEPT !.at = "refunds",
                                        !.todo = {i \in DOMAIN t.refunds : t.refunds[i].id}])
    /\ UNCHANGED <<task, bookVars, mailVars>> /\ Passed

ReadLedger(r) ==
    /\ pass[r].at = "refunds" /\ pass[r].todo # {}
    /\ Step(r, [pass[r] EXCEPT !.at = "ledger read", !.val = {RefundView(prov[pass[r].id], Min(pass[r].todo))}])
    /\ UNCHANGED <<task, bookVars, mailVars>> /\ Passed

\* What was read is applied in a later transaction, to the task as it is then.
ApplyRead(r) ==
    LET p == pass[r]  v == CHOOSE x \in p.val : TRUE
    IN  /\ p.id \in Task
        /\ \/ /\ p.at \in {"event read", "order read"}
              /\ update(p.id, Always, LAMBDA t : ObserveOrder(t, v))
              /\ Step(r, [p EXCEPT !.at = IF @ = "order read" THEN "refund" ELSE "order", !.val = {}])
           \/ /\ p.at = "refund read"
              /\ update(p.id, Always, LAMBDA t : ObserveRefund(t, v.status))
              /\ Step(r, [p EXCEPT !.at = "refunds", !.val = {},
                                   !.todo = {i \in DOMAIN task[p.id].refunds : task[p.id].refunds[i].id}])
           \/ /\ p.at = "ledger read"
              /\ update(p.id, Always, LAMBDA t : ObserveLedger(t, Min(p.todo), v.status))
              /\ Step(r, [p EXCEPT !.at = "refunds", !.val = {}, !.todo = @ \ {Min(@)}])
        /\ UNCHANGED mailVars /\ Passed

\* The end of a pass: an event is marked, and the capture route goes on, unless
\* the task it read last is captured.
FinishPass(r) ==
    LET p == pass[r]
    IN  /\ p.at = "refunds" /\ p.todo = {}
        /\ mark_event(p)
        /\ IF p.cap /\ ~task[p.id].captured THEN Step(r, [p EXCEPT !.at = "capture"]) ELSE End(r)
        /\ UNCHANGED <<task, bookVars, notices>> /\ Passed

\* The claim looks at the task again, as it is then.
MayCapture(t) == t.capture = "none" /\ t.seen = "APPROVED"

capture(r) ==
    LET p == pass[r]
    IN  /\ p.at = "capture"
        /\ End(r)
        /\ IF MayCapture(task[p.id])
           THEN /\ update(p.id, MayCapture, LAMBDA t : [t EXCEPT !.capture = "dispatching"])
                /\ Sends(Call(p.id, "capture", 0, {}))
           ELSE UNCHANGED <<task, bookVars, calls>>
        /\ UNCHANGED <<scene, now, subVars, mailVars, prov, psub, workVars>>

-----------------------------------------------------------------------------
(* App::process_events, the order and refund events. *)

\* Store::related: the row holds one of the identities the event carries.
Related(e) ==
    \/ e.type \in {"order", "captured", "denied"}
    \/ e.type = "reversed" /\ task[e.id].captureId
    \/ e.type = "refunded" /\ (e.key # Outside \/ task[e.id].captureId)

At(e) == CASE e.type = "captured" -> "order" [] e.type = "order" -> "order event"
           [] e.type = "denied" -> "reversed" [] OTHER -> e.type

\* A refund event is read back at the provider before anything else.
process_event(r, e) ==
    /\ e \in inbox /\ e.id \in Task /\ pass[r].at = "idle" /\ Related(e)
    /\ Step(r, PassOn(e.id, At(e), FALSE, {e}))
    /\ UNCHANGED <<task, bookVars, mailVars>> /\ Passed

\* A refund this service approved is confirmed; any other one needs a merchant.
EventRefund(r) ==
    LET p == pass[r]  e == CHOOSE x \in p.ev : TRUE  v == RefundView(prov[p.id], e.key)
    IN  /\ p.at = "refunded"
        /\ \/ /\ e.key = LegacyKey
              /\ update(p.id, Always, LAMBDA t : ObserveRefund(t, v.status))
              /\ Step(r, [p EXCEPT !.at = "order"])
           \/ /\ e.key > LegacyKey
              /\ update(p.id, Always, LAMBDA t : ObserveLedger(t, e.key, v.status))
              /\ Step(r, [p EXCEPT !.at = "order"])
           \/ /\ e.key = Outside
              /\ update(p.id, Always, LAMBDA t : [t EXCEPT !.review = TRUE])
              /\ Step(r, [p EXCEPT !.at = "order", !.ok = FALSE])
        /\ UNCHANGED mailVars /\ Passed

EventReversed(r) ==
    /\ pass[r].at = "reversed"
    /\ update(pass[r].id, Always, LAMBDA t : [t EXCEPT !.review = TRUE])
    /\ Step(r, [pass[r] EXCEPT !.at = "order"])
    /\ UNCHANGED mailVars /\ Passed

\* Recovers a lost create answer from the event's order identity.
EventOrder(r) ==
    /\ pass[r].at = "order event"
    /\ IF task[pass[r].id].orderId
       THEN Step(r, [pass[r] EXCEPT !.at = "order"])
       ELSE Step(r, [pass[r] EXCEPT !.at = "event read", !.val = {View(prov[pass[r].id])}])
    /\ UNCHANGED <<task, bookVars, mailVars>> /\ Passed
=============================================================================
