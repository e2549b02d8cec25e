---------------------------- MODULE PaypalStore ----------------------------
(***************************************************************************)
(* The PayPal service's database (backend/src/paypal/store.rs) and the     *)
(* workers that write to it: task rows changed under a row lock, with the  *)
(* prepaid allowance accounted before and after every change               *)
(* (subscriptions.rs, account_allowance); the inbox of verified webhook    *)
(* events; and the document workers of ai.rs.                              *)
(* One calendar period is two ticks of `now`: a payment on the first is on *)
(* time, one on the second is late.                                        *)
(***************************************************************************)
EXTENDS PaypalTask

CONSTANTS
    Task, Worker, Reader, Request,
    Payment,       \* payments the provider may collect for the subscription
    NoPayment, Sub, Delegate,
    Scene          \* the situations to check: which actors run, and the bounds

GRANT == 3         \* units a payment grants; 10 in the code
MAX_PROPOSALS == 2 \* refund proposals of a task; 128 in the code

VARIABLES
    scene,
    now,
    task,          \* paypal_tasks
    periods,       \* paypal_subscription_periods
    ledger,        \* paypal_allowance_ledger
    sub, deleg,    \* paypal_subscriptions, paypal_delegations
    notices,       \* webhook calls the provider has yet to make
    inbox, done,   \* paypal_webhook_inbox: unprocessed and processed events
    calls,         \* mutations sent to the provider by a handler
    prov, psub,    \* the provider's orders and its subscription
    pass,          \* reconciliation passes: [id, at, todo, val, cap, ev, ok]
    ai,            \* document workers: [id, at, attempt]
    attempts       \* every claim of an output so far: [id, unit, rev]

bookVars == <<periods, ledger>>
subVars  == <<sub, deleg>>
mailVars == <<notices, inbox, done>>
wireVars == <<calls, prov, psub>>
workVars == <<ai, attempts>>
vars == <<scene, now, task, bookVars, subVars, mailVars, wireVars, pass, workVars>>

Period == 1 .. scene.periods
StartOf(k) == 2 * (k - 1)
EndOf(k) == 2 * k
Current == now \div 2 + 1

NewPeriod == [recorded |-> FALSE, payment |-> NoPayment, remaining |-> 0, blocked |-> FALSE]

-----------------------------------------------------------------------------
(* Store::update *)

Entry(key, k, kind, n, d) == [key |-> key, period |-> k, kind |-> kind, units |-> n, deleg |-> d]

\* INSERT ... ON CONFLICT DO NOTHING: the entries a key still admits.
NewIn(L, es) == {e \in es : \A l \in L : l.key # e.key}

\* Mutant: the period's block not looked up.
Unreviewed(t, P) == t

Reviewed(t, P) ==
    IF t.funding # 0 /\ P[t.funding].blocked THEN [t EXCEPT !.review = TRUE] ELSE t

\* The outcome of an output counts once, for the revision that was paid for.
Outcomes(id, t) ==
    {Entry(<<"outcome", id, u>>, t.funding,
           IF t.units[u].state = "Failed" THEN "restore" ELSE "consume", 1, t.deleg) :
        u \in {v \in Unit : ~t.units[v].redone /\ t.units[v].state \in {"Failed", "Delivered"}}}

\* Mutant: a failed output given back at every accounting.
GiveBackAgain(id, s) ==
    IF s.task.funding = 0 THEN s ELSE
    [task |-> Reviewed(s.task, s.periods),
     ledger |-> s.ledger \cup NewIn(s.ledger, Outcomes(id, s.task)),
     periods |-> [s.periods EXCEPT ![s.task.funding].remaining =
                    @ + Cardinality({e \in Outcomes(id, s.task) : e.kind = "restore"})]]

account_allowance(id, s) ==
    IF s.task.funding = 0 THEN s ELSE
    LET k    == s.task.funding
        new  == NewIn(s.ledger, Outcomes(id, s.task))
        back == {e \in new : e.kind = "restore"}
        late == {Entry(<<"expiry", id, e.key[3]>>, k, "expiry", 1, e.deleg) : e \in back}
    IN  [task |-> Reviewed(s.task, s.periods),
         ledger |-> s.ledger \cup new \cup (IF now < EndOf(k) THEN {} ELSE NewIn(s.ledger, late)),
         periods |-> IF now < EndOf(k)
                     THEN [s.periods EXCEPT ![k].remaining = @ + Cardinality(back)]
                     ELSE s.periods]

\* Account, change, account, in one transaction; a refused change leaves nothing behind.
Accounted(id) ==
    account_allowance(id, [task |-> task[id], ledger |-> ledger, periods |-> periods])

Committed(id, new) ==
    LET after == account_allowance(id, [Accounted(id) EXCEPT !.task = new])
    IN  /\ task' = [task EXCEPT ![id] = after.task]
        /\ ledger' = after.ledger
        /\ periods' = after.periods

update(id, May(_), Change(_)) ==
    LET t == Accounted(id).task
    IN  May(t) /\ Committed(id, Change(t))

Always(t) == TRUE

-----------------------------------------------------------------------------
(* The webhook inbox *)

Event(id, type, key) == [id |-> id, type |-> type, key |-> key]

\* Delivered at least once: an event already stored is not stored again.
webhook(e) ==
    /\ e \in notices
    /\ \/ notices' = notices \ {e}
       \/ UNCHANGED notices
    /\ inbox' = IF e \in done THEN inbox ELSE inbox \cup {e}
    /\ <<notices', inbox'>> # <<notices, inbox>>
    /\ UNCHANGED <<scene, now, task, bookVars, subVars, done, wireVars, pass, workVars>>

IdlePass == [id |-> Sub, at |-> "idle", todo |-> {}, val |-> {}, cap |-> FALSE, ev |-> {}, ok |-> TRUE]

PassOn(id, at, cap, ev) == [IdlePass EXCEPT !.id = id, !.at = at, !.cap = cap, !.ev = ev]

Step(r, p) == pass' = [pass EXCEPT ![r] = p]
End(r) == Step(r, IdlePass)

\* An event leaves the inbox only when every part of its handling succeeded.
mark_event(p) ==
    /\ inbox' = IF p.ok THEN inbox \ p.ev ELSE inbox
    /\ done' = IF p.ok THEN done \cup p.ev ELSE done

\* A provider read fails, or the process running the pass ends: nothing is marked.
PassFails(r) ==
    /\ "pass" \in scene.faulty /\ pass[r].at # "idle"
    /\ End(r)
    /\ UNCHANGED <<scene, now, task, bookVars, subVars, mailVars, wireVars, workVars>>

-----------------------------------------------------------------------------
(* Ai::run *)

IdleWorker == [id |-> Sub, at |-> 0, attempt |-> 0]

\* The process route: the task is accounted, and the outputs of a funded one are
\* taken in order.
process(w, id) ==
    /\ ai[w] = IdleWorker
    /\ update(id, Always, LAMBDA t : t)
    /\ ai' = IF verified_funded(task'[id])
             THEN [ai EXCEPT ![w] = [id |-> id, at |-> 1, attempt |-> 0]] ELSE ai
    /\ UNCHANGED <<scene, now, subVars, mailVars, wireVars, pass, attempts>>

NextOutput(w) == IF ai[w].at = amount THEN IdleWorker ELSE [ai[w] EXCEPT !.at = @ + 1, !.attempt = 0]

\* Claims the output, or passes it by. The lease of another attempt may be over.
claim(w) ==
    /\ ai[w].at # 0 /\ ai[w].attempt = 0
    /\ \E over \in BOOLEAN :
         LET id == ai[w].id  u == ai[w].at  n == Len(attempts) + 1
         IN  \/ /\ n <= scene.attempts
                /\ update(id, LAMBDA t : MayClaim(t, u, over), LAMBDA t : Claimed(t, u, n))
                /\ ai' = [ai EXCEPT ![w].attempt = n]
                /\ attempts' = Append(attempts, [id |-> id, unit |-> u, rev |-> task[id].units[u].rev])
             \/ /\ update(id, LAMBDA t : ~MayClaim(t, u, over), LAMBDA t : t)
                /\ ai' = [ai EXCEPT ![w] = NextOutput(w)]
                /\ UNCHANGED attempts
    /\ UNCHANGED <<scene, now, subVars, mailVars, wireVars, pass>>

\* The model answers, breaks the delivery contract, or is unavailable.
finish(w) ==
    /\ ai[w].attempt # 0
    /\ \E outcome \in {"Delivered", "Failed", "Unknown"} :
         update(ai[w].id, Always, LAMBDA t : Finished(t, ai[w].at, ai[w].attempt, outcome))
    /\ ai' = [ai EXCEPT ![w] = NextOutput(w)]
    /\ UNCHANGED <<scene, now, subVars, mailVars, wireVars, pass, attempts>>

WorkerDies(w) ==
    /\ "worker" \in scene.faulty /\ ai[w] # IdleWorker
    /\ ai' = [ai EXCEPT ![w] = IdleWorker]
    /\ UNCHANGED <<scene, now, task, bookVars, subVars, mailVars, wireVars, pass, attempts>>

-----------------------------------------------------------------------------
(* Human decisions (the resolution routes) *)

Decided == UNCHANGED <<scene, now, subVars, mailVars, wireVars, pass, workVars>>

\* What a client may have read of the outputs, now or earlier.
Seen(id) ==
    UNION {[unit : {u}, rev : 0 .. task[id].units[u].rev,
            out : {0} \cup {n \in DOMAIN attempts : attempts[n].id = id /\ attempts[n].unit = u}] : u \in Unit}

decision(id, req, act) ==
    /\ \E b \in Seen(id) :
         update(id, LAMBDA t : MayDecide(t, req, b), LAMBDA t : Appended(t, req, act, {b}))
    /\ Decided

rework(id, req) ==
    /\ \E b \in Seen(id) :
         /\ task[id].units[b.unit].rev < scene.revisions
         /\ update(id, LAMBDA t : MayRework(t, req, b), LAMBDA t : Reworked(t, req, b))
    /\ Decided

resolution_proposal(id, req) ==
    /\ Len(task[id].refunds) < scene.proposals
    /\ \E us \in SUBSET Unit :
         LET bs == {Binding(task[id], u) : u \in us}
         IN  update(id, LAMBDA t : MayPropose(t, req, bs), LAMBDA t : Proposed(t, req, bs))
    /\ Decided
=============================================================================
