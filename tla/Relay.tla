-------------------------------- MODULE Relay -------------------------------
(***************************************************************************)
(* What the settlement handlers of the Axum backend share: the stored       *)
(* operation claims, records and connector jobs, the clock that stamps      *)
(* them, and the chain behind the RPC node.  A handler is a worker with a   *)
(* local copy of the record and the storage and RPC calls it still has to   *)
(* make; every call is one step, and between two of them anything else may  *)
(* happen (server_recovery.rs, storage/mod.rs, storage/webhooks.rs).        *)
(***************************************************************************)
EXTENDS Naturals, Sequences, FiniteSets

CONSTANTS
    Key,        \* idempotency keys; each names one signed message
    Worker,     \* requests that may be in flight at once
    Scene,      \* what a behaviour is about, see `scene`
    MaxSends,   \* sends are counted up to here
    NoRow       \* model value

ASSUME RelayAssumption ==
    /\ MaxSends \in Nat
    /\ \A s \in Scene :
          /\ s.keys \subseteq Key
          /\ s.ordered \subseteq s.connected /\ s.connected \subseteq s.keys
          /\ s.delegated \subseteq s.keys

Status == {"prepared", "submitted", "confirmed", "failed"}
Terminal == {"confirmed", "failed"}

VARIABLES
    scene,    \* fixed: the keys, how they are paid, the routes called and the weather
    now,      \* now_ms()
    chain,    \* chain[k]: what became of the message on chain
    valid,    \* valid[k]: its blockhash can still be used
    claim,    \* operation_claims: the intent bound to a key, and the initial record
    record,   \* payments or transactions
    job,      \* x402_payments: the connector job of a payment
    worker,   \* the requests in flight
    sent,     \* history: sent[k], how often the message left this process, up to MaxSends
    resent    \* history: how often of these for a recovery that asks to resubmit

chainVars == <<chain, valid>>
storeVars == <<claim, record, job>>
sentVars == <<sent, resent>>
vars == <<scene, now, chain, valid, claim, record, job, worker, sent, resent>>

Connected == scene.connected  \* keys whose payment belongs to an x402 or Crossmint job
Delegated == scene.delegated  \* keys submitted for the managed signer; the others are signed
Ordered == scene.ordered      \* keys whose payment names the one Crossmint order
Weather == scene.weather      \* of "land", "fork", "drop", "finalize", "expire"
Route == scene.route          \* of "submit", "recover", "resubmit", "read", "proof", "cancel"
Alone == scene.alone          \* requests come one after another

Idle == [todo |-> <<>>, key |-> NoRow, rec |-> NoRow]

-----------------------------------------------------------------------------
(* The chain, external.  A node that accepted a message forwards it; until  *)
(* its blockhash expires it may land, and until it is final a fork may undo  *)
(* that.  The signature's status shows from the moment it lands.            *)

Visible == {"landed", "reverted", "finalized", "rejected"}
Paid(k) == chain[k] \in {"landed", "finalized"}

Land(k) ==
    /\ "land" \in Weather
    /\ chain[k] = "pending"
    /\ valid[k]
    /\ \E fate \in {"landed", "reverted"} : chain' = [chain EXCEPT ![k] = fate]
    /\ UNCHANGED <<now, valid, storeVars, worker, sentVars>>

Fork(k) ==
    /\ "fork" \in Weather
    /\ chain[k] \in {"landed", "reverted"}
    /\ chain' = [chain EXCEPT ![k] = "pending"]
    /\ UNCHANGED <<now, valid, storeVars, worker, sentVars>>

Drop(k) ==
    /\ "drop" \in Weather
    /\ chain[k] = "pending"
    /\ chain' = [chain EXCEPT ![k] = "absent"]
    /\ UNCHANGED <<now, valid, storeVars, worker, sentVars>>

Finalize(k) ==
    /\ "finalize" \in Weather
    /\ \/ chain[k] = "landed" /\ chain' = [chain EXCEPT ![k] = "finalized"]
       \/ chain[k] = "reverted" /\ chain' = [chain EXCEPT ![k] = "rejected"]
    /\ UNCHANGED <<now, valid, storeVars, worker, sentVars>>

Expire(k) ==
    /\ "expire" \in Weather
    /\ valid[k]
    /\ valid' = [valid EXCEPT ![k] = FALSE]
    /\ UNCHANGED <<now, chain, storeVars, worker, sentVars>>

ChainStep ==
    \E k \in scene.keys : Land(k) \/ Fork(k) \/ Drop(k) \/ Finalize(k) \/ Expire(k)

\* send_transaction reached the node, which forwards the message.
Forwarded(k) ==
    /\ chain' = IF chain[k] = "absent" /\ valid[k] THEN [chain EXCEPT ![k] = "pending"] ELSE chain
    /\ UNCHANGED valid

\* The message leaves this process: for a submission, or again for a recovery.
Counted(n) == IF n < MaxSends THEN n + 1 ELSE n
Left(k) == sent' = [sent EXCEPT ![k] = Counted(@)] /\ UNCHANGED resent
LeftAgain(k) ==
    /\ sent' = [sent EXCEPT ![k] = Counted(@)]
    /\ resent' = [resent EXCEPT ![k] = Counted(@)]

\* A resubmission whose answer says nothing: the node has it, it got lost, or never left.
Resent(k) ==
    \/ (Forwarded(k) \/ UNCHANGED chainVars) /\ LeftAgain(k)
    \/ UNCHANGED <<chainVars, sentVars>>

-----------------------------------------------------------------------------
(* Storage.                                                                 *)

Record(status, signed, at) == [status |-> status, signed |-> signed, at |-> at]

\* The first claim of a key binds it.
claim_operation(k, intent, initial) ==
    IF claim[k] # NoRow THEN UNCHANGED claim ELSE
        claim' = [claim EXCEPT ![k] = [intent |-> intent, initial |-> initial]]

\* What a handler works on: the stored record, or the one kept with the claim.
Loaded(k) == IF record[k] # NoRow THEN record[k] ELSE claim[k].initial

\* Prepared: no submission has sent the message.
\* Mutant: whatever is not settled may be sent again.
Unsettled(rec) == rec.status \notin Terminal
known_unsent(rec) == rec.status = "prepared"

\* A record that is terminal, or newer, is kept.
Keeps(old, rec) == old # NoRow /\ (old.status \in Terminal \/ old.at > rec.at)

put_payment_with_events(k, rec) ==
    record' = IF Keeps(record[k], rec) THEN record ELSE [record EXCEPT ![k] = rec]

\* A verified or newer job is kept, and a settled one is not unsettled.
put_x402(k, rec) ==
    job' = IF job[k] # NoRow /\ (\/ job[k].status = "verified"
                                 \/ job[k].at > rec.at
                                 \/ job[k].status \in Terminal
                                    /\ rec.status \in {"prepared", "submitted"})
           THEN job
           ELSE [job EXCEPT ![k] = [status |-> rec.status, at |-> rec.at]]

-----------------------------------------------------------------------------
(* Steps of a worker.                                                       *)

At(w, step) == worker[w].todo # <<>> /\ Head(worker[w].todo) = step
KeyOf(w) == worker[w].key
Rec(w) == worker[w].rec
Rest(w) == Tail(worker[w].todo)

\* The worker goes on with `rec` and the steps of `todo`.
Continue(w, rec, todo) ==
    worker' = [worker EXCEPT ![w] =
        IF todo = <<>> THEN Idle ELSE [worker[w] EXCEPT !.rec = rec, !.todo = todo]]

\* The same, with the record stamped now_ms(): time may have passed or not.
Stamped(w, status, signed, todo) ==
    \E t \in {now, now + 1} :
        /\ now' = t
        /\ Continue(w, Record(status, signed, t), todo)

Free(w) == worker[w] = Idle /\ (Alone => \A x \in Worker : worker[x] = Idle)

Begin(w, k, todo) ==
    /\ Free(w)
    /\ worker' = [worker EXCEPT ![w] = [Idle EXCEPT !.key = k, !.todo = todo]]
    /\ UNCHANGED <<now, chainVars, storeVars, sentVars>>

\* persist_payment: the record, then the connector's job, in two calls.
Persist(k) == IF k \in Connected THEN <<"put", "job">> ELSE <<"put">>

Put(w) ==
    /\ At(w, "put")
    /\ put_payment_with_events(KeyOf(w), Rec(w))
    /\ Continue(w, Rec(w), Rest(w))
    /\ UNCHANGED <<now, chainVars, claim, job, sentVars>>

PutJob(w) ==
    /\ At(w, "job")
    /\ put_x402(KeyOf(w), Rec(w))
    /\ Continue(w, Rec(w), Rest(w))
    /\ UNCHANGED <<now, chainVars, claim, record, sentVars>>

Reread(w) ==
    /\ At(w, "reread")
    /\ Continue(w, record[KeyOf(w)], Rest(w))
    /\ UNCHANGED <<now, chainVars, storeVars, sentVars>>

\* The request is refused, fails on an RPC or storage error, or the process dies.
Stop(w) ==
    /\ worker[w] # Idle
    /\ worker' = [worker EXCEPT ![w] = Idle]
    /\ UNCHANGED <<now, chainVars, storeVars, sentVars>>

-----------------------------------------------------------------------------
(* Sending, and what becomes of a message that was sent.                    *)

\* The node takes the message; or its answer is lost, with or without the
\* message; or its preflight refuses it; or this process has no RPC slot left.
Send(w) ==
    LET k == KeyOf(w)
    IN  /\ At(w, "send")
        /\ \/ /\ Forwarded(k) /\ Left(k)
              /\ \E todo \in {<<"reconcile">>, <<"unknown">>} : Continue(w, Rec(w), todo)
              /\ UNCHANGED now
           \/ /\ Left(k)
              /\ Continue(w, Rec(w), <<"unknown">>)
              /\ UNCHANGED <<now, chainVars>>
           \/ /\ Continue(w, Rec(w), <<"refused">>)
              /\ UNCHANGED <<now, chainVars, sentVars>>
           \/ /\ Stamped(w, "prepared", TRUE, Persist(k))
              /\ UNCHANGED <<chainVars, sentVars>>
        /\ UNCHANGED storeVars

\* What a send leaves that nobody can vouch for.
Unproven == "submitted"

\* After a send that failed: Failed only if the node refused the message and the
\* chain does not know its signature.
classify_send(w) ==
    LET k == KeyOf(w)
    IN  /\ At(w, "refused") \/ At(w, "unknown")
        /\ \/ /\ chain[k] \in Visible
              /\ Stamped(w, "submitted", TRUE, <<"reconcile">> \o Persist(k))
           \/ /\ chain[k] \notin Visible
              /\ At(w, "refused")
              /\ Stamped(w, "failed", TRUE, Persist(k))
           \/ Stamped(w, Unproven, TRUE, Persist(k))
        /\ UNCHANGED <<chainVars, storeVars, sentVars>>

\* Only a signature the chain does not know, under a blockhash that still holds.
can_resubmit(w) ==
    LET k == KeyOf(w)
    IN  /\ At(w, "probe")
        /\ \/ chain[k] \in Visible /\ Continue(w, Rec(w), Rest(w))
           \/ chain[k] \notin Visible /\ valid[k] /\ Continue(w, Rec(w), <<"resend">> \o Rest(w))
        /\ UNCHANGED <<now, chainVars, storeVars, sentVars>>

cancel_unstarted(w) ==
    \E k \in scene.keys :
        /\ record[k] = NoRow
        /\ Begin(w, k, <<"cancel">>)

\* The same claim a submission needs.
Cancelled(w) ==
    /\ At(w, "cancel")
    /\ claim_operation(KeyOf(w), "cancelled", Record("failed", FALSE, now))
    /\ Continue(w, NoRow, <<>>)
    /\ UNCHANGED <<now, chainVars, record, job, sentVars>>

-----------------------------------------------------------------------------

RelayStep(w) ==
    \/ Put(w) \/ PutJob(w) \/ Reread(w) \/ Send(w) \/ classify_send(w)
    \/ can_resubmit(w) \/ Cancelled(w) \/ Stop(w)

RelayInit ==
    /\ scene \in Scene
    /\ now = 0
    /\ chain = [k \in Key |-> "absent"]
    /\ valid = [k \in Key |-> TRUE]
    /\ claim = [k \in Key |-> NoRow]
    /\ record = [k \in Key |-> NoRow]
    /\ job = [k \in Key |-> NoRow]
    /\ worker = [w \in Worker |-> Idle]
    /\ sent = [k \in Key |-> 0]
    /\ resent = [k \in Key |-> 0]

-----------------------------------------------------------------------------
(* Stamps are compared only with stamps of the same key, and only by order: *)
(* states that agree in those orders are one.                               *)

Stamps(k) ==
    {now} \cup {row.at : row \in ({record[k], job[k]}
                                 \cup {claim[x].initial : x \in {y \in {k} : claim[y] # NoRow}}
                                 \cup {worker[w].rec : w \in {x \in Worker : worker[x].key = k}})
                                \ {NoRow}}

Rank(k, t) == Cardinality({s \in Stamps(k) : s < t})
Ranked(k, row) == IF row = NoRow THEN NoRow ELSE [row EXCEPT !.at = Rank(k, row.at)]

RelayView ==
    <<scene, chain, valid, sentVars,
      [k \in Key |-> <<Ranked(k, record[k]), Ranked(k, job[k]), Rank(k, now),
                      IF claim[k] = NoRow THEN NoRow
                      ELSE <<claim[k].intent, Ranked(k, claim[k].initial)>> >>],
      [w \in Worker |-> [worker[w] EXCEPT !.rec = Ranked(worker[w].key, worker[w].rec)]]>>

-----------------------------------------------------------------------------
(* Properties of every relay.                                               *)

\* Confirmed is said only of a transaction that is final on chain (payment, transaction).
ConfirmedIsFinalized ==
    \A k \in Key : record[k] # NoRow /\ record[k].status = "confirmed" => chain[k] = "finalized"

\* Once a message has left the process its signature is stored, so that it can be
\* traced after a crash or a lost answer (settle_payment, recover_payment).
SentIsTraceable ==
    \A k \in Key :
        sent[k] > 0 \/ chain[k] # "absent" => record[k] # NoRow /\ record[k].signed

\* A cancelled key is never used: no request that was delayed, and no recovery,
\* sends its message after the cancellation (cancel_unstarted).
CancelledNeverSent ==
    \A k \in Key :
        claim[k] # NoRow /\ claim[k].intent = "cancelled" =>
            sent[k] = 0 /\ chain[k] = "absent" /\ record[k] = NoRow

\* What is stored of an operation never contradicts what became of it on chain,
\* whichever requests race on it, die or come late (server_recovery.rs).
RecordsAreTrue == SentIsTraceable /\ ConfirmedIsFinalized /\ CancelledNeverSent

\* A reservation that reads Prepared was sent by no submission: only an error that
\* proves it unsent may return one to Prepared (provably_unsent, known_unsent).
PreparedIsUnsent ==
    \A k \in Key : record[k] # NoRow /\ record[k].status = "prepared" => sent[k] = resent[k]

\* "A retry never signs or sends again": however requests crash and are repeated, all
\* sends of a message but one are those of recoveries that asked to resubmit it.
RetryNeverSends == \A k \in Key : sent[k] <= 1 + resent[k]

\* Failed is said only of a message that no later block can hold, so that a payment
\* made in its place is no second one; unless a recovery sent it too, whose copy may
\* still land when a later send is refused (classify_send, payment).
FailedIsUnpaid ==
    \A k \in Key :
        record[k] # NoRow /\ record[k].status = "failed" /\ resent[k] = 0 => ~Paid(k)

\* Together, of requests that come one after another (submit_payment, submit_transaction).
NoSecondSend == Alone => RetryNeverSends /\ PreparedIsUnsent /\ FailedIsUnpaid
=============================================================================
