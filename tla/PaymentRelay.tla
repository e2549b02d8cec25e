---------------------------- MODULE PaymentRelay ----------------------------
(***************************************************************************)
(* Settlement of payments: submission in either signing mode, recovery with *)
(* the original bytes, status reads and the cancellation of a key nobody    *)
(* has used, all racing on the same operations (server.rs submit_payment    *)
(* to reserve_crossmint_order, server_recovery.rs).                         *)
(***************************************************************************)
EXTENDS Relay

VARIABLE order   \* the key that holds the order's claim

pvars == <<vars, order>>

initial(k, t) == Record("prepared", k \notin Delegated, t)

-----------------------------------------------------------------------------
(* Reconciliation with the chain.                                           *)

\* Where `payment` leaves a record, given what the chain shows of its signature.
\* Confirmed takes a finalized transaction and its receipt, which may not be
\* readable yet; without news a Prepared record stays Prepared.
Reconciled(k, rec) ==
    CASE chain[k] = "rejected"  -> {"failed"}
      [] chain[k] = "finalized" -> {"confirmed", "submitted"}
      [] OTHER -> {IF known_unsent(rec) THEN "prepared" ELSE "submitted"}

\* The RPC node may also fail to answer, which is no news.
NoNews(rec) == {IF known_unsent(rec) THEN "prepared" ELSE "submitted"}

payment(w) ==
    LET k == KeyOf(w)
        rec == Rec(w)
    IN  /\ At(w, "reconcile")
        /\ IF rec.status \in Terminal \/ ~rec.signed
           THEN Continue(w, rec, Rest(w)) /\ UNCHANGED now
           ELSE \E status \in Reconciled(k, rec) \cup NoNews(rec) :
                    Stamped(w, status, TRUE, Persist(k) \o <<"reread">> \o Rest(w))
        /\ UNCHANGED <<chainVars, storeVars, sentVars, order>>

-----------------------------------------------------------------------------
(* Submission.                                                              *)

\* The steps of reserve_crossmint_order, which only an order's payment takes.
Order(k) == IF k \in Ordered THEN <<"order">> ELSE <<>>

\* Signed bytes are settled; for the managed signer the record is kept first.
Proceed(k) ==
    IF k \in Delegated THEN Persist(k) \o <<"sign", "settle">> ELSE <<"settle">>

\* Before it retries, the managed route reconciles once more.
Resume(k) ==
    IF k \in Delegated THEN <<"reconcile", "resume">> ELSE <<"resume">>

\* After the reservation: the winner proceeds, and so does a signed message that
\* is known to be unsent.
Reserved(k, won, rec) ==
    IF won \/ (k \notin Delegated /\ known_unsent(rec)) THEN Proceed(k)
    ELSE IF k \in Delegated THEN Resume(k)
    ELSE <<"reconcile">>

submit_payment(w) ==
    \E k \in scene.keys : Begin(w, k, <<"lookup">>) /\ UNCHANGED order

\* A key that is bound to another intent, as a cancelled one is, is a conflict.
existing_payment(w) ==
    LET k == KeyOf(w)
    IN  /\ At(w, "lookup")
        /\ IF claim[k] = NoRow THEN Continue(w, NoRow, <<"claim">>)
           ELSE IF claim[k].intent = "cancelled" THEN Continue(w, NoRow, <<>>)
           ELSE Continue(w, Loaded(k), <<"reconcile">> \o Resume(k))
        /\ UNCHANGED <<now, chainVars, storeVars, sentVars, order>>

\* Of two requests one wins the claim.
reserve_payment(w) ==
    LET k == KeyOf(w)
        won == claim[k] = NoRow
    IN  /\ At(w, "claim")
        /\ \E t \in {now, now + 1} :
               /\ now' = t
               /\ claim_operation(k, "bound", initial(k, t))
        /\ Continue(w, NoRow,
               IF claim'[k].intent = "cancelled" THEN <<>>
               ELSE IF won THEN <<"claimed", "won">> ELSE <<"claimed">>)
        /\ UNCHANGED <<chainVars, record, job, sentVars, order>>

\* What is stored is read once the key is bound.
Claimed(w) ==
    LET k == KeyOf(w)
    IN  /\ At(w, "claimed")
        /\ Continue(w, Loaded(k), Order(k) \o Reserved(k, Rest(w) # <<>>, Loaded(k)))
        /\ UNCHANGED <<now, chainVars, storeVars, sentVars, order>>

\* The order belongs to the first key that claims it; an older job of another
\* key counts as a claim.
OrderFree(k) ==
    /\ \A x \in Ordered \ {k} : job[x] = NoRow
    /\ order \in {NoRow, k}

\* Mutant: only the jobs are looked at.
ReserveByJob(w) ==
    LET k == KeyOf(w)
    IN  /\ At(w, "order")
        /\ Continue(w, Rec(w),
               IF \A x \in Ordered \ {k} : job[x] = NoRow THEN Rest(w) ELSE <<>>)
        /\ UNCHANGED <<now, chainVars, storeVars, sentVars, order>>
reserve_crossmint_order(w) ==
    LET k == KeyOf(w)
    IN  /\ At(w, "order")
        /\ IF OrderFree(k) THEN order' = k /\ Continue(w, Rec(w), Rest(w))
           ELSE UNCHANGED order /\ Continue(w, Rec(w), <<>>)
        /\ UNCHANGED <<now, chainVars, storeVars, sentVars>>

\* An existing operation goes on only if it is known to be unsent, and for the
\* managed signer only if no signature was kept.
resume_managed_payment(w) ==
    LET k == KeyOf(w)
        open == known_unsent(Rec(w)) /\ (k \in Delegated => ~Rec(w).signed)
    IN  /\ At(w, "resume")
        /\ Continue(w, Rec(w), IF open THEN Order(k) \o Proceed(k) ELSE <<>>)
        /\ UNCHANGED <<now, chainVars, storeVars, sentVars, order>>

\* The provider signs the same message to the same bytes every time; its answer
\* takes longer than a tick of the clock.
sign_and_settle_managed(w) ==
    /\ At(w, "sign")
    /\ now' = now + 1
    /\ Continue(w, Rec(w), Rest(w))
    /\ UNCHANGED <<chainVars, storeVars, sentVars, order>>

\* The signature is stored before the message is sent.  A receipt that exists
\* already is this payment's own if its signature is on chain.
\* Mutant: the message is sent first.
SettleUnstored(w) ==
    LET k == KeyOf(w)
    IN  /\ At(w, "settle")
        /\ chain[k] # "finalized"
        /\ Stamped(w, "submitted", TRUE, <<"send">>)
        /\ UNCHANGED <<chainVars, storeVars, sentVars, order>>
settle_payment(w) ==
    LET k == KeyOf(w)
    IN  /\ At(w, "settle")
        /\ \/ /\ chain[k] # "finalized"
              /\ Stamped(w, "submitted", TRUE, Persist(k) \o <<"send">>)
           \/ /\ chain[k] \in {"landed", "finalized"}
              /\ Stamped(w, "submitted", TRUE, Persist(k) \o <<"reconcile">>)
        /\ UNCHANGED <<chainVars, storeVars, sentVars, order>>

-----------------------------------------------------------------------------
(* Recovery, status reads and cancellation.                                 *)

recover_payment(w, resubmit) ==
    \E k \in scene.keys :
        Begin(w, k, IF resubmit THEN <<"load", "retry">> ELSE <<"load">>) /\ UNCHANGED order

\* The original bytes carry the original signature, which is stored first.  What
\* the managed signer signed is not handed out: it is known once it was sent.
Recovered(w) ==
    LET k == KeyOf(w)
    IN  /\ At(w, "load")
        /\ claim[k] # NoRow
        /\ claim[k].intent = "bound"
        /\ k \in Delegated => sent[k] > 0
        /\ Stamped(w, Loaded(k).status, TRUE,
               Persist(k) \o <<"reconcile">> \o Rest(w) \o <<"reconcile">>)
        /\ UNCHANGED <<chainVars, storeVars, sentVars, order>>

Retry(w) ==
    /\ At(w, "retry")
    /\ Continue(w, Rec(w),
           IF Rec(w).status \in Terminal THEN Rest(w) ELSE Order(KeyOf(w)) \o <<"probe">> \o Rest(w))
    /\ UNCHANGED <<now, chainVars, storeVars, sentVars, order>>

\* Only an error is recorded: a record that was Prepared stays so after a send that
\* the node took.
Resend(w) ==
    LET k == KeyOf(w)
    IN  /\ At(w, "resend")
        /\ \/ Forwarded(k) /\ LeftAgain(k) /\ Continue(w, Rec(w), Rest(w)) /\ UNCHANGED now
           \/ /\ Resent(k)
              /\ Stamped(w, "submitted", TRUE, Persist(k) \o Rest(w))
        /\ UNCHANGED <<storeVars, order>>

get_payment(w) ==
    \E k \in scene.keys :
        /\ record[k] # NoRow \/ (claim[k] # NoRow /\ claim[k].intent = "bound")
        /\ Free(w)
        /\ worker' = [worker EXCEPT ![w] =
               [Idle EXCEPT !.key = k, !.rec = Loaded(k), !.todo = <<"reconcile">>]]
        /\ UNCHANGED <<now, chainVars, storeVars, sentVars, order>>

\* A merchant's answer to an x402 job that reads settled, to be kept with it.
record_x402_proof(w) ==
    /\ Free(w)
    /\ \E k \in Connected \ Ordered, status \in {"confirmed", "verified"}, t \in {now, now + 1} :
           /\ job[k] # NoRow
           /\ job[k].status \in {"confirmed", "verified"}
           /\ now' = t
           /\ worker' = [worker EXCEPT ![w] =
                  [Idle EXCEPT !.key = k, !.todo = <<"job">>, !.rec = Record(status, TRUE, t)]]
    /\ UNCHANGED <<chainVars, storeVars, sentVars, order>>

-----------------------------------------------------------------------------

Init == RelayInit /\ order = NoRow

Request(w) ==
    \/ "submit" \in Route /\ submit_payment(w)
    \/ "resubmit" \in Route /\ recover_payment(w, TRUE)
    \/ "recover" \in Route /\ recover_payment(w, FALSE)
    \/ "read" \in Route /\ get_payment(w)
    \/ "proof" \in Route /\ record_x402_proof(w)
    \/ "cancel" \in Route /\ cancel_unstarted(w) /\ UNCHANGED order

Step(w) ==
    \/ existing_payment(w) \/ reserve_payment(w) \/ Claimed(w)
    \/ reserve_crossmint_order(w) \/ resume_managed_payment(w)
    \/ sign_and_settle_managed(w) \/ settle_payment(w)
    \/ Recovered(w) \/ Retry(w) \/ Resend(w) \/ payment(w)
    \/ RelayStep(w) /\ UNCHANGED order

Next ==
    /\ \/ \E w \in Worker : Request(w) \/ Step(w)
       \/ ChainStep /\ UNCHANGED order
    /\ UNCHANGED scene

Spec == Init /\ [][Next]_pvars

\* Stamps compare by order only.
View == <<RelayView, order>>

-----------------------------------------------------------------------------
(* Properties.                                                              *)

\* Of the payments that name one Crossmint order at most one is ever sent, also
\* when requests with different keys race (reserve_crossmint_order).
OrderPaidOnce ==
    Cardinality({k \in Ordered : sent[k] > 0 \/ chain[k] # "absent"}) <= 1

\* A connector job is settled only as its payment is, wherever a request died
\* between the two writes, as long as one request follows another (persist_payment).
JobFollowsPayment ==
    Alone => \A k \in Key :
        job[k] # NoRow /\ job[k].status \in Terminal \cup {"verified"} =>
            /\ record[k] # NoRow
            /\ job[k].status = "failed" <=> record[k].status = "failed"
            /\ job[k].status # "failed" <=> record[k].status = "confirmed"

\* The connectors' view of payments agrees with the payments: an order is paid once
\* and a job says what its payment says (reserve_crossmint_order, persist_payment).
ConnectorsAgree == OrderPaidOnce /\ JobFollowsPayment
=============================================================================
