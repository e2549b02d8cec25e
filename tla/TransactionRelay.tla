-------------------------- MODULE TransactionRelay --------------------------
(***************************************************************************)
(* Owner transactions: batches, mandate edits and card setup, which the     *)
(* owner signed.  They share the relay's storage and RPC rules with         *)
(* payments, but are reserved as Submitted, so only a send that is proven   *)
(* unsent is repeated (server.rs submit_transaction to                      *)
(* send_owner_transaction, server_recovery.rs transaction and               *)
(* recover_transaction).                                                    *)
(***************************************************************************)
EXTENDS Relay

reserved(t) == Record("submitted", TRUE, t)

\* Finalized batches are confirmed once all their receipts are readable.  What
\* the chain does not know, or does not say, leaves a Prepared record Prepared.
Reconciled(k, rec) ==
    CASE chain[k] = "rejected"  -> {"failed"}
      [] chain[k] = "finalized" -> {"confirmed", "submitted"}
      [] OTHER -> {IF known_unsent(rec) /\ chain[k] \notin Visible THEN "prepared" ELSE "submitted"}

NoNews(rec) == {IF known_unsent(rec) THEN "prepared" ELSE "submitted"}

transaction(w) ==
    LET k == KeyOf(w)
        rec == Rec(w)
    IN  /\ At(w, "reconcile")
        /\ IF rec.status \in Terminal THEN Continue(w, rec, Rest(w)) /\ UNCHANGED now
           ELSE \E status \in Reconciled(k, rec) \cup NoNews(rec) :
                    Stamped(w, status, TRUE, Persist(k) \o <<"reread">> \o Rest(w))
        /\ UNCHANGED <<chainVars, storeVars, sentVars>>

-----------------------------------------------------------------------------

submit_transaction(w) == \E k \in scene.keys : Begin(w, k, <<"lookup">>)

\* A key that is bound to another intent, as a cancelled one is, is a conflict.
Existing(w) ==
    LET k == KeyOf(w)
    IN  /\ At(w, "lookup")
        /\ IF claim[k] = NoRow THEN Continue(w, NoRow, <<"claim">>)
           ELSE IF claim[k].intent = "cancelled" THEN Continue(w, NoRow, <<>>)
           ELSE Continue(w, Loaded(k), <<"reconcile", "resume">>)
        /\ UNCHANGED <<now, chainVars, storeVars, sentVars>>

\* Only the request that wins the claim sends.
Reserve(w) ==
    LET k == KeyOf(w)
    IN  /\ At(w, "claim")
        /\ \E t \in {now, now + 1} :
               /\ now' = t
               /\ claim_operation(k, "bound", reserved(t))
               /\ IF claim[k] = NoRow THEN Continue(w, reserved(t), <<"settle">>)
                  ELSE Continue(w, NoRow,
                           IF claim'[k].intent = "cancelled" THEN <<>> ELSE <<"lookup">>)
        /\ UNCHANGED <<chainVars, record, job, sentVars>>

resume_owner_transaction(w) ==
    /\ At(w, "resume")
    /\ Continue(w, Rec(w), IF known_unsent(Rec(w)) THEN <<"settle">> ELSE <<>>)
    /\ UNCHANGED <<now, chainVars, storeVars, sentVars>>

send_owner_transaction(w) ==
    /\ At(w, "settle")
    /\ Stamped(w, "submitted", TRUE, Persist(KeyOf(w)) \o <<"send">>)
    /\ UNCHANGED <<chainVars, storeVars, sentVars>>

-----------------------------------------------------------------------------

\* A request on what is stored of a reserved operation.
OnReserved(w, todo) ==
    \E k \in scene.keys :
        /\ claim[k] # NoRow
        /\ claim[k].intent = "bound"
        /\ Free(w)
        /\ worker' = [worker EXCEPT ![w] = [key |-> k, rec |-> Loaded(k), todo |-> todo]]
        /\ UNCHANGED <<now, chainVars, storeVars, sentVars>>

recover_transaction(w, resubmit) ==
    OnReserved(w, IF resubmit THEN <<"reconcile", "retry", "reconcile">>
                  ELSE <<"reconcile", "reconcile">>)

get_transaction(w) == OnReserved(w, <<"reconcile">>)

Retry(w) ==
    /\ At(w, "retry")
    /\ Continue(w, Rec(w),
           IF Rec(w).status \in Terminal THEN Rest(w) ELSE <<"probe">> \o Rest(w))
    /\ UNCHANGED <<now, chainVars, storeVars, sentVars>>

\* Whatever the node answers, the chain is asked next.
Resend(w) ==
    /\ At(w, "resend")
    /\ Resent(KeyOf(w))
    /\ Continue(w, Rec(w), Rest(w))
    /\ UNCHANGED <<now, storeVars>>

-----------------------------------------------------------------------------

Request(w) ==
    \/ "submit" \in Route /\ submit_transaction(w)
    \/ "resubmit" \in Route /\ recover_transaction(w, TRUE)
    \/ "recover" \in Route /\ recover_transaction(w, FALSE)
    \/ "read" \in Route /\ get_transaction(w)
    \/ "cancel" \in Route /\ cancel_unstarted(w)

Step(w) ==
    \/ Existing(w) \/ Reserve(w) \/ resume_owner_transaction(w) \/ send_owner_transaction(w)
    \/ Retry(w) \/ Resend(w) \/ transaction(w) \/ RelayStep(w)

Next ==
    /\ (\E w \in Worker : Request(w) \/ Step(w)) \/ ChainStep
    /\ UNCHANGED scene

Spec == RelayInit /\ [][Next]_vars
=============================================================================
