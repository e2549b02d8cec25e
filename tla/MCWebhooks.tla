----------------------------- MODULE MCWebhooks -----------------------------
(***************************************************************************)
(* The three stores of the owner webhooks: the outbox, the secrets of an    *)
(* endpoint, and the paged scan of the reconcile pass.  None reads what     *)
(* another writes here, so each is explored with the others at rest: `part` *)
(* says which one runs.                                                     *)
(***************************************************************************)
EXTENDS Outbox, WebhookSecrets

CONSTANTS Payment, Transaction, Store, LIMIT, SCAN, Since, Now, MaxFaults

VARIABLES updated, confirmed, store, phase, before, told, counted, complete, cut, missed, faults, part

P == INSTANCE ReconcilePages

pageVars == <<updated, confirmed, store, phase, before, told, counted, complete, cut, missed, faults>>
all == <<vars, secretVars, pageVars, part>>

OneStep == <<1>>

OutboxRuns(A) == part = "outbox" /\ A /\ UNCHANGED <<secretVars, pageVars, part>>
SecretsRun(A) == part = "secrets" /\ A /\ UNCHANGED <<vars, pageVars, part>>
PagesRun(A) == part = "pages" /\ A /\ UNCHANGED <<vars, secretVars, part>>

\* What is at rest does not vary.
WebhooksInit ==
    /\ Init
    /\ SecretsInit
    /\ \/ part = "outbox" /\ P!AtRest
       \/ part = "secrets" /\ P!AtRest /\ ~hooks
       \/ part = "pages" /\ P!Init /\ ~hooks

WebhooksNext ==
    \/ OutboxRuns(Next)
    \/ SecretsRun(SecretsNext)
    \/ PagesRun(P!Next)

\* What Outbox and ReconcilePages assume of their schedules.
WebhooksSpec ==
    /\ WebhooksInit
    /\ [][WebhooksNext]_all
    /\ WF_all(OutboxRuns(Dispatch))
    /\ WF_all(OutboxRuns(Finish))
    /\ WF_all(OutboxRuns(Tick))
    /\ WF_all(PagesRun(P!GoesOn))

=============================================================================
