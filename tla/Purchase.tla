------------------------------ MODULE Purchase ------------------------------
(***************************************************************************)
(* Buying a resource over HTTP 402: the payment tools of the MCP server     *)
(* (x402.ts, execute_payment.ts, settlement-submit.ts), the relay and the   *)
(* chain as the tools see them, the merchant that verifies a receipt and    *)
(* serves (proof.ts, app.ts), and the statement of what was served, which   *)
(* the merchant publishes (delivery.ts, publisher.ts) and the backend keeps *)
(* (server_delivery.rs).                                                    *)
(*                                                                         *)
(* The relay has here one record per operation key, which every request for *)
(* the key that finds it unsent settles: it stores that the payment is      *)
(* submitted, sends, and stores what an error means.  A record and its job  *)
(* are one write; PaymentRelay has the writes, their stamps and the managed *)
(* signer step by step.                                                     *)
(***************************************************************************)
EXTENDS Naturals, FiniteSets

CONSTANTS
    Invoice,    \* an invoice hash; terms that differ hash differently
    Call,       \* tool calls and later resumptions
    Instance,   \* processes of the merchant, all with the seller's key
    Scene,      \* the instances of the problem that are explored together
    None        \* no value

VARIABLES
    scene,
    receipt,    \* receipt account of (mandate, invoice): the operation that paid
    tx,         \* the transaction of each operation
    sends,      \* history: how often a node was given it, up to "more than once"
    pay,        \* the relay's payment record of each operation key
    job,        \* the relay's x402 job of each operation key
    call,       \* where each tool call is
    left,       \* tool calls still to come
    clock,      \* the clock of the relay's stamps
    shop,       \* each merchant process: terms, content, receipts in `issued`
    pub,        \* publications in flight, by process and receipt
    stmt,       \* delivery attestations kept by the backend
    envelopes,  \* attestations signed so far
    restarts,   \* restarts still to come
    served,     \* history: responses sent to the last byte
    handed      \* history: operations whose buyer read a whole 200 response

chainVars == <<receipt, tx, sends>>
relayVars == <<pay, job, clock>>
shopVars  == <<shop, pub, stmt, envelopes, restarts, served>>
vars == <<scene, chainVars, relayVars, call, left, shopVars, handed>>

POST_ATTEMPTS == 3

\* The operation keys of an invoice: `mandate:invoice` of execute_payment, and
\* `x402:mandate:invoice`, then `...:after:<payment>` of the payment before.
Direct == 0
Op == 0 .. scene.attempts

NoJob == [status |-> None, stamp |-> 0]
NoPub == [at |-> None, tries |-> 0, content |-> 0, id |-> 0]
Idle == [at |-> "idle", invoice |-> None, op |-> 0, retry |-> <<>>,
         shop |-> None, ok |-> FALSE, stamp |-> 0]
Fault(kind) == kind \in scene.faults

Init ==
    /\ scene \in Scene
    /\ receipt = [i \in Invoice |->
                     IF i \in scene.paid THEN [by |-> 1, final |-> TRUE]
                     ELSE [by |-> None, final |-> FALSE]]
    /\ tx = [i \in Invoice |-> [o \in Op |->
                IF o = 1 /\ i \in scene.paid THEN "landed" ELSE None]]
    /\ sends = [i \in Invoice |-> [o \in Op |->
                   IF o = 1 /\ i \in scene.paid THEN 1 ELSE 0]]
    /\ pay = [i \in Invoice |-> [o \in Op |->
                 [status |-> IF o = 1 /\ i \in scene.paid THEN "confirmed" ELSE None,
                  duplicate |-> FALSE]]]
    /\ job = [i \in Invoice |-> [o \in Op |->
                 IF o = 1 /\ i \in scene.paid THEN [status |-> "confirmed", stamp |-> 0]
                 ELSE NoJob]]
    /\ call = [c \in Call |-> Idle]
    /\ left = scene.calls
    /\ clock = 0
    /\ \E i \in scene.terms :
          shop = [m \in Instance |-> [terms |-> i, content |-> 1, issued |-> {}]]
    /\ pub = [m \in Instance |-> [i \in Invoice |-> NoPub]]
    /\ stmt = [i \in Invoice |-> None]
    /\ envelopes = 0
    /\ restarts = scene.restarts
    /\ served = {}
    /\ handed = {}

-----------------------------------------------------------------------------
(* The chain and the relay behind the tools.                                *)

Paid(i) == receipt[i].by # None

\* A transaction lands only as the first payment of its invoice: the receipt
\* account is created by it.  The program may also refuse it for another reason.
Land(i, o) ==
    /\ tx[i][o] = "sent"
    /\ \/ /\ ~Paid(i)
          /\ tx' = [tx EXCEPT ![i][o] = "landed"]
          /\ receipt' = [receipt EXCEPT ![i] = [by |-> o, final |-> FALSE]]
       \/ tx' = [tx EXCEPT ![i][o] = "rejected"] /\ UNCHANGED receipt
    /\ UNCHANGED <<scene, sends, relayVars, call, left, shopVars, handed>>

\* The blockhash runs out: the transaction leaves no trace.
Expire(i, o) ==
    /\ tx[i][o] = "sent"
    /\ tx' = [tx EXCEPT ![i][o] = "expired"]
    /\ UNCHANGED <<scene, receipt, sends, relayVars, call, left, shopVars, handed>>

Finalize(i) ==
    /\ Paid(i) /\ ~receipt[i].final
    /\ receipt' = [receipt EXCEPT ![i].final = TRUE]
    /\ UNCHANGED <<scene, tx, sends, relayVars, call, left, shopVars, handed>>

\* The job of an operation follows its payment; execute_payment has no job.
Follow(i, o, status, t) ==
    IF o = Direct THEN job ELSE [job EXCEPT ![i][o] = [status |-> status, stamp |-> t]]

\* A settled record is kept, whatever a request that is still under way makes of
\* the payment, and so is its job.
persist_payment(i, o, status, duplicate) ==
    IF pay[i][o].status \in {"confirmed", "failed"} THEN UNCHANGED <<pay, job>>
    ELSE /\ pay' = [pay EXCEPT ![i][o] = [status |-> status, duplicate |-> duplicate]]
         /\ job' = Follow(i, o, status, clock)

\* The relay learns of the outcome, from a finalized transaction.  One that has
\* left no trace is no news.
Reconcile(i, o) ==
    /\ pay[i][o].status \in {"prepared", "submitted"}
    /\ \/ /\ tx[i][o] = "landed" /\ receipt[i].final
          /\ persist_payment(i, o, "confirmed", FALSE)
       \/ tx[i][o] = "rejected" /\ persist_payment(i, o, "failed", FALSE)
    /\ UNCHANGED <<scene, chainVars, clock, call, left, shopVars, handed>>

-----------------------------------------------------------------------------
(* Paying.                                                                  *)

\* The invoice of a challenge is the hash of the terms it states.
deriveX402PaymentReferences(m) == shop[m].terms

At(c, where) == call[c].at = where
Go(c, r) == call' = [call EXCEPT ![c] = r]

\* A call without a payment id reads the merchant's challenge, which gives the
\* invoice, and may name an earlier payment to retry.
Begin(c) ==
    /\ At(c, "idle") /\ left > 0
    /\ left' = left - 1
    /\ \E m \in Instance, retry \in {<<>>} \cup (Invoice \X Op) :
          Go(c, [Idle EXCEPT !.at = "prepare", !.invoice = deriveX402PaymentReferences(m),
                             !.op = 1,
                             !.retry = retry])
    /\ UNCHANGED <<scene, chainVars, relayVars, shopVars, handed>>

\* execute_payment for the same invoice takes no challenge and no retry.
BeginDirect(c) ==
    /\ At(c, "idle") /\ left > 0 /\ Fault("direct")
    /\ left' = left - 1
    /\ \E m \in Instance :
          Go(c, [Idle EXCEPT !.at = "prepare", !.invoice = deriveX402PaymentReferences(m)])
    /\ UNCHANGED <<scene, chainVars, relayVars, shopVars, handed>>

\* An invoice that has its receipt is refused before anything is built.  Policy
\* refuses too, and a human-signed payment goes out to be signed first.
preparePayment(c) ==
    /\ At(c, "prepare")
    /\ \/ Go(c, Idle)
       \/ ~Paid(call[c].invoice) /\ Go(c, [call[c] EXCEPT !.at = "key"])
    /\ UNCHANGED <<scene, chainVars, relayVars, left, shopVars, handed>>

\* Mutant: any payment of the invoice may be retried.
KeyAfterAny(i, retry) ==
    IF retry = <<>> THEN {1}
    ELSE {o \in {retry[2] + 1} : retry[1] = i /\ retry[2] # Direct /\ o \in Op}
\* The operation key of an attempt: the first of its invoice, or the one after
\* a payment of the same invoice that the chain refused and that is not there
\* because somebody else paid.  No key when the payment named does not qualify.
x402OperationKey(i, retry) ==
    IF retry = <<>> THEN {1}
    ELSE {o \in {retry[2] + 1} :
             /\ o \in Op /\ retry[2] # Direct /\ retry[1] = i
             /\ pay[i][retry[2]].status = "failed"
             /\ ~pay[i][retry[2]].duplicate}

ChooseKey(c) ==
    LET i == call[c].invoice
        keys == IF call[c].op = Direct THEN {Direct} ELSE x402OperationKey(i, call[c].retry)
    IN  /\ At(c, "key")
        /\ IF keys = {} THEN Go(c, Idle)
           ELSE \E o \in keys : Go(c, [call[c] EXCEPT !.at = "submit", !.op = o, !.retry = <<>>])
        /\ UNCHANGED <<scene, chainVars, relayVars, left, shopVars, handed>>

\* A lost or an unexpected answer leaves the outcome unknown, and is reported as
\* pending under the payment id that the payment must have.
submitSettlement(status) == {status} \cup (IF Fault("relay") THEN {"unknown"} ELSE {})

\* What the x402 tool does with a payment: it delivers what is confirmed, and
\* only reports anything else.
Settled(c, i, o, status) ==
    Go(c, IF status = "confirmed"
          THEN [Idle EXCEPT !.at = "verify", !.invoice = i, !.op = o]
          ELSE Idle)

\* The relay takes the request.  It is refused, or its key is claimed and the
\* payment settled; so does a request that finds the payment not sent yet, also
\* the one that loses the claim.  Any other record is the answer.
submit_payment(c) ==
    LET i == call[c].invoice
        o == call[c].op
        unsent == pay[i][o].status \in {None, "prepared"}
    IN  /\ At(c, "submit")
        /\ \/ Go(c, Idle) /\ UNCHANGED pay
           \/ /\ unsent
              /\ pay' = [pay EXCEPT ![i][o].status = "prepared"]
              /\ Go(c, [call[c] EXCEPT !.at = "settle"])
           \/ ~unsent /\ Go(c, [call[c] EXCEPT !.at = "answer"]) /\ UNCHANGED pay
        /\ UNCHANGED <<scene, chainVars, job, clock, left, shopVars, handed>>

\* The chain shows the signature of a transaction that ran.
OnChain(i, o) == tx[i][o] \in {"landed", "rejected"}

\* The payment is stored as submitted before it is sent.  A receipt that is there
\* is a duplicate, unless the payment itself left it.
settle_payment(c) ==
    LET i == call[c].invoice
        o == call[c].op
    IN  /\ At(c, "settle")
        /\ \/ Go(c, Idle) /\ UNCHANGED <<pay, job>>
           \/ /\ ~Paid(i) \/ OnChain(i, o)
              /\ persist_payment(i, o, "submitted", FALSE)
              /\ Go(c, [call[c] EXCEPT !.at = IF Paid(i) THEN "answer" ELSE "send"])
        /\ UNCHANGED <<scene, chainVars, clock, left, shopVars, handed>>

\* A node has the bytes, and passes them on or does not.
Given(i, o) == sends' = [sends EXCEPT ![i][o] = IF @ = 0 THEN 1 ELSE 2]
Forwarded(i, o) == tx' = [tx EXCEPT ![i][o] = IF @ = None THEN "sent" ELSE @]

\* A node takes the bytes.  Or it refuses them and the chain has no trace of the
\* signature: the payment failed, perhaps because somebody else paid.  Or nobody
\* knows what it did.  Or the relay was too busy to ask one.
classify_send(c) ==
    LET i == call[c].invoice
        o == call[c].op
    IN  /\ At(c, "send")
        /\ Go(c, [call[c] EXCEPT !.at = "answer"])
        /\ \/ Given(i, o) /\ Forwarded(i, o) /\ UNCHANGED <<pay, job>>
           \/ /\ ~OnChain(i, o)
              /\ Given(i, o) /\ UNCHANGED tx
              /\ \E duplicate \in IF Paid(i) THEN BOOLEAN ELSE {FALSE} :
                    persist_payment(i, o, "failed", duplicate)
           \/ /\ Given(i, o)
              /\ Forwarded(i, o) \/ UNCHANGED tx
              /\ persist_payment(i, o, "submitted", FALSE)
           \/ UNCHANGED <<sends, tx>> /\ persist_payment(i, o, "prepared", FALSE)
        /\ UNCHANGED <<scene, receipt, clock, left, shopVars, handed>>

\* The request breaks off where it is.
BreakOff(c) ==
    /\ At(c, "settle") \/ At(c, "send")
    /\ Fault("relay")
    /\ Go(c, Idle)
    /\ UNCHANGED <<scene, chainVars, relayVars, left, shopVars, handed>>

\* The relay answers with the stored payment.  execute_payment reports it and has
\* nothing to deliver.
relayPayment(c) ==
    LET i == call[c].invoice
        o == call[c].op
    IN  /\ At(c, "answer") /\ o # Direct
        /\ \E status \in submitSettlement(pay[i][o].status) : Settled(c, i, o, status)
        /\ UNCHANGED <<scene, chainVars, relayVars, left, shopVars, handed>>

executePayment(c) ==
    /\ At(c, "answer") /\ call[c].op = Direct
    /\ Go(c, Idle)
    /\ UNCHANGED <<scene, chainVars, relayVars, left, shopVars, handed>>

\* The owner has the relay send the original bytes again, while the chain does not
\* know them.  Only an error is recorded: a payment that was prepared stays so.
recover_payment(i, o) ==
    /\ left > 0 /\ Fault("relay")
    /\ pay[i][o].status \in {"prepared", "submitted"}
    /\ ~Paid(i) /\ tx[i][o] \in {None, "sent"}
    /\ left' = left - 1
    /\ Given(i, o)
    /\ \/ Forwarded(i, o) /\ UNCHANGED <<pay, job>>
       \/ /\ Forwarded(i, o) \/ UNCHANGED tx
          /\ persist_payment(i, o, "submitted", FALSE)
    /\ UNCHANGED <<scene, receipt, clock, call, shopVars, handed>>

\* A call with a payment id continues that payment, whatever became of it.
resumeX402Payment(c) ==
    /\ At(c, "idle") /\ left > 0
    /\ left' = left - 1
    /\ \E i \in Invoice, o \in Op \ {Direct} :
          pay[i][o].status = "confirmed" /\ Settled(c, i, o, "confirmed")
    /\ UNCHANGED <<scene, chainVars, relayVars, shopVars, handed>>

-----------------------------------------------------------------------------
(* Delivery.                                                                *)

\* deliverX402: the receipt is read back, and the proof goes to the merchant.
verifyReceipt(c) ==
    /\ At(c, "verify")
    /\ \/ Go(c, Idle)
       \/ /\ Paid(call[c].invoice)
          /\ \E m \in Instance : Go(c, [call[c] EXCEPT !.at = "receipt", !.shop = m])
    /\ UNCHANGED <<scene, chainVars, relayVars, left, shopVars, handed>>

\* A refusal is an answer like another, and is kept with the job.
Refuse(c) == Go(c, [call[c] EXCEPT !.at = "stamp", !.ok = FALSE, !.shop = None])

\* Mutant: any settled receipt will do.
AnySettled(m, i) == receipt[i].final
\* The first half of verifyMerchantProof: the finalized receipt and the terms
\* this process sells on, which fix the invoice, amount, mint and recipient.
MatchesTerms(m, i) == receipt[i].final /\ i = shop[m].terms

ReadReceipt(c) ==
    /\ At(c, "receipt")
    /\ \/ Refuse(c)
       \/ /\ MatchesTerms(call[c].shop, call[c].invoice)
          /\ Go(c, [call[c] EXCEPT !.at = "transaction"])
    /\ UNCHANGED <<scene, chainVars, relayVars, left, shopVars, handed>>

\* The second half: the finalized transaction of the proof's signature made
\* exactly this receipt.
validateSettlementTransaction(i, o) == receipt[i].final /\ receipt[i].by = o

\* A process has one publication of a receipt in flight, and none after it.
Gated(m, i) == pub[m][i].at = None /\ i \notin shop[m].issued

\* Mutant: a connection that closes counts like a response that finished.
PublishAnyway(m, i, finished) == Gated(m, i)
\* Only a finished 200 publishes.
bindServedResponseLifecycle(m, i, finished) == finished /\ Gated(m, i)

\* The response goes out.  It may be cut off on the way, and what the process
\* has sent to the end the buyer may still not have read.
sendPaid(c) ==
    LET m == call[c].shop
        i == call[c].invoice
        o == call[c].op
    IN  /\ At(c, "transaction")
        /\ validateSettlementTransaction(i, o)
        /\ \E finished, read \in BOOLEAN :
              /\ read => finished
              /\ ~read => Fault("wire")
              /\ served' = IF finished
                           THEN served \cup {[invoice |-> i, terms |-> shop[m].terms,
                                              content |-> shop[m].content]}
                           ELSE served
              /\ pub' = IF bindServedResponseLifecycle(m, i, finished)
                        THEN [pub EXCEPT ![m][i] = [NoPub EXCEPT !.at = "lookup",
                                                       !.content = shop[m].content]]
                        ELSE pub
              /\ handed' = IF read THEN handed \cup {<<i, o>>} ELSE handed
              /\ Go(c, IF read THEN [call[c] EXCEPT !.at = "stamp", !.ok = TRUE, !.shop = None]
                       ELSE Idle)
        /\ UNCHANGED <<scene, chainVars, relayVars, left, shop, stmt, envelopes, restarts>>

RefuseTransaction(c) ==
    /\ At(c, "transaction")
    /\ Refuse(c)
    /\ UNCHANGED <<scene, chainVars, relayVars, left, shopVars, handed>>

\* persistX402Proof reaches record_x402_proof, which stamps the job it has read
\* and writes it back.
Stamp(c) ==
    LET i == call[c].invoice
        o == call[c].op
    IN  /\ At(c, "stamp")
        /\ \/ Go(c, Idle) /\ Fault("wire") /\ UNCHANGED clock
           \/ /\ job[i][o].status \in {"confirmed", "verified"}
              /\ clock' = clock + 1
              /\ Go(c, [call[c] EXCEPT !.at = "put", !.stamp = clock + 1])
        /\ UNCHANGED <<scene, chainVars, pay, job, left, shopVars, handed>>

ProofStatus(ok) == IF ok THEN "verified" ELSE "confirmed"

\* A verified job is final, and an older stamp does not replace a newer one.
put_x402(c) ==
    LET i == call[c].invoice
        o == call[c].op
    IN  /\ At(c, "put")
        /\ job' = IF job[i][o].status = "verified" \/ job[i][o].stamp > call[c].stamp THEN job
                  ELSE [job EXCEPT ![i][o] =
                          [status |-> ProofStatus(call[c].ok), stamp |-> call[c].stamp]]
        /\ Go(c, Idle)
        /\ UNCHANGED <<scene, chainVars, pay, clock, left, shopVars, handed>>

-----------------------------------------------------------------------------
(* The statement of what was served.                                        *)

Work(m, i, w) == pub' = [pub EXCEPT ![m][i] = w]
Issue(m, i) == shop' = [shop EXCEPT ![m].issued = @ \cup {i}]

\* What the backend answers to a lookup, when it does.
getExisting(i) == {stmt[i]} \cup (IF Fault("wire") THEN {None} ELSE {})

\* publish starts with what the backend has.  A statement of its seller settles
\* the matter, whether it is about these bytes or about others; without one an
\* envelope is signed.
publish(m, i) ==
    /\ pub[m][i].at = "lookup"
    /\ \E found \in getExisting(i) :
          IF found # None
          THEN Work(m, i, NoPub) /\ Issue(m, i) /\ UNCHANGED envelopes
          ELSE /\ envelopes' = envelopes + 1
               /\ Work(m, i, [pub[m][i] EXCEPT !.at = "post", !.id = envelopes + 1])
               /\ UNCHANGED shop
    /\ UNCHANGED <<scene, chainVars, relayVars, call, left, stmt, restarts, served, handed>>

\* The first statement of a receipt and seller stands.
put_delivery_attestation(i, envelope) ==
    IF stmt[i] = None THEN [stmt EXCEPT ![i] = envelope] ELSE stmt

\* The backend reads the receipt for itself, finalized.
verify_settled_delivery_receipt(i) == receipt[i].final

create_delivery_attestation(m, i) ==
    /\ verify_settled_delivery_receipt(i)
    /\ stmt' = put_delivery_attestation(i, [content |-> pub[m][i].content, id |-> pub[m][i].id])

\* Mutant: the last attempt is taken to have arrived.
GiveUpAsDone(m, i) ==
    IF pub[m][i].tries + 1 < POST_ATTEMPTS
    THEN Work(m, i, [pub[m][i] EXCEPT !.tries = @ + 1]) /\ UNCHANGED shop
    ELSE Work(m, i, NoPub) /\ Issue(m, i)
\* The same bytes again, a bounded number of times; then the statement is left
\* missing, and the next response for the receipt starts over.
Retry(m, i) ==
    /\ Work(m, i, IF pub[m][i].tries + 1 < POST_ATTEMPTS
                  THEN [pub[m][i] EXCEPT !.tries = @ + 1] ELSE NoPub)
    /\ UNCHANGED shop

\* A statement that is already there is read again, to see that it is the same
\* or to stop; either way the receipt is done with.
postIdenticalEnvelope(m, i) ==
    /\ pub[m][i].at = "post"
    /\ \/ create_delivery_attestation(m, i) /\ Work(m, i, NoPub) /\ Issue(m, i)
       \/ Fault("wire") /\ create_delivery_attestation(m, i) /\ Retry(m, i)
       \/ Fault("wire") /\ Retry(m, i) /\ UNCHANGED stmt
       \/ Fault("rpc") /\ Work(m, i, NoPub) /\ UNCHANGED <<shop, stmt>>
    /\ UNCHANGED <<scene, chainVars, relayVars, call, left, envelopes, restarts, served, handed>>

\* A process is replaced, perhaps by one with other terms or another content.
\* What it was answering breaks off.
Restart(m) ==
    /\ restarts > 0
    /\ restarts' = restarts - 1
    /\ \E i \in scene.terms, content \in scene.contents :
          shop' = [shop EXCEPT ![m] = [terms |-> i, content |-> content, issued |-> {}]]
    /\ pub' = [pub EXCEPT ![m] = [i \in Invoice |-> NoPub]]
    /\ call' = [c \in Call |-> IF call[c].shop = m THEN Idle ELSE call[c]]
    /\ UNCHANGED <<scene, chainVars, relayVars, left, stmt, envelopes, served, handed>>

-----------------------------------------------------------------------------
Next ==
    \/ \E i \in Invoice : Finalize(i)
    \/ \E i \in Invoice, o \in Op : \/ Land(i, o) \/ Expire(i, o) \/ Reconcile(i, o)
                                      \/ recover_payment(i, o)
    \/ \E c \in Call : \/ Begin(c) \/ BeginDirect(c) \/ preparePayment(c) \/ ChooseKey(c)
                       \/ submit_payment(c) \/ settle_payment(c) \/ classify_send(c)
                       \/ BreakOff(c) \/ relayPayment(c) \/ executePayment(c)
                       \/ resumeX402Payment(c)
                       \/ verifyReceipt(c) \/ ReadReceipt(c) \/ RefuseTransaction(c)
                       \/ sendPaid(c) \/ Stamp(c) \/ put_x402(c)
    \/ \E m \in Instance : \/ Restart(m)
                           \/ \E i \in Invoice : publish(m, i) \/ postIdenticalEnvelope(m, i)

Spec == Init /\ [][Next]_vars

-----------------------------------------------------------------------------
\* The accounts and rows keep the shapes the code declares.
TypeOK ==
    /\ receipt \in [Invoice -> [by : Op \cup {None}, final : BOOLEAN]]
    /\ tx \in [Invoice -> [Op -> {None, "sent", "landed", "rejected", "expired"}]]
    /\ \A i \in Invoice, o \in Op :
          /\ pay[i][o].status \in {None, "prepared", "submitted", "confirmed", "failed"}
          /\ job[i][o].status \in
                {None, "prepared", "submitted", "confirmed", "failed", "verified"}
    /\ \A m \in Instance : shop[m].issued \subseteq Invoice

\* Whatever a buyer retries, resumes or gives up on while answers are lost, of
\* two transactions of an invoice that are or may still be payments the earlier
\* one was given to a node more than once: a further key is opened only behind
\* a refusal (x402OperationKey), and a refusal is wrong only about another copy
\* of the same bytes (classify_send).
OneLiveAttempt ==
    \A i \in Invoice : \A o, p \in Op \ {Direct} :
        /\ o < p
        /\ tx[i][o] \in {"sent", "landed"}
        /\ tx[i][p] \in {"sent", "landed"}
        => sends[i][o] > 1

\* A response is sent only for a payment that is final and that was made on the
\* very terms the answering process sells on, also when the merchant changed
\* them between the challenge and the proof (verifyMerchantProof).
ServedIsPaid ==
    \A r \in served : r.invoice = r.terms /\ receipt[r.invoice].final

\* A delivery statement the backend shows is about a final payment and about
\* bytes that some process of the seller sent to the last one, whatever
\* connections broke and however many processes published at once.
StatementIsServed ==
    \A i \in Invoice : stmt[i] # None =>
        /\ receipt[i].final
        /\ \E r \in served : r.invoice = i /\ r.content = stmt[i].content

\* A process that will not publish a receipt again leaves a statement behind
\* for it, whatever answers of the backend were lost (`issued`).
IssuedIsStated ==
    \A m \in Instance : \A i \in shop[m].issued : stmt[i] # None

\* A job reads verified only when the buyer of that payment has read a whole
\* successful response, whatever other deliveries of it ran at the same time.
VerifiedIsDelivered ==
    \A i \in Invoice, o \in Op : job[i][o].status = "verified" => <<i, o>> \in handed

\* What either side put on record about the delivery happened: the seller's
\* statement and the buyer's verified job (bindServedResponseLifecycle,
\* create_delivery_attestation, record_x402_proof).
DeliveryIsTrue == StatementIsServed /\ VerifiedIsDelivered
=============================================================================
