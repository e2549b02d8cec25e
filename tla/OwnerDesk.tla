----------------------------- MODULE OwnerDesk -----------------------------
(***************************************************************************)
(* The owner's browser: the wallet session it signs in with, the journal of *)
(* approvals it keeps in local storage, and the requests with which it      *)
(* submits, checks, retries or cancels them (frontend session.ts,           *)
(* settlement.tsx, owner/runtime.ts; backend server_auth.rs).  Every await  *)
(* lets the owner switch wallets; every request may be delayed or lost.     *)
(* The relay behind the requests is its promise (PaymentRelay and           *)
(* TransactionRelay have its steps): an id is claimed once, by a submission *)
(* or by a cancellation.                                                    *)
(***************************************************************************)
EXTENDS Naturals, FiniteSets

CONSTANTS
    Wallet, None,
    Key,        \* idempotency keys of approvals
    Payments,   \* the keys submitted through MCP; the others go to the relay itself
    Urgent,     \* the keys of pauses and revocations, which no pending approval holds up
    Scene       \* records of bounds: keys, switches, logins, expiries, approvals, calls

VARIABLES
    scene,       \* fixed: how often the owner may do what
    wallet,      \* the connected wallet
    generation,  \* counts setSessionWallet
    session,     \* the session of the tab
    login,       \* login[g]: the sign-in begun in generation g
    sessions,    \* the live session rows of the backend
    flow,        \* flow[k]: the approval of k as it runs
    journal,     \* journal[w][k]: the row of operation id hash(w:k)
    told,        \* history: the outcome the row last showed, None while it is pending
    net,         \* requests on their way: one that is never handled is lost
    answers,     \* answers on their way, or lost
    relay,       \* relay[w][k]: what the relay holds of the id
    approved,    \* history: the approvals each wallet signed
    hurried,     \* history: those retried before their submission was answered
    left         \* what remains of the scene's bounds

session_vars == <<wallet, generation, session, login, sessions>>
desk_vars == <<flow, journal, told, net, answers, relay, approved, hurried>>
vars == <<scene, session_vars, desk_vars, left>>

Terminal == {"confirmed", "failed"}
Pending == {"submitted", "unknown"}

Spend(what) == left[what] > 0 /\ left' = [left EXCEPT ![what] = @ - 1]

-----------------------------------------------------------------------------
(* The session.                                                             *)

hasReadySession == session # None /\ session.wallet = wallet

\* The previous session is deleted best effort: the request may be lost.
setSessionWallet(next) ==
    /\ Spend("switches")
    /\ next # wallet
    /\ wallet' = next
    /\ generation' = generation + 1
    /\ session' = None
    /\ sessions' \in {sessions, sessions \ {session}}
    /\ UNCHANGED <<scene, login, desk_vars>>

\* One sign-in runs at a time; a switch forgets it, and it goes on unheard.
BeginSignIn ==
    /\ Spend("logins")
    /\ wallet # None
    /\ ~hasReadySession
    /\ login[generation] = None
    /\ login' = [login EXCEPT ![generation] = [wallet |-> wallet, token |-> None]]
    /\ UNCHANGED <<scene, wallet, generation, session, sessions, desk_vars>>

\* The challenge was issued, signed and is answered with a session row; or the
\* owner declines, or the wallet has changed before the proof is posted.
Login(g) ==
    /\ login[g] # None /\ login[g].token = None
    /\ \/ /\ generation = g
          /\ LET row == [wallet |-> login[g].wallet, token |-> left.logins]
             IN  /\ sessions' = sessions \cup {row}
                 /\ login' = [login EXCEPT ![g].token = row]
       \/ login' = [login EXCEPT ![g] = None] /\ UNCHANGED sessions
    /\ UNCHANGED <<scene, wallet, generation, session, desk_vars, left>>

\* A session for a wallet that was left meanwhile is given back.
SignedIn(g) ==
    /\ login[g] # None /\ login[g].token # None
    /\ login' = [login EXCEPT ![g] = None]
    /\ \/ generation = g /\ session' = login[g].token /\ UNCHANGED sessions
       \/ generation # g /\ sessions' = sessions \ {login[g].token} /\ UNCHANGED session
       \/ UNCHANGED <<session, sessions>>
    /\ UNCHANGED <<scene, wallet, generation, desk_vars, left>>

\* A session row ends; the tab sees it by its own clock, or is told 401.
Expire ==
    /\ Spend("expiries")
    /\ \E row \in sessions :
           /\ sessions' = sessions \ {row}
           /\ session' \in {session, IF session = row THEN None ELSE session}
    /\ UNCHANGED <<scene, wallet, generation, login, desk_vars>>

-----------------------------------------------------------------------------
(* The journal.                                                             *)

\* A terminal row stands, whatever a late answer says.
Kept(old, status) == IF old \in Terminal THEN old ELSE status

publishSettlement(w, k, status) ==
    LET kept == Kept(journal[w][k], status)
    IN  /\ journal' = [journal EXCEPT ![w][k] = kept]
        /\ told' = [told EXCEPT ![w][k] = IF kept \in Terminal THEN kept ELSE None]

Unpublished == UNCHANGED <<journal, told>>

forgetUnsentOperation(w, k) == journal' = [journal EXCEPT ![w][k] = None] /\ UNCHANGED told

dismissSettlement(w, k) ==
    /\ w = wallet
    /\ journal[w][k] \in Terminal
    /\ journal' = [journal EXCEPT ![w][k] = None]
    /\ UNCHANGED <<scene, session_vars, flow, told, net, answers, relay, approved, hurried, left>>

\* Only a pause or a revocation is signed while an approval is unresolved.
guardPendingApprovals(k) ==
    k \in Urgent \/ \A j \in Key : journal[wallet][j] \notin Pending

-----------------------------------------------------------------------------
(* An approval, from the wallet prompt to its answer.                       *)

At(k, phase) == flow[k].phase = phase
Goto(k, phase) == flow' = [flow EXCEPT ![k].phase = phase]
Bind(k, phase, signer) ==
    flow' = [flow EXCEPT ![k] = [phase |-> phase, signer |-> signer,
                                 wallet |-> wallet, generation |-> generation]]
Bound(k) == flow[k].wallet = wallet /\ flow[k].generation = generation

\* The wallet signs what the guard let through.  A key is approved again when its
\* first approval was not sent, or when the form kept the request it prepared.
signTransaction(k) ==
    /\ Spend("approvals")
    /\ wallet # None /\ k \in scene.keys
    /\ At(k, "idle") \/ (At(k, "over") /\ scene.again)
    /\ guardPendingApprovals(k)
    /\ Bind(k, "signed", wallet)
    /\ approved' = approved \cup {<<wallet, k>>}
    /\ UNCHANGED <<scene, session_vars, journal, told, net, answers, relay, hurried>>

\* beginSettlement waits for a session, then takes the wallet it finds.
ReadBinding(k) ==
    /\ At(k, "signed")
    /\ \/ hasReadySession /\ Bind(k, "digest", flow[k].signer)
       \/ Goto(k, "idle")
    /\ UNCHANGED <<scene, session_vars, journal, told, net, answers, relay, approved, hurried, left>>

\* A wallet that changed during the digest reserves nothing.
beginSettlement(k) ==
    /\ At(k, "digest")
    /\ \/ Bound(k) /\ publishSettlement(wallet, k, "submitted") /\ Goto(k, "reserved")
       \/ ~Bound(k) /\ Goto(k, "idle") /\ Unpublished
    /\ UNCHANGED <<scene, session_vars, net, answers, relay, approved, hurried, left>>

\* authorizedFetch: the request carries the session of the connected wallet.
Request(what, k, signer) ==
    [what |-> what, key |-> k, signer |-> signer, row |-> session, generation |-> generation]

\* A submission is sent for the wallet that reserved it, or certainly not sent.
Submit(k) ==
    /\ At(k, "reserved")
    /\ \/ /\ hasReadySession /\ Bound(k)
          /\ net' = net \cup {Request("submit", k, flow[k].signer)}
          /\ Goto(k, "sent")
          /\ Unpublished
       \/ /\ ~(hasReadySession /\ Bound(k))
          /\ forgetUnsentOperation(flow[k].wallet, k)
          /\ Goto(k, "idle")
          /\ UNCHANGED net
    /\ UNCHANGED <<scene, session_vars, answers, relay, approved, hurried, left>>

\* No usable answer: a payment is marked unknown, a transaction stays submitted.
\* Mutant: what was not answered is taken for unsent.
ForgetUnanswered(k) == forgetUnsentOperation(flow[k].wallet, k)
unresolved(k) ==
    IF k \in Payments THEN publishSettlement(flow[k].wallet, k, "unknown") ELSE Unpublished

\* The answers that prove the relay took nothing: 400, 401, 403, 404 and 422.
Refusals == {"rejected", "expired"}

\* 401 ends the session it was given for.
Signed(answer) ==
    session' = IF answer.code = "expired" /\ session = answer.row THEN None ELSE session

Answered(k) ==
    /\ At(k, "sent")
    /\ \E answer \in answers :
           /\ answer.what = "submit" /\ answer.key = k
           /\ answers' = answers \ {answer}
           /\ Signed(answer)
           /\ IF answer.generation # generation \/ answer.code \notin Refusals \cup {"ok"}
              THEN unresolved(k)
              ELSE publishSettlement(flow[k].wallet, k,
                       IF answer.code = "ok" THEN answer.status ELSE "failed")
    /\ Goto(k, "over")
    /\ UNCHANGED <<scene, wallet, generation, login, sessions, net, relay, approved, hurried, left>>

\* The request or its answer is lost, or late.
TimedOut(k) ==
    /\ At(k, "sent")
    /\ unresolved(k)
    /\ Goto(k, "over")
    /\ UNCHANGED <<scene, session_vars, net, answers, relay, approved, hurried, left>>

-----------------------------------------------------------------------------
(* What the owner, or the poll of the form, asks about a pending row.       *)

Ask(what, k) ==
    /\ Spend("calls")
    /\ hasReadySession
    /\ journal[wallet][k] \in Pending
    /\ net' = net \cup {Request(what, k, wallet)}
    /\ UNCHANGED <<scene, session_vars, flow, journal, told, answers, relay, approved>>

reconcileSettlement(k) == Ask("read", k) /\ UNCHANGED hurried
cancelUnstarted(k) == Ask("cancel", k) /\ UNCHANGED hurried

\* The row offers the retry from the moment it is reserved.
retrySameApproval(k) ==
    /\ Ask("recover", k)
    /\ hurried' = IF At(k, "over") THEN hurried ELSE hurried \cup {<<wallet, k>>}

\* An answer for a wallet that was left is dropped; an error changes nothing.
Told(k) ==
    \E answer \in answers :
        /\ answer.what # "submit" /\ answer.key = k
        /\ answers' = answers \ {answer}
        /\ Signed(answer)
        /\ IF answer.generation = generation /\ answer.code = "ok"
           THEN publishSettlement(answer.row.wallet, k, answer.status)
           ELSE Unpublished
        /\ UNCHANGED <<scene, wallet, generation, login, sessions, flow, net, relay,
                       approved, hurried, left>>

-----------------------------------------------------------------------------
(* The backend.                                                             *)

\* What a request of principal w may be answered, and what the relay then holds.
\* Mutant: a cancellation reserves nothing.
CancelOnly(held) == {<<held, "ok", "failed">>}
cancel_unstarted(held) == {<<"cancelled", "ok", "failed">>}

\* Each approval is signed anew, so a submission of an id that is held conflicts.
\* The policy is read once more after the id was claimed: a refusal then leaves it
\* "reserved", with nothing sent, until a retry of the same bytes passes that check.
Outcomes(what, held) ==
    CASE what = "submit" /\ held = None ->
             {<<None, "rejected", None>>, <<None, "other", None>>,
              <<"reserved", "rejected", None>>, <<"reserved", "other", None>>,
              <<"submitted", "ok", "submitted">>, <<"submitted", "other", None>>}
      [] what = "cancel" /\ held \in {None, "cancelled"} -> cancel_unstarted(held)
      [] what = "read" /\ held = "reserved" -> {<<held, "ok", "submitted">>}
      [] what = "recover" /\ held = "reserved" ->
             {<<"submitted", "ok", "submitted">>, <<held, "rejected", None>>}
      [] what \in {"read", "recover"} /\ held \notin {None, "cancelled"} -> {<<held, "ok", held>>}
      [] what \in {"read", "recover"} /\ held \in {None, "cancelled"} -> {<<held, "rejected", None>>}
      [] OTHER -> {<<held, "other", None>>}

\* identify: the session row names the principal; what another wallet signed is refused.
identify(m) == m.row \in sessions
owner(m) == m.signer = m.row.wallet

Reply(m, code, status) ==
    answers' = answers \cup {[what |-> m.what, key |-> m.key, row |-> m.row,
                              generation |-> m.generation, code |-> code, status |-> status]}

Handle(m) ==
    /\ net' = net \ {m}
    /\ \/ ~identify(m) /\ Reply(m, "expired", None) /\ UNCHANGED relay
       \/ identify(m) /\ ~owner(m) /\ Reply(m, "rejected", None) /\ UNCHANGED relay
       \/ /\ identify(m) /\ owner(m)
          /\ \E o \in Outcomes(m.what, relay[m.row.wallet][m.key]) :
                 /\ relay' = [relay EXCEPT ![m.row.wallet][m.key] = o[1]]
                 /\ Reply(m, o[2], o[3])
    /\ UNCHANGED <<scene, session_vars, flow, journal, told, approved, hurried, left>>

Settle(w, k) ==
    /\ relay[w][k] = "submitted"
    /\ \E status \in Terminal : relay' = [relay EXCEPT ![w][k] = status]
    /\ UNCHANGED <<scene, session_vars, flow, journal, told, net, answers, approved, hurried, left>>

-----------------------------------------------------------------------------

Init ==
    /\ scene \in Scene
    /\ wallet \in Wallet
    /\ generation = 0
    /\ session = None
    /\ login = [g \in 0..scene.switches |-> None]
    /\ sessions = {}
    /\ flow = [k \in Key |-> [phase |-> "idle", signer |-> None, wallet |-> None, generation |-> 0]]
    /\ journal = [w \in Wallet |-> [k \in Key |-> None]]
    /\ told = [w \in Wallet |-> [k \in Key |-> None]]
    /\ net = {}
    /\ answers = {}
    /\ relay = [w \in Wallet |-> [k \in Key |-> None]]
    /\ approved = {}
    /\ hurried = {}
    /\ left = [switches |-> scene.switches, logins |-> scene.logins,
               expiries |-> scene.expiries, approvals |-> scene.approvals, calls |-> scene.calls]

Next ==
    \/ \E w \in Wallet \cup {None} : setSessionWallet(w)
    \/ BeginSignIn \/ Expire
    \/ \E g \in DOMAIN login : Login(g) \/ SignedIn(g)
    \/ \E k \in Key :
           \/ signTransaction(k) \/ ReadBinding(k) \/ beginSettlement(k) \/ Submit(k)
           \/ Answered(k) \/ TimedOut(k) \/ Told(k)
           \/ reconcileSettlement(k) \/ retrySameApproval(k) \/ cancelUnstarted(k)
    \/ \E w \in Wallet, k \in Key : dismissSettlement(w, k) \/ Settle(w, k)
    \/ \E m \in net : Handle(m)

Spec == Init /\ [][Next]_vars

-----------------------------------------------------------------------------
(* Properties.                                                              *)

\* What the journal told its owner is so: confirmed is on chain, and what it
\* called failed was not sent by the relay and never will be, by a request that
\* is still on its way either (publishSettlement, cancelUnstarted).  A retry made
\* before the submission was answered is the exception: it may send what the
\* submission was refused.
JournalIsTrue ==
    \A w \in Wallet, k \in Key :
        /\ told[w][k] = "confirmed" => relay[w][k] = "confirmed"
        /\ told[w][k] = "failed" /\ <<w, k>> \notin hurried =>
               relay[w][k] \in {None, "cancelled", "reserved", "failed"}

\* An approval the relay took is in the journal of the wallet that signed it until
\* its outcome was told, however wallets, sessions and answers come and go
\* (callMcpTool, submitSignedTransaction, forgetUnsentOperation).
UnresolvedIsKept ==
    \A w \in Wallet, k \in Key :
        relay[w][k] \in {"submitted"} \cup Terminal =>
            /\ <<w, k>> \in approved
            /\ journal[w][k] # None \/ told[w][k] # None
=============================================================================
