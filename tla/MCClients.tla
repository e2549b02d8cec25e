------------------------------ MODULE MCClients -----------------------------
(***************************************************************************)
(* The two clients of the relay: the agent's purchase from a merchant, and  *)
(* the owner's browser.  Each is explored with the other at rest: `part`    *)
(* says which one runs.                                                     *)
(***************************************************************************)
EXTENDS Purchase, TLC

CONSTANTS i1, i2, c1, c2, m1, m2, Wallet, Key, Payments, Urgent, k1, k2

VARIABLES part, day, budget, wallet, generation, session, login, sessions, flow,
          journal, told, net, answers, relay, approved, hurried

\* Two buyers' calls race to pay one invoice, by both tools, and retry.
Paying == [paid |-> {}, attempts |-> 3, calls |-> 4, restarts |-> 0,
           terms |-> {i1}, contents |-> {1}, faults |-> {"direct", "relay"}]

\* The merchant changes its price between a challenge and its proof.
Repricing == [paid |-> {}, attempts |-> 1, calls |-> 3, restarts |-> 1,
              terms |-> {i1, i2}, contents |-> {1}, faults |-> {}]

\* A settled payment is delivered by two processes over a bad network.
Delivering == [paid |-> {i1}, attempts |-> 1, calls |-> 3, restarts |-> 1,
               terms |-> {i1}, contents |-> {1, 2}, faults |-> {"wire", "rpc"}]

Scenes == {Paying, Repricing, Delivering}

\* How often the owner may do what.  Nothing is approved again once it was sent.
Day(keys, switches, logins, expiries, approvals, calls) ==
    [keys |-> keys, switches |-> switches, logins |-> logins, expiries |-> expiries,
     approvals |-> approvals, calls |-> calls, again |-> FALSE]

\* The owner changes wallets while a payment is under way; asks what became of one
\* after the session expired; or has a payment and a revocation pending at once.
Switching == Day({k1}, 2, 3, 0, 1, 1)
Asking == Day({k1}, 0, 2, 1, 1, 2)
TwoPending == Day({k1, k2}, 0, 1, 0, 2, 1)
Days == {Switching, Asking, TwoPending}

D == INSTANCE OwnerDesk WITH Scene <- Days, scene <- day, left <- budget

deskVars == <<day, budget, wallet, generation, session, login, sessions, flow,
              journal, told, net, answers, relay, approved, hurried>>

ClientsInit ==
    /\ Init
    /\ D!Init
    /\ \/ part = "agent" /\ day = Asking
       \/ part = "owner" /\ scene = Paying

ClientsNext ==
    /\ \/ part = "agent" /\ Next /\ UNCHANGED deskVars
       \/ part = "owner" /\ D!Next /\ UNCHANGED vars
    /\ UNCHANGED part

ClientsSpec == ClientsInit /\ [][ClientsNext]_<<vars, deskVars, part>>

\* Calls, merchant processes and wallets are interchangeable.
ClientsSymmetry == Permutations(Call) \cup Permutations(Instance) \cup Permutations(Wallet)

\* What the owner's browser shows of an approval is what became of it
\* (settlement.tsx, owner/runtime.ts).
JournalIsTrue == D!JournalIsTrue

\* An approval that was sent and not answered stays on the owner's list
\* (settlement.tsx).
UnresolvedIsKept == D!UnresolvedIsKept
=============================================================================
