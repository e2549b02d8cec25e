----------------------------- MODULE MCPrograms -----------------------------
(***************************************************************************)
(* The two programs that move money by themselves.  They share no account,  *)
(* so each is explored with the other at rest: `part` says which one runs.  *)
(*                                                                          *)
(* ChainPay: two mandates of one owner that share a source account, one of  *)
(* them a legacy mandate with a fixed recipient.  The splitter: two sides,  *)
(* both assets, and a wallet to rotate to.                                  *)
(***************************************************************************)
EXTENDS Mandate, Splitter, TLC

CONSTANTS alice, bot, usdc, m1, m2, wallet, shop, h0, h1, h2, ann, ben, cat, vault

VARIABLE part

MCKey == {alice, bot}
MCLists == {[i \in 1..3 |-> IF i = 1 THEN usdc ELSE DefaultKey]}
MCOwnerOf == [m \in Address |-> alice]
MCMintOf == [m \in Address |-> usdc]
MCAccountOwner == [a \in {wallet, shop} |-> IF a = wallet THEN alice ELSE bot]
MCAccountMint == [a \in {wallet, shop} |-> usdc]
MCFunds == [a \in {wallet, shop} |-> IF a = wallet THEN 4 ELSE 0]

Policy(agent, max, total, expires, count, cooldown) ==
    [approved_agent |-> agent, max_per_payment |-> max, total_limit |-> total,
     expires_at_slot |-> expires, max_payment_count |-> count,
     cooldown_slots |-> cooldown]

\* Roomy terms, tight terms with a cooldown, terms whose cooldown
\* overflows a u64 when it is added to a slot, and terms without an agent.
MCTerms == {Policy(bot, 2, 3, 4, 0, 0), Policy(bot, 1, 2, 3, 2, 1),
            Policy(alice, 3, 4, 4, 0, 4),
            Policy(DefaultKey, 1, 1, 4, 0, 0)}

MCLegacy == [m \in {m2} |->
    [approved_agent |-> bot, source_token_account |-> wallet, recipient |-> shop,
     max_per_payment |-> 1, total_limit |-> 2, amount_spent |-> 0,
     payment_count |-> 0, expires_at_slot |-> 4, max_payment_count |-> 0,
     cooldown_slots |-> 0, last_payment_slot |-> 0, paused |-> FALSE,
     revoked |-> FALSE]]

\* Bound: the new mandate goes through all its terms and slots while the legacy
\* one waits, or both are used in one slot, unpaused and without a cooldown.
OneOrShared ==
    \/ mandate[m2] = Legacy[m2] /\ token[wallet].delegate # m2
    \/ /\ slot = FirstSlot
       /\ \A m \in Address : Exists(m) =>
              /\ ~mandate[m].paused
              /\ mandate[m].cooldown_slots = 0 /\ mandate[m].max_payment_count = 0

\* Invoice hashes other than zero are interchangeable.
InvoiceSymmetry == Permutations({h1, h2})

MCPinned == [s \in Side |-> IF s = "A" THEN ann ELSE ben]

ProgramsInit ==
    /\ part \in {"chainpay", "support_splitter"}
    /\ Init
    /\ SplitterInit

ProgramsNext ==
    /\ \/ part = "chainpay" /\ Next /\ UNCHANGED splitterVars
       \/ part = "support_splitter" /\ SplitterNext /\ UNCHANGED vars
    /\ UNCHANGED part

ProgramsSpec == ProgramsInit /\ [][ProgramsNext]_<<vars, splitterVars, part>>
=============================================================================
