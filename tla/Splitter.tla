------------------------------ MODULE Splitter ------------------------------
(***************************************************************************)
(* The support_splitter program: a vault that pays two recipients equally.  *)
(* Donations arrive as plain transfers; anyone may allocate what arrived or *)
(* pay a side what it is owed, in any order                                 *)
(* (programs/support-splitter/src/lib.rs).                                  *)
(***************************************************************************)
EXTENDS Integers

CONSTANTS
    Wallet,           \* addresses a recipient may have
    NoKey,         \* Pubkey::default()
    VaultKeys,     \* the vault and its token account
    Pinned,        \* RECIPIENT_A and RECIPIENT_B by side
    Rent,          \* lamports that keep the vault alive
    Tip,           \* amounts donated at once
    MaxCount,      \* u64::MAX
    MaxDonated     \* bound: what is donated in one asset over the whole run

Side == {"A", "B"}
Asset == {"SOL", "USDC"}
Count == 0..MaxCount
Other(s) == IF s = "A" THEN "B" ELSE "A"

ASSUME SplitterAssumption ==
    /\ Pinned \in [Side -> Wallet \cup {NoKey}]
    /\ MaxCount \in Nat
    /\ Rent \in Count
    /\ MaxDonated \in Nat
    /\ Tip \subseteq Nat

VARIABLES
    recipients,      \* by side
    balance,         \* lamports and USDC the vault holds
    owed,            \* Ledger::owed
    allocated_each,  \* Ledger::allocated_each
    paid,            \* Ledger::paid
    live,            \* the vault account exists
    donated          \* history: what came in beyond the rent, per asset

ledgerVars == <<owed, allocated_each, paid>>
splitterVars == <<recipients, balance, owed, allocated_each, paid, live, donated>>

\* checked_add succeeds.
NoOverflow(n) == n <= MaxCount

reserved(a) == IF a = "SOL" THEN Rent ELSE 0

\* Anyone, also before the vault exists.
Donate(a, n) ==
    /\ donated[a] + n <= MaxDonated
    /\ NoOverflow(balance[a] + n)
    /\ balance' = [balance EXCEPT ![a] = balance[a] + n]
    /\ donated' = [donated EXCEPT ![a] = donated[a] + n]
    /\ UNCHANGED <<recipients, ledgerVars, live>>

\* Both pinned recipients sign; the payer tops the vault up to its rent.
initialize ==
    /\ ~live
    /\ Pinned["A"] # NoKey /\ Pinned["B"] # NoKey
    /\ Pinned["A"] # Pinned["B"]
    /\ Pinned["A"] \notin VaultKeys /\ Pinned["B"] \notin VaultKeys
    /\ live' = TRUE
    /\ recipients' = Pinned
    /\ balance' = [balance EXCEPT !["SOL"] = IF balance["SOL"] < Rent THEN Rent ELSE balance["SOL"]]
    /\ donated' = [donated EXCEPT !["SOL"] = IF balance["SOL"] < Rent THEN 0 ELSE balance["SOL"] - Rent]
    /\ UNCHANGED ledgerVars

committed(a) == reserved(a) + owed[a]["A"] + owed[a]["B"]

\* Mutant: what is owed already counts as new money.
ShareOfAll(a) == (balance[a] - reserved(a)) \div 2
Share(a) == (balance[a] - committed(a)) \div 2

OwedMore(a, s) == owed[a][s] + Share(a)

\* Splits what is not committed yet; an odd unit stays.
allocate(a) ==
    /\ live
    /\ committed(a) <= balance[a]
    /\ Share(a) > 0
    /\ \A s \in Side : NoOverflow(OwedMore(a, s))
    /\ NoOverflow(allocated_each[a] + Share(a))
    /\ owed' = [owed EXCEPT ![a] = [s \in Side |-> OwedMore(a, s)]]
    /\ allocated_each' = [allocated_each EXCEPT ![a] = allocated_each[a] + Share(a)]
    /\ UNCHANGED <<recipients, balance, paid, live, donated>>

BalanceLess(a, s) == balance[a] - owed[a][s]

take_owed(a, s) ==
    /\ NoOverflow(paid[a][s] + owed[a][s])
    /\ owed' = [owed EXCEPT ![a] = [t \in Side |-> IF t = s THEN 0 ELSE owed[a][t]]]
    /\ paid' = [paid EXCEPT ![a] = [t \in Side |-> IF t = s THEN paid[a][t] + owed[a][t] ELSE paid[a][t]]]

\* pay_sol and pay_usdc: take_owed, the transfer, and the check after it.
pay(a, s) ==
    /\ live
    /\ owed[a][s] > 0
    /\ take_owed(a, s)
    /\ owed[a][s] <= balance[a]
    /\ balance' = [balance EXCEPT ![a] = BalanceLess(a, s)]
    /\ reserved(a) + owed[a][Other(s)] <= BalanceLess(a, s)
    /\ UNCHANGED <<recipients, allocated_each, live, donated>>

MayRotate(s, new) == new \notin {recipients[s], recipients[Other(s)]}

\* The side's current key and the new one sign.
rotate_recipient(s, new) ==
    /\ live
    /\ new # NoKey
    /\ new \notin VaultKeys
    /\ MayRotate(s, new)
    /\ recipients' = [recipients EXCEPT ![s] = new]
    /\ UNCHANGED <<balance, ledgerVars, live, donated>>

Zero == [a \in Asset |-> 0]
ZeroEach == [a \in Asset |-> [s \in Side |-> 0]]

SplitterInit ==
    /\ recipients = Pinned
    /\ balance = Zero
    /\ owed = ZeroEach
    /\ allocated_each = Zero
    /\ paid = ZeroEach
    /\ live = FALSE
    /\ donated = Zero

SplitterNext ==
    \/ initialize
    \/ \E a \in Asset, n \in Tip : Donate(a, n)
    \/ \E a \in Asset : allocate(a)
    \/ \E a \in Asset, s \in Side : pay(a, s)
    \/ \E s \in Side, new \in Wallet : rotate_recipient(s, new)

SplitterSpec == SplitterInit /\ [][SplitterNext]_splitterVars

-----------------------------------------------------------------------------
(* Properties.                                                              *)

\* The ledger's counters keep their 64 bits.
SplitterTypeOK ==
    /\ recipients \in [Side -> Wallet \cup {NoKey}]
    /\ balance \in [Asset -> Count]
    /\ owed \in [Asset -> [Side -> Count]]
    /\ allocated_each \in [Asset -> Count]
    /\ paid \in [Asset -> [Side -> Count]]
    /\ live \in BOOLEAN
    /\ donated \in [Asset -> Nat]

\* The vault always holds its rent and everything it owes, so that the checks at
\* the end of pay_sol and pay_usdc never refuse a side its payout and allocate
\* never meets LedgerInvariant.
Solvent == live => \A a \in Asset : committed(a) <= balance[a]

\* "Both sides always receive the same": what a side was paid and is still owed
\* is what was allocated to each, however payouts and allocations interleave.
SidesAreEqual ==
    \A a \in Asset, s \in Side : owed[a][s] + paid[a][s] = allocated_each[a]

\* Every unit that was donated is in the vault or was paid to a side: nothing is
\* lost and nothing made by allocations, payouts and rotations in any order.
NothingIsLost ==
    live => \A a \in Asset :
        balance[a] + paid[a]["A"] + paid[a]["B"] = reserved(a) + donated[a]

\* The vault, its counters and what was paid out are one set of books.
BooksBalance == Solvent /\ SidesAreEqual /\ NothingIsLost

\* The two sides never share a wallet, whatever rotations follow each other.
RecipientsDiffer == live => recipients["A"] # recipients["B"]
=============================================================================
