------------------------------- MODULE Mandate -------------------------------
(***************************************************************************)
(* Payment mandates and their execution: the instructions of the ChainPay  *)
(* program (programs/chainpay) that create, edit, pause, revoke and spend a *)
(* mandate, over the token accounts they debit.                             *)
(*                                                                         *)
(* A mandate address is derived from its owner, mint and nonce, so the      *)
(* owner and the mint of an address are constants.  Which token program     *)
(* owns a mint never changes either, so the token-program constraints are   *)
(* part of the account constants.  Slots are the cluster's clock.           *)
(***************************************************************************)
EXTENDS AssetRegistry, Integers, FiniteSets, FiniteSetsExt

CONSTANTS
    Address,        \* mandate addresses
    OwnerOf,        \* the owner seed of each address
    MintOf,         \* the mint seed of each address
    Account,        \* token accounts
    AccountOwner,   \* who owns each token account
    AccountMint,    \* the mint of each token account
    Funds,          \* what each token account holds at the start
    Hash,           \* 32-byte identifiers, ZeroHash among them
    ZeroHash,       \* [0u8; 32]
    Amount,         \* the u64 amounts callers pass
    Terms,          \* the policy terms an owner may sign
    Legacy,         \* mandates of an earlier program version, with a fixed
                    \* recipient, that exist from the start
    AnyRecipient,   \* the recipient field holds a nonce or the default key
    NoDelegate,     \* the token account has no delegate
    NoMandate,      \* the mandate account does not exist yet
    MaxU64,         \* u64::MAX
    FirstSlot,      \* the slot the program is deployed at
    MaxSlot         \* bound on the clock

U64 == 0..MaxU64

PolicyTerms == [approved_agent : Key \cup {DefaultKey}, max_per_payment : U64,
                total_limit : U64, expires_at_slot : U64,
                max_payment_count : U64, cooldown_slots : U64]

PaymentMandate ==
    [approved_agent : Key, source_token_account : Account,
     recipient : Account \cup {AnyRecipient}, max_per_payment : U64,
     total_limit : U64, amount_spent : U64, payment_count : U64,
     expires_at_slot : U64, max_payment_count : U64, cooldown_slots : U64,
     last_payment_slot : U64, paused : BOOLEAN, revoked : BOOLEAN]

\* An earlier version could only store what create_mandate still validates.
FreshLegacy(m, md) ==
    /\ md \in PaymentMandate
    /\ md.recipient \in Account
    /\ AccountOwner[md.source_token_account] = OwnerOf[m]
    /\ AccountMint[md.source_token_account] = MintOf[m]
    /\ md.max_per_payment > 0 /\ md.total_limit >= md.max_per_payment
    /\ md.amount_spent = 0 /\ md.payment_count = 0 /\ md.last_payment_slot = 0
    /\ ~md.paused /\ ~md.revoked

ASSUME MandateAssumption ==
    /\ OwnerOf \in [Address -> Key] /\ MintOf \in [Address -> Mint]
    /\ AccountOwner \in [Account -> Key] /\ AccountMint \in [Account -> Mint]
    /\ MaxU64 \in Nat /\ Amount \subseteq U64 /\ Funds \in [Account -> U64]
    /\ FirstSlot \in U64 \ {0} /\ MaxSlot \in U64
    /\ ZeroHash \in Hash
    /\ Terms \subseteq PolicyTerms
    /\ NoDelegate \notin Address /\ NoMandate \notin PaymentMandate
    /\ AnyRecipient \notin Account
    /\ DOMAIN Legacy \subseteq Address
    /\ \A m \in DOMAIN Legacy : FreshLegacy(m, Legacy[m])

VARIABLES
    slot,        \* Clock::get()?.slot
    mandate,     \* the PaymentMandate account of each address
    receipts,    \* the PaymentReceipt accounts; none is ever closed
    token        \* the token accounts: amount, delegate, delegated_amount

vars == <<config, asset, slot, mandate, receipts, token>>

PaymentReceipt ==
    [mandate : Address, invoice_hash : Hash, source_token_account : Account,
     recipient_token_account : Account, amount : U64, agent : Key,
     executed_at_slot : U64, policy_max_per_payment : U64,
     policy_total_limit : U64, policy_amount_spent_after : U64,
     policy_payment_count_after : U64, policy_max_payment_count : U64,
     policy_expires_at_slot : U64, policy_cooldown_slots : U64]

TokenAccount == [amount : Nat, delegate : Address \cup {NoDelegate},
                 delegated_amount : Nat]

TypeOK ==
    /\ RegistryTypeOK
    /\ slot \in U64
    /\ mandate \in [Address -> PaymentMandate \cup {NoMandate}]
    /\ receipts \subseteq PaymentReceipt
    /\ token \in [Account -> TokenAccount]

Init ==
    /\ RegistryInit
    /\ slot = FirstSlot
    /\ mandate = [m \in Address |-> IF m \in DOMAIN Legacy THEN Legacy[m] ELSE NoMandate]
    /\ receipts = {}
    /\ token = [a \in Account |-> [amount |-> Funds[a], delegate |-> NoDelegate,
                                   delegated_amount |-> 0]]

Exists(m) == mandate[m] # NoMandate

-----------------------------------------------------------------------------
(* Policy checks (policy.rs).                                               *)

NamesAgent(p) == p.approved_agent # DefaultKey

validate_mandate_params(p) ==
    /\ NamesAgent(p)
    /\ p.max_per_payment > 0
    /\ p.total_limit >= p.max_per_payment
    /\ p.expires_at_slot > slot

\* `checked_add` on u64: an overflowing sum refuses the payment.
Fits(x, y) == x + y <= MaxU64

CooldownOver(md) ==
    md.last_payment_slot > 0 =>
        /\ Fits(md.last_payment_slot, md.cooldown_slots)
        /\ slot >= md.last_payment_slot + md.cooldown_slots

\* Mutant: the expiry slot itself still pays.
NotYetPastExpiry(md) == md.expires_at_slot >= slot

NotExpired(md) == md.expires_at_slot > slot

validate_payment(md, invoice, reference, n) ==
    /\ ~md.revoked
    /\ ~md.paused
    /\ NotExpired(md)
    /\ n > 0
    /\ n <= md.max_per_payment
    /\ invoice # ZeroHash
    /\ reference # ZeroHash
    /\ Fits(md.amount_spent, n)
    /\ md.amount_spent + n <= md.total_limit
    /\ Fits(md.payment_count, 1)
    /\ md.max_payment_count = 0 \/ md.payment_count + 1 <= md.max_payment_count
    /\ CooldownOver(md)

-----------------------------------------------------------------------------
(* The owner's instructions.                                                *)

\* `init`: the account must not exist yet.
Uninitialized(m) == ~Exists(m)

create_mandate(m, src, p) ==
    /\ AssetEnabled(MintOf[m])
    /\ Uninitialized(m)
    /\ AccountOwner[src] = OwnerOf[m]
    /\ AccountMint[src] = MintOf[m]
    /\ validate_mandate_params(p)
    /\ mandate' = [mandate EXCEPT ![m] =
           [approved_agent |-> p.approved_agent, source_token_account |-> src,
            recipient |-> AnyRecipient, max_per_payment |-> p.max_per_payment,
            total_limit |-> p.total_limit, amount_spent |-> 0,
            payment_count |-> 0, expires_at_slot |-> p.expires_at_slot,
            max_payment_count |-> p.max_payment_count,
            cooldown_slots |-> p.cooldown_slots, last_payment_slot |-> 0,
            paused |-> FALSE, revoked |-> FALSE]]
    /\ UNCHANGED <<config, asset, slot, receipts, token>>

\* Mutant: a revoked mandate can be edited.
AlwaysEditable(md) == TRUE

CoversSpend(md, p) == p.total_limit >= md.amount_spent
Editable(md) == ~md.revoked

\* What update_mandate requires of new terms: they may be tightened, but never
\* below what the mandate has already spent and counted.
UpdateAllowed(md, p) ==
    /\ Editable(md)
    /\ NamesAgent(p)
    /\ p.max_per_payment > 0
    /\ p.total_limit >= p.max_per_payment
    /\ CoversSpend(md, p)
    /\ p.expires_at_slot > slot
    /\ p.max_payment_count = 0 \/ p.max_payment_count >= md.payment_count

Edited(md, p, pause) ==
    [md EXCEPT !.approved_agent = p.approved_agent,
               !.max_per_payment = p.max_per_payment,
               !.total_limit = p.total_limit,
               !.expires_at_slot = p.expires_at_slot,
               !.max_payment_count = p.max_payment_count,
               !.cooldown_slots = p.cooldown_slots,
               !.paused = pause]

update_mandate(m, p, pause) ==
    /\ Exists(m)
    /\ UpdateAllowed(mandate[m], p)
    /\ mandate' = [mandate EXCEPT ![m] = Edited(@, p, pause)]
    /\ UNCHANGED <<config, asset, slot, receipts, token>>

Stopped(md, forever) == [md EXCEPT !.paused = TRUE, !.revoked = forever]

pause_mandate(m) ==
    /\ Exists(m)
    /\ Editable(mandate[m])
    /\ mandate' = [mandate EXCEPT ![m] = Stopped(@, @.revoked)]
    /\ UNCHANGED <<config, asset, slot, receipts, token>>

revoke_mandate(m) ==
    /\ Exists(m)
    /\ mandate' = [mandate EXCEPT ![m] = Stopped(@, TRUE)]
    /\ UNCHANGED <<config, asset, slot, receipts, token>>

-----------------------------------------------------------------------------
(* The token program, as the instructions above use it.                     *)

Delegated(t, d, n) == [t EXCEPT !.delegate = d, !.delegated_amount = n]

\* The owner's approval of a mandate as delegate; it replaces the one before.
\* Approving a mandate of somebody else only has the effect of RevokeDelegate:
\* execute_payment wants the source's owner to be the mandate's.
Approve(a, m, n) ==
    /\ AccountOwner[a] = OwnerOf[m]
    /\ token' = [token EXCEPT ![a] = Delegated(@, m, n)]
    /\ UNCHANGED <<config, asset, slot, mandate, receipts>>

RevokeDelegate(a) ==
    /\ token[a].delegate # NoDelegate
    /\ token' = [token EXCEPT ![a] = Delegated(@, NoDelegate, 0)]
    /\ UNCHANGED <<config, asset, slot, mandate, receipts>>

\* A delegate's allowance after a transfer; an emptied one is dropped.
Debited(t, n) ==
    [t EXCEPT !.amount = t.amount - n, !.delegated_amount = t.delegated_amount - n,
              !.delegate = IF t.delegated_amount = n THEN NoDelegate ELSE t.delegate]

\* transfer_checked signed by the delegate.  A transfer of an account to
\* itself succeeds and moves nothing.
transfer_checked(from, to, n) ==
    /\ token[from].delegated_amount >= n
    /\ token[from].amount >= n
    /\ IF from = to
       THEN UNCHANGED token
       ELSE /\ Fits(token[to].amount, n)
            /\ token' = [token EXCEPT ![from] = Debited(@, n), ![to].amount = @ + n]

-----------------------------------------------------------------------------
(* The agent's instruction.                                                 *)

\* `init` on the receipt account of this mandate and invoice.
NoReceiptFor(m, invoice) ==
    \A r \in receipts : ~(r.mandate = m /\ r.invoice_hash = invoice)

\* Mutant: the receipt names the accounts the wrong way round.
SwappedReceiptEnds(md, to) == <<to, md.source_token_account>>

ReceiptEnds(md, to) == <<md.source_token_account, to>>

\* The receipt snapshots the terms the payment was checked against, with the
\* spend and the count after it.
ReceiptOf(m, md, invoice, n, to) ==
    [mandate |-> m, invoice_hash |-> invoice,
     source_token_account |-> ReceiptEnds(md, to)[1],
     recipient_token_account |-> ReceiptEnds(md, to)[2], amount |-> n, agent |-> md.approved_agent,
     executed_at_slot |-> slot,
     policy_max_per_payment |-> md.max_per_payment,
     policy_total_limit |-> md.total_limit,
     policy_amount_spent_after |-> md.amount_spent + n,
     policy_payment_count_after |-> md.payment_count + 1,
     policy_max_payment_count |-> md.max_payment_count,
     policy_expires_at_slot |-> md.expires_at_slot,
     policy_cooldown_slots |-> md.cooldown_slots]

\* The mandate's counters after a payment.
Counted(md, n) ==
    [md EXCEPT !.amount_spent = md.amount_spent + n,
               !.payment_count = md.payment_count + 1,
               !.last_payment_slot = slot]

\* The account constraints of ExecutePayment.
PaymentAccounts(m, who, invoice, n, to) ==
    LET md  == mandate[m]
        src == md.source_token_account
    IN  /\ AssetEnabled(MintOf[m])
        /\ NoReceiptFor(m, invoice)
        /\ who = md.approved_agent
        /\ AccountOwner[src] = OwnerOf[m]
        /\ AccountMint[src] = MintOf[m]
        /\ token[src].delegate = m
        /\ token[src].delegated_amount >= n
        /\ md.recipient \in {AnyRecipient, to}
        /\ AccountMint[to] = MintOf[m]

\* `reference` stands for payment_id and signature_reference: both must be
\* non-zero and both are copied to the receipt unread.
execute_payment(m, who, invoice, reference, n, to) ==
    /\ Exists(m)
    /\ PaymentAccounts(m, who, invoice, n, to)
    /\ validate_payment(mandate[m], invoice, reference, n)
    /\ transfer_checked(mandate[m].source_token_account, to, n)
    /\ mandate' = [mandate EXCEPT ![m] = Counted(@, n)]
    /\ receipts' = receipts \cup {ReceiptOf(m, mandate[m], invoice, n, to)}
    /\ UNCHANGED <<config, asset, slot>>

NextSlot ==
    /\ slot < MaxSlot
    /\ slot' = slot + 1
    /\ UNCHANGED <<config, asset, mandate, receipts, token>>

RegistryStep == RegistryNext /\ UNCHANGED <<slot, mandate, receipts, token>>

OwnerStep(m) ==
    \/ \E src \in Account, p \in Terms : create_mandate(m, src, p)
    \/ \E p \in Terms, pause \in BOOLEAN : update_mandate(m, p, pause)
    \/ pause_mandate(m)
    \/ revoke_mandate(m)

TokenStep(a) ==
    \/ \E m \in Address, n \in Amount : Approve(a, m, n)
    \/ RevokeDelegate(a)

AgentStep(m) ==
    \E who \in Key, invoice, reference \in Hash, n \in Amount, to \in Account :
        execute_payment(m, who, invoice, reference, n, to)

Next ==
    \/ NextSlot
    \/ RegistryStep
    \/ \E m \in Address : OwnerStep(m)
    \/ \E a \in Account : TokenStep(a)
    \/ \E m \in Address : AgentStep(m)

Spec == Init /\ [][Next]_vars

-----------------------------------------------------------------------------
(* Properties.                                                              *)

ReceiptsOf(m) == {r \in receipts : r.mandate = m}

\* However the owner edits a mandate between payments, what it has spent and
\* counted never exceeds the limits it carries now (update_mandate refuses
\* terms below what is already spent).
SpendWithinMandate ==
    \A m \in Address : Exists(m) =>
        /\ mandate[m].amount_spent <= mandate[m].total_limit
        /\ mandate[m].max_payment_count # 0 =>
               mandate[m].payment_count <= mandate[m].max_payment_count

\* An invoice is settled at most once under a mandate: two receipts of one
\* mandate differ in their invoice and in their place in its count
\* (the receipt address is the replay guard of execute_payment).
InvoicePaidOnce ==
    \A r, s \in receipts : r.mandate = s.mandate /\ r # s =>
        /\ r.invoice_hash # s.invoice_hash
        /\ r.policy_payment_count_after # s.policy_payment_count_after

\* "The receipt alone proves the payment was within policy even if the owner
\* later edits or revokes the mandate": the snapshot is of the terms in force
\* at the payment, with the payment counted in.
ReceiptProvesPolicy ==
    \A r \in receipts :
        /\ r.amount > 0 /\ r.amount <= r.policy_max_per_payment
        /\ r.amount <= r.policy_amount_spent_after
        /\ r.policy_amount_spent_after <= r.policy_total_limit
        /\ r.executed_at_slot < r.policy_expires_at_slot
        /\ r.policy_payment_count_after > 0
        /\ r.policy_max_payment_count # 0 =>
               r.policy_payment_count_after <= r.policy_max_payment_count

\* Two consecutive payments of a mandate are at least the cooldown apart that
\* was in force at the second one, and spend on from where the first stopped.
ReceiptsChain ==
    \A r, s \in receipts :
        r.mandate = s.mandate /\ s.policy_payment_count_after = r.policy_payment_count_after + 1 =>
            /\ s.executed_at_slot >= r.executed_at_slot + s.policy_cooldown_slots
            /\ s.policy_amount_spent_after = r.policy_amount_spent_after + s.amount

\* What a receipt is worth to who reads it later: one per invoice, each within the
\* policy of its moment, and together the mandate's whole history (execute_payment).
ReceiptsAreSound == InvoicePaidOnce /\ ReceiptProvesPolicy /\ ReceiptsChain

Paid(set) == MapThenSumSet(LAMBDA r : r.amount, set)

\* A mandate's counters are exactly its receipts: nothing is spent without a
\* receipt, and no receipt is left out of the spend and the count.
SpendIsReceipted ==
    \A m \in Address : Exists(m) =>
        /\ mandate[m].amount_spent = Paid(ReceiptsOf(m))
        /\ mandate[m].payment_count = Cardinality(ReceiptsOf(m))

\* What left and entered a token account is what the receipts naming it say:
\* the receipts of all mandates that share a source account for its balance.
BalancesAreReceipted ==
    \A a \in Account :
        token[a].amount + Paid({r \in receipts : r.source_token_account = a})
            = Funds[a] + Paid({r \in receipts : r.recipient_token_account = a})

\* The counters of the mandates, the receipts and the token balances are three
\* accounts of the same payments (execute_payment, transfer_checked).
MoneyIsReceipted == SpendIsReceipted /\ BalancesAreReceipted

RevokedKept ==
    \A m \in Address : Exists(m) /\ mandate[m].revoked =>
        mandate'[m] = mandate[m] /\ ReceiptsOf(m)' = ReceiptsOf(m)

\* Revocation is for ever, and a revoked mandate never pays again, whatever
\* the owner, the agent and the registry do afterwards.
RevocationIsFinal == [][RevokedKept]_vars

\* What of a mandate its owner was promised.
GrantOf(md) ==
    [limit |-> md.total_limit, spent |-> md.amount_spent,
     state |-> IF md.revoked THEN "revoked" ELSE IF md.paused THEN "paused" ELSE "open"]

Promised == [m \in Address |-> IF Exists(m) THEN GrantOf(mandate[m]) ELSE NoMandate]
Settled == {<<r.mandate, r.invoice_hash>> : r \in receipts}

Promise == INSTANCE Allowance WITH
    Holder <- Address, Invoice <- Hash, Sum <- U64, None <- NoMandate,
    grant <- Promised, settled <- Settled

ASSUME PromiseAssumption == NoMandate \notin Promise!Grant

\* Through every edit, pause, payment and registry change the program keeps the
\* promise: each of its steps is one that Allowance permits, or leaves it alone.
KeepsPromise == Promise!Spec
=============================================================================
