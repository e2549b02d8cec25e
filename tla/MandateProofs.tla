---------------------------- MODULE MandateProofs ----------------------------
(***************************************************************************)
(* What the ChainPay program guarantees of mandates and receipts for every *)
(* set of keys, mints, accounts, invoices, terms and slots.                 *)
(***************************************************************************)
EXTENDS Mandate, TLAPS

\* The accounts and the legacy mandates of the initial state are well-formed.
LEMMA TypeInit == Init => TypeOK
<1> USE MandateAssumption DEF U64
<1> SUFFICES ASSUME Init PROVE TypeOK
  OBVIOUS
<1>1. RegistryTypeOK
  BY DEF Init, RegistryInit, RegistryTypeOK
<1>2. mandate \in [Address -> PaymentMandate \cup {NoMandate}]
  BY DEF Init, FreshLegacy
<1>3. token \in [Account -> TokenAccount]
  BY DEF Init, TokenAccount
<1>4. QED
  BY <1>1, <1>2, <1>3 DEF Init, TypeOK

\* Editing, stopping and counting a mandate keeps its counters or moves them
\* within u64, and gives a mandate again.
LEMMA MandateEdits ==
  ASSUME NEW md \in PaymentMandate
  PROVE  /\ \A p \in PolicyTerms, pause \in BOOLEAN : p.approved_agent \in Key =>
                Edited(md, p, pause) \in PaymentMandate
         /\ \A forever \in BOOLEAN : Stopped(md, forever) \in PaymentMandate
         /\ \A n \in Nat :
                /\ slot \in U64
                /\ md.amount_spent + n \in U64 /\ md.payment_count + 1 \in U64
                => Counted(md, n) \in PaymentMandate
<1>1. ASSUME NEW p \in PolicyTerms, NEW pause \in BOOLEAN, p.approved_agent \in Key
      PROVE  Edited(md, p, pause) \in PaymentMandate
  BY <1>1, Zenon DEF Edited, PolicyTerms, PaymentMandate
<1>2. ASSUME NEW forever \in BOOLEAN PROVE Stopped(md, forever) \in PaymentMandate
  BY Zenon DEF Stopped, PaymentMandate
<1>3. ASSUME NEW n \in Nat, slot \in U64,
             md.amount_spent + n \in U64, md.payment_count + 1 \in U64
      PROVE  Counted(md, n) \in PaymentMandate
  BY <1>3, Zenon DEF Counted, PaymentMandate
<1>4. QED
  BY <1>1, <1>2, <1>3

\* What the guards of execute_payment leave of the numbers: the payment is positive,
\* stays within the total, and the counters it writes are u64 again.
LEMMA PaymentNumbers ==
  ASSUME slot \in U64, NEW md \in PaymentMandate, NEW n \in Amount,
         NEW invoice \in Hash, NEW reference \in Hash,
         validate_payment(md, invoice, reference, n)
  PROVE  /\ n \in Nat /\ n > 0 /\ md.amount_spent + n <= md.total_limit
         /\ ~md.revoked /\ ~md.paused /\ Counted(md, n) \in PaymentMandate
<1>1. n \in Nat /\ MaxU64 \in Nat /\ md.amount_spent \in Nat /\ md.payment_count \in Nat
  BY MandateAssumption DEF U64, PaymentMandate
<1>2. /\ n > 0 /\ md.amount_spent + n <= md.total_limit /\ ~md.revoked /\ ~md.paused
      /\ md.amount_spent + n <= MaxU64 /\ md.payment_count + 1 <= MaxU64
  BY DEF validate_payment, Fits
<1>3. md.amount_spent + n \in U64 /\ md.payment_count + 1 \in U64
  BY <1>1, <1>2 DEF U64
<1>4. QED
  BY <1>1, <1>2, <1>3, MandateEdits

\* Every instruction leaves accounts of the declared shape: the u64 counters of
\* execute_payment only grow after a checked addition.
LEMMA TypeStep == TypeOK /\ [Next]_vars => TypeOK'
<1> USE MandateAssumption DEF U64
<1> SUFFICES ASSUME TypeOK, [Next]_vars PROVE TypeOK'
  OBVIOUS
<1>1. CASE NextSlot
  BY <1>1 DEF NextSlot, TypeOK, RegistryTypeOK
<1>2. CASE RegistryStep
  <2> PICK who \in Key :
          \/ \E list \in MintLists : initialize_config(who, list)
          \/ \E list \in MintLists : update_config(who, list)
          \/ \E t \in Mint : register_asset(who, t)
          \/ \E t \in Mint, on \in BOOLEAN : set_asset_status(who, t, on)
    BY <1>2 DEF RegistryStep, RegistryNext
  <2>1. ASSUME \E list \in MintLists : initialize_config(who, list) PROVE RegistryTypeOK'
    BY <2>1 DEF initialize_config, RegistryTypeOK, ProtocolConfig, TypeOK
  <2>2. ASSUME \E list \in MintLists : update_config(who, list) PROVE RegistryTypeOK'
    BY <2>2 DEF update_config, IsAuthority, RegistryTypeOK, ProtocolConfig, TypeOK
  <2>3. ASSUME \E t \in Mint : register_asset(who, t) PROVE RegistryTypeOK'
    BY <2>3 DEF register_asset, RegistryTypeOK, SupportedAsset, TypeOK
  <2>4. ASSUME NEW t \in Mint, NEW on \in BOOLEAN, set_asset_status(who, t, on)
        PROVE  RegistryTypeOK'
    <3>1. asset[t] \in SupportedAsset
      BY <2>4 DEF set_asset_status, TypeOK, RegistryTypeOK
    <3>2. [asset[t] EXCEPT !.enabled = on] \in SupportedAsset
      BY <3>1 DEF SupportedAsset
    <3>3. asset' = [asset EXCEPT ![t] = [asset[t] EXCEPT !.enabled = on]] /\ config' = config
      BY <2>4 DEF set_asset_status
    <3>4. QED
      BY <3>2, <3>3 DEF TypeOK, RegistryTypeOK
  <2>5. RegistryTypeOK'
    BY <2>1, <2>2, <2>3, <2>4 DEF TypeOK
  <2>6. QED
    BY <1>2, <2>5 DEF RegistryStep, TypeOK
<1>3. ASSUME NEW m \in Address, OwnerStep(m) PROVE TypeOK'
  <2>1. CASE \E a \in Account, p \in Terms : create_mandate(m, a, p)
    BY <2>1 DEF create_mandate, validate_mandate_params, NamesAgent, PolicyTerms,
                PaymentMandate, TypeOK, RegistryTypeOK
  <2>2. CASE \E p \in Terms, pause \in BOOLEAN : update_mandate(m, p, pause)
    <3>1. PICK p \in Terms, pause \in BOOLEAN : update_mandate(m, p, pause)
      BY <2>2
    <3>2. mandate[m] \in PaymentMandate /\ p \in PolicyTerms /\ p.approved_agent \in Key
      BY <3>1 DEF update_mandate, UpdateAllowed, NamesAgent, Exists, TypeOK, PolicyTerms
    <3>3. Edited(mandate[m], p, pause) \in PaymentMandate
      BY <3>2, MandateEdits
    <3>4. QED
      BY <3>1, <3>3 DEF update_mandate, TypeOK, RegistryTypeOK
  <2>3. CASE pause_mandate(m)
    <3>1. mandate[m] \in PaymentMandate
      BY <2>3 DEF pause_mandate, Exists, TypeOK
    <3>2. Stopped(mandate[m], mandate[m].revoked) \in PaymentMandate
      BY <3>1, MandateEdits DEF PaymentMandate
    <3>3. QED
      BY <2>3, <3>2 DEF pause_mandate, TypeOK, RegistryTypeOK
  <2>4. CASE revoke_mandate(m)
    <3>1. mandate[m] \in PaymentMandate
      BY <2>4 DEF revoke_mandate, Exists, TypeOK
    <3>2. Stopped(mandate[m], TRUE) \in PaymentMandate
      BY <3>1, MandateEdits, Zenon DEF PaymentMandate
    <3>3. QED
      BY <2>4, <3>2, Zenon DEF revoke_mandate, TypeOK, RegistryTypeOK
  <2>5. QED
    BY <1>3, <2>1, <2>2, <2>3, <2>4 DEF OwnerStep
<1>4. ASSUME NEW a \in Account, TokenStep(a) PROVE TypeOK'
  <2>1. ASSUME NEW d \in Address \cup {NoDelegate}, NEW n \in Nat
        PROVE  Delegated(token[a], d, n) \in TokenAccount
    <3>1. token[a] \in TokenAccount
      BY DEF TypeOK
    <3>2. QED
      BY <2>1, <3>1, Zenon DEF Delegated, TokenAccount
  <2>2. \E d \in Address \cup {NoDelegate}, n \in Nat :
            token' = [token EXCEPT ![a] = Delegated(token[a], d, n)]
    BY <1>4 DEF TokenStep, Approve, RevokeDelegate
  <2>3. token' \in [Account -> TokenAccount]
    BY <2>1, <2>2 DEF TypeOK
  <2>4. QED
    BY <1>4, <2>3 DEF TokenStep, Approve, RevokeDelegate, TypeOK, RegistryTypeOK
<1>5. ASSUME NEW m \in Address, NEW who \in Key, NEW invoice \in Hash, NEW reference \in Hash,
             NEW n \in Amount, NEW to \in Account,
             execute_payment(m, who, invoice, reference, n, to)
      PROVE  TypeOK'
  <2>1. mandate[m] \in PaymentMandate /\ n \in U64
    BY <1>5 DEF execute_payment, Exists, TypeOK
  <2>2. mandate' \in [Address -> PaymentMandate \cup {NoMandate}]
    <3>1. Counted(mandate[m], n) \in PaymentMandate
      <4>1. /\ mandate[m].amount_spent + n \in U64
            /\ mandate[m].payment_count + 1 \in U64
        BY <1>5, <2>1 DEF execute_payment, validate_payment, Fits, PaymentMandate
      <4>2. QED
        BY <2>1, <4>1, Zenon DEF Counted, PaymentMandate, TypeOK
    <3>2. mandate' = [mandate EXCEPT ![m] = Counted(mandate[m], n)]
      BY <1>5 DEF execute_payment
    <3>3. QED
      BY <3>1, <3>2 DEF TypeOK
  <2>3. receipts' \subseteq PaymentReceipt
    BY <1>5, <2>1 DEF execute_payment, validate_payment, Fits, PaymentMandate, PaymentReceipt,
                      ReceiptOf, ReceiptEnds, TypeOK
  <2>4. token' \in [Account -> TokenAccount]
    <3> DEFINE a == mandate[m].source_token_account
    <3>1. a \in Account /\ token[a] \in TokenAccount /\ token[to] \in TokenAccount
      BY <2>1 DEF PaymentMandate, TypeOK
    <3>2. CASE a = to
      BY <1>5, <3>2 DEF execute_payment, transfer_checked, TypeOK
    <3>3. CASE a # to
      <4>1. Debited(token[a], n) \in TokenAccount
        <5>1. token[a].amount - n \in Nat /\ token[a].delegated_amount - n \in Nat
          BY <1>5, <2>1, <3>1 DEF execute_payment, transfer_checked, TokenAccount
        <5>2. QED
          BY <3>1, <5>1, Zenon DEF Debited, TokenAccount
      <4>2. [token[to] EXCEPT !.amount = @ + n] \in TokenAccount
        BY <2>1, <3>1 DEF TokenAccount
      <4>3. token' = [token EXCEPT ![a] = Debited(token[a], n),
                                   ![to] = [token[to] EXCEPT !.amount = @ + n]]
        BY <1>5, <3>1, <3>3 DEF execute_payment, transfer_checked, TypeOK
      <4>4. QED
        BY <4>1, <4>2, <4>3 DEF TypeOK
    <3>4. QED
      BY <3>2, <3>3
  <2>5. QED
    BY <1>5, <2>2, <2>3, <2>4 DEF execute_payment, TypeOK, RegistryTypeOK
<1>6. CASE UNCHANGED vars
  BY <1>6 DEF vars, TypeOK, RegistryTypeOK
<1>7. QED
  BY <1>1, <1>2, <1>3, <1>4, <1>5, <1>6 DEF Next, AgentStep

\* The state holds accounts of the declared shape: in particular no addition
\* of a counter leaves u64, because every one of them is checked first.
THEOREM TypeCorrect == Spec => []TypeOK
  BY TypeInit, TypeStep, PTL DEF Spec

-----------------------------------------------------------------------------
(* The inductive invariant.  ReceiptsChain and InvoicePaidOnce speak of two  *)
(* receipts; a new one is only known to fit because the mandate's counters   *)
(* remember the last: no receipt is numbered past payment_count, and the one *)
(* numbered payment_count was executed at last_payment_slot and left         *)
(* amount_spent.                                                             *)

ReceiptsTrackMandate ==
    \A r \in receipts :
        LET md == mandate[r.mandate]
        IN  /\ Exists(r.mandate)
            /\ r.policy_payment_count_after <= md.payment_count
            /\ r.policy_payment_count_after = md.payment_count =>
                   /\ r.executed_at_slot = md.last_payment_slot
                   /\ r.policy_amount_spent_after = md.amount_spent

PaymentsHaveSlots ==
    \A m \in Address : Exists(m) /\ mandate[m].payment_count > 0 =>
        mandate[m].last_payment_slot > 0

RevokedIsPaused ==
    \A m \in Address : Exists(m) /\ mandate[m].revoked => mandate[m].paused

IInv ==
    /\ TypeOK
    /\ RevokedIsPaused
    /\ slot > 0
    /\ PaymentsHaveSlots
    /\ ReceiptsTrackMandate
    /\ SpendWithinMandate
    /\ InvoicePaidOnce
    /\ ReceiptProvesPolicy
    /\ ReceiptsChain

\* The step leaves the counters of every existing mandate as they are.
CountersKept ==
    \A x \in Address : Exists(x) =>
        /\ mandate'[x] # NoMandate
        /\ mandate'[x].amount_spent = mandate[x].amount_spent
        /\ mandate'[x].payment_count = mandate[x].payment_count
        /\ mandate'[x].last_payment_slot = mandate[x].last_payment_slot

\* Init establishes the inductive invariant: no receipt exists, and a legacy
\* mandate has not paid yet.
LEMMA InvInit == Init => IInv
<1> SUFFICES ASSUME Init PROVE IInv
  OBVIOUS
<1> USE MandateAssumption
<1>1. TypeOK
  BY TypeInit
<1>2. receipts = {}
  BY DEF Init
<1>3. \A m \in Address : Exists(m) =>
          /\ mandate[m] \in PaymentMandate
          /\ mandate[m].amount_spent = 0 /\ mandate[m].payment_count = 0
          /\ ~mandate[m].revoked
  BY DEF Init, Exists, FreshLegacy
<1>4. slot > 0
  BY DEF Init, U64
<1>5. SpendWithinMandate
  BY <1>3 DEF SpendWithinMandate, PaymentMandate, U64
<1>6. PaymentsHaveSlots /\ RevokedIsPaused
  BY <1>3 DEF PaymentsHaveSlots, RevokedIsPaused
<1>7. QED
  BY <1>1, <1>2, <1>4, <1>5, <1>6 DEF IInv, ReceiptsTrackMandate, InvoicePaidOnce,
     ReceiptProvesPolicy, ReceiptsChain

\* An owner's instruction writes no receipt, resets no counter of an existing
\* mandate, and leaves limits that cover what is spent.
LEMMA OwnerKeepsInv ==
  ASSUME IInv, NEW m \in Address, OwnerStep(m)
  PROVE  /\ CountersKept /\ SpendWithinMandate' /\ PaymentsHaveSlots' /\ RevokedIsPaused'
         /\ receipts' = receipts /\ slot' = slot
<1> USE MandateAssumption DEF IInv, TypeOK
<1>1. CASE \E a \in Account, p \in Terms : create_mandate(m, a, p)
  <2>1. PICK a \in Account, p \in Terms : create_mandate(m, a, p)
    BY <1>1
  <2>2. /\ mandate'[m].amount_spent = 0 /\ mandate'[m].payment_count = 0
        /\ mandate'[m].total_limit = p.total_limit /\ p \in PolicyTerms
        /\ ~mandate'[m].revoked
        /\ mandate'[m].max_payment_count = p.max_payment_count
        /\ \A x \in Address \ {m} : mandate'[x] = mandate[x]
    BY <2>1 DEF create_mandate
  <2>3. ~Exists(m)
    BY <2>1 DEF create_mandate, Uninitialized
  <2>4. CountersKept
    BY <2>2, <2>3 DEF CountersKept, Exists
  <2>5. SpendWithinMandate'
    BY <2>2 DEF SpendWithinMandate, Exists, PolicyTerms, U64
  <2>6. PaymentsHaveSlots' /\ RevokedIsPaused'
    BY <2>2 DEF PaymentsHaveSlots, RevokedIsPaused, Exists
  <2>7. QED
    BY <2>1, <2>4, <2>5, <2>6 DEF create_mandate
<1>2. CASE \E p \in Terms, pause \in BOOLEAN : update_mandate(m, p, pause)
  <2>1. PICK p \in Terms, pause \in BOOLEAN : update_mandate(m, p, pause)
    BY <1>2
  <2>2. mandate[m] \in PaymentMandate /\ p \in PolicyTerms /\ p.approved_agent \in Key
    BY <2>1 DEF update_mandate, UpdateAllowed, NamesAgent, Exists, PolicyTerms
  <2>3. mandate'[m] = Edited(mandate[m], p, pause) /\ mandate'[m] \in PaymentMandate
    BY <2>1, <2>2, MandateEdits DEF update_mandate
  <2>4. /\ mandate'[m].amount_spent = mandate[m].amount_spent
        /\ mandate'[m].payment_count = mandate[m].payment_count
        /\ mandate'[m].last_payment_slot = mandate[m].last_payment_slot
        /\ mandate'[m].total_limit = p.total_limit
        /\ mandate'[m].max_payment_count = p.max_payment_count
        /\ mandate'[m].revoked = mandate[m].revoked
    BY <2>2, <2>3 DEF Edited, PaymentMandate
  <2>5. \A x \in Address \ {m} : mandate'[x] = mandate[x]
    BY <2>1, SMTT(30) DEF update_mandate
  <2>6. CountersKept
    BY <2>3, <2>4, <2>5 DEF CountersKept, Exists
  <2>7. SpendWithinMandate'
    BY <2>1, <2>4, <2>5 DEF SpendWithinMandate, Exists, update_mandate, UpdateAllowed, CoversSpend
  <2>8. PaymentsHaveSlots' /\ RevokedIsPaused'
    BY <2>1, <2>4, <2>5 DEF PaymentsHaveSlots, RevokedIsPaused, Exists, update_mandate,
       UpdateAllowed, Editable
  <2>9. QED
    BY <2>1, <2>6, <2>7, <2>8 DEF update_mandate
<1>3. CASE pause_mandate(m) \/ revoke_mandate(m)
  <2>1. PICK forever \in BOOLEAN : mandate' = [mandate EXCEPT ![m] = Stopped(mandate[m], forever)]
    <3>1. CASE pause_mandate(m)
      BY <3>1, Zenon DEF pause_mandate, Exists, PaymentMandate
    <3>2. CASE revoke_mandate(m)
      BY <3>2, Zenon DEF revoke_mandate
    <3>3. QED
      BY <1>3, <3>1, <3>2
  <2>2. Exists(m) /\ mandate[m] \in PaymentMandate
    BY <1>3, ZenonT(40) DEF pause_mandate, revoke_mandate, Exists
  <2>3. mandate'[m] = Stopped(mandate[m], forever) /\ mandate'[m] \in PaymentMandate
    BY <2>1, <2>2, MandateEdits
  <2>4. /\ mandate'[m].amount_spent = mandate[m].amount_spent
        /\ mandate'[m].payment_count = mandate[m].payment_count
        /\ mandate'[m].last_payment_slot = mandate[m].last_payment_slot
        /\ mandate'[m].total_limit = mandate[m].total_limit
        /\ mandate'[m].max_payment_count = mandate[m].max_payment_count
        /\ mandate'[m].paused
    BY <2>2, <2>3 DEF Stopped, PaymentMandate
  <2>5. \A x \in Address \ {m} : mandate'[x] = mandate[x]
    BY <2>1
  <2>6. CountersKept
    BY <2>3, <2>4, <2>5 DEF CountersKept, Exists
  <2>7. SpendWithinMandate'
    BY <2>2, <2>4, <2>5 DEF SpendWithinMandate, Exists
  <2>8. PaymentsHaveSlots' /\ RevokedIsPaused'
    BY <2>2, <2>4, <2>5 DEF PaymentsHaveSlots, RevokedIsPaused, Exists
  <2>9. QED
    BY <1>3, <2>6, <2>7, <2>8, Zenon DEF pause_mandate, revoke_mandate
<1>4. QED
  BY <1>1, <1>2, <1>3 DEF OwnerStep

\* A payment keeps the invariant: its receipt is numbered one past the last,
\* no earlier than the cooldown allows, and within the terms it snapshots.
LEMMA PaymentKeepsInv ==
  ASSUME IInv, NEW m \in Address, NEW who \in Key, NEW invoice \in Hash,
         NEW reference \in Hash, NEW n \in Amount, NEW to \in Account,
         execute_payment(m, who, invoice, reference, n, to)
  PROVE  IInv'
<1> DEFINE md == mandate[m]
           new == ReceiptOf(m, md, invoice, n, to)
<1>1. TypeOK /\ TypeOK'
  BY TypeStep DEF IInv, Next, AgentStep
<1>2. md \in PaymentMandate /\ n \in U64 /\ slot \in U64 /\ slot > 0
  BY <1>1, MandateAssumption, SMTT(30) DEF execute_payment, Exists, TypeOK, IInv
<1>3. /\ validate_payment(md, invoice, reference, n)
      /\ NoReceiptFor(m, invoice)
      /\ receipts' = receipts \cup {new} /\ slot' = slot
      /\ mandate' = [mandate EXCEPT ![m] = Counted(md, n)]
  BY SMTT(30) DEF execute_payment, PaymentAccounts
<1>4. /\ new.mandate = m /\ new.invoice_hash = invoice /\ new.amount = n
      /\ new.executed_at_slot = slot
      /\ new.policy_amount_spent_after = md.amount_spent + n
      /\ new.policy_payment_count_after = md.payment_count + 1
      /\ new.policy_max_per_payment = md.max_per_payment
      /\ new.policy_total_limit = md.total_limit
      /\ new.policy_max_payment_count = md.max_payment_count
      /\ new.policy_expires_at_slot = md.expires_at_slot
      /\ new.policy_cooldown_slots = md.cooldown_slots
  BY ZenonT(30) DEF ReceiptOf
<1> HIDE DEF new
<1>5. /\ mandate'[m].amount_spent = md.amount_spent + n
      /\ mandate'[m].payment_count = md.payment_count + 1
      /\ mandate'[m].last_payment_slot = slot
      /\ mandate'[m].total_limit = md.total_limit
      /\ mandate'[m].max_payment_count = md.max_payment_count
      /\ mandate'[m].revoked = md.revoked /\ mandate'[m].paused = md.paused
      /\ mandate'[m] # NoMandate
      /\ \A x \in Address \ {m} : mandate'[x] = mandate[x]
  <2>1. mandate'[m] = Counted(md, n) /\ \A x \in Address \ {m} : mandate'[x] = mandate[x]
    BY <1>1, <1>3 DEF TypeOK
  <2>2. Fits(md.amount_spent, n) /\ Fits(md.payment_count, 1)
    BY <1>3 DEF validate_payment
  <2>3. Counted(md, n) \in PaymentMandate
    <3>1. /\ md.amount_spent + n \in U64
          /\ md.payment_count + 1 \in U64
          /\ n \in Nat
      BY <1>2, <2>2, MandateAssumption DEF Fits, PaymentMandate, U64
    <3>2. QED
      BY <1>2, <3>1, MandateEdits
  <2>4. /\ Counted(md, n).amount_spent = md.amount_spent + n
        /\ Counted(md, n).payment_count = md.payment_count + 1
        /\ Counted(md, n).last_payment_slot = slot
        /\ Counted(md, n).total_limit = md.total_limit
        /\ Counted(md, n).max_payment_count = md.max_payment_count
        /\ Counted(md, n).revoked = md.revoked /\ Counted(md, n).paused = md.paused
    BY <1>2 DEF Counted, PaymentMandate
  <2>5. mandate'[m] # NoMandate
    BY <2>1, <2>3, MandateAssumption
  <2>6. QED
    BY <2>1, <2>4, <2>5
<1>6. /\ md.payment_count \in Nat /\ md.amount_spent \in Nat /\ n \in Nat /\ slot \in Nat
      /\ \A r \in receipts :
             /\ r.mandate \in Address /\ r.policy_payment_count_after \in Nat
             /\ r.mandate = m => r.policy_payment_count_after <= md.payment_count
  <2>1. md.payment_count \in Nat /\ md.amount_spent \in Nat /\ n \in Nat /\ slot \in Nat
    BY <1>2, MandateAssumption DEF PaymentMandate, U64
  <2>2. \A r \in receipts : r.mandate \in Address /\ r.policy_payment_count_after \in Nat
    BY <1>1, MandateAssumption, SMTT(30) DEF TypeOK, PaymentReceipt, U64
  <2>3. \A r \in receipts : r.mandate = m => r.policy_payment_count_after <= md.payment_count
    BY Zenon DEF IInv, ReceiptsTrackMandate
  <2>4. QED
    BY <2>1, <2>2, <2>3
<1>7. PaymentsHaveSlots' /\ RevokedIsPaused'
  BY <1>2, <1>3, <1>5, SMTT(30) DEF PaymentsHaveSlots, RevokedIsPaused, Exists, IInv, validate_payment
<1>8. ReceiptsTrackMandate'
  <2> SUFFICES ASSUME NEW r \in receipts'
               PROVE  /\ mandate'[r.mandate] # NoMandate
                      /\ r.policy_payment_count_after <= mandate'[r.mandate].payment_count
                      /\ r.policy_payment_count_after = mandate'[r.mandate].payment_count =>
                            /\ r.executed_at_slot = mandate'[r.mandate].last_payment_slot
                            /\ r.policy_amount_spent_after = mandate'[r.mandate].amount_spent
    BY DEF ReceiptsTrackMandate, Exists
  <2>1. CASE r = new
    BY <1>4, <1>5, <1>6, <2>1
  <2>2. CASE r \in receipts /\ r.mandate = m
    BY <1>5, <1>6, <2>2
  <2>3. CASE r \in receipts /\ r.mandate # m
    BY <1>5, <1>6, <2>3, SMTT(30) DEF IInv, ReceiptsTrackMandate, Exists
  <2>4. QED
    BY <1>3, <2>1, <2>2, <2>3
<1>9. SpendWithinMandate'
  BY <1>2, <1>3, <1>5, <1>6 DEF IInv, SpendWithinMandate, Exists, validate_payment
<1>10. InvoicePaidOnce'
  <2>1. \A r \in receipts : r.mandate = m =>
            /\ r.invoice_hash # invoice
            /\ r.policy_payment_count_after # md.payment_count + 1
    BY <1>3, <1>6 DEF NoReceiptFor
  <2>2. QED
    BY <1>3, <1>4, <2>1 DEF IInv, InvoicePaidOnce
<1>11. ReceiptProvesPolicy'
  <2>1. /\ new.amount > 0 /\ new.amount <= new.policy_max_per_payment
        /\ new.amount <= new.policy_amount_spent_after
        /\ new.policy_amount_spent_after <= new.policy_total_limit
        /\ new.policy_payment_count_after > 0
        /\ new.policy_max_payment_count # 0 =>
               new.policy_payment_count_after <= new.policy_max_payment_count
    BY <1>3, <1>4, <1>6 DEF validate_payment
  <2>2. new.executed_at_slot < new.policy_expires_at_slot
    <3>1. md.expires_at_slot \in Nat
      BY <1>2, MandateAssumption DEF PaymentMandate, U64
    <3>2. QED
      BY <1>3, <1>4, <1>6, <3>1 DEF validate_payment, NotExpired
  <2>3. QED
    BY <1>3, <2>1, <2>2, SMTT(30) DEF IInv, ReceiptProvesPolicy
<1>12. ReceiptsChain'
  <2> SUFFICES ASSUME NEW r \in receipts', NEW s \in receipts', r.mandate = s.mandate,
                      s.policy_payment_count_after = r.policy_payment_count_after + 1
               PROVE  /\ s.executed_at_slot >= r.executed_at_slot + s.policy_cooldown_slots
                      /\ s.policy_amount_spent_after = r.policy_amount_spent_after + s.amount
    BY DEF ReceiptsChain
  <2>1. CASE r \in receipts /\ s \in receipts
    BY <2>1 DEF IInv, ReceiptsChain
  <2>2. CASE r \in receipts /\ s = new
    <3>1. r.policy_payment_count_after = md.payment_count
      <4>1. r.policy_payment_count_after \in Nat /\ md.payment_count \in Nat
        BY <1>6, <2>2
      <4>2. r.policy_payment_count_after + 1 = md.payment_count + 1
        BY <1>4, <2>2
      <4>3. QED
        BY <4>1, <4>2
    <3>2. /\ r.executed_at_slot = md.last_payment_slot
          /\ r.policy_amount_spent_after = md.amount_spent
          /\ md.payment_count > 0
      BY <1>4, <2>2, <3>1 DEF IInv, ReceiptsTrackMandate, ReceiptProvesPolicy
    <3>3. md.last_payment_slot > 0
      BY <1>4, <2>2, <3>2 DEF IInv, PaymentsHaveSlots, ReceiptsTrackMandate
    <3>4. QED
      BY <1>3, <1>4, <2>2, <3>2, <3>3 DEF validate_payment, CooldownOver
  <2>3. CASE r = new
    <3>1. s.policy_payment_count_after = md.payment_count + 2 /\ s.mandate = m
      BY <1>4, <1>6, <2>3
    <3>2. s \in receipts
      BY <1>3, <1>4, <1>6, <3>1
    <3>3. QED
      BY <1>6, <3>1, <3>2
  <2>4. QED
    BY <1>3, <2>1, <2>2, <2>3
<1>13. QED
  BY <1>1, <1>2, <1>3, <1>7, <1>8, <1>9, <1>10, <1>11, <1>12 DEF IInv

\* Every step keeps the inductive invariant.
LEMMA InvStep == IInv /\ [Next]_vars => IInv'
<1> SUFFICES ASSUME IInv, [Next]_vars PROVE IInv'
  OBVIOUS
<1>1. TypeOK /\ TypeOK'
  BY TypeStep DEF IInv
<1>2. ASSUME receipts' = receipts, CountersKept, SpendWithinMandate', PaymentsHaveSlots',
             RevokedIsPaused', slot' >= slot
      PROVE  IInv'
  <2>1. ReceiptsTrackMandate'
    BY <1>1, <1>2 DEF IInv, ReceiptsTrackMandate, CountersKept, Exists, TypeOK, PaymentReceipt
  <2>2. InvoicePaidOnce' /\ ReceiptProvesPolicy' /\ ReceiptsChain'
    BY <1>2 DEF IInv, InvoicePaidOnce, ReceiptProvesPolicy, ReceiptsChain
  <2>3. slot' > 0
    BY <1>1, <1>2, MandateAssumption DEF IInv, TypeOK, U64
  <2>4. QED
    BY <1>1, <1>2, <2>1, <2>2, <2>3 DEF IInv
<1>3. ASSUME mandate' = mandate, receipts' = receipts, slot' >= slot
      PROVE  IInv'
  <2>1. CountersKept /\ SpendWithinMandate' /\ PaymentsHaveSlots' /\ RevokedIsPaused'
    BY <1>3 DEF IInv, CountersKept, SpendWithinMandate, PaymentsHaveSlots, RevokedIsPaused, Exists
  <2>2. QED
    BY <1>2, <1>3, <2>1
<1>4. slot \in Nat
  BY <1>1, MandateAssumption DEF TypeOK, U64
<1>5. CASE NextSlot
  BY <1>3, <1>4, <1>5 DEF NextSlot
<1>6. CASE RegistryStep
  BY <1>3, <1>4, <1>6 DEF RegistryStep
<1>7. CASE \E m \in Address : OwnerStep(m)
  BY <1>2, <1>4, <1>7, OwnerKeepsInv
<1>8. CASE \E a \in Account : TokenStep(a)
  BY <1>3, <1>4, <1>8 DEF TokenStep, Approve, RevokeDelegate
<1>9. CASE \E m \in Address : AgentStep(m)
  BY <1>9, PaymentKeepsInv DEF AgentStep
<1>10. CASE UNCHANGED vars
  BY <1>3, <1>4, <1>10 DEF vars
<1>11. QED
  BY <1>5, <1>6, <1>7, <1>8, <1>9, <1>10 DEF Next

-----------------------------------------------------------------------------
(* The results.                                                             *)

\* Whatever order the owner edits and the agent pays in, a mandate never has
\* more spent or counted than its limits allow.
THEOREM SpendStaysWithinMandate == Spec => []SpendWithinMandate
<1>1. IInv => SpendWithinMandate
  BY DEF IInv
<1>2. QED
  BY InvInit, InvStep, <1>1, PTL DEF Spec

\* No invoice is settled twice under one mandate.
THEOREM NoInvoiceIsPaidTwice == Spec => []InvoicePaidOnce
<1>1. IInv => InvoicePaidOnce
  BY DEF IInv
<1>2. QED
  BY InvInit, InvStep, <1>1, PTL DEF Spec

\* A receipt alone proves that its payment was within the policy in force.
THEOREM ReceiptsProveTheirPolicy == Spec => []ReceiptProvesPolicy
<1>1. IInv => ReceiptProvesPolicy
  BY DEF IInv
<1>2. QED
  BY InvInit, InvStep, <1>1, PTL DEF Spec

\* Consecutive receipts of a mandate respect the cooldown and add up.
THEOREM ReceiptsFormAChain == Spec => []ReceiptsChain
<1>1. IInv => ReceiptsChain
  BY DEF IInv
<1>2. QED
  BY InvInit, InvStep, <1>1, PTL DEF Spec

\* Together: what a receipt is worth to who reads it later.
THEOREM ReceiptsStaySound == Spec => []ReceiptsAreSound
  BY NoInvoiceIsPaidTwice, ReceiptsProveTheirPolicy, ReceiptsFormAChain, PTL
     DEF ReceiptsAreSound

\* After revoke_mandate a mandate is frozen for ever: no edit, no payment.
THEOREM RevokedMandatesStayRevoked == Spec => RevocationIsFinal
<1>1. IInv /\ [Next]_vars => [RevokedKept]_vars
  <2> SUFFICES ASSUME IInv, Next, NEW m \in Address, Exists(m), mandate[m].revoked
               PROVE  mandate'[m] = mandate[m] /\ ReceiptsOf(m)' = ReceiptsOf(m)
    BY DEF RevokedKept
  <2>1. CASE NextSlot \/ RegistryStep \/ \E a \in Account : TokenStep(a)
    BY <2>1 DEF NextSlot, RegistryStep, TokenStep, Approve, RevokeDelegate, ReceiptsOf
  <2>2. ASSUME NEW x \in Address, OwnerStep(x)
        PROVE  mandate'[m] = mandate[m] /\ ReceiptsOf(m)' = ReceiptsOf(m)
    <3>1. receipts' = receipts
      BY <2>2, Zenon DEF OwnerStep, create_mandate, update_mandate, pause_mandate, revoke_mandate
    <3>2. CASE x # m
      BY <2>2, <3>1, <3>2, Zenon DEF OwnerStep, create_mandate, update_mandate, pause_mandate,
         revoke_mandate, IInv, TypeOK, ReceiptsOf
    <3>3. CASE x = m
      <4>1. revoke_mandate(m)
        BY <2>2, <3>3, Zenon DEF OwnerStep, create_mandate, update_mandate, pause_mandate, Uninitialized,
           UpdateAllowed, Editable
      <4>2. mandate[m] \in PaymentMandate /\ mandate[m].paused = TRUE /\ mandate[m].revoked = TRUE
        BY DEF IInv, RevokedIsPaused, TypeOK, Exists, PaymentMandate
      <4>3. Stopped(mandate[m], TRUE) = mandate[m]
        BY <4>2, Zenon DEF Stopped, PaymentMandate
      <4>4. QED
        BY <3>1, <4>1, <4>3, Zenon DEF revoke_mandate, IInv, TypeOK, ReceiptsOf
    <3>4. QED
      BY <3>2, <3>3, SMTT(30)
  <2>3. ASSUME NEW x \in Address, AgentStep(x)
        PROVE  mandate'[m] = mandate[m] /\ ReceiptsOf(m)' = ReceiptsOf(m)
    <3>1. PICK invoice \in Hash, n \in Amount, to \in Account :
              /\ ~mandate[x].revoked
              /\ mandate' = [mandate EXCEPT ![x] = Counted(mandate[x], n)]
              /\ receipts' = receipts \cup {ReceiptOf(x, mandate[x], invoice, n, to)}
      BY <2>3, Zenon DEF AgentStep, execute_payment, validate_payment
    <3>2. x # m
      BY <3>1
    <3>3. QED
      BY <3>1, <3>2 DEF IInv, TypeOK, ReceiptsOf, ReceiptOf
  <2>4. QED
    BY <2>1, <2>2, <2>3 DEF Next
<1>2. QED
  BY InvInit, InvStep, <1>1, PTL DEF Spec, RevocationIsFinal
-----------------------------------------------------------------------------
(* The ChainPay program implements Allowance: the initial states map to     *)
(* initial states, and every step maps to a step of Allowance or to none.   *)

\* What is promised of a mandate is an allowance, and never the missing one.
LEMMA GrantType ==
  ASSUME NEW md \in PaymentMandate
  PROVE  GrantOf(md) \in Promise!Grant /\ GrantOf(md) # NoMandate
BY PromiseAssumption DEF GrantOf, Promise!Grant, PaymentMandate

\* A payment spends more of an open allowance and leaves it open.
LEMMA GrantGrows ==
  ASSUME NEW md \in PaymentMandate, NEW n \in Nat, n > 0,
         md.amount_spent + n <= md.total_limit, ~md.revoked, ~md.paused
  PROVE  /\ GrantOf(md).state = "open" /\ GrantOf(Counted(md, n)).state = "open"
         /\ GrantOf(Counted(md, n)).limit = GrantOf(md).limit
         /\ GrantOf(Counted(md, n)).spent > GrantOf(md).spent
         /\ GrantOf(Counted(md, n)).spent <= GrantOf(md).limit
BY DEF GrantOf, Counted, PaymentMandate, U64

\* A mandate exists exactly where an allowance was given.
LEMMA PromisedAt ==
  ASSUME TypeOK, NEW m \in Address
  PROVE  /\ Exists(m) => /\ mandate[m] \in PaymentMandate
                         /\ Promised[m] = GrantOf(mandate[m]) /\ Promised[m] # NoMandate
         /\ ~Exists(m) => Promised[m] = NoMandate
BY GrantType DEF Promised, Exists, TypeOK

\* A step that stores a mandate moves the allowance of that mandate alone.
LEMMA OneAllowanceMoves ==
  ASSUME TypeOK, NEW m \in Address, NEW md \in PaymentMandate,
         mandate' = [mandate EXCEPT ![m] = md]
  PROVE  /\ Promised'[m] = GrantOf(md)
         /\ Promised' = [Promised EXCEPT ![m] = Promised'[m]]
         /\ Promised'[m] \in Promise!Grant
<1>1. mandate'[m] = md /\ md # NoMandate /\ \A o \in Address \ {m} : mandate'[o] = mandate[o]
  BY MandateAssumption DEF TypeOK
<1>2. Promised'[m] = GrantOf(md)
  BY <1>1 DEF Promised, Exists, GrantOf
<1>3. \A o \in Address \ {m} : Promised'[o] = Promised[o]
  BY <1>1 DEF Promised, Exists, GrantOf
<1>4. /\ Promised = [o \in Address |-> Promised[o]]
      /\ Promised' = [o \in Address |-> Promised'[o]]
  BY DEF Promised
<1>5. Promised' = [Promised EXCEPT ![m] = Promised'[m]]
  BY <1>3, <1>4
<1>6. QED
  BY <1>2, <1>5, GrantType

\* The legacy mandates the program starts with are fresh allowances.
LEMMA PromiseInit == Init => Promise!Init
<1> SUFFICES ASSUME Init PROVE Promise!Init
  OBVIOUS
<1>1. TypeOK
  BY TypeInit
<1>2. Promised \in [Address -> Promise!Grant \cup {NoMandate}]
  BY <1>1, GrantType DEF Promised, Exists, TypeOK
<1>3. ASSUME NEW m \in Address, Promised[m] # NoMandate
      PROVE  Promised[m].spent = 0 /\ Promised[m].state = "open"
  <2>1. Exists(m) /\ Promised[m] = GrantOf(mandate[m])
    BY <1>1, <1>3, PromisedAt
  <2>2. mandate[m] = Legacy[m] /\ FreshLegacy(m, Legacy[m])
    BY <2>1, MandateAssumption, SMTT(30) DEF Init, Exists
  <2>3. QED
    BY <2>1, <2>2 DEF GrantOf, FreshLegacy
<1>4. Settled = {}
  BY DEF Init, Settled
<1>5. QED
  BY <1>2, <1>3, <1>4 DEF Promise!Init

\* The owner's instructions give an allowance or change one that is not revoked.
LEMMA OwnerKeepsPromise ==
  ASSUME TypeOK, NEW m \in Address, OwnerStep(m)
  PROVE  Promise!Give(m) \/ Promise!Change(m) \/ UNCHANGED Promise!allowance
<1> USE MandateAssumption DEF U64
<1>1. CASE \E src \in Account, p \in Terms : create_mandate(m, src, p)
  <2>1. PICK src \in Account, p \in Terms : create_mandate(m, src, p)
    BY <1>1
  <2> DEFINE md == [approved_agent |-> p.approved_agent, source_token_account |-> src,
                    recipient |-> AnyRecipient, max_per_payment |-> p.max_per_payment,
                    total_limit |-> p.total_limit, amount_spent |-> 0,
                    payment_count |-> 0, expires_at_slot |-> p.expires_at_slot,
                    max_payment_count |-> p.max_payment_count,
                    cooldown_slots |-> p.cooldown_slots, last_payment_slot |-> 0,
                    paused |-> FALSE, revoked |-> FALSE]
  <2>2. mandate' = [mandate EXCEPT ![m] = md] /\ md \in PaymentMandate
    BY <2>1, SMTT(30) DEF create_mandate, validate_mandate_params, NamesAgent, PolicyTerms, PaymentMandate
  <2>3. Promised[m] = NoMandate
    BY <2>1, PromisedAt, ZenonT(40) DEF create_mandate, Uninitialized
  <2>4. Promise!Moves(m) /\ Promised'[m] = GrantOf(md)
    BY <2>2, OneAllowanceMoves, ZenonT(40) DEF Promise!Moves
  <2>5. UNCHANGED Settled
    BY <2>1, Zenon DEF create_mandate, Settled
  <2>6. QED
    <3>1. GrantOf(md).spent = 0 /\ GrantOf(md).state = "open"
      BY DEF GrantOf
    <3>2. QED
      BY <2>3, <2>4, <2>5, <3>1, Zenon DEF Promise!Give
<1>2. CASE \E p \in Terms, pause \in BOOLEAN : update_mandate(m, p, pause)
  <2>1. PICK p \in Terms, pause \in BOOLEAN : update_mandate(m, p, pause)
    BY <1>2, SMTT(30)
  <2>2. /\ mandate[m] \in PaymentMandate /\ p \in PolicyTerms /\ p.approved_agent \in Key
        /\ Promised[m] = GrantOf(mandate[m]) /\ Promised[m] # NoMandate
    BY <2>1, PromisedAt, ZenonT(40) DEF update_mandate, UpdateAllowed, NamesAgent, PolicyTerms
  <2>3. Edited(mandate[m], p, pause) \in PaymentMandate
    BY <2>2, MandateEdits
  <2>4. /\ Promise!Moves(m)
        /\ Promised'[m] = GrantOf(Edited(mandate[m], p, pause))
    BY <2>1, <2>3, OneAllowanceMoves, ZenonT(40) DEF update_mandate, Promise!Moves
  <2>5. /\ Promised[m].state # "revoked"
        /\ Promised'[m].spent = Promised[m].spent
        /\ Promised'[m].limit >= Promised[m].spent
    BY <2>1, <2>2, <2>4
       DEF update_mandate, UpdateAllowed, Editable, CoversSpend, Edited, GrantOf, PaymentMandate
  <2>6. UNCHANGED Settled
    BY <2>1, Zenon DEF update_mandate, Settled
  <2>7. QED
    BY <2>2, <2>4, <2>5, <2>6, Zenon DEF Promise!Change
<1>3. ASSUME NEW forever \in BOOLEAN, Exists(m), ~mandate[m].revoked,
             mandate' = [mandate EXCEPT ![m] = Stopped(mandate[m], forever)],
             receipts' = receipts
      PROVE  Promise!Change(m)
  <2>1. /\ mandate[m] \in PaymentMandate
        /\ Promised[m] = GrantOf(mandate[m]) /\ Promised[m] # NoMandate
    BY <1>3, PromisedAt
  <2>2. Stopped(mandate[m], forever) \in PaymentMandate
    BY <2>1, MandateEdits
  <2>3. Promise!Moves(m) /\ Promised'[m] = GrantOf(Stopped(mandate[m], forever))
    BY <1>3, <2>2, OneAllowanceMoves, Zenon DEF Promise!Moves
  <2>4. /\ Promised[m].state # "revoked"
        /\ Promised'[m].spent = Promised[m].spent
        /\ Promised'[m].limit = Promised[m].limit
    BY <1>3, <2>1, <2>3 DEF Stopped, GrantOf, PaymentMandate
  <2>5. UNCHANGED Settled
    BY <1>3 DEF Settled
  <2>6. QED
    BY <2>1, <2>3, <2>4, <2>5 DEF Promise!Change
<1>4. CASE pause_mandate(m)
  <2>1. mandate[m] \in PaymentMandate
    BY <1>4, PromisedAt DEF pause_mandate
  <2>2. QED
    BY <1>3, <1>4, <2>1, ZenonT(40) DEF pause_mandate, Editable, PaymentMandate
<1>5. CASE revoke_mandate(m)
  <2>1. mandate[m] \in PaymentMandate
    BY <1>5, PromisedAt DEF revoke_mandate
  <2>2. CASE ~mandate[m].revoked
    BY <1>3, <1>5, <2>2, Zenon DEF revoke_mandate
  <2>3. CASE mandate[m].revoked
    <3>1. Stopped(mandate[m], TRUE) \in PaymentMandate
      BY <2>1, MandateEdits, Zenon
    <3>2. GrantOf(Stopped(mandate[m], TRUE)) = GrantOf(mandate[m])
      BY <2>1, <2>3 DEF GrantOf, Stopped, PaymentMandate
    <3>3. Promised' = [Promised EXCEPT ![m] = Promised[m]]
      BY <1>5, <3>1, <3>2, OneAllowanceMoves, PromisedAt, ZenonT(40) DEF revoke_mandate
    <3>4. UNCHANGED <<Promised, Settled>>
      BY <1>5, <3>3, Zenon DEF revoke_mandate, Settled, Promised
    <3>5. QED
      BY <3>4 DEF Promise!allowance
  <2>4. QED
    BY <2>2, <2>3
<1>6. QED
  BY <1>1, <1>2, <1>4, <1>5 DEF OwnerStep

\* A payment spends within the limit, and settles an invoice that was not settled.
LEMMA PaymentKeepsPromise ==
  ASSUME TypeOK, NEW m \in Address, NEW who \in Key, NEW invoice \in Hash,
         NEW reference \in Hash, NEW n \in Amount, NEW to \in Account,
         execute_payment(m, who, invoice, reference, n, to)
  PROVE  Promise!Spend(m, invoice)
<1> DEFINE md == mandate[m]
<1>1. /\ md \in PaymentMandate /\ Promised[m] = GrantOf(md) /\ Promised[m] # NoMandate
  BY PromisedAt, Zenon DEF execute_payment
<1>2. validate_payment(md, invoice, reference, n)
  BY Zenon DEF execute_payment
<1> HIDE DEF md
<1>3. /\ n \in Nat /\ n > 0 /\ md.amount_spent + n <= md.total_limit
      /\ ~md.revoked /\ ~md.paused /\ Counted(md, n) \in PaymentMandate
  BY <1>1, <1>2, PaymentNumbers, Zenon DEF TypeOK
<1>4. Promise!Moves(m) /\ Promised'[m] = GrantOf(Counted(md, n))
  <2>1. mandate' = [mandate EXCEPT ![m] = Counted(md, n)]
    BY Zenon DEF execute_payment, md
  <2>2. QED
    BY <1>3, <2>1, OneAllowanceMoves, Zenon DEF Promise!Moves
<1>5. /\ Promised[m].state = "open" /\ Promised'[m].state = "open"
      /\ Promised'[m].limit = Promised[m].limit
      /\ Promised'[m].spent > Promised[m].spent /\ Promised'[m].spent <= Promised[m].limit
  BY <1>1, <1>3, <1>4, GrantGrows, Zenon
<1>6. <<m, invoice>> \notin Settled
  BY Zenon DEF execute_payment, PaymentAccounts, NoReceiptFor, Settled
<1>7. Settled' = Settled \cup {<<m, invoice>>}
  <2> DEFINE r == ReceiptOf(m, md, invoice, n, to)
  <2>1. r.mandate = m /\ r.invoice_hash = invoice
    BY Zenon DEF ReceiptOf
  <2>2. receipts' = receipts \cup {r}
    BY Zenon DEF execute_payment, md
  <2> HIDE DEF r
  <2>3. QED
    BY <2>1, <2>2 DEF Settled
<1>8. QED
  BY <1>1, <1>4, <1>5, <1>6, <1>7 DEF Promise!Spend

\* Every step of the program is a step of Allowance or leaves it unchanged.
LEMMA PromiseStep == TypeOK /\ [Next]_vars => [Promise!Next]_(Promise!allowance)
<1> SUFFICES ASSUME TypeOK, [Next]_vars PROVE [Promise!Next]_(Promise!allowance)
  OBVIOUS
<1>1. ASSUME UNCHANGED <<mandate, receipts>> PROVE UNCHANGED Promise!allowance
  BY <1>1 DEF Promise!allowance, Promised, Settled, Exists, GrantOf
<1>2. CASE NextSlot \/ RegistryStep \/ (\E a \in Account : TokenStep(a)) \/ UNCHANGED vars
  BY <1>1, <1>2 DEF NextSlot, RegistryStep, TokenStep, Approve, RevokeDelegate, vars
<1>3. ASSUME NEW m \in Address, OwnerStep(m) PROVE [Promise!Next]_(Promise!allowance)
  BY <1>3, OwnerKeepsPromise DEF Promise!Next
<1>4. ASSUME NEW m \in Address, AgentStep(m) PROVE Promise!Next
  BY <1>4, PaymentKeepsPromise DEF AgentStep, Promise!Next
<1>5. QED
  BY <1>2, <1>3, <1>4 DEF Next

\* The program keeps the promise of Allowance: a limit that always covers what is
\* spent, invoices settled once, and a revocation that ends it (execute_payment,
\* update_mandate, pause_mandate, revoke_mandate).
THEOREM MandateKeepsPromise == Spec => KeepsPromise
<1>1. Init => Promise!Init
  BY PromiseInit
<1>2. TypeOK /\ [Next]_vars => [Promise!Next]_(Promise!allowance)
  BY PromiseStep
<1>3. QED
  BY <1>1, <1>2, TypeCorrect, PTL DEF Spec, KeepsPromise, Promise!Spec
=============================================================================
