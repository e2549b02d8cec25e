--------------------------- MODULE SplitterProofs ---------------------------
(***************************************************************************)
(* The splitter's promises for every rent, word size and amount.            *)
(***************************************************************************)
EXTENDS Splitter, TLAPS

\* Before the vault exists it has allocated nothing and holds what was sent to it.
Unstarted ==
    ~live => owed = ZeroEach /\ paid = ZeroEach /\ allocated_each = Zero /\ balance = donated

IInv == SplitterTypeOK /\ Unstarted /\ Solvent /\ SidesAreEqual /\ NothingIsLost /\ RecipientsDiffer

\* A half rounded down, twice, is at most the whole (Share).
LEMMA HalfTwice ==
    ASSUME NEW n \in Nat
    PROVE  n \div 2 \in Nat /\ 2 * (n \div 2) <= n
  OBVIOUS

\* The two sides and the two assets (Side, Asset).
LEMMA Names ==
    /\ "A" \in Side /\ "B" \in Side
    /\ "SOL" \in Asset
    /\ \A s \in Side : Other(s) \in Side /\ {s, Other(s)} = Side
  BY DEF Side, Asset, Other

\* An empty vault owes nothing (SplitterInit).
LEMMA InitOK == SplitterInit => IInv
  <1> SUFFICES ASSUME SplitterInit PROVE IInv
    OBVIOUS
  <1>1. SplitterTypeOK
    <2>1. 0 \in Count
      BY SplitterAssumption DEF Count
    <2>2. Zero \in [Asset -> Count] /\ Zero \in [Asset -> Nat] /\ ZeroEach \in [Asset -> [Side -> Count]]
      BY <2>1 DEF Zero, ZeroEach
    <2> QED
      BY <2>2, SplitterAssumption DEF SplitterInit, SplitterTypeOK
  <1>2. SidesAreEqual
    BY DEF SplitterInit, SidesAreEqual, Zero, ZeroEach
  <1> QED
    BY <1>1, <1>2 DEF SplitterInit, IInv, Unstarted, Solvent, NothingIsLost, RecipientsDiffer

\* What SplitterTypeOK says of one asset.
LEMMA Numbers ==
    ASSUME SplitterTypeOK, NEW a \in Asset
    PROVE  /\ balance[a] \in Nat /\ balance[a] <= MaxCount
           /\ \A s \in Side : owed[a][s] \in Nat /\ paid[a][s] \in Nat
           /\ allocated_each[a] \in Nat
           /\ donated[a] \in Nat
           /\ reserved(a) \in Nat
           /\ MaxCount \in Nat
  BY SplitterAssumption DEF SplitterTypeOK, Count, reserved

\* Money that arrives is uncommitted (Donate).
LEMMA DonateOK ==
    ASSUME IInv, NEW a \in Asset, NEW n \in Tip, Donate(a, n)
    PROVE  IInv'
  <1> USE SplitterAssumption
  <1>1. n \in Nat /\ balance[a] \in Nat /\ donated[a] \in Nat
    BY Numbers DEF IInv
  <1>2. SplitterTypeOK'
    <2>1. balance[a] + n \in Count
      BY <1>1 DEF Donate, NoOverflow, Count
    <2> QED
      BY <1>1, <2>1 DEF IInv, SplitterTypeOK, Donate, ledgerVars
  <1>3. \A x \in Asset : balance'[x] >= balance[x] /\ balance'[x] - balance[x] = donated'[x] - donated[x]
    BY <1>1, Numbers DEF IInv, SplitterTypeOK, Donate
  <1>4. Solvent'
    <2> SUFFICES ASSUME live', NEW x \in Asset PROVE committed(x)' <= balance'[x]
      BY DEF Solvent
    <2>1. committed(x)' = committed(x) /\ committed(x) <= balance[x]
      BY DEF committed, Donate, ledgerVars, IInv, Solvent, reserved
    <2>2. committed(x) \in Nat
      BY Numbers, Names DEF committed, IInv
    <2>3. balance[x] \in Nat /\ balance'[x] \in Nat
      BY <1>2, Numbers DEF IInv, SplitterTypeOK, Count
    <2> QED
      BY <1>3, <2>1, <2>2, <2>3
  <1>5. NothingIsLost'
    <2> SUFFICES ASSUME live', NEW x \in Asset
                 PROVE  balance'[x] + paid'[x]["A"] + paid'[x]["B"] = reserved(x) + donated'[x]
      BY DEF NothingIsLost, reserved
    <2>1. balance[x] + paid[x]["A"] + paid[x]["B"] = reserved(x) + donated[x]
      BY DEF IInv, NothingIsLost, Donate
    <2>2. balance'[x] \in Nat /\ donated'[x] \in Nat
      BY <1>2, SplitterAssumption DEF SplitterTypeOK, Count
    <2> QED
      BY <1>3, <2>1, <2>2, Numbers, Names DEF IInv, Donate, ledgerVars
  <1>6. Unstarted'
    BY DEF IInv, SplitterTypeOK, Unstarted, Donate, ledgerVars
  <1> QED
    BY <1>2, <1>4, <1>5, <1>6 DEF IInv, Donate, ledgerVars, SidesAreEqual, RecipientsDiffer

\* The vault starts with its rent and what was sent to it before (initialize).
LEMMA InitializeOK ==
    ASSUME IInv, initialize
    PROVE  IInv'
  <1> USE SplitterAssumption
  <1>0. balance["SOL"] \in Nat /\ balance["SOL"] <= MaxCount /\ Rent \in Nat /\ Rent <= MaxCount
    BY Numbers, Names DEF IInv, Count
  <1>1. SplitterTypeOK'
    <2> DEFINE held == IF balance["SOL"] < Rent THEN Rent ELSE balance["SOL"]
    <2> DEFINE sent == IF balance["SOL"] < Rent THEN 0 ELSE balance["SOL"] - Rent
    <2>1. held \in Count /\ sent \in Nat
      BY <1>0 DEF Count
    <2> QED
      BY <2>1 DEF IInv, SplitterTypeOK, initialize, ledgerVars
  <1>2. owed = ZeroEach /\ paid = ZeroEach /\ allocated_each = Zero
    BY DEF IInv, Unstarted, initialize
  <1>3. \A x \in Asset : /\ reserved(x) + donated'[x] = balance'[x]
                         /\ balance'[x] \in Nat /\ reserved(x) \in Nat /\ reserved(x) <= balance'[x]
    <2> SUFFICES ASSUME NEW x \in Asset
                 PROVE  /\ reserved(x) + donated'[x] = balance'[x]
                        /\ balance'[x] \in Nat /\ reserved(x) \in Nat /\ reserved(x) <= balance'[x]
      OBVIOUS
    <2>1. CASE x = "SOL"
      BY <1>0, <2>1 DEF IInv, SplitterTypeOK, initialize, reserved
    <2>2. CASE x = "USDC"
      <3>1. balance'[x] = balance[x] /\ donated'[x] = donated[x] /\ reserved(x) = 0
        BY <2>2 DEF IInv, SplitterTypeOK, initialize, reserved
      <3> QED
        BY <3>1, Numbers DEF IInv, Unstarted, initialize
    <2> QED
      BY <2>1, <2>2 DEF Asset
  <1>4. SidesAreEqual'
    BY DEF IInv, SidesAreEqual, initialize, ledgerVars
  <1>5. Solvent'
    <2> SUFFICES ASSUME NEW x \in Asset PROVE committed(x)' <= balance'[x]
      BY DEF Solvent
    <2>1. committed(x)' = reserved(x) + 0 + 0
      BY <1>2 DEF committed, initialize, ledgerVars, ZeroEach, Side, reserved
    <2> QED
      BY <2>1, <1>3
  <1>6. NothingIsLost'
    <2> SUFFICES ASSUME NEW x \in Asset
                 PROVE  balance'[x] + paid'[x]["A"] + paid'[x]["B"] = reserved(x) + donated'[x]
      BY DEF NothingIsLost, reserved
    <2>1. paid'[x]["A"] = 0 /\ paid'[x]["B"] = 0
      BY <1>2 DEF initialize, ledgerVars, ZeroEach, Side
    <2> QED
      BY <2>1, <1>3
  <1> QED
    BY <1>1, <1>4, <1>5, <1>6 DEF IInv, Unstarted, RecipientsDiffer, initialize

\* Both sides are promised the same half of what is not committed yet (allocate).
LEMMA AllocateOK ==
    ASSUME IInv, NEW a \in Asset, allocate(a)
    PROVE  IInv'
  <1> DEFINE h == Share(a)
  <1>1. balance[a] - committed(a) \in Nat /\ committed(a) \in Nat
    BY Numbers, Names DEF IInv, committed, allocate
  <1>2. h \in Nat /\ 2 * h <= balance[a] - committed(a)
    BY <1>1, HalfTwice DEF Share
  <1> HIDE DEF h
  <1>3. \A s \in Side : owed'[a][s] = owed[a][s] + h
    BY DEF IInv, SplitterTypeOK, allocate, OwedMore, h
  <1>4. allocated_each'[a] = allocated_each[a] + h
    BY DEF IInv, SplitterTypeOK, allocate, h
  <1>5. \A x \in Asset \ {a} : owed'[x] = owed[x] /\ allocated_each'[x] = allocated_each[x]
    BY DEF IInv, SplitterTypeOK, allocate
  <1>6. SplitterTypeOK'
    <2>1. allocated_each[a] + h \in Count
      BY <1>2, Numbers DEF IInv, allocate, NoOverflow, Count, h
    <2>2. [s \in Side |-> OwedMore(a, s)] \in [Side -> Count]
      BY <1>2, Numbers DEF IInv, allocate, NoOverflow, Count, OwedMore, h
    <2> QED
      BY <2>1, <2>2 DEF IInv, SplitterTypeOK, allocate, h
  <1>7. Solvent'
    <2> SUFFICES ASSUME NEW x \in Asset PROVE committed(x)' <= balance'[x]
      BY DEF Solvent
    <2>1. CASE x = a
      <3>1. committed(a)' = committed(a) + 2 * h
        BY <1>2, <1>3, Names, Numbers DEF IInv, committed, reserved
      <3>2. committed(a) + 2 * h <= balance[a]
        BY <1>1, <1>2, Numbers DEF IInv
      <3> QED
        BY <2>1, <3>1, <3>2 DEF allocate
    <2>2. CASE x # a
      BY <2>2, <1>5 DEF IInv, Solvent, committed, allocate, reserved
    <2> QED
      BY <2>1, <2>2
  <1>8. SidesAreEqual'
    <2> SUFFICES ASSUME NEW x \in Asset, NEW s \in Side
                 PROVE  owed'[x][s] + paid'[x][s] = allocated_each'[x]
      BY DEF SidesAreEqual
    <2>1. owed[x][s] + paid[x][s] = allocated_each[x] /\ paid'[x][s] = paid[x][s]
      BY DEF IInv, SidesAreEqual, allocate
    <2>2. CASE x = a
      BY <1>2, <1>3, <1>4, <2>1, <2>2, Numbers DEF IInv
    <2>3. CASE x # a
      BY <1>5, <2>1, <2>3
    <2> QED
      BY <2>2, <2>3
  <1> QED
    BY <1>6, <1>7, <1>8 DEF IInv, allocate, Unstarted, NothingIsLost, RecipientsDiffer, reserved

\* A side takes what it is owed, and leaves the rent and the other side's (pay).
LEMMA PayOK ==
    ASSUME IInv, NEW a \in Asset, NEW s \in Side, pay(a, s)
    PROVE  IInv'
  <1> DEFINE o == Other(s)
  <1> DEFINE n == owed[a][s]
  <1>0. o \in Side /\ o # s /\ Side = {s, o} /\ ((s = "A" /\ o = "B") \/ (s = "B" /\ o = "A"))
    BY DEF Other, Side
  <1> HIDE DEF o
  <1>1. /\ n \in Nat /\ balance[a] \in Nat /\ n <= balance[a]
        /\ owed[a][o] \in Nat /\ paid[a][s] \in Nat /\ paid[a][o] \in Nat
    BY <1>0, Numbers DEF IInv, pay
  <1>2. /\ owed'[a][s] = 0 /\ owed'[a][o] = owed[a][o]
        /\ paid'[a][s] = paid[a][s] + n /\ paid'[a][o] = paid[a][o]
        /\ balance'[a] = balance[a] - n
    BY <1>0 DEF IInv, SplitterTypeOK, pay, take_owed, BalanceLess
  <1>3. \A x \in Asset \ {a} : owed'[x] = owed[x] /\ paid'[x] = paid[x] /\ balance'[x] = balance[x]
    BY DEF IInv, SplitterTypeOK, pay, take_owed
  <1>4. SplitterTypeOK'
    <2>1. balance[a] - n \in Count /\ 0 \in Count /\ paid[a][s] + n \in Count
      BY <1>1, Numbers DEF IInv, pay, take_owed, NoOverflow, Count
    <2>2. [t \in Side |-> IF t = s THEN 0 ELSE owed[a][t]] \in [Side -> Count]
      BY <2>1 DEF IInv, SplitterTypeOK
    <2>3. [t \in Side |-> IF t = s THEN paid[a][t] + owed[a][t] ELSE paid[a][t]] \in [Side -> Count]
      BY <2>1 DEF IInv, SplitterTypeOK
    <2> QED
      BY <2>1, <2>2, <2>3 DEF IInv, SplitterTypeOK, pay, take_owed, BalanceLess
  <1>5. Solvent'
    <2> SUFFICES ASSUME NEW x \in Asset PROVE committed(x)' <= balance'[x]
      BY DEF Solvent
    <2>1. CASE x = a
      <3>1. committed(a)' = reserved(a) + owed[a][o]
        BY <1>0, <1>1, <1>2, Numbers DEF IInv, committed, reserved
      <3> QED
        BY <2>1, <3>1, <1>2 DEF pay, take_owed, BalanceLess, o
    <2>2. CASE x # a
      BY <2>2, <1>3 DEF IInv, Solvent, committed, pay, reserved
    <2> QED
      BY <2>1, <2>2
  <1>6. SidesAreEqual'
    <2> SUFFICES ASSUME NEW x \in Asset, NEW t \in Side
                 PROVE  owed'[x][t] + paid'[x][t] = allocated_each'[x]
      BY DEF SidesAreEqual
    <2>1. owed[x][t] + paid[x][t] = allocated_each[x] /\ allocated_each'[x] = allocated_each[x]
      BY DEF IInv, SidesAreEqual, pay
    <2>2. CASE x = a /\ t = s
      BY <1>1, <1>2, <2>1, <2>2
    <2>3. CASE x = a /\ t = o
      BY <1>1, <1>2, <2>1, <2>3
    <2>4. CASE x # a
      BY <1>3, <2>1, <2>4
    <2> QED
      BY <1>0, <2>2, <2>3, <2>4
  <1>7. NothingIsLost'
    <2> SUFFICES ASSUME NEW x \in Asset
                 PROVE  balance'[x] + paid'[x]["A"] + paid'[x]["B"] = reserved(x) + donated'[x]
      BY DEF NothingIsLost, reserved
    <2>1. balance[x] + paid[x]["A"] + paid[x]["B"] = reserved(x) + donated[x] /\ donated' = donated
      BY DEF IInv, NothingIsLost, pay
    <2>2. CASE x = a
      <3>1. balance'[a] + paid'[a]["A"] + paid'[a]["B"] = balance[a] + paid[a]["A"] + paid[a]["B"]
        BY <1>0, <1>1, <1>2
      <3> QED
        BY <2>1, <2>2, <3>1
    <2>3. CASE x # a
      BY <1>3, <2>1, <2>3
    <2> QED
      BY <2>2, <2>3
  <1> QED
    BY <1>4, <1>5, <1>6, <1>7 DEF IInv, pay, Unstarted, RecipientsDiffer

\* A new wallet differs from the other side's (rotate_recipient).
LEMMA RotateOK ==
    ASSUME IInv, NEW s \in Side, NEW new \in Wallet, rotate_recipient(s, new)
    PROVE  IInv'
  <1>1. SplitterTypeOK'
    BY DEF IInv, SplitterTypeOK, rotate_recipient, ledgerVars
  <1>2. RecipientsDiffer'
    BY DEF IInv, SplitterTypeOK, RecipientsDiffer, rotate_recipient, MayRotate, Other, Side
  <1> QED
    BY <1>1, <1>2 DEF IInv, rotate_recipient, ledgerVars, Unstarted, Solvent, SidesAreEqual,
        NothingIsLost, committed, reserved

\* The invariant is inductive.
THEOREM Inductive == SplitterSpec => []IInv
  <1>1. IInv /\ [SplitterNext]_splitterVars => IInv'
    <2> SUFFICES ASSUME IInv, [SplitterNext]_splitterVars PROVE IInv'
      OBVIOUS
    <2>1. CASE initialize
      BY <2>1, InitializeOK
    <2>2. CASE \E a \in Asset, n \in Tip : Donate(a, n)
      BY <2>2, DonateOK
    <2>3. CASE \E a \in Asset : allocate(a)
      BY <2>3, AllocateOK
    <2>4. CASE \E a \in Asset, s \in Side : pay(a, s)
      BY <2>4, PayOK
    <2>5. CASE \E s \in Side, new \in Wallet : rotate_recipient(s, new)
      BY <2>5, RotateOK
    <2>6. CASE UNCHANGED splitterVars
      BY <2>6 DEF splitterVars, IInv, SplitterTypeOK, Unstarted, Solvent, SidesAreEqual, NothingIsLost,
          RecipientsDiffer, committed, reserved
    <2> QED
      BY <2>1, <2>2, <2>3, <2>4, <2>5, <2>6 DEF SplitterNext
  <1> QED
    BY <1>1, InitOK, PTL DEF SplitterSpec

\* The vault always holds its rent and all it owes (allocate, pay_sol, pay_usdc).
THEOREM VaultIsSolvent == SplitterSpec => []Solvent
  BY Inductive, PTL DEF IInv

\* Both sides are promised the same, whatever the order of payouts.
THEOREM SidesStayEqual == SplitterSpec => []SidesAreEqual
  BY Inductive, PTL DEF IInv

\* Every donated unit is in the vault or was paid out.
THEOREM MoneyIsConserved == SplitterSpec => []NothingIsLost
  BY Inductive, PTL DEF IInv

\* The vault, its counters and what was paid out are one set of books.
THEOREM BooksAlwaysBalance == SplitterSpec => []BooksBalance
  BY Inductive, PTL DEF IInv, BooksBalance

\* The two sides never share a wallet.
THEOREM WalletsDiffer == SplitterSpec => []RecipientsDiffer
  BY Inductive, PTL DEF IInv

\* No counter leaves its 64 bits.
THEOREM CountersFit == SplitterSpec => []SplitterTypeOK
  BY Inductive, PTL DEF IInv

\* No side ever received more than half of what was donated, rounding included.
HalfAtMost == live => \A a \in Asset, s \in Side : 2 * paid[a][s] <= donated[a]

\* What the split means to a donor, from the three invariants on the ledger.
THEOREM NoSideExceedsHalf == SplitterSpec => []HalfAtMost
  <1>1. IInv => HalfAtMost
    <2> SUFFICES ASSUME IInv, live, NEW a \in Asset, NEW s \in Side
                 PROVE  2 * paid[a][s] <= donated[a]
      BY DEF HalfAtMost
    <2> DEFINE o == Other(s)
    <2>1. o \in Side /\ ((s = "A" /\ o = "B") \/ (s = "B" /\ o = "A"))
      BY DEF Other, Side
    <2> HIDE DEF o
    <2>2. /\ owed[a][s] + paid[a][s] = allocated_each[a]
          /\ owed[a][o] + paid[a][o] = allocated_each[a]
      BY <2>1 DEF IInv, SidesAreEqual
    <2>3. reserved(a) + owed[a][s] + owed[a][o] <= balance[a]
      BY <2>1, Numbers, Names DEF IInv, Solvent, committed
    <2>4. balance[a] + paid[a][s] + paid[a][o] = reserved(a) + donated[a]
      BY <2>1, Numbers, Names DEF IInv, NothingIsLost
    <2>5. /\ owed[a][s] \in Nat /\ paid[a][s] \in Nat /\ owed[a][o] \in Nat /\ paid[a][o] \in Nat
          /\ balance[a] \in Nat /\ donated[a] \in Nat /\ reserved(a) \in Nat
      BY <2>1, Numbers DEF IInv
    <2> QED
      BY <2>2, <2>3, <2>4, <2>5
  <1> QED
    BY <1>1, Inductive, PTL
=============================================================================
