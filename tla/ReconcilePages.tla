--------------------------- MODULE ReconcilePages ---------------------------
(***************************************************************************)
(* The reconcile pass of the webhook dispatcher (webhooks/dispatch.rs       *)
(* reconcile): newest first through the confirmed payments of the lookback  *)
(* window, then through its confirmed transactions, each page ending where  *)
(* the next begins, writing the events that are missing.  A page comes from *)
(* one of two stores: page_with_ties (memory; Postgres does the same in     *)
(* SQL) or confirmedPage of convex/webhooks.ts, which stops after `SCAN`    *)
(* rows.  The deadline, or a storage call that fails, ends a pass early;    *)
(* the next one starts over.                                                *)
(***************************************************************************)
EXTENDS Integers, FiniteSets

CONSTANTS Payment, Transaction, \* numbers
          Store, LIMIT, SCAN, Since, Now,
          MaxFaults   \* bound on deadlines met and storage calls that fail

Time == 0..Now
Row == Payment \cup Transaction

VARIABLES
    updated,    \* updated_at_ms of each row
    confirmed,  \* the rows that read `confirmed`
    store,      \* the store behind the backend
    phase,      \* "payments", then "transactions", then "done"
    before,     \* where the next page begins
    told,       \* rows whose event exists
    counted,    \* rows the pass counts in without_owner
    complete,   \* what the finished pass reports
    cut,        \* history: a scan stopped before its page was finished
    missed,     \* history: rows due and unwritten that a complete pass did not count
    faults

vars == <<updated, confirmed, store, phase, before, told, counted, complete, cut, missed, faults>>

Rows == IF phase = "payments" THEN Payment ELSE Transaction
Window(rows) == {p \in rows : updated[p] >= Since /\ updated[p] < before}
Oldest(rows) == CHOOSE t \in Time :
    (\E p \in rows : updated[p] = t) /\ \A p \in rows : updated[p] >= t

\* The first n rows of `rows`, newest first, ties in any order.
Newest(rows, n) ==
    {k \in SUBSET rows :
        /\ Cardinality(k) = IF n < Cardinality(rows) THEN n ELSE Cardinality(rows)
        /\ \A p \in k, q \in rows \ k : updated[p] >= updated[q]}

page_with_ties(rows) ==
    {{p \in rows : k # {} => updated[p] >= Oldest(k)} : k \in Newest(rows, LIMIT)}

\* The scan meets unconfirmed rows too, and reads SCAN rows of them all.
confirmedPage == {<<page_with_ties(k \cap confirmed), k>> : k \in Newest(Window(Rows), SCAN)}

\* Rows were left unread, and none that was read is older than a full page.
Truncated(page, scanned) ==
    /\ scanned # Window(Rows)
    /\ \/ Cardinality(page) < LIMIT
       \/ \A p \in scanned : updated[p] >= Oldest(page)

\* The pages the store may answer with, and whether the scan was cut short.
Pages ==
    IF store = "convex"
    THEN UNION {{<<page, Truncated(page, c[2])>> : page \in c[1]} : c \in confirmedPage}
    ELSE {<<page, FALSE>> : page \in page_with_ties(Window(Rows \cap confirmed))}

\* What a pass is for.
Due == {p \in confirmed : updated[p] >= Since}

Started == phase = "payments" /\ before = Now + 1 /\ counted = {} /\ complete = FALSE

\* Payments are numbered newest first; nothing else tells them apart.
Init ==
    /\ updated \in [Row -> Time] /\ \A p \in Transaction : updated[p] = Now
    /\ \A p, q \in Payment : p < q => updated[p] >= updated[q]
    /\ confirmed \in {Transaction \cup k : k \in SUBSET Payment}
    /\ store \in Store
    /\ told = {} /\ cut = FALSE /\ missed = {} /\ faults = 0
    /\ Started

\* No payment is confirmed yet.
AtRest ==
    /\ updated = [p \in Row |-> 0]
    /\ confirmed = {}
    /\ store = "memory"
    /\ told = {} /\ cut = FALSE /\ missed = {} /\ faults = 0
    /\ Started

Fails(n) == faults + n <= MaxFaults /\ faults' = faults + n

\* One turn of either loop: a page is read and its missing events are written, but
\* for the rows whose owner cannot be read (`lost`).  An empty page ends the loop.
Turn ==
    /\ phase # "done"
    /\ \E answer \in Pages, lost \in SUBSET Rows :
          LET page == answer[1]
          IN /\ lost \subseteq page \ told
             /\ Fails(Cardinality(lost))
             /\ told' = told \cup (page \ lost)
             /\ counted' = counted \cup lost
             /\ cut' = (cut \/ answer[2])
             /\ phase' = CASE page # {} -> phase
                           [] page = {} /\ phase = "payments" -> "transactions"
                           [] OTHER -> "done"
             /\ before' = IF page = {} THEN Now + 1 ELSE Oldest(page)
             /\ complete' = (phase' = "done")
             /\ missed' = IF complete' /\ ~cut' THEN missed \cup (Due \ (told' \cup counted'))
                          ELSE missed
    /\ UNCHANGED <<updated, confirmed, store>>

\* The deadline has passed, or a page, the missing events or the write fail: the pass
\* ends incomplete.  Payments are written a page at a time, transactions one by one.
GiveUp ==
    /\ phase # "done"
    /\ Fails(1)
    /\ \E answer \in Pages, written \in SUBSET Rows :
          /\ written \subseteq answer[1]
          /\ phase = "payments" => written = {}
          /\ told' = told \cup written
    /\ phase' = "done" /\ complete' = FALSE
    /\ UNCHANGED <<updated, confirmed, store, before, counted, cut, missed>>

\* The cron calls the dispatcher again.
Again ==
    /\ phase = "done"
    /\ phase' = "payments" /\ before' = Now + 1
    /\ counted' = {} /\ complete' = FALSE
    /\ UNCHANGED <<updated, confirmed, store, told, cut, missed, faults>>

\* What the cron and the pass do by themselves.
GoesOn == Turn \/ Again

Next == GoesOn \/ GiveUp

Spec == Init /\ [][Next]_vars /\ WF_vars(GoesOn)

-----------------------------------------------------------------------------
(* Properties.                                                              *)

=============================================================================
