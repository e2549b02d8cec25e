---------------------------- MODULE CardRecovery ----------------------------
(***************************************************************************)
(* Losing and restoring a card's private state: encrypted snapshots         *)
(* (reconcile.rs), detection and freezing by the reconcile job, the report  *)
(* the owner reviews, the co-signed restore, the replay of issuer events    *)
(* and the owner's confirmation (recovery.rs, routes.rs restore).           *)
(*                                                                         *)
(* A movement is a purchase or a repayment of one cent: it reaches the      *)
(* rollup, is booked with a stamp (a posting, or a discharged statement),   *)
(* and its row is marked applied, in this order.  Holds are left out.       *)
(***************************************************************************)
EXTENDS Integers, Sequences, FiniteSets

CONSTANTS
    Movement,      \* what the issuer or the partner reports
    NoDigest,
    MaxLosses,     \* bound on the rollbacks of the rollup
    MaxRestores,   \* bound on the restores co-signed
    MaxSnaps,      \* bounds: the snapshots stored, and the faults: calls that fail, passes
    MaxFaults      \* that die, or alarms; a scene with faults has a snapshot less

VARIABLES
    scene,
    per,        \* the card on the rollup: ledger, counters, rings, recovery state
    saved,      \* the state the rollup would come back with
    pass,       \* per movement: where the pass applying it is
    posted,     \* the movements that are booked
    applied,    \* the movements whose row says applied
    snaps,      \* the stored snapshots, with what was booked after their stamp
    snap,       \* a snapshot being taken
    rec,        \* the card row: recovery state, digest, freezes
    issuer,     \* the issuer's card
    chk,        \* a visit of recovery.rs check
    mirror,     \* unfreeze_mirror has read a card that is not frozen
    cosigned,   \* the restores handed out
    losses, faults,
    spared,     \* history: movements a snapshot or a report met half done, or that a
                \* snapshot of a lost card or a late restore left out
    reopened,   \* history: the issuer was asked to open a card that is or goes in recovery
    relapsed    \* history: a restored card was lost again

recVars == <<scene, per, saved, pass, posted, applied, snaps, snap, rec, issuer, chk,
             mirror, reopened, cosigned, losses, faults, spared, relapsed>>
ownVars == <<mirror, reopened, cosigned>>
histVars == <<spared, relapsed>>
bookVars == <<pass, posted, applied>>

NoSnap == [pc |-> "idle", led |-> <<>>, count |-> [e \in Movement |-> 0]]
NoCheck == [pc |-> "idle", loss |-> "", paused |-> FALSE, froze |-> ""]

InRecovery == {"recovery_frozen", "restore_prepared", "reconciled_pending_owner_confirm"}
in_recovery == rec.state \in InRecovery

Fault(kind) == kind = scene.fault /\ faults < MaxFaults /\ faults' = faults + 1
Entry(p, x) == [p EXCEPT !.led = Append(p.led, x)]

latest == CHOOSE s \in snaps : \A r \in snaps : Len(r.led) <= Len(s.led)

\* The owner is seen to reopen a card that has one movement.
Scenes ==
    [snaps : {MaxSnaps}, fault : {"none"}, moves : {Movement}, reopens : {FALSE}]
        \cup [snaps : {MaxSnaps - 1}, fault : {"call", "death"}, moves : {Movement},
              reopens : {FALSE}]
        \cup [snaps : {MaxSnaps - 1}, fault : {"call", "death", "alarm"},
              moves : {{CHOOSE e \in Movement : TRUE}}, reopens : {TRUE}]

Init ==
    /\ scene \in Scenes
    /\ per = [visible |-> TRUE, led |-> <<>>, count |-> [e \in Movement |-> 0], ring |-> {},
              recovery |-> 0, frozen |-> FALSE, digest |-> NoDigest]
    /\ saved = per
    /\ pass = [e \in Movement |-> "idle"]
    /\ posted = {}
    /\ applied = {}
    /\ snaps = {}
    /\ snap = NoSnap
    /\ rec = [state |-> "", digest |-> NoDigest, perFreeze |-> "", issuerFreeze |-> ""]
    /\ issuer = "OPEN"
    /\ chk = NoCheck
    /\ mirror = FALSE
    /\ reopened = FALSE
    /\ cosigned = {}
    /\ losses = 0
    /\ faults = 0
    /\ spared = {}
    /\ relapsed = FALSE

-----------------------------------------------------------------------------
(* Movements (events.rs apply_transaction, statements.rs discharge).        *)

\* The program counts an id once, as long as its ring remembers it.
Move(e) ==
    /\ pass[e] = "idle"
    /\ e \in scene.moves \ applied
    /\ per.visible
    /\ per' = IF e \in per.ring THEN per
              ELSE [Entry(per, e) EXCEPT !.count[e] = per.count[e] + 1,
                                         !.ring = per.ring \cup {e}]
    /\ pass' = [pass EXCEPT ![e] = "moved"]
    /\ UNCHANGED <<saved, posted, applied, snaps, snap, rec, issuer, chk, ownVars,
                   losses, faults, histVars>>

\* A posting is create-only: it keeps its first stamp.
Post(e) ==
    /\ pass[e] = "moved"
    /\ posted' = posted \cup {e}
    /\ snaps' = IF e \in posted THEN snaps
                ELSE {[s EXCEPT !.since = s.since \cup {e}] : s \in snaps}
    /\ pass' = [pass EXCEPT ![e] = "posted"]
    /\ UNCHANGED <<per, saved, applied, snap, rec, issuer, chk, ownVars, losses, faults,
                   histVars>>

Mark(e) ==
    /\ pass[e] = "posted"
    /\ applied' = applied \cup {e}
    /\ pass' = [pass EXCEPT ![e] = "idle"]
    /\ UNCHANGED <<per, saved, posted, snaps, snap, rec, issuer, chk, ownVars,
                   losses, faults, histVars>>

PassDies(e) ==
    /\ pass[e] # "idle"
    /\ Fault("death")
    /\ pass' = [pass EXCEPT ![e] = "idle"]
    /\ UNCHANGED <<per, saved, posted, applied, snaps, snap, rec, issuer, chk,
                   ownVars, losses, histVars>>

\* On the rollup or in the books, and not yet in the row, or in the other order.
HalfDone == {e \in Movement \ applied : pass[e] # "idle" \/ e \in posted \/ per.count[e] # 0}

-----------------------------------------------------------------------------
(* reconcile.rs snapshot.                                                   *)

snapshot ==
    /\ snap.pc = "idle"
    /\ Cardinality(snaps) < scene.snaps
    /\ per.visible
    /\ snap' = [pc |-> "read", led |-> per.led, count |-> per.count]
    /\ spared' = spared \cup HalfDone
    /\ UNCHANGED <<per, saved, bookVars, snaps, rec, issuer, chk, ownVars, losses,
                   faults, relapsed>>

\* Stamped when it is built, and created under its ledger sequence.
StoreSnapshot ==
    /\ snap.pc = "read"
    /\ snaps' = IF \E s \in snaps : Len(s.led) = Len(snap.led) THEN snaps
                ELSE snaps \cup {[led |-> snap.led, count |-> snap.count, since |-> {}]}
    /\ snap' = NoSnap
    /\ spared' = spared \cup HalfDone \cup {e \in posted : snap.count[e] = 0}
    /\ UNCHANGED relapsed
    /\ UNCHANGED <<per, saved, bookVars, rec, issuer, chk, ownVars, losses, faults>>

-----------------------------------------------------------------------------
(* The rollup (external).                                                   *)

Commit ==
    /\ losses < MaxLosses
    /\ saved' = per
    /\ UNCHANGED <<per, bookVars, snaps, snap, rec, issuer, chk, ownVars, losses,
                   faults, histVars>>

\* After the last loss nothing comes back any more.
Lost ==
    /\ losses' = losses + 1
    /\ relapsed' = (relapsed \/ per.digest # NoDigest)
    /\ saved' = IF losses' = MaxLosses THEN NoDigest ELSE saved

\* It comes back with an older state, or does not show the account for a while.
Rollback ==
    /\ losses < MaxLosses
    /\ per' = saved
    /\ Lost
    /\ UNCHANGED <<bookVars, snaps, snap, rec, issuer, chk, ownVars, faults,
                   spared>>

Vanish ==
    /\ per.visible
    /\ losses < MaxLosses
    /\ per' = [saved EXCEPT !.visible = FALSE]
    /\ Lost
    /\ UNCHANGED <<bookVars, snaps, snap, rec, issuer, chk, ownVars, faults,
                   spared>>

Reappear ==
    /\ ~per.visible
    /\ per' = [per EXCEPT !.visible = TRUE]
    /\ UNCHANGED <<saved, bookVars, snaps, snap, rec, issuer, chk, ownVars, losses,
                   faults, histVars>>

-----------------------------------------------------------------------------
(* recovery.rs check, the first step of a card's reconciliation.            *)

\* Mutant: only a shorter ledger counts as lost.
ClassifyByLength ==
    CASE ~per.visible -> "state_not_visible"
      [] per.visible /\ per.recovery = 1 -> "recovery_frozen_on_chain"
      [] per.visible /\ per.recovery # 1 /\ snaps # {} /\ Len(per.led) < Len(latest.led)
             -> "ledger_regressed"
      [] OTHER -> ""
classify ==
    CASE ~per.visible -> "state_not_visible"
      [] per.visible /\ per.recovery = 1 -> "recovery_frozen_on_chain"
      [] per.visible /\ per.recovery # 1 /\ snaps # {} /\ Len(per.led) < Len(latest.led)
             -> "ledger_regressed"
      [] per.visible /\ per.recovery # 1 /\ snaps # {} /\ Len(per.led) = Len(latest.led)
             /\ per.led # latest.led -> "ledger_diverged"
      [] OTHER -> ""

Confirmed ==
    /\ per.visible
    /\ per.recovery = 0
    /\ rec.state = "reconciled_pending_owner_confirm"
    /\ rec.digest = per.digest

AlreadyHandled(loss) ==
    /\ in_recovery
    /\ \/ rec.perFreeze \in {"confirmed", "already"}
       \/ loss \in {"recovery_frozen_on_chain", "state_not_visible"}

\* A healthy card whose rollup is no longer attested counts as lost too.
Losses == {IF classify = "" THEN "attestation" ELSE classify}

check ==
    /\ chk.pc = "idle"
    /\ \/ /\ Confirmed
          /\ rec' = [rec EXCEPT !.state = "restored"]
          /\ UNCHANGED <<chk, faults>>
       \/ /\ ~Confirmed
          /\ ~(per.visible /\ per.recovery = 2)
          /\ \E loss \in Losses :
                /\ ~AlreadyHandled(loss)
                /\ IF loss = "attestation" THEN Fault("alarm") ELSE UNCHANGED faults
                /\ chk' = [NoCheck EXCEPT !.pc = "pause", !.loss = loss]
          /\ UNCHANGED rec
    /\ UNCHANGED <<per, saved, bookVars, snaps, snap, issuer, ownVars, losses,
                   histVars>>

\* The issuer first: this works even when the rollup is gone.
PauseIssuer ==
    /\ chk.pc = "pause"
    /\ \/ /\ issuer' = "PAUSED"
          /\ chk' = [chk EXCEPT !.pc = "freeze", !.paused = TRUE]
          /\ UNCHANGED faults
       \/ /\ Fault("call")
          /\ chk' = [chk EXCEPT !.pc = "freeze"]
          /\ UNCHANGED issuer
    /\ UNCHANGED <<per, saved, bookVars, snaps, snap, rec, ownVars, losses, histVars>>

FreezeAs(froze) == chk' = [chk EXCEPT !.pc = "write", !.froze = froze]
RecoveryFrozen(p) == [Entry(p, "recovery_freeze") EXCEPT !.recovery = 1, !.frozen = TRUE]

FreezePer ==
    /\ chk.pc = "freeze"
    /\ \/ /\ chk.loss = "recovery_frozen_on_chain"
          /\ FreezeAs("already")
          /\ UNCHANGED <<per, faults>>
       \/ /\ chk.loss # "recovery_frozen_on_chain"
          /\ per.visible
          /\ per' = RecoveryFrozen(per)
          /\ FreezeAs("confirmed")
          /\ UNCHANGED faults
       \/ /\ chk.loss # "recovery_frozen_on_chain"
          /\ per.visible
          /\ Fault("call")
          /\ per' = RecoveryFrozen(per)
          /\ FreezeAs("unknown")
       \/ /\ chk.loss # "recovery_frozen_on_chain"
          /\ \/ ~per.visible /\ UNCHANGED faults
             \/ per.visible /\ Fault("call")
          /\ FreezeAs("failed")
          /\ UNCHANGED per
    /\ UNCHANGED <<saved, bookVars, snaps, snap, rec, issuer, ownVars, losses, histVars>>

WriteRecovery ==
    /\ chk.pc = "write"
    /\ rec' = [state |-> "recovery_frozen", digest |-> NoDigest, perFreeze |-> chk.froze,
               issuerFreeze |-> IF chk.paused THEN "confirmed" ELSE "PAUSED"]
    /\ chk' = NoCheck
    /\ UNCHANGED <<per, saved, bookVars, snaps, snap, issuer, ownVars, losses, faults,
                   histVars>>

\* The process ends between two of these steps.
CheckDies ==
    /\ chk.pc # "idle"
    /\ Fault("death")
    /\ chk' = NoCheck
    /\ UNCHANGED <<per, saved, bookVars, snaps, snap, rec, issuer, ownVars, losses,
                   histVars>>

\* reconcile_card: an issuer state that was wanted and not acknowledged is driven
\* again.
RedriveFreeze ==
    /\ rec.issuerFreeze \in {"PAUSED", "OPEN"}
    /\ issuer' = rec.issuerFreeze
    /\ rec' = [rec EXCEPT !.issuerFreeze = "confirmed"]
    /\ UNCHANGED <<per, saved, bookVars, snaps, snap, chk, ownVars, losses, faults,
                   histVars>>

-----------------------------------------------------------------------------
(* routes.rs restore, reconcile_after_restore, and the owner's signatures.  *)

\* Mutant: every posting counts, whenever it was booked.
AllPostings(s) == [e \in Movement |-> s.count[e] + IF e \in posted THEN 1 ELSE 0]
restored_numbers(s) ==
    [e \in Movement |-> s.count[e] + IF e \in s.since THEN 1 ELSE 0]

Digest == [led |-> latest.led, count |-> restored_numbers(latest)]

MayRestore ==
    IF per.visible THEN per.recovery = 1 ELSE rec.state \in {"recovery_frozen", "restore_prepared"}

\* The owner reviewed this very report (the first call returns it, the second
\* brings its digest): recorded, then handed out co-signed.
restore ==
    /\ MayRestore
    /\ snaps # {}
    /\ Cardinality(cosigned \cup {Digest}) <= MaxRestores
    /\ rec' = [rec EXCEPT !.state = "restore_prepared", !.digest = Digest]
    /\ cosigned' = cosigned \cup {Digest}
    /\ spared' = spared \cup HalfDone
    /\ UNCHANGED <<per, saved, bookVars, snaps, snap, issuer, chk, mirror, reopened, losses,
                   faults, relapsed>>

\* The owner signs and sends it; live rings stay as they are.
RestoreLands(d) ==
    /\ per.visible
    /\ per.recovery = 1
    /\ per' = [per EXCEPT !.led = Append(d.led, "restore"), !.count = d.count, !.recovery = 2,
                          !.frozen = TRUE, !.digest = d]
    /\ spared' = spared \cup {e \in HalfDone \cup posted : d.count[e] = 0}
    /\ relapsed' = FALSE
    /\ UNCHANGED <<saved, bookVars, snaps, snap, rec, issuer, chk, ownVars, losses,
                   faults>>

\* What the issuer lists since the snapshot is replayed, by passes like any other.
\* The list leaves out repayments and what the issuer knew before the snapshot, so no
\* movement is sure to have been applied.
reconcile_after_restore ==
    /\ per.visible
    /\ per.recovery = 2
    /\ rec.digest = per.digest
    /\ rec' = [rec EXCEPT !.state = "reconciled_pending_owner_confirm"]
    /\ UNCHANGED <<per, saved, bookVars, snaps, snap, issuer, chk, ownVars, losses,
                   faults, histVars>>

\* A visit of the cron takes seconds: the owner's review outlasts it.
OwnerTakesTime == chk.pc = "idle"

\* The owner's transaction comes from reconcile_after_restore.
ConfirmLands ==
    /\ OwnerTakesTime
    /\ per.visible
    /\ per.recovery = 2
    /\ rec.state = "reconciled_pending_owner_confirm"
    /\ rec.digest = per.digest
    /\ per' = [Entry(per, "confirm") EXCEPT !.recovery = 0]
    /\ UNCHANGED <<saved, bookVars, snaps, snap, rec, issuer, chk, ownVars, losses,
                   faults, histVars>>

Unfreeze ==
    /\ OwnerTakesTime
    /\ per.visible
    /\ per.recovery = 0
    /\ per.frozen
    /\ per' = [Entry(per, "unfreeze") EXCEPT !.frozen = FALSE]
    /\ UNCHANGED <<saved, bookVars, snaps, snap, rec, issuer, chk, ownVars, losses,
                   faults, histVars>>

\* unfreeze_mirror reads the card and reopens it at the issuer, or has the cron do so.
ReadUnfrozen ==
    /\ ~mirror /\ scene.reopens
    /\ issuer # "OPEN"
    /\ per.visible
    /\ per.recovery = 0
    /\ ~per.frozen
    /\ mirror' = TRUE
    /\ UNCHANGED <<per, saved, bookVars, snaps, snap, rec, issuer, chk, reopened, cosigned, losses,
                   faults, histVars>>

unfreeze_mirror ==
    /\ mirror
    /\ mirror' = FALSE
    /\ reopened' = (reopened \/ in_recovery \/ chk.pc # "idle")
    /\ \/ /\ issuer' = "OPEN"
          /\ rec' = [rec EXCEPT !.issuerFreeze = "confirmed"]
          /\ UNCHANGED faults
       \/ /\ Fault("call")
          /\ rec' = [rec EXCEPT !.issuerFreeze = "OPEN"]
          /\ UNCHANGED issuer
    /\ UNCHANGED <<per, saved, bookVars, snaps, snap, chk, cosigned, losses, histVars>>

\* The owner may sign recovery_freeze too.
OwnerFreezes ==
    /\ per.visible
    /\ Fault("alarm")
    /\ per' = RecoveryFrozen(per)
    /\ UNCHANGED <<saved, bookVars, snaps, snap, rec, issuer, chk, ownVars, losses,
                   histVars>>

-----------------------------------------------------------------------------
Next ==
    /\ \/ \E e \in Movement : Move(e) \/ Post(e) \/ Mark(e) \/ PassDies(e)
       \/ snapshot \/ StoreSnapshot
       \/ Commit \/ Rollback \/ Vanish \/ Reappear
       \/ check \/ PauseIssuer \/ FreezePer \/ WriteRecovery \/ CheckDies
       \/ RedriveFreeze \/ restore \/ reconcile_after_restore \/ ConfirmLands \/ Unfreeze
       \/ ReadUnfrozen \/ unfreeze_mirror \/ OwnerFreezes
       \/ \E d \in cosigned : RestoreLands(d)
    /\ UNCHANGED scene

\* The cron visits the card again and again; calls that keep failing are bounded.
Fairness ==
    /\ WF_recVars(check /\ UNCHANGED scene)
    /\ WF_recVars(PauseIssuer /\ UNCHANGED scene)
    /\ WF_recVars(FreezePer /\ UNCHANGED scene)
    /\ WF_recVars(WriteRecovery /\ UNCHANGED scene)
    /\ WF_recVars(RedriveFreeze /\ UNCHANGED scene)

Spec == Init /\ [][Next]_recVars /\ Fairness

-----------------------------------------------------------------------------
(* Properties.                                                              *)

Recovered == rec.state = "restored" /\ per.visible /\ per.recovery = 0 /\ ~relapsed

\* Once the owner has confirmed a restore, unless the card was lost again, it
\* counts every booked movement exactly once, whether the rollup had lost it or not
\* (restored_numbers).  Not claimed of a movement that a snapshot or the report met
\* half done, nor of the two the code really loses: one booked before a snapshot was
\* taken of the rolled-back card, and one that moved between the report and the
\* landing of its restore (`spared`).
RecoveryKeepsDebt ==
    Recovered => \A e \in applied \ spared : per.count[e] = 1

Behind ==
    /\ per.visible
    /\ snaps # {}
    /\ Len(per.led) <= Len(latest.led)
    /\ per.led # latest.led

\* A rollup that stays behind the last snapshot is contained: the cron pauses
\* the card at the issuer or freezes it, whatever calls fail meanwhile
\* (recovery.rs check, reconcile_card).  Not claimed once the owner had the issuer
\* open a card that was or went in recovery, which takes a rollback that undid the
\* freeze itself: the row says that it is frozen, and the cron leaves it alone (AlreadyHandled).
LossIsContained == []<>(~Behind \/ issuer = "PAUSED" \/ per.frozen \/ reopened)
=============================================================================
