--------------------------- MODULE CardActivation ---------------------------
(***************************************************************************)
(* Activation of a card: the durable, resumable operation that copies the   *)
(* policy's limits to the issuer, publishes a commitment on the base layer  *)
(* and opens the issuer card (backend card_issuer/activation.rs), with the  *)
(* checkpoint, freeze and unfreeze routes (routes.rs) and the reconcile     *)
(* phases that finish what they left (reconcile.rs).                        *)
(*                                                                          *)
(* Every call in flight is a worker with a program counter, so the steps of *)
(* a request, a retry, the cron and a freeze interleave between any two     *)
(* awaits, and a worker may die at any of them.  `update_card` is a         *)
(* compare-and-swap of the card row: one atomic write of the fields it      *)
(* names, computed from what the worker read earlier.                       *)
(***************************************************************************)
EXTENDS Naturals, FiniteSets

CONSTANTS Request, Cron, \* calls in flight: of the owner, of the reconcile cron
          NoSalt,      \* no salt row
          MaxSeq,      \* bound on checkpoints
          MaxMirrors,  \* bound on mirrors sent to the issuer
          Scenes       \* kinds of rules of each version, and bounds: versions, periods,
                       \* requests, freezes, stalls, faults, crashes

VARIABLES scene,    \* the bounds of this behaviour
          per,      \* the card on the private rollup: version, period, frozen, seq
          late,     \* checkpoint transactions whose outcome nobody saw
          acts,     \* base-layer writes the rollup scheduled
          base,     \* the public CardCommitment
          issuer,   \* the issuer's card: state, live rules
          salts,    \* seq -> the sealed salt row
          row,      \* the card row
          work,     \* the calls in flight
          used,     \* mirrors, requests, freezes, stalls, faults and crashes so far
          public    \* history: version -> the highest seq the base layer held for it

Worker == Request \cup Cron

vars == <<scene, per, late, acts, base, issuer, salts, row, work, used, public>>

NoCommitment == [seq |-> 0, version |-> 0, period |-> 0, salt |-> NoSalt]
NoRecord == [seq |-> 0, state |-> "none", version |-> 0, period |-> 0, overdue |-> FALSE]
RuleKind == {"merchant_lock", "mcc_allowlist"}
Idle == [pc |-> "idle", mode |-> "none", v |-> 0, fresh |-> FALSE, rules |-> {},
         retire |-> {}, made |-> {}, com |-> NoRecord, salt |-> NoSalt, open |-> FALSE]

Init ==
    /\ scene \in Scenes
    /\ per = [version |-> 1, period |-> 1, frozen |-> FALSE, seq |-> 0]
    /\ late = {} /\ acts = {} /\ base = NoCommitment
    /\ public = [v \in 1..scene.versions |-> 0]
    /\ issuer = [state |-> "PAUSED", rules |-> {}]
    /\ salts = [n \in 1..MaxSeq |-> NoSalt]
    /\ row = [version |-> 0, state |-> "none", mirrored |-> FALSE,
              mirror |-> [state |-> "pending", version |-> 0, rules |-> {}, retire |-> {}],
              com |-> NoRecord, due |-> FALSE, issuer |-> "PAUSED",
              freeze |-> [on |-> FALSE, chain |-> FALSE, issuer |-> "confirmed",
                          wanted |-> "PAUSED"]]
    /\ work = [w \in Worker |-> Idle]
    /\ used = [mirrors |-> 0, requests |-> 0, stalls |-> 0, faults |-> 0, crashes |-> 0, freezes |-> 0]

-----------------------------------------------------------------------------
(* Steps and faults.                                                        *)

At(w, pc) == work[w].pc = pc
Goto(w, pc) == work' = [work EXCEPT ![w] = IF pc = "idle" THEN Idle ELSE [@ EXCEPT !.pc = pc]]
\* What a worker still needs once a phase is over.
Kept(w, pc) == [Idle EXCEPT !.pc = pc, !.mode = work[w].mode, !.v = work[w].v]
\* The cron ends a card with the rules it could not retire.
Finish(w) ==
    work' = [work EXCEPT ![w] = IF @.mode \in {"cron", "repair"}
                                THEN [Idle EXCEPT !.pc = "rules"] ELSE Idle]
\* A call to the issuer or the rollup fails.
Fault == used.faults < scene.faults
Faulty(bad) == used' = [used EXCEPT !.faults = @ + IF bad THEN 1 ELSE 0]
SetState(state) == row' = [row EXCEPT !.state = state]

InProgress ==
    row.state \in {"mirroring", "mirror_failed", "pending_commitment", "issuer_pending", "held"}

\* Where a worker goes with a commitment that reads back confirmed, or not.
Onward(w, c) ==
    IF work[w].mode = "repair" THEN Finish(w)
    ELSE work' = [work EXCEPT ![w] =
                     Kept(w, IF c.state = "confirmed" /\ c.version = work[w].v
                             THEN "open" ELSE "after")]

-----------------------------------------------------------------------------
(* POST activate, and the cron's drive.                                     *)

\* One activation per policy version: a retry resumes the persisted one.
Resumes(v) == row.version = v /\ row.state # "superseded"

activate(w) ==
    /\ At(w, "idle")
    /\ work' = [work EXCEPT ![w] = [Idle EXCEPT !.pc = "accept", !.mode = "request",
                                                !.v = per.version, !.fresh = ~Resumes(per.version)]]
    /\ used.requests < scene.requests
    /\ used' = [used EXCEPT !.requests = @ + 1]
    /\ UNCHANGED <<scene, per, late, acts, base, issuer, salts, row, public>>

accept(w) ==
    /\ At(w, "accept")
    /\ row' = IF work[w].fresh
              THEN [row EXCEPT !.version = work[w].v, !.state = "mirroring", !.mirrored = FALSE]
              ELSE row
    /\ Goto(w, "load")
    /\ UNCHANGED <<scene, per, late, acts, base, issuer, salts, used, public>>

\* The reconcile pass drives an activation, else repairs the commitment, else
\* only retires rules.
repair_commitment_phase(w) ==
    /\ At(w, "idle")
    /\ \/ InProgress \/ row.due \/ (row.com.seq > 0 /\ row.com.state # "confirmed")
       \/ row.mirror.retire # {}
    /\ work' = [work EXCEPT ![w] =
                   IF InProgress THEN [Idle EXCEPT !.pc = "load", !.mode = "cron"]
                   ELSE IF row.due \/ (row.com.seq > 0 /\ row.com.state # "confirmed")
                        THEN [Idle EXCEPT !.pc = "repair", !.mode = "repair"]
                        ELSE [Idle EXCEPT !.pc = "rules", !.mode = "repair"]]
    /\ UNCHANGED <<scene, per, late, acts, base, issuer, salts, row, used, public>>

load(w) ==
    /\ At(w, "load")
    /\ IF row.state = "superseded" THEN Finish(w)
       ELSE work' = [work EXCEPT ![w].pc = "check", ![w].v = row.version,
                         ![w].rules = row.mirror.rules, ![w].retire = row.mirror.retire,
                         ![w].fresh = /\ row.mirrored
                                      /\ row.mirror.state = "acknowledged"
                                      /\ row.mirror.version = row.version]
    /\ UNCHANGED <<scene, per, late, acts, base, issuer, salts, row, used, public>>

check(w) ==
    /\ At(w, "check")
    /\ IF per.version # work[w].v
       THEN SetState("superseded") /\ Finish(w)
       ELSE /\ work' = [work EXCEPT ![w] = IF @.fresh THEN Kept(w, "ensure")
                                           ELSE [@ EXCEPT !.pc = "mirror"]]
            /\ UNCHANGED row
    /\ UNCHANGED <<scene, per, late, acts, base, issuer, salts, used, public>>

-----------------------------------------------------------------------------
(* Mirror: new rules first, the ones they replace after.                    *)

\* What the policy's lists ask of the issuer: a lock to the merchants the registry knows
\* and an allowlist of its categories, neither for an empty list.
Kinds(v) == scene.kinds[v]

\* The spend limit, then the rules, the lock first; a failure keeps what exists.
mirror_limits(w) ==
    /\ At(w, "mirror")
    /\ used.mirrors < MaxMirrors
    /\ \E kinds \in SUBSET Kinds(work[w].v), bad \in BOOLEAN :
          LET made == {[n |-> used.mirrors, kind |-> k, version |-> work[w].v] : k \in kinds}
          IN /\ IF bad THEN Fault /\ kinds # Kinds(work[w].v) /\ "mcc_allowlist" \notin kinds
                ELSE kinds = Kinds(work[w].v)
             /\ issuer' = [issuer EXCEPT !.rules = @ \cup made]
             /\ work' = [work EXCEPT ![w].made = made,
                                     ![w].pc = IF bad THEN "mirror_failed" ELSE "retire"]
             /\ used' = [used EXCEPT !.mirrors = @ + 1, !.faults = @ + IF bad THEN 1 ELSE 0]
    /\ UNCHANGED <<scene, per, late, acts, base, salts, row, public>>

\* Mutant: also the allowlists the issuer holds, this mirror's own included.
ReplacedByKind(w) == {r \in issuer.rules : r.kind = "mcc_allowlist"} \cup work[w].rules
\* The rules a mirror replaces: those of the row the worker loaded.
Replaced(w) == work[w].rules \ work[w].made

retire(w) ==
    /\ At(w, "retire")
    /\ \E gone \in {Replaced(w), {}} :
          /\ gone # Replaced(w) => Fault
          /\ issuer' = [issuer EXCEPT !.rules = @ \ gone]
          /\ work' = [work EXCEPT ![w].pc = "mirrored",
                                  ![w].retire = (@ \cup (Replaced(w) \ gone)) \ work[w].made]
          /\ Faulty(Replaced(w) # gone)
    /\ UNCHANGED <<scene, per, late, acts, base, salts, row, public>>

mirrored(w) ==
    /\ At(w, "mirrored")
    /\ row' = [row EXCEPT !.mirror = [state |-> "acknowledged", version |-> work[w].v,
                                      rules |-> work[w].made, retire |-> work[w].retire],
                          !.mirrored = TRUE, !.state = "pending_commitment"]
    /\ work' = [work EXCEPT ![w] = Kept(w, "ensure")]
    /\ UNCHANGED <<scene, per, late, acts, base, issuer, salts, used, public>>

mirror_failed(w) ==
    /\ At(w, "mirror_failed")
    /\ row' = [row EXCEPT !.mirror.state = "failed", !.mirror.version = work[w].v,
                          !.mirror.retire = work[w].retire \cup work[w].made,
                          !.mirrored = FALSE, !.state = "mirror_failed"]
    /\ work' = [work EXCEPT ![w] = Kept(w, "compensate")]
    /\ UNCHANGED <<scene, per, late, acts, base, issuer, salts, used, public>>

\* Pause a card that reads open or unreadable, then record what reads back.
compensate(w) ==
    /\ At(w, "compensate")
    /\ \E paused, readable \in BOOLEAN :
          /\ ~(paused /\ readable) => Fault
          /\ issuer' = [issuer EXCEPT !.state = IF paused THEN "PAUSED" ELSE @]
          /\ row' = [row EXCEPT !.issuer = IF readable THEN issuer'.state ELSE @]
          /\ Faulty(~(paused /\ readable))
    /\ Finish(w)
    /\ UNCHANGED <<scene, per, late, acts, base, salts, public>>

retry_rule_retirement(w) ==
    /\ At(w, "rules")
    /\ \E gone \in {row.mirror.retire, {}} :
          /\ gone # row.mirror.retire => Fault
          /\ issuer' = [issuer EXCEPT !.rules = @ \ gone]
          /\ work' = [work EXCEPT ![w].pc = "rules_stored", ![w].retire = row.mirror.retire \ gone]
          /\ Faulty(gone # row.mirror.retire)
    /\ UNCHANGED <<scene, per, late, acts, base, salts, row, public>>

rules_stored(w) ==
    /\ At(w, "rules_stored")
    /\ row' = [row EXCEPT !.mirror.retire = work[w].retire]
    /\ Goto(w, "idle")
    /\ UNCHANGED <<scene, per, late, acts, base, issuer, salts, used, public>>

-----------------------------------------------------------------------------
(* Checkpoint: the salt and the expectation are stored before the submit.   *)
(* A salt is named for the worker that drew it.                             *)

\* The salt a checkpoint of seq n uses: the stored one, or its own if first.
SaltOf(n, own) == IF salts[n] = NoSalt THEN own ELSE salts[n]
\* Reads the policy and the period; an unreachable rollup fails the call.
checkpoint(w) ==
    /\ At(w, "checkpoint")
    /\ per.seq < MaxSeq
    /\ LET n == per.seq + 1
           expected == [seq |-> n, state |-> "pending", version |-> per.version,
                        period |-> per.period, overdue |-> FALSE]
       IN /\ salts' = [salts EXCEPT ![n] = IF @ = NoSalt THEN w ELSE @]
          /\ row' = [row EXCEPT !.com = expected, !.due = FALSE]
          /\ work' = [work EXCEPT ![w].pc = "submit", ![w].com = expected,
                                  ![w].salt = SaltOf(n, w)]
    /\ UNCHANGED <<scene, per, late, acts, base, issuer, used, public>>

\* ensure_commitment fails: the activation waits for the next pass.  A
\* period end whose checkpoint failed leaves it due.
checkpoint_fails(w) ==
    /\ At(w, "checkpoint")
    /\ Fault /\ Faulty(TRUE)
    /\ row' = CASE work[w].mode = "repair" -> row
                [] work[w].mode = "period" -> [row EXCEPT !.due = TRUE]
                [] OTHER -> [row EXCEPT !.state = "pending_commitment"]
    /\ Finish(w)
    /\ UNCHANGED <<scene, per, late, acts, base, issuer, salts, public>>

\* The program takes exactly the next seq and schedules the base write of the
\* state it holds then.
Takes(tx) == tx.seq = per.seq + 1
Take(tx) ==
    /\ per' = [per EXCEPT !.seq = tx.seq]
    /\ acts' = acts \cup {[seq |-> tx.seq, version |-> per.version,
                           period |-> per.period, salt |-> tx.salt]}

Recorded(w, state) == work' = [work EXCEPT ![w].pc = "record", ![w].com.state = state]

submit(w) ==
    /\ At(w, "submit")
    /\ LET tx == [seq |-> work[w].com.seq, salt |-> work[w].salt]
       IN \/ /\ Takes(tx) /\ Take(tx) /\ Recorded(w, "scheduled")
             /\ UNCHANGED <<late, used>>
          \/ \* StaleCommitment: the rollup is read, and is past this seq
             /\ tx.seq <= per.seq /\ Recorded(w, "scheduled")
             /\ UNCHANGED <<per, late, acts, used>>
          \/ \* no answer: it may land later
             /\ Fault /\ Faulty(TRUE) /\ Recorded(w, "pending")
             /\ late' = late \cup {tx}
             /\ UNCHANGED <<per, acts>>
          \/ /\ Fault /\ Faulty(TRUE) /\ Recorded(w, "failed")
             /\ UNCHANGED <<per, late, acts>>
    /\ UNCHANGED <<scene, base, issuer, salts, row, public>>

record(w) ==
    /\ At(w, "record")
    /\ row' = [row EXCEPT !.com = work[w].com]
    /\ CASE work[w].mode = "period" -> Goto(w, "idle")
         [] work[w].fresh -> work' = [work EXCEPT ![w] = Kept(w, "repair")]
         [] OTHER -> Onward(w, work[w].com)
    /\ UNCHANGED <<scene, per, late, acts, base, issuer, salts, used, public>>

\* ensure_commitment: a checkpoint for this version, then a readback.
ensure_commitment(w) ==
    /\ At(w, "ensure")
    /\ LET due == row.com.seq = 0 \/ row.com.version # work[w].v
       IN work' = [work EXCEPT ![w].pc = IF due THEN "checkpoint" ELSE "repair",
                               ![w].fresh = due]
    /\ UNCHANGED <<scene, per, late, acts, base, issuer, salts, row, used, public>>

-----------------------------------------------------------------------------
(* repair_commitment: the base-layer readback.                              *)

\* Mutant: the readback looks at the sequence number alone.
MatchBySeq(c, actual) == IF actual.seq < c.seq THEN "Pending" ELSE "Confirmed"

Match(c, actual) ==
    IF actual.seq < c.seq THEN "Pending"
    ELSE IF actual.version = c.version /\ (actual.seq > c.seq \/ actual.period = c.period)
         THEN "Confirmed" ELSE "Mismatch"

repair_load(w) ==
    /\ At(w, "repair")
    /\ LET c == row.com
       IN IF c.seq > 0 /\ c.state # "confirmed"
          THEN work' = [work EXCEPT ![w].com = c, ![w].pc = "judge"]
          ELSE IF row.due THEN Goto(w, "checkpoint") ELSE Onward(w, c)
    /\ UNCHANGED <<scene, per, late, acts, base, issuer, salts, row, used, public>>

\* What the worker learns of the checkpoint it loaded, and does about it.
judge(w) ==
    /\ At(w, "judge")
    /\ LET c == work[w].com
           verdict == Match(c, base)
           confirmed == [c EXCEPT !.state = "confirmed"]
           scheduled == [row.com EXCEPT !.state = "scheduled"]
           Again(state) == /\ row' = [row EXCEPT !.com.state = state]
                           /\ work' = [work EXCEPT ![w] = Kept(w, "checkpoint")]
       IN CASE verdict = "Confirmed" -> row' = [row EXCEPT !.com = confirmed] /\ Onward(w, confirmed)
            [] verdict = "Mismatch" -> Again("mismatch")
            [] verdict = "Pending" /\ per.seq < c.seq -> Again(row.com.state)
            [] verdict = "Pending" /\ per.seq >= c.seq /\ c.overdue -> Again("stalled")
            [] OTHER -> /\ row' = [row EXCEPT !.com = IF c.state = "scheduled" THEN @ ELSE scheduled]
                        /\ Onward(w, c)
    /\ UNCHANGED <<scene, per, late, acts, base, issuer, salts, used, public>>

\* The base layer cannot be read: nothing is learned.
readback_unavailable(w) ==
    /\ At(w, "judge")
    /\ Fault /\ Faulty(TRUE)
    /\ Onward(w, work[w].com)
    /\ UNCHANGED <<scene, per, late, acts, base, issuer, salts, row, public>>

\* A request polls the readback until its deadline.
poll(w) ==
    /\ At(w, "after") /\ work[w].mode = "request"
    /\ Goto(w, "repair")
    /\ UNCHANGED <<scene, per, late, acts, base, issuer, salts, row, used, public>>

after(w) ==
    /\ At(w, "after")
    /\ SetState("pending_commitment") /\ Finish(w)
    /\ UNCHANGED <<scene, per, late, acts, base, issuer, salts, used, public>>

-----------------------------------------------------------------------------
(* Open the issuer card, if the policy is still the one committed.          *)

open_check(w) ==
    /\ At(w, "open")
    /\ IF per.version # work[w].v THEN SetState("superseded") /\ Finish(w)
       ELSE IF per.frozen THEN SetState("held") /\ Finish(w)
       ELSE Goto(w, IF row.issuer = "OPEN" THEN "active" ELSE "issuer") /\ UNCHANGED row
    /\ UNCHANGED <<scene, per, late, acts, base, issuer, salts, used, public>>

open_issuer(w) ==
    /\ At(w, "issuer")
    /\ \E opened, readable \in BOOLEAN :
          /\ ~(opened /\ readable) => Fault
          /\ issuer' = [issuer EXCEPT !.state = IF opened THEN "OPEN" ELSE @]
          /\ LET answer == IF readable THEN issuer'.state ELSE "unknown"
             IN /\ row' = [row EXCEPT !.issuer = IF readable THEN answer ELSE @,
                                      !.state = IF answer = "OPEN" THEN @ ELSE "issuer_pending"]
                /\ IF answer = "OPEN" THEN Goto(w, "active") ELSE Finish(w)
          /\ Faulty(~(opened /\ readable))
    /\ UNCHANGED <<scene, per, late, acts, base, salts, public>>

active(w) ==
    /\ At(w, "active")
    /\ SetState("active") /\ Finish(w)
    /\ UNCHANGED <<scene, per, late, acts, base, issuer, salts, used, public>>

-----------------------------------------------------------------------------
(* Freeze, unfreeze, and the reconcile step that re-drives either.          *)

\* A frozen card keeps its freeze: a retry redoes the half not confirmed.
freeze(w) ==
    /\ At(w, "idle") /\ used.freezes < scene.freezes
    /\ ~(row.freeze.on /\ row.freeze.chain /\ row.freeze.issuer = "confirmed")
    /\ used' = [used EXCEPT !.freezes = @ + 1]
    /\ row' = [row EXCEPT !.freeze = [on |-> TRUE, chain |-> FALSE, wanted |-> "PAUSED",
                                      issuer |-> "pending_issuer_confirmation"]]
    /\ work' = [work EXCEPT ![w] = [Idle EXCEPT !.pc = "freeze", !.mode = "freeze"]]
    /\ UNCHANGED <<scene, per, late, acts, base, issuer, salts, public>>

freeze_both(w) ==
    /\ At(w, "freeze")
    /\ \E chain, paused \in BOOLEAN :
          /\ ~(chain /\ paused) => Fault
          /\ per' = [per EXCEPT !.frozen = @ \/ chain]
          /\ issuer' = [issuer EXCEPT !.state = IF paused THEN "PAUSED" ELSE @]
          /\ work' = [work EXCEPT ![w].pc = "freeze_ack", ![w].open = paused, ![w].fresh = chain]
          /\ Faulty(~(chain /\ paused))
    /\ UNCHANGED <<scene, late, acts, base, salts, row, public>>

freeze_ack(w) ==
    /\ At(w, "freeze_ack")
    /\ row' = [row EXCEPT !.freeze.chain = work[w].fresh,
                          !.freeze.issuer = IF work[w].open THEN "confirmed" ELSE @,
                          !.issuer = IF work[w].open THEN "PAUSED" ELSE @]
    /\ Goto(w, "idle")
    /\ UNCHANGED <<scene, per, late, acts, base, issuer, salts, used, public>>

\* The owner's wallet, on the rollup.
owner_unfreeze ==
    /\ per.frozen
    /\ per' = [per EXCEPT !.frozen = FALSE]
    /\ UNCHANGED <<scene, late, acts, base, issuer, salts, row, work, used, public>>

MirrorCurrent == row.mirror.state = "acknowledged" /\ row.mirror.version = per.version

unfreeze_mirror(w) ==
    /\ At(w, "idle") /\ row.freeze.on
    /\ ~per.frozen /\ MirrorCurrent
    /\ work' = [work EXCEPT ![w] = [Idle EXCEPT !.pc = "unfreeze", !.mode = "freeze"]]
    /\ UNCHANGED <<scene, per, late, acts, base, issuer, salts, row, used, public>>

reopen(w) ==
    /\ At(w, "unfreeze")
    /\ \E opened \in BOOLEAN :
          /\ ~opened => Fault
          /\ issuer' = [issuer EXCEPT !.state = IF opened THEN "OPEN" ELSE @]
          /\ work' = [work EXCEPT ![w].pc = "unfrozen", ![w].open = opened]
          /\ Faulty(~opened)
    /\ UNCHANGED <<scene, per, late, acts, base, salts, row, public>>

unfrozen(w) ==
    /\ At(w, "unfrozen")
    /\ LET opened == work[w].open
       IN row' = [row EXCEPT
            !.freeze = [on |-> FALSE, chain |-> FALSE, wanted |-> "OPEN",
                        issuer |-> IF opened THEN "confirmed" ELSE "pending_issuer_confirmation"],
            !.issuer = IF opened THEN "OPEN" ELSE @]
    /\ Goto(w, "idle")
    /\ UNCHANGED <<scene, per, late, acts, base, issuer, salts, used, public>>

\* Reconcile re-reads and re-drives the state the card it listed wanted.
redrive(w) ==
    /\ At(w, "idle") /\ row.freeze.issuer = "pending_issuer_confirmation"
    /\ work' = [work EXCEPT ![w] = [Idle EXCEPT !.pc = "redrive", !.mode = "freeze",
                                                !.open = row.freeze.wanted = "OPEN"]]
    /\ UNCHANGED <<scene, per, late, acts, base, issuer, salts, row, used, public>>

redrive_set(w) ==
    /\ At(w, "redrive")
    /\ \E taken \in BOOLEAN :
          /\ ~taken => Fault
          /\ issuer' = [issuer EXCEPT !.state =
                           IF ~taken THEN @ ELSE IF work[w].open THEN "OPEN" ELSE "PAUSED"]
          /\ Goto(w, IF taken THEN "redriven" ELSE "idle")
          /\ Faulty(~taken)
    /\ UNCHANGED <<scene, per, late, acts, base, salts, row, public>>

redriven(w) ==
    /\ At(w, "redriven")
    /\ row' = [row EXCEPT !.issuer = IF work[w].open THEN "OPEN" ELSE "PAUSED",
                          !.freeze.issuer = "confirmed"]
    /\ Goto(w, "idle")
    /\ UNCHANGED <<scene, per, late, acts, base, issuer, salts, used, public>>

-----------------------------------------------------------------------------
(* The owner, the period, the chain, time and crashes.                      *)

set_policy ==
    /\ per.version < scene.versions
    /\ per' = [per EXCEPT !.version = @ + 1]
    /\ UNCHANGED <<scene, late, acts, base, issuer, salts, row, work, used, public>>

\* The period end rolls the period and checkpoints it.
checkpoint_or_flag(w) ==
    /\ At(w, "idle") /\ per.period < scene.periods
    /\ row.mirror.state = "acknowledged"
    /\ per' = [per EXCEPT !.period = @ + 1]
    /\ work' = [work EXCEPT ![w] = [Idle EXCEPT !.pc = "checkpoint", !.mode = "period"]]
    /\ UNCHANGED <<scene, late, acts, base, issuer, salts, row, used, public>>

late_lands(tx) ==
    /\ late' = late \ {tx}
    /\ IF Takes(tx) THEN Take(tx) ELSE UNCHANGED <<per, acts>>
    /\ UNCHANGED <<scene, base, issuer, salts, row, work, used, public>>

\* A scheduled write runs at most once, in any order, or never.
write_commitment(act) ==
    /\ acts' = acts \ {act}
    /\ IF act.seq > base.seq THEN base' = act /\ public' = [public EXCEPT ![act.version] = act.seq]
       ELSE UNCHANGED <<base, public>>
    /\ UNCHANGED <<scene, per, late, issuer, salts, row, work, used>>

write_lost(act) ==
    /\ Fault /\ Faulty(TRUE)
    /\ acts' = acts \ {act}
    /\ UNCHANGED <<scene, per, late, base, issuer, salts, row, work, public>>

\* COMMITMENT_STALL_MS passes.
stall ==
    /\ row.com.seq > 0 /\ row.com.state # "confirmed" /\ ~row.com.overdue
    /\ used.stalls < scene.stalls
    /\ used' = [used EXCEPT !.stalls = @ + 1]
    /\ row' = [row EXCEPT !.com.overdue = TRUE]
    /\ work' = [w \in Worker |-> [work[w] EXCEPT !.com.overdue = @ \/ work[w].com.seq = row.com.seq]]
    /\ UNCHANGED <<scene, per, late, acts, base, issuer, salts, public>>

crash(w) ==
    /\ ~At(w, "idle") /\ used.crashes < scene.crashes
    /\ used' = [used EXCEPT !.crashes = @ + 1]
    /\ Goto(w, "idle")
    /\ UNCHANGED <<scene, per, late, acts, base, issuer, salts, row, public>>

Advance(w) ==
    \/ accept(w) \/ load(w) \/ check(w) \/ mirror_limits(w) \/ retire(w) \/ mirrored(w)
    \/ mirror_failed(w) \/ compensate(w) \/ retry_rule_retirement(w) \/ rules_stored(w)
    \/ ensure_commitment(w) \/ checkpoint(w) \/ checkpoint_fails(w) \/ submit(w) \/ record(w)
    \/ repair_load(w) \/ judge(w) \/ readback_unavailable(w) \/ after(w) \/ open_check(w) \/ open_issuer(w) \/ active(w)
    \/ freeze_both(w) \/ freeze_ack(w) \/ reopen(w) \/ unfrozen(w)
    \/ redrive_set(w) \/ redriven(w)

Next ==
    \/ \E w \in Worker : Advance(w) \/ crash(w)
    \/ \E w \in Request : activate(w) \/ poll(w) \/ freeze(w) \/ unfreeze_mirror(w)
    \/ \E w \in Cron : repair_commitment_phase(w) \/ redrive(w) \/ checkpoint_or_flag(w)
    \/ owner_unfreeze \/ set_policy \/ stall
    \/ \E tx \in late : late_lands(tx)
    \/ \E act \in acts : write_commitment(act) \/ write_lost(act)

Spec == Init /\ [][Next]_vars

-----------------------------------------------------------------------------

\* A commitment the card row calls confirmed really reached the base layer:
\* some commitment for the same policy version, at its seq or later, was
\* public; and the salt row the owner opens it with is the salt it was made
\* with, whatever retries, crashes and late transactions made it.
ConfirmedIsOnBase ==
    /\ row.com.state = "confirmed" =>
          public[row.com.version] >= row.com.seq
    /\ base.seq > 0 => base.salt = salts[base.seq]

\* An open issuer card has every rule that one policy version asks for, whichever
\* mirrors overlapped, failed halfway or died (mirror_limits: "a failure never leaves a
\* card without controls"), also when a version drops a list the one before had.
OpenIsControlled ==
    issuer.state = "OPEN" =>
        \E v \in 1..per.version : \A k \in Kinds(v) :
            \E r \in issuer.rules : r.kind = k /\ r.version = v

=============================================================================
