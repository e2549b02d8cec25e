---------------------------- MODULE CardControl -----------------------------
(***************************************************************************)
(* A card's life on the two layers: created and delegated, its readers,     *)
(* freezing and the recovery protocol, checkpoints to the base layer, and   *)
(* the wipe before it is closed (card.rs, permission.rs, freeze.rs,         *)
(* commitment.rs).                                                          *)
(***************************************************************************)
EXTENDS CardCredit

init_card ==
    /\ binding.status = "none"
    /\ binding' = [binding EXCEPT !.status = "active"]
    /\ policy' = zeroed_policy
    /\ period' = zeroed_period
    /\ Appends({"owner"}, {})
    /\ UNCHANGED <<now, reservation, intent, guard, permission, commitment, actions, paid>>

\* A wiped card is still active, so it may be delegated once more.
delegate_card ==
    /\ binding.status = "active"
    /\ ~binding.delegated
    /\ binding.epoch < MaxEpoch
    /\ binding' = [binding EXCEPT !.delegated = TRUE, !.epoch = binding.epoch + 1,
                                  !.ledgered = FALSE]
    /\ Appends({"owner"}, {})
    /\ UNCHANGED <<now, policy, period, reservation, intent, guard, permission,
                   commitment, actions, paid>>

-----------------------------------------------------------------------------
(* Readers.                                                                 *)

\* PermissionWrite::Create leaves an existing permission as it is.
Created(members) ==
    Granted({x \in {"policy", "period"} : permission[x] = NoAccount}, members)

init_permission(authorizer) ==
    LET first   == policy.members = <<>>
        members == IF first THEN <<Owner, authorizer>> ELSE policy.members
    IN  /\ OwnerSigns
        /\ authorizer \notin {NoKey, Owner}
        /\ members[2] = authorizer
        /\ policy' = [policy EXCEPT !.members = members]
        /\ permission' = Created(members)
        /\ Appends({"owner"}, IF first THEN {Event("permission_change", NoAuth, authorizer, 0, "")}
                              ELSE {})
        /\ UNCHANGED <<now, period, reservation, intent, guard, baseVars>>

\* The policy and period permissions follow, and the ephemerals the caller lists.
MembersBecome(members, key, listed) ==
    /\ policy' = [policy EXCEPT !.members = members]
    /\ listed \subseteq Ephemerals
    /\ permission' = Granted({"policy", "period"} \cup listed, members)
    /\ Appends({"owner"}, {Event("permission_change", NoAuth, key, 0, "")})
    /\ UNCHANGED <<now, period, reservation, intent, guard, baseVars>>

AddReader(key, listed) ==
    /\ OwnerSigns
    /\ Len(policy.members) \in 2..MAX_MEMBERS - 1
    /\ \A i \in DOMAIN policy.members : policy.members[i] # key
    /\ MembersBecome(Append(policy.members, key), key, listed)

Without(members, i) == SubSeq(members, 1, i - 1) \o SubSeq(members, i + 1, Len(members))

RemoveReader(key, listed) ==
    /\ OwnerSigns
    /\ \E i \in 3..Len(policy.members) :
           /\ policy.members[i] = key
           /\ MembersBecome(Without(policy.members, i), key, listed)

sync_permission(x, who) ==
    /\ EitherSigns(who)
    /\ Len(policy.members) >= 2
    /\ x \in Ephemerals
    /\ permission' = Granted({x}, policy.members)
    /\ Appends({who}, {})
    /\ UNCHANGED <<now, policy, period, reservation, intent, guard, baseVars>>

-----------------------------------------------------------------------------
(* Freezing and recovery.  The owner may also freeze before delegation,     *)
(* when the policy account is on the base layer.                            *)

OwnerReaches == binding.status = "active"
Reaches(who) == (who = "owner" /\ OwnerReaches) \/ (who = "authorizer" /\ AuthorizerSigns)

\* append_ledger on the base layer keeps close_card from taking the policy for
\* a wiped one; nothing but these instructions appends there.
Ledgered ==
    /\ binding' = [binding EXCEPT !.ledgered = ~binding.delegated]
    /\ UNCHANGED <<commitment, actions, paid>>

Frozen(pol, reason) == [pol EXCEPT !.frozen = TRUE, !.freeze_reason = reason]

MayFreeze(who, reason) ==
    reason \in IF who = "owner" THEN {"owner", "expiry"} ELSE {"authorizer_safety"}

freeze(who, reason) ==
    /\ Reaches(who)
    /\ MayFreeze(who, reason)
    /\ policy' = IF policy.frozen THEN policy ELSE Frozen(policy, reason)
    /\ Appends({who}, {Event("freeze", NoAuth, ZeroId, 0, reason)})
    /\ Ledgered
    /\ UNCHANGED <<now, period, reservation, intent, guard, permission>>

\* Mutant: a card in recovery may be unfrozen.
NoExceptions == policy.exceptions_open = 0
MayUnfreeze == policy.recovery_state = "normal" /\ policy.exceptions_open = 0

unfreeze ==
    /\ OwnerReaches
    /\ MayUnfreeze
    /\ policy' = [policy EXCEPT !.frozen = FALSE, !.freeze_reason = "none"]
    /\ Appends({"owner"}, {Event("unfreeze", NoAuth, ZeroId, 0, "")})
    /\ Ledgered
    /\ UNCHANGED <<now, period, reservation, intent, guard, permission>>

recovery_freeze(who) ==
    /\ Reaches(who)
    /\ policy' = [Frozen(policy, "recovery") EXCEPT !.recovery_state = "frozen"]
    /\ Appends({who}, {Event("recovery_freeze", NoAuth, ZeroId, 0, "")})
    /\ Ledgered
    /\ UNCHANGED <<now, period, reservation, intent, guard, permission>>

RestoredPolicy(pol, args) ==
    [Frozen(pol, "recovery") EXCEPT
        !.terms = args.policy,
        !.policy_version = pol.policy_version + 1,
        !.statement_outstanding_cents = args.statement_outstanding_cents,
        !.recon_digest = args.recon_digest,
        !.recovery_state = "restored_pending"]

RestoredPeriod(args) ==
    [period_index |-> args.period_index, period_end |-> now + args.policy.period_seconds,
     captured_cents |-> args.captured_cents, reserved_cents |-> args.reserved_cents,
     refunded_cents |-> args.refunded_cents, purchases_count |-> args.purchases_count,
     exception_cents |-> args.exception_cents]

\* Both sign, the authorizer as the second member; live holds stay as they are.
restore(args) ==
    /\ OwnerSigns
    /\ Len(policy.members) >= 2
    /\ policy.recovery_state = "frozen"
    /\ args.recon_digest # ZeroId
    /\ validate_policy_args(args.policy)
    /\ policy.members[2] = args.policy.authorizer
    /\ args.period_index >= 1
    /\ policy.policy_version < MaxU32
    /\ policy' = RestoredPolicy(policy, args)
    /\ period' = RestoredPeriod(args)
    /\ Appends({"owner", "authorizer"},
               {Event("restore", NoAuth, args.recon_digest, 0, "restored_pending")})
    /\ UNCHANGED <<now, reservation, intent, guard, permission, baseVars>>

\* Still frozen: only `unfreeze` resumes spending.
confirm_reconciled(digest) ==
    /\ OwnerSigns
    /\ policy.recovery_state = "restored_pending"
    /\ policy.recon_digest = digest
    /\ policy' = [policy EXCEPT !.recovery_state = "normal"]
    /\ Appends({"owner"}, {Event("confirm_reconciled", NoAuth, digest, 0, "")})
    /\ UNCHANGED <<now, period, reservation, intent, guard, permission, baseVars>>

-----------------------------------------------------------------------------
(* Checkpoints.  A scheduled action may run late, more than once, after a   *)
(* later one, or never: it stays in `actions`.                              *)

\* What a checkpoint publishes; the salted root stands for the whole state.
Checkpointed ==
    [epoch |-> binding.epoch, seq |-> policy.commit_seq + 1,
     policy_version |-> policy.policy_version, period_index |-> period.period_index]

checkpoint ==
    /\ AuthorizerSigns
    /\ policy.commit_seq < MaxCommitSeq
    /\ actions' = actions \cup {Checkpointed}
    /\ policy' = [policy EXCEPT !.commit_seq = policy.commit_seq + 1]
    /\ Appends({"authorizer"}, {})
    /\ UNCHANGED <<now, binding, period, reservation, intent, guard, permission,
                   commitment, paid>>

\* Mutant: actions run in the order they arrive.
AnyAction(action) == TRUE
Newer(action) == action.seq > commitment.seq

write_commitment(action) ==
    /\ Newer(action)
    /\ commitment' = action
    /\ Appends({}, {})
    /\ UNCHANGED <<now, binding, policy, period, reservation, intent, guard,
                   permission, actions, paid>>

-----------------------------------------------------------------------------
(* Leaving the private layer.                                               *)

\* Mutant: the caller's list is not counted.
AnyListed(listed) == TRUE
AllListed(listed) == policy.ephemeral_count <= Cardinality(listed)

\* Closes the listed ephemerals and both permissions, and commits only zeros.
wipe_card(listed) ==
    /\ OwnerSigns
    /\ policy.frozen
    /\ period.reserved_cents = 0
    /\ policy.statement_outstanding_cents = 0
    /\ listed \subseteq Ephemerals
    /\ AllListed(listed)
    /\ reservation' = [a \in AuthId |-> IF a \in listed THEN NoAccount ELSE reservation[a]]
    /\ intent' = [i \in IntentId |-> IF i \in listed THEN NoAccount ELSE intent[i]]
    /\ guard' = IF "guard" \in listed THEN NoAccount ELSE guard
    /\ permission' = Ungranted(listed \cup {"policy", "period"})
    /\ policy' = zeroed_policy
    /\ period' = zeroed_period
    /\ binding' = [binding EXCEPT !.delegated = FALSE]
    /\ Appends({"owner"}, {})
    /\ UNCHANGED <<now, commitment, actions, paid>>

\* Only a wiped or untouched card is closed; its policy and period accounts go away.
close_card ==
    /\ binding.status = "active"
    /\ ~binding.delegated
    /\ ~binding.ledgered
    /\ policy = zeroed_policy
    /\ period = zeroed_period
    /\ binding' = [binding EXCEPT !.status = "closed"]
    /\ Appends({"owner"}, {})
    /\ UNCHANGED <<now, policy, period, reservation, intent, guard, permission,
                   commitment, actions, paid>>
=============================================================================
