------------------------- MODULE MCCardActivation -------------------------
(***************************************************************************)
(* Small instances of CardActivation.                                       *)
(***************************************************************************)
EXTENDS CardActivation, Sequences

Lock == {"merchant_lock"}
Allowlist == {"mcc_allowlist"}

Scene(kinds, periods, requests, freezes, stalls, faults, crashes) ==
    [kinds |-> kinds, versions |-> Len(kinds), periods |-> periods, requests |-> requests,
     freezes |-> freezes, stalls |-> stalls, faults |-> faults, crashes |-> crashes]

\* A second version and its activation, with both lists or the other one; a freeze; a
\* failing call; a late or dropped checkpoint and a period roll; a crash.
MCScenes ==
    {Scene(<<RuleKind, RuleKind>>, 1, 2, 0, 0, 0, 0), Scene(<<Lock, Allowlist>>, 1, 2, 0, 0, 0, 0),
     Scene(<<RuleKind>>, 1, 1, 1, 0, 0, 0), Scene(<<RuleKind>>, 1, 1, 0, 0, 1, 0),
     Scene(<<Allowlist>>, 1, 1, 0, 0, 1, 0), Scene(<<RuleKind>>, 2, 1, 0, 1, 0, 0),
     Scene(<<Lock>>, 1, 1, 0, 0, 0, 1), Scene(<<Lock, Allowlist>>, 1, 1, 0, 0, 1, 0)}
=============================================================================
