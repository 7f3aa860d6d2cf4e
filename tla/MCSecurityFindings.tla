------------------------- MODULE MCSecurityFindings -------------------------
(***************************************************************************)
(* SecurityFindings over the policies the rules tell apart.                *)
(***************************************************************************)
EXTENDS SecurityFindings, TLC

CONSTANTS r1, r2

Policy(state, controls, strength, legacy) ==
    [state |-> state, controls |-> controls, strength |-> strength,
     legacy |-> legacy]

MCPolicies ==
    {Policy("enabled", {"block"}, FALSE, TRUE),
     Policy("enabled", {"block"}, FALSE, FALSE),
     Policy("enabled", {"mfa"}, FALSE, FALSE),
     Policy("enabled", {}, TRUE, FALSE),
     Policy("report_only", {"mfa", "block"}, FALSE, TRUE),
     Policy("disabled", {}, TRUE, FALSE)}

Symmetry == Permutations(Runs)

=============================================================================
