---------------------------- MODULE MCProvisioning ----------------------------
(***************************************************************************)
(* Four versions of the definitions: the second leaves an alert without a  *)
(* verified source, gives the dashboard a new name and a new owner beside  *)
(* the first, and is flawed for the service orders; the third is that      *)
(* version without the alert, flawed for the technical profile; the last   *)
(* renames the policy and marks the dashboard as another owner's.          *)
(***************************************************************************)
EXTENDS Provisioning

CONSTANTS a, b, first, second

MCNames == {a, b}
MCDefined == <<{a, b}, {a, b}, {b}, {b}>>
MCVerified == <<{a, b}, {b}, {b}, {b}>>
MCTitles == <<first, second, second, second>>
MCOwners == <<first, second, second, first>>
MCPolicyNames == <<first, first, first, second>>
MCFlaws ==
  [kind \in {"technical", "service-order"} |->
     IF kind = "technical" THEN <<{}, {}, {"queries"}, {}>> ELSE <<{}, {"alerts"}, {}, {}>>]
=============================================================================
