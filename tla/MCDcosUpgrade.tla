--------------------------- MODULE MCDcosUpgrade ---------------------------
(***************************************************************************)
(* Instances of DcosUpgrade for TLC: see the .cfg files.                   *)
(***************************************************************************)
EXTENDS DcosUpgrade

\* A fault of every kind but the one that leaves no apimodel.json to start from.
Recoverable == AllFaults \ {"torn"}

\* dcos-version.json of a node that stopped midway: not switched yet, or either.
SwitchedLast  == {"halfOld"}
SwitchedEarly == {"halfOld", "halfNew"}
=============================================================================
