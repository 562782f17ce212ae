------------------------ MODULE RollingUpgradeProofs ------------------------
(***************************************************************************)
(* What every rolling upgrade guarantees, and so the upgrade workflow,     *)
(* which implements it (WorkflowRolls of DcosUpgradeProofs).               *)
(***************************************************************************)
EXTENDS RollingUpgrade, TLAPS

\* Nothing is left behind that is not upgraded, and nothing undoes it.
LeftBehindUpgraded ==
  /\ through \subseteq upgraded
  /\ phase = "done" => Masters \cup roster \subseteq through

LEMMA LeftBehindStep == LeftBehindUpgraded /\ [Next]_vars => LeftBehindUpgraded'
<1> SUFFICES ASSUME LeftBehindUpgraded, [Next]_vars PROVE LeftBehindUpgraded'
  OBVIOUS
<1> USE DEF LeftBehindUpgraded
<1>1. CASE Begin BY <1>1 DEF Begin
<1>2. CASE Commit BY <1>2 DEF Commit
<1>3. CASE GiveUp BY <1>3 DEF GiveUp
<1>4. CASE Enroll /\ phase' \in {"on", "off"} BY <1>4 DEF Enroll
<1>5. ASSUME NEW n \in Nodes, Work(n) PROVE LeftBehindUpgraded'
  BY <1>5 DEF Work, Upgrade, PassOn, Turn
<1>6. CASE UNCHANGED vars BY <1>6 DEF vars
<1> QED BY <1>1, <1>2, <1>3, <1>4, <1>5, <1>6 DEF Next

\* A committed upgrade has upgraded every master and every agent of its roster: what
\* the success of the upgrade command says (dcos-upgrade.go:244-265).
THEOREM CommitsWhole == Spec => []Committed
<1>1. Init => LeftBehindUpgraded BY DEF Init, LeftBehindUpgraded
<1>2. LeftBehindUpgraded => Committed BY DEF LeftBehindUpgraded, Committed
<1> QED BY <1>1, <1>2, LeftBehindStep, PTL DEF Spec
=============================================================================
