--------------------------- MODULE RollingUpgrade ---------------------------
(***************************************************************************)
(* What the upgrade workflow promises, without how it gets there: attempts *)
(* that may stop anywhere, each of which goes through the masters in order *)
(* and then through a fixed roster of agents, leaving a node behind only   *)
(* when that node is upgraded, and that commits only at the end.           *)
(***************************************************************************)
EXTENDS Naturals

CONSTANTS
  MasterCount,
  Agents       \* none of them a number of a master

VARIABLES
  phase,     \* "off": no attempt runs, "on", or "done": an attempt committed
  roster,    \* the agents of this attempt
  through,   \* the nodes this attempt is through with
  upgraded   \* the nodes whose last upgrade finished

vars == <<phase, roster, through, upgraded>>

Masters == 0 .. MasterCount - 1
Nodes   == Masters \cup Agents

Init ==
  /\ phase = "off"
  /\ roster = {} /\ through = {} /\ upgraded = {}

Begin ==
  /\ phase = "off"
  /\ phase' = "on"
  /\ roster' = {} /\ through' = {}
  /\ UNCHANGED upgraded

\* The roster is fixed before the first node is upgraded.
Enroll ==
  /\ phase = "on"
  /\ through = {}
  /\ roster' \in SUBSET Agents
  /\ UNCHANGED <<through, upgraded>>

Turn(n) ==
  /\ phase = "on"
  /\ n \notin through
  /\ \/ n \in Masters /\ \A i \in 0 .. n - 1 : i \in through
     \/ n \in roster /\ Masters \subseteq through

\* An upgrade of a node finishes, or stops midway.
Upgrade(n) ==
  /\ Turn(n)
  /\ upgraded' \in {upgraded \cup {n}, upgraded \ {n}}
  /\ UNCHANGED <<roster, through>>

\* The attempt is through with a node only if the node is upgraded.
PassOn(n) ==
  /\ Turn(n)
  /\ n \in upgraded
  /\ through' = through \cup {n}
  /\ UNCHANGED <<roster, upgraded>>

Commit ==
  /\ phase = "on"
  /\ Masters \cup roster \subseteq through
  /\ phase' = "done"
  /\ UNCHANGED <<roster, through, upgraded>>

GiveUp ==
  /\ phase = "on"
  /\ phase' = "off"
  /\ UNCHANGED <<roster, through, upgraded>>

\* Any step may be the last of its attempt: its answer is lost.
Work(n) == (Upgrade(n) \/ PassOn(n)) /\ phase' \in {"on", "off"}

Next ==
  \/ Begin \/ Commit \/ GiveUp
  \/ Enroll /\ phase' \in {"on", "off"}
  \/ \E n \in Nodes : Work(n)

Spec == Init /\ [][Next]_vars

\* A committed upgrade has upgraded every master and every agent of its roster.
Committed == phase = "done" => Masters \cup roster \subseteq upgraded
=============================================================================
