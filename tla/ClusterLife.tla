---------------------------- MODULE ClusterLife ----------------------------
(***************************************************************************)
(* What the commands may do to a cluster, without documents: it is made    *)
(* once, with a version the tool supports, and from then on changes by     *)
(* upgrades only, as long as the installed build supports its version.     *)
(* What a build does not support, its deploy replaces by its default.      *)
(* Sizes of pools are not part of what is shown.                           *)
(***************************************************************************)
EXTENDS Versions

CONSTANTS
  Builds,
  Nothing   \* there is no cluster

VARIABLES
  build,   \* the installed build
  shown    \* the cluster: [version, urls, rest], urls of its bootstrap nodes

vars == <<build, shown>>

Init == build \in Builds /\ shown = Nothing

Create ==
  /\ shown = Nothing
  /\ shown' # Nothing /\ shown'.version \in build.supported
  /\ UNCHANGED build

\* Both bootstrap nodes take the new version, wherever their files came from.
Upgrade(v) ==
  /\ shown # Nothing
  /\ v \in DcosUpgrades(build, shown.version) \cup {shown.version}
  /\ shown' = [version |-> v, urls |-> <<v, v>>, rest |-> shown.rest]
  /\ UNCHANGED build

Replace ==
  /\ shown # Nothing /\ shown.version \notin build.supported
  /\ shown' # Nothing /\ shown'.version = build.default /\ shown'.rest = shown.rest
  /\ UNCHANGED build

Install == build' \in Builds /\ UNCHANGED shown

Next == Create \/ Replace \/ Install \/ \E v \in build.supported : Upgrade(v)

Spec == Init /\ [][Next]_vars
=============================================================================
