------------------------------ MODULE Removal ------------------------------
(***************************************************************************)
(* What scaling down promises, without how: calls that remove machines,    *)
(* one job for each, in any order and with any failures.  A machine goes   *)
(* first and what is deleted with it later, nothing comes back, nothing is *)
(* touched that no open job is about, and a call returns when all its jobs *)
(* have ended, with those that did not succeed, which can be tried again.  *)
(***************************************************************************)
CONSTANTS
  Jobs,
  Machines,
  Target    \* Target[j]: the machine of job j

VARIABLES
  phase,   \* "on": a call works, or "off": it has returned
  open,    \* the jobs of this call that have not ended
  bad,     \* its jobs that ended without success
  report,  \* what the call returned
  whole,   \* the machines that exist
  left     \* those of which there is still something to remove

vars == <<phase, open, bad, report, whole, left>>

Init ==
  /\ phase = "on"
  /\ open = Jobs /\ bad = {} /\ report = {}
  /\ whole = Machines /\ left = Machines

Remove(j) ==
  /\ phase = "on"
  /\ j \in open
  /\ whole' = whole \ {Target[j]}
  /\ left' \in {left, left \ {Target[j]}}
  /\ UNCHANGED <<phase, open, bad, report>>

\* A job may give up at any point, but succeeds only when nothing is left.
End(j) ==
  /\ phase = "on"
  /\ j \in open
  /\ open' = open \ {j}
  /\ \/ bad' = bad \cup {j}
     \/ Target[j] \notin left /\ UNCHANGED bad
  /\ UNCHANGED <<phase, report, whole, left>>

Return ==
  /\ phase = "on"
  /\ open = {}
  /\ phase' = "off"
  /\ report' = bad
  /\ UNCHANGED <<open, bad, whole, left>>

Again ==
  /\ phase = "off"
  /\ report # {}
  /\ phase' = "on"
  /\ open' = report /\ bad' = {} /\ report' = {}
  /\ UNCHANGED <<whole, left>>

Next == Return \/ Again \/ \E j \in Jobs : Remove(j) \/ End(j)

Spec == Init /\ [][Next]_vars

\* What was asked for and is not in the last report is gone, however many calls it took.
Settled == phase = "off" => \A j \in Jobs \ report : Target[j] \notin left
=============================================================================
