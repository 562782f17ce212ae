---------------------------- MODULE MCTestRunner ----------------------------
(* The environment and errors for TLC. *)
EXTENDS TestRunner

MCSettings ==
    {[retries |-> 0, autoclean |-> TRUE, prefix |-> "ci"],
     [retries |-> 1, autoclean |-> FALSE, prefix |-> "ci"],   \* Jenkinsfile
     [retries |-> 2, autoclean |-> FALSE, prefix |-> "ci"],
     [retries |-> 2, autoclean |-> TRUE, prefix |-> "ci"],
     [retries |-> 1, autoclean |-> TRUE, prefix |-> ""]}

\* No error of a step is recognised.
MCLogErrors == {}
=============================================================================
