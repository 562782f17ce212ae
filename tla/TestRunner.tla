----------------------------- MODULE TestRunner -----------------------------
(***************************************************************************)
(* The test runner (test/src/main.go): a goroutine per deployment of the   *)
(* configuration deploys a cluster into a resource group of its own, by    *)
(* the steps of script/step.sh, removes it, and tries again when a step    *)
(* failed.  The goroutines share a lock that spaces the steps, a report of *)
(* the errors, and the package variable rgPrefix, which nothing protects.  *)
(*                                                                         *)
(* All cluster definitions have the orchestrator DCOS, so that the package *)
(* variable of that name is written and read without consequence.          *)
(***************************************************************************)
EXTENDS Integers, Sequences, FiniteSetsExt

CONSTANTS
  Deployments,  \* the indices of config.Deployments
  Settings,     \* values of NUM_OF_RETRIES, AUTOCLEAN and RESOURCE_GROUP_PREFIX
  LogErrors     \* the errors that dcos-engine-errors.json recognises

ErrUnknown == "UnspecifiedError"
StepErrors == LogErrors \union {ErrUnknown}

\* Errors of the runner itself, which are not reported to the manager.
ParseErrors == {"ParsingError"}
ErrNames == StepErrors \union ParseErrors
Success == "Success"

ASSUME SettingsAssumption ==
  Settings \subseteq [retries : Nat, autoclean : BOOLEAN, prefix : STRING]
ASSUME ErrorsAssumption ==
  (ParseErrors \union {Success, ErrUnknown}) \intersect LogErrors = {}
\* Both are lists read from a file.
ASSUME FiniteAssumption == IsFiniteSet(Deployments) /\ IsFiniteSet(LogErrors)

steps == <<"create_resource_group", "predeploy", "generate_template", "deploy_template",
           "postdeploy", "validate">>
cleanup == Len(steps) + 1

DefaultPrefix == "y"

VARIABLES
  settings,  \* the environment
  main,      \* "init", "waiting", "returned" or "crashed"
  ok,        \* what Run returned
  lock,      \* m.lock is taken
  rgPrefix,  \* the package variable
  \* Of the goroutine of each deployment.
  pc,
  attempt,
  group,     \* resourceGroup
  step,      \* the position in steps, or cleanup
  errorInfo, \* the error of the attempt, or Success
  resMap,    \* how often each error ended an attempt
  success,
  \* The report and Azure.
  failures,  \* Manager.Failures, with the counts
  groups,    \* the resource groups that exist
  deleting,  \* those that Azure is deleting
  left       \* those whose deletion was refused

goroutines == <<pc, attempt, group, step, errorInfo, resMap, success>>
vars == <<settings, main, ok, lock, rgPrefix, goroutines, failures, groups, deleting, left>>

Init ==
  /\ settings \in Settings
  /\ main = "init" /\ ok = FALSE
  /\ lock = FALSE
  /\ rgPrefix = ""
  /\ pc = [d \in Deployments |-> "none"]
  /\ attempt = [d \in Deployments |-> 0]
  /\ group = [d \in Deployments |-> << >>]
  /\ step = [d \in Deployments |-> 1]
  /\ errorInfo = [d \in Deployments |-> Success]
  /\ resMap = [d \in Deployments |-> [e \in ErrNames |-> 0]]
  /\ success = [d \in Deployments |-> FALSE]
  /\ failures = [e \in StepErrors |-> 0]
  /\ groups = {} /\ deleting = {} /\ left = {}

\* The loop over the attempts: the next one, or the end of the goroutine.
AttemptOrEnd(n, done) == IF n < settings.retries /\ ~ done THEN "prefix" ELSE "done"

\* The steps that sign in; the lock may still be taken when they are through.
Prepare ==
  /\ main = "init"
  /\ \/ main' = "returned" /\ UNCHANGED <<lock, pc>>
     \/ /\ main' = "waiting"
        /\ lock' \in BOOLEAN
        /\ pc' = [d \in Deployments |-> AttemptOrEnd(0, FALSE)]
  /\ UNCHANGED <<settings, ok, rgPrefix, attempt, group, step, errorInfo, resMap, success,
                 failures, groups, deleting, left>>

At(d, here) == main = "waiting" /\ pc[d] = here
GoTo(d, next) == pc' = [pc EXCEPT ![d] = next]

\* rgPrefix = os.Getenv(...)
ReadPrefix(d) ==
  /\ At(d, "prefix")
  /\ rgPrefix' = settings.prefix
  /\ GoTo(d, "default")
  /\ UNCHANGED <<settings, main, ok, lock, attempt, group, step, errorInfo, resMap, success,
                 failures, groups, deleting, left>>

\* if rgPrefix == "" { rgPrefix = "y" }
SetDefault(d) ==
  /\ At(d, "default")
  /\ rgPrefix' = IF rgPrefix = "" THEN DefaultPrefix ELSE rgPrefix
  /\ GoTo(d, "name")
  /\ UNCHANGED <<settings, main, ok, lock, attempt, group, step, errorInfo, resMap, success,
                 failures, groups, deleting, left>>

\* Mutant: every attempt has the same group.
resourceGroup_NoAttempt(d) == <<rgPrefix, d>>

resourceGroup(d) == <<rgPrefix, d, attempt[d]>>

\* The name of the group, the type of the orchestrator and the environment.
NameGroup(d) ==
  /\ At(d, "name")
  /\ group' = [group EXCEPT ![d] = resourceGroup(d)]
  /\ \/ GoTo(d, "start") /\ UNCHANGED errorInfo
     \/ /\ GoTo(d, "tested")
        /\ \E e \in ParseErrors : errorInfo' = [errorInfo EXCEPT ![d] = e]
  /\ UNCHANGED <<settings, main, ok, lock, rgPrefix, attempt, step, resMap, success,
                 failures, groups, deleting, left>>

\* The header of a Go string is two words.  Where it is read between the writes of
\* the two, the length of "y" goes with the address of "": the program ends.
TornPrefix(d) ==
  /\ At(d, "name")
  /\ \E e \in Deployments \ {d} :
       \/ pc[e] = "prefix" /\ rgPrefix # settings.prefix
       \/ pc[e] = "default" /\ rgPrefix = ""
  /\ main' = "crashed"
  /\ UNCHANGED <<settings, ok, lock, rgPrefix, goroutines, failures, groups, deleting, left>>

\* runStep: the lock is taken, and given back by a goroutine two seconds later.
StartStep(d) ==
  /\ At(d, "start")
  /\ ~ lock
  /\ lock' = TRUE
  /\ GoTo(d, "run")
  /\ UNCHANGED <<settings, main, ok, rgPrefix, attempt, group, step, errorInfo, resMap, success,
                 failures, groups, deleting, left>>

\* Mutant: the lock is given back when a step ends.
Unlock_WithStep ==
  /\ lock
  /\ \E d \in Deployments : pc[d] = "run"
  /\ lock' = FALSE
  /\ UNCHANGED <<settings, main, ok, rgPrefix, goroutines, failures, groups, deleting, left>>

Unlock ==
  /\ lock
  /\ lock' = FALSE
  /\ UNCHANGED <<settings, main, ok, rgPrefix, goroutines, failures, groups, deleting, left>>

Creates(d) == IF step[d] = 1 THEN {group[d]} ELSE {}

\* A step of the deployment succeeds.
StepDone(d) ==
  /\ At(d, "run") /\ step[d] # cleanup
  /\ groups' = groups \union Creates(d)
  /\ IF steps[step[d]] = "generate_template"
       THEN GoTo(d, "versions") /\ UNCHANGED step
       ELSE GoTo(d, "start") /\ step' = [step EXCEPT ![d] = @ + 1]
  /\ UNCHANGED <<settings, main, ok, lock, rgPrefix, attempt, group, errorInfo, resMap, success,
                 failures, deleting, left>>

\* Mutant: an error is counted once.
addFailure_Once(key) == failures' = [failures EXCEPT ![key] = 1]

addFailure(key) == failures' = [failures EXCEPT ![key] = @ + 1]

\* It fails, or runs out of time, whatever it has done so far; the rest is left out.
StepFails(d) ==
  /\ At(d, "run") /\ step[d] # cleanup
  /\ groups' \in {groups, groups \union Creates(d)}
  /\ \E e \in StepErrors :
       errorInfo' = [errorInfo EXCEPT ![d] = e] /\ addFailure(e)
  /\ step' = [step EXCEPT ![d] = cleanup]
  /\ GoTo(d, "start")
  /\ UNCHANGED <<settings, main, ok, lock, rgPrefix, attempt, group, resMap, success, deleting, left>>

\* get_orchestrator_version, get_name_suffix and get_node_count
GetVersions(d) ==
  /\ At(d, "versions")
  /\ \/ step' = [step EXCEPT ![d] = @ + 1] /\ UNCHANGED errorInfo
     \/ /\ step' = [step EXCEPT ![d] = cleanup]
        /\ \E e \in ParseErrors : errorInfo' = [errorInfo EXCEPT ![d] = e]
  /\ GoTo(d, "start")
  /\ UNCHANGED <<settings, main, ok, lock, rgPrefix, attempt, group, resMap, success,
                 failures, groups, deleting, left>>

\* CLEANUP=false
Keeps(d) == ~ settings.autoclean /\ errorInfo[d] \in StepErrors

\* step.sh cleanup: az group delete --no-wait || true
Cleanup(d) ==
  /\ At(d, "run") /\ step[d] = cleanup
  /\ IF Keeps(d) \/ group[d] \notin groups
       THEN UNCHANGED <<deleting, left>>
       ELSE \/ deleting' = deleting \union {group[d]} /\ UNCHANGED left
            \/ left' = left \union {group[d]} /\ UNCHANGED deleting
  /\ GoTo(d, "tested")
  /\ UNCHANGED <<settings, main, ok, lock, rgPrefix, attempt, group, step, errorInfo, resMap,
                 success, failures, groups>>

\* Azure has deleted a group.
Deleted(g) ==
  /\ main = "waiting"
  /\ groups' = groups \ {g}
  /\ deleting' = deleting \ {g}
  /\ UNCHANGED <<settings, main, ok, lock, rgPrefix, goroutines, failures, left>>

\* testRun has returned, and its variables are gone.
EndAttempt(d) ==
  /\ At(d, "tested")
  /\ LET e == errorInfo[d] IN
     /\ success' = [success EXCEPT ![d] = e = Success]
     /\ resMap' = IF e = Success THEN resMap ELSE [resMap EXCEPT ![d][e] = @ + 1]
     /\ GoTo(d, AttemptOrEnd(attempt[d] + 1, e = Success))
  /\ attempt' = [attempt EXCEPT ![d] = @ + 1]
  /\ group' = [group EXCEPT ![d] = << >>]
  /\ step' = [step EXCEPT ![d] = 1]
  /\ errorInfo' = [errorInfo EXCEPT ![d] = Success]
  /\ UNCHANGED <<settings, main, ok, lock, rgPrefix, failures, groups, deleting, left>>

\* m.wg.Wait() is through: the report is written, and Run says whether all succeeded.
Return ==
  /\ main = "waiting"
  /\ \A d \in Deployments : pc[d] = "done"
  /\ main' = "returned"
  /\ ok' = \A d \in Deployments : success[d]
  /\ UNCHANGED <<settings, lock, rgPrefix, goroutines, failures, groups, deleting, left>>

testRun(d) ==
  \/ ReadPrefix(d) \/ SetDefault(d) \/ NameGroup(d) \/ TornPrefix(d)
  \/ StartStep(d) \/ StepDone(d) \/ StepFails(d) \/ GetVersions(d) \/ Cleanup(d)
  \/ EndAttempt(d)

Next == Prepare \/ (\E d \in Deployments : testRun(d)) \/ Unlock \/ (\E g \in deleting : Deleted(g))
        \/ Return

\* Go schedules every goroutine, and a goroutine that waits for a lock given back again
\* and again gets it; every process of a step ends.
Spec ==
  /\ Init
  /\ [][Next]_vars
  /\ WF_vars(Prepare) /\ WF_vars(Unlock) /\ WF_vars(Return)
  /\ \A d \in Deployments : SF_vars(testRun(d))

(***************************************************************************)
(* Properties.                                                             *)
(***************************************************************************)
PCs == {"none", "prefix", "default", "name", "start", "run", "versions", "tested", "done"}
Prefixes == {s.prefix : s \in Settings} \union {"", DefaultPrefix}
Groups == Prefixes \X Deployments \X Nat

\* The types of the variables; no deployment has more attempts than the settings give it.
TypeOK ==
  /\ settings \in Settings
  /\ main \in {"init", "waiting", "returned", "crashed"}
  /\ ok \in BOOLEAN /\ lock \in BOOLEAN
  /\ rgPrefix \in Prefixes
  /\ pc \in [Deployments -> PCs]
  /\ attempt \in [Deployments -> 0 .. settings.retries]
  /\ group \in [Deployments -> {<< >>} \union Groups]
  /\ step \in [Deployments -> 1 .. cleanup]
  /\ errorInfo \in [Deployments -> ErrNames \union {Success}]
  /\ resMap \in [Deployments -> [ErrNames -> Nat]]
  /\ success \in [Deployments -> BOOLEAN]
  /\ failures \in [StepErrors -> Nat]
  /\ groups \subseteq Groups /\ deleting \subseteq groups /\ left \subseteq groups

\* The sum of the values of f.
Sum(f) == MapThenSumSet(LAMBDA x : f[x], DOMAIN f)

\* How many attempts of d these errors ended, and how many attempts e ended.
Total(d, errors) == Sum([e \in errors |-> resMap[d][e]])
Times(e) == Sum([d \in Deployments |-> resMap[d][e]])

UnderWay(d) == pc[d] \in {"start", "run", "versions"} \/ (pc[d] = "tested" /\ Keeps(d))

\* The groups of d that exist and stay.
Staying(d) == {g \in groups \ (left \union deleting) : g[2] = d}

\* Though goroutines overwrite each other's prefix, a group is used by one attempt: a
\* retry meets neither what an earlier attempt left nor what is being deleted.  And the
\* groups of a deployment that are left are accounted for: its attempt under way, those
\* whose deletion was refused, and with AUTOCLEAN=false one for each error of a step.
GroupsCleaned ==
  /\ \A d \in Deployments : pc[d] = "start" /\ step[d] = 1 => group[d] \notin groups
  /\ \A d, e \in Deployments : group[d] = group[e] /\ group[d] # << >> => d = e
  /\ \A d \in Deployments :
       Cardinality(Staying(d))
         <= (IF UnderWay(d) THEN 1 ELSE 0)
            + (IF settings.autoclean THEN 0 ELSE Total(d, StepErrors))

\* The two counts of errors, one behind a lock and one in each goroutine, agree, and
\* Run succeeds just when every deployment had an attempt without an error.
VerdictExact ==
  main = "returned" /\ (\E d \in Deployments : pc[d] # "none") =>
    /\ ok <=> \A d \in Deployments : Total(d, ErrNames) < settings.retries
    /\ \A e \in StepErrors : failures[e] = Times(e)

\* Run returns: the lock is always given back and no goroutine is waited for in vain.
RunReturns == main = "waiting" ~> main \in {"returned", "crashed"}
=============================================================================
