---------------------------- MODULE DcosUpgrade ----------------------------
(***************************************************************************)
(* The `upgrade` command: cmd/dcos-upgrade.go drives the workflow of       *)
(* pkg/operations/dcosupgrade over SSH.  One process, the operator's tool, *)
(* walks through the workflow; every call of RemoteRun is a step of its    *)
(* own, because it can be lost before the command ran, can be lost after   *)
(* it took effect, and is where the tool may be killed.  A failed run      *)
(* leaves everything it did behind, and the operator runs the command      *)
(* again: the specification is about what the next run makes of it.        *)
(***************************************************************************)
EXTENDS Integers, FiniteSets

CONSTANTS
  MasterCount,     \* MasterProfile.Count
  LinuxAgents,
  WindowsAgents,
  InitialAgents,   \* the agents in the cluster at first; the others may join
  NoAgent,         \* no agent is being upgraded
  CurrentVersion,  \* the version apimodel.json holds at first
  TargetVersion,   \* --upgrade-version
  Torn,            \* an apimodel.json that does not parse
  HalfStates,      \* how a node can look when its upgrade script stopped midway
  FaultKinds,      \* the faults of the environment that can occur
  MaxFaults        \* bound: how many of them occur

Masters == 0 .. MasterCount - 1
Agents  == LinuxAgents \cup WindowsAgents
Nodes   == Masters \cup Agents

AllFaults == {"drop",      \* a command is never run, or the tool is killed before it
              "lost",      \* a command took effect, but its answer is lost
              "generate",  \* dcos_generate_config yields no URL
              "nginx",     \* the bootstrap node's nginx does not start
              "curl",      \* a download fails, all its retries included
              "half",      \* a node upgrade script stops midway
              "torn",      \* the tool is killed while it writes apimodel.json
              "leave"}     \* an agent leaves the cluster

ASSUME MasterCountAssumption == MasterCount \in Nat \ {0}
ASSUME AgentsAssumption ==
  /\ LinuxAgents \cap WindowsAgents = {}
  /\ Agents \cap Masters = {}
  /\ InitialAgents \subseteq Agents
  /\ NoAgent \notin Agents
ASSUME VersionAssumption == Torn \notin {CurrentVersion, TargetVersion}
ASSUME FaultAssumption ==
  /\ HalfStates \subseteq {"halfOld", "halfNew"}
  /\ HalfStates # {}
  /\ FaultKinds \subseteq AllFaults
  /\ MaxFaults \in Nat

VARIABLES
  pc,        \* where the tool is; "idle": not running, "done": it succeeded
  current,   \* uc.CurrentDcosVersion of this run
  listed,    \* the agents of this run's answer from leader.mesos:5050/slaves
  finished,  \* the listed agents this run has been through
  m,         \* the loop variable of upgradeMasterNodes
  agent,     \* the agent being upgraded
  staged,    \* the files this run has put on master 0 and the bootstrap nodes
  model,     \* the version in apimodel.json on the operator's disk
  \* Contents that carry a node upgrade URL are "none", "cur" (the URL the last
  \* run of the bootstrap script published) or "old" (one published before it).
  home,      \* node_upgrade.sh or node_upgrade.<version>.ps1 of each node
  winScript, \* node_upgrade.<version>.ps1 on master 0
  fetched,   \* the dcos_node_upgrade script in each node's upgrade directory
  ran,       \* the dcos_node_upgrade script each node ran last
  nginx,     \* "up" if the Linux bootstrap node serves the current URL, or "down"
  status,    \* "old", "new", or how far the node's last script got
  cluster,   \* the agents Mesos knows
  faults     \* the number of faults so far

node  == <<home, winScript, fetched, ran, nginx, status>>
local == <<current, listed, finished, m, agent, staged>>
vars  == <<pc, local, model, node, cluster, faults>>

Contents == {"none", "old", "cur"}
Statuses == {"old", "new", "halfOld", "halfNew"}
Files    == {"key", "script", "config", "bsScript", "bsConfig",
             "winScript", "winConfig", "winBsScript", "winBsConfig"}

\* The values of pc during the three parts of runUpgrade.
StagingSteps ==
  {"listAgents", "copyKey", "chmodKey",
   "copyScript", "chmodScript", "copyConfig", "scpScript", "scpConfig", "runBootstrap",
   "copyWinScript", "copyWinConfig", "scpWinScript", "scpWinConfig", "runWinBootstrap",
   "copyWinAgentScript"}
MasterSteps == {"master", "copyToMaster", "chmodOnMaster",
                "fetchOnMaster", "executeOnMaster", "verifyMaster"}
AgentSteps == {"scpToAgent", "fetchOnAgent", "executeOnAgent", "verifyAgent"}

(***************************************************************************)
(* One RemoteRun.  The tool goes on, or it aborts because the answer was   *)
(* lost; in both cases the command took effect.  That the command did not  *)
(* run at all is the action Drop.                                          *)
(***************************************************************************)
Fault(kind) ==
  /\ kind \in FaultKinds
  /\ faults < MaxFaults
  /\ faults' = faults + 1

RemoteRun(here, next) ==
  /\ pc = here
  /\ \/ pc' = next /\ UNCHANGED faults
     \/ pc' = "idle" /\ Fault("lost")

Abort(here) == pc = here /\ pc' = "idle"

hasWindowsAgents == listed \cap WindowsAgents # {}

Init ==
  /\ pc = "idle"
  /\ current = CurrentVersion
  /\ listed = {} /\ finished = {} /\ m = 0 /\ staged = {}
  /\ agent = NoAgent
  /\ model = CurrentVersion
  /\ home = [n \in Nodes |-> "none"]
  /\ winScript = "none"
  /\ fetched = [n \in Nodes |-> "none"]
  /\ ran = [n \in Nodes |-> "none"]
  /\ nginx = "down"
  /\ status = [n \in Nodes |-> "old"]
  /\ cluster = InitialAgents
  /\ faults = 0

(***************************************************************************)
(* The command starts: loadCluster reads apimodel.json.  The version asked *)
(* for is one the rules let through; the module Versions has the rules.    *)
(***************************************************************************)
LoadCluster_KeepsFinished ==
  /\ pc = "idle" /\ model # Torn /\ pc' = "listAgents"
  /\ current' = model
  /\ listed' = {} /\ m' = 0 /\ agent' = NoAgent /\ staged' = {}
  /\ UNCHANGED <<finished, model, node, cluster, faults>>

LoadCluster ==
  /\ pc = "idle"
  /\ model # Torn
  /\ pc' = "listAgents"
  /\ current' = model
  /\ listed' = {} /\ finished' = {} /\ m' = 0 /\ agent' = NoAgent /\ staged' = {}
  /\ UNCHANGED <<model, node, cluster, faults>>

\* The agents are listed once, before anything is upgraded.
ListAgents ==
  /\ RemoteRun("listAgents", "copyKey")
  /\ listed' = cluster
  /\ UNCHANGED <<current, finished, m, agent, staged, model, node, cluster>>

(***************************************************************************)
(* Files are written to master 0, and from there copied to the bootstrap   *)
(* nodes.  A file that comes from one this run has not written is left     *)
(* over from an earlier run.                                               *)
(***************************************************************************)
Stage(here, next, new) ==
  /\ RemoteRun(here, next)
  /\ staged' = staged \cup new
  /\ UNCHANGED <<current, listed, finished, m, agent, model, node, cluster>>

Carry(from, to) == IF from \in staged THEN {to} ELSE {}

CopyKey     == Stage("copyKey", "chmodKey", {"key"})
ChmodKey    == Stage("chmodKey", "copyScript", {})

CopyBootstrapConfig_Unwritten == Stage("copyConfig", "scpScript", {})

CopyBootstrapScript  == Stage("copyScript", "chmodScript", {"script"})
ChmodBootstrapScript == Stage("chmodScript", "copyConfig", {})
CopyBootstrapConfig  == Stage("copyConfig", "scpScript", {"config"})
ScpBootstrapScript   == Stage("scpScript", "scpConfig", Carry("script", "bsScript"))
ScpBootstrapConfig   == Stage("scpConfig", "runBootstrap", Carry("config", "bsConfig"))

CopyWinScript == Stage("copyWinScript", "copyWinConfig", {"winScript"})
CopyWinConfig == Stage("copyWinConfig", "scpWinScript", {"winConfig"})
ScpWinScript  == Stage("scpWinScript", "scpWinConfig", Carry("winScript", "winBsScript"))
ScpWinConfig  == Stage("scpWinConfig", "runWinBootstrap", Carry("winConfig", "winBsConfig"))

(***************************************************************************)
(* bootstrapUpgradeScript removes what the previous run published before   *)
(* it generates again: every URL handed out so far is dead from then on.   *)
(* nginx is restarted whatever happened, and its status is not checked.    *)
(***************************************************************************)
Age(content) == IF content = "cur" THEN "old" ELSE content
AgeOn(set, f) == [n \in Nodes |-> IF n \in set THEN Age(f[n]) ELSE f[n]]

Republish(set) ==
  /\ home' = AgeOn(set, home)
  /\ fetched' = AgeOn(set, fetched)
  /\ ran' = AgeOn(set, ran)

RunBootstrap ==
  /\ Republish(Masters \cup LinuxAgents)
  /\ \/ /\ RemoteRun("runBootstrap",
                     IF hasWindowsAgents THEN "copyWinScript" ELSE "master")
        /\ nginx' = "up"
     \/ /\ pc = "runBootstrap"
        /\ pc' = IF hasWindowsAgents THEN "copyWinScript" ELSE "master"
        /\ Fault("nginx")
        /\ nginx' = "down"
     \/ /\ Abort("runBootstrap")
        /\ Fault("generate")
        /\ nginx' = "down"
  /\ UNCHANGED <<local, model, winScript, status, cluster>>

\* winBootstrapUpgradeScript.ps1 checks every step it takes and exits with 1.
RunWinBootstrap ==
  /\ Republish(WindowsAgents)
  /\ winScript' = Age(winScript)
  /\ \/ RemoteRun("runWinBootstrap", "copyWinAgentScript")
     \/ Abort("runWinBootstrap") /\ (Fault("generate") \/ Fault("nginx"))
  /\ UNCHANGED <<local, model, nginx, status, cluster>>

CreateWindowsAgentScript ==
  /\ RemoteRun("copyWinAgentScript", "master")
  /\ winScript' = "cur"
  /\ UNCHANGED <<local, model, home, fetched, ran, nginx, status, cluster>>

(***************************************************************************)
(* What a node's script does, on a master or an agent: fetch               *)
(* dcos_node_upgrade and run it.  The connection can be lost in between.   *)
(* The Linux script does not check the download, and runs the script an    *)
(* earlier attempt left there; the Windows one removes the directory first *)
(* and stops when the download fails.                                      *)
(***************************************************************************)
Served(n) == home[n] = "cur" /\ (n \in WindowsAgents \/ nginx = "up")

Fetch_Unchecked(n, here, next) ==
  /\ pc = here
  /\ pc' = next
  /\ \/ Served(n) /\ fetched' = [fetched EXCEPT ![n] = "cur"] /\ UNCHANGED faults
     \/ UNCHANGED fetched /\ IF Served(n) THEN Fault("curl") ELSE UNCHANGED faults
  /\ UNCHANGED <<local, model, home, winScript, ran, nginx, status, cluster>>

Fetch(n, here, next) ==
  /\ pc = here
  /\ \/ /\ Served(n)
        /\ fetched' = [fetched EXCEPT ![n] = "cur"]
        /\ pc' = next
        /\ UNCHANGED faults
     \/ /\ IF Served(n) THEN Fault("curl") ELSE UNCHANGED faults
        /\ IF n \in WindowsAgents
           THEN pc' = "idle" /\ fetched' = [fetched EXCEPT ![n] = "none"]
           ELSE pc' = next /\ UNCHANGED fetched
  /\ UNCHANGED <<local, model, home, winScript, ran, nginx, status, cluster>>

Execute_IgnoresExit(n, here, next) ==
  /\ RemoteRun(here, next)
  /\ fetched[n] # "none"
  /\ ran' = [ran EXCEPT ![n] = fetched[n]]
  /\ \E s \in {"new"} \cup HalfStates : status' = [status EXCEPT ![n] = s]
  /\ UNCHANGED <<local, model, home, winScript, fetched, nginx, cluster>>

Execute(n, here, next) ==
  /\ pc = here
  /\ \/ /\ fetched[n] = "none"         \* bash: no such file, exit status 127
        /\ Abort(here)
        /\ UNCHANGED <<ran, status, faults>>
     \/ /\ fetched[n] # "none"
        /\ ran' = [ran EXCEPT ![n] = fetched[n]]
        /\ \/ RemoteRun(here, next) /\ status' = [status EXCEPT ![n] = "new"]
           \/ /\ Abort(here) /\ Fault("half")
              /\ \E half \in HalfStates : status' = [status EXCEPT ![n] = half]
  /\ UNCHANGED <<local, model, home, winScript, fetched, nginx, cluster>>

UpToDate_AnyVersion(n) == status[n] \in {"new", "halfNew"}
UpToDate_Never(n)      == FALSE

\* "partial upgrade case": the node's dcos-version.json has the target version.
UpToDate(n) ==
  /\ current # TargetVersion
  /\ status[n] \in {"new", "halfNew"}

(***************************************************************************)
(* upgradeMasterNodes: one master after the other, in the order of their   *)
(* ports.  The version read at the end is logged and compared to nothing.  *)
(***************************************************************************)
AfterMaster_OffByOne == IF m + 2 >= MasterCount THEN "agents" ELSE "master"

AfterMaster == IF m + 1 = MasterCount THEN "agents" ELSE "master"

\* A dcos-version.json that cannot be read (upgrader.go:254-258) ends the run as a command
\* that fails does: RemoteRun and Drop have that outcome, and no state of a node stands for it.
CheckMaster ==
  /\ pc = "master"
  /\ IF UpToDate(m)
     THEN RemoteRun("master", AfterMaster) /\ m' = m + 1
     ELSE RemoteRun("master", "copyToMaster") /\ UNCHANGED m
  /\ UNCHANGED <<current, listed, finished, agent, staged, model, node, cluster>>

CopyToMaster ==
  /\ RemoteRun("copyToMaster", "chmodOnMaster")
  /\ home' = [home EXCEPT ![m] = "cur"]
  /\ UNCHANGED <<local, model, winScript, fetched, ran, nginx, status, cluster>>

ChmodOnMaster ==
  /\ RemoteRun("chmodOnMaster", "fetchOnMaster")
  /\ UNCHANGED <<local, model, node, cluster>>

RunOnMaster ==
  \/ Fetch(m, "fetchOnMaster", "executeOnMaster")
  \/ Execute(m, "executeOnMaster", "verifyMaster")

VerifyMaster ==
  /\ RemoteRun("verifyMaster", AfterMaster)
  /\ m' = m + 1
  /\ UNCHANGED <<current, listed, finished, agent, staged, model, node, cluster>>

(***************************************************************************)
(* The agents, in the order of the answer, which may be any.  Every        *)
(* command reaches the agent through master 0, and a Linux agent gets the  *)
(* node_upgrade.sh that is in master 0's home directory.                   *)
(***************************************************************************)
CheckAgent(a) ==
  /\ a \in (listed \ finished) \cap cluster
  /\ IF UpToDate(a)
     THEN /\ RemoteRun("agents", "agents")
          /\ finished' = finished \cup {a}
          /\ UNCHANGED agent
     ELSE /\ RemoteRun("agents", "scpToAgent")
          /\ agent' = a
          /\ UNCHANGED finished
  /\ UNCHANGED <<current, listed, m, staged, model, node, cluster>>

ScpToAgent ==
  /\ agent \in cluster
  /\ RemoteRun("scpToAgent", "fetchOnAgent")
  /\ home' = [home EXCEPT ![agent] = IF agent \in WindowsAgents THEN winScript
                                                                ELSE home[0]]
  /\ UNCHANGED <<local, model, winScript, fetched, ran, nginx, status, cluster>>

RunOnAgent ==
  /\ agent \in cluster
  /\ \/ Fetch(agent, "fetchOnAgent", "executeOnAgent")
     \/ Execute(agent, "executeOnAgent", "verifyAgent")

VerifyAgent ==
  /\ agent \in cluster
  /\ RemoteRun("verifyAgent", "agents")
  /\ finished' = finished \cup {agent}
  /\ agent' = NoAgent
  /\ UNCHANGED <<current, listed, m, staged, model, node, cluster>>

\* A command for an agent that has left fails.
AgentUnreachable ==
  /\ \/ pc = "agents" /\ (listed \ finished) \ cluster # {}
     \/ pc \in AgentSteps /\ agent \notin cluster
  /\ pc' = "idle"
  /\ UNCHANGED <<local, model, node, cluster, faults>>

\* Only now is the new version written to apimodel.json, over the old content.
SaveModel ==
  /\ pc = "agents"
  /\ listed \subseteq finished
  /\ \/ pc' = "done" /\ model' = TargetVersion /\ UNCHANGED faults
     \/ pc' = "idle" /\ model' = Torn /\ Fault("torn")
  /\ UNCHANGED <<local, node, cluster>>

(***************************************************************************)
(* The environment.                                                        *)
(***************************************************************************)
Drop ==
  /\ pc \notin {"idle", "done"}
  /\ pc' = "idle"
  /\ Fault("drop")
  /\ UNCHANGED <<local, model, node, cluster>>

Join(a) ==
  /\ a \in Agents \ cluster
  /\ cluster' = cluster \cup {a}
  /\ UNCHANGED <<pc, local, model, node, faults>>

Leave(a) ==
  /\ a \in cluster
  /\ cluster' = cluster \ {a}
  /\ Fault("leave")
  /\ UNCHANGED <<pc, local, model, node>>

StageFiles ==
  \/ CopyKey \/ ChmodKey
  \/ CopyBootstrapScript \/ ChmodBootstrapScript \/ CopyBootstrapConfig
  \/ ScpBootstrapScript \/ ScpBootstrapConfig
  \/ CopyWinScript \/ CopyWinConfig \/ ScpWinScript \/ ScpWinConfig

UpgradeMaster ==
  CheckMaster \/ CopyToMaster \/ ChmodOnMaster \/ RunOnMaster \/ VerifyMaster

UpgradeAgent ==
  \/ \E a \in Agents : CheckAgent(a)
  \/ ScpToAgent \/ RunOnAgent \/ VerifyAgent \/ AgentUnreachable

Tool ==
  \/ LoadCluster \/ ListAgents
  \/ StageFiles
  \/ RunBootstrap \/ RunWinBootstrap \/ CreateWindowsAgentScript
  \/ UpgradeMaster \/ UpgradeAgent
  \/ SaveModel

Environment == Drop \/ (\E a \in Agents : Join(a) \/ Leave(a))

Next == Tool \/ Environment

Spec == Init /\ [][Next]_vars

(***************************************************************************)
(* The tool is a sequential program that does not stop between two steps,  *)
(* and the operator runs the command again until it succeeds.              *)
(***************************************************************************)
FairSpec == Spec /\ WF_vars(Tool)

TypeOK ==
  /\ pc \in {"idle", "agents", "done"} \cup StagingSteps \cup MasterSteps \cup AgentSteps
  /\ current \in {CurrentVersion, TargetVersion}
  /\ model \in {CurrentVersion, TargetVersion, Torn}
  /\ listed \subseteq Agents /\ finished \subseteq listed /\ cluster \subseteq Agents
  /\ m \in 0 .. MasterCount
  /\ agent \in Agents \cup {NoAgent}
  /\ staged \subseteq Files
  /\ home \in [Nodes -> Contents] /\ fetched \in [Nodes -> Contents]
  /\ ran \in [Nodes -> Contents]
  /\ winScript \in Contents /\ nginx \in {"up", "down"}
  /\ status \in [Nodes -> Statuses]
  /\ faults \in 0 .. MaxFaults

(***************************************************************************)
(* Safety.                                                                 *)
(***************************************************************************)

\* What a command of this run uses was written by this run: the scripts and
\* configurations the bootstrap nodes run with (upgrader.go:177-223), the
\* node_upgrade.sh a master runs (265-284), and the script of a Windows agent,
\* which every run writes to master 0 again (upgrader-win.go:16-35).
FreshInputs ==
  /\ pc = "runBootstrap" => {"key", "bsScript", "bsConfig"} \subseteq staged
  /\ pc = "runWinBootstrap" => {"key", "winBsScript", "winBsConfig"} \subseteq staged
  /\ pc = "fetchOnMaster" => home[m] = "cur"
  /\ pc = "fetchOnAgent" /\ agent \in WindowsAgents => home[agent] = "cur"

\* A Linux agent is handed the script this run made (upgrader.go:319).  It comes
\* from master 0's home, where only upgradeMasterNodes puts it.
LinuxScriptFresh ==
  pc = "fetchOnAgent" /\ agent \in LinuxAgents => home[agent] = "cur"

\* A Windows agent that finished its upgrade ran what this run published, not what
\* an earlier attempt downloaded: the script removes the directory before it
\* downloads (winNodeUpgradeScript.ps1:77-86).
WindowsNeverStale ==
  pc = "verifyAgent" /\ agent \in WindowsAgents => ran[agent] = "cur"

\* No agent is touched before every master has finished its upgrade
\* (upgrader.go:157-162).
MastersFirst ==
  pc \in AgentSteps => \A i \in Masters : status[i] = "new"

\* When the command reports success, every master and every agent of its list
\* has finished the upgrade, and apimodel.json says so (dcos-upgrade.go:244-265).
UpgradedWhenDone ==
  pc = "done" => /\ \A n \in Masters \cup listed : status[n] = "new"
                 /\ model = TargetVersion

\* However many runs fail, at most one master is left half upgraded: the next run
\* comes to it before it touches another (upgrader.go:244-264).
OneMasterDown ==
  Cardinality({i \in Masters : status[i] \notin {"old", "new"}}) <= 1

\* A run picks up where the failed one stopped: no node that has finished its
\* upgrade runs the script again (docs/dcos.md:130).
ResumesFromCheckpoint ==
  /\ pc = "executeOnMaster" => status[m] # "new"
  /\ pc = "executeOnAgent" => status[agent] # "new"

(***************************************************************************)
(* Liveness.                                                               *)
(***************************************************************************)

\* A failed upgrade can be run again until it succeeds (docs/dcos.md:130).
RerunSucceeds == <>(pc = "done")

(***************************************************************************)
(* The workflow implements RollingUpgrade.                                 *)
(***************************************************************************)
Rolling == INSTANCE RollingUpgrade WITH
  phase    <- IF pc = "idle" THEN "off" ELSE IF pc = "done" THEN "done" ELSE "on",
  roster   <- listed,
  through  <- (0 .. m - 1) \cup finished,
  upgraded <- {n \in Nodes : status[n] = "new"}

\* Every step of the workflow is a step of RollingUpgrade or leaves it alone.
ImplementsRolling == Rolling!Spec
=============================================================================
