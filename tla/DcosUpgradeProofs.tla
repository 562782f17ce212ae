------------------------- MODULE DcosUpgradeProofs -------------------------
(***************************************************************************)
(* Theorems about DcosUpgrade, for every number of masters, every set of   *)
(* agents and every pattern of faults: types and scripts; then the order   *)
(* in which nodes are upgraded, what the success of the command means, and *)
(* that the workflow implements RollingUpgrade.                            *)
(***************************************************************************)
EXTENDS DcosUpgrade, FiniteSetTheorems, TLAPS

(***************************************************************************)
(* TypeOK is not inductive: that the loop over the masters stays in bounds *)
(* and that an agent the tool is through with is one of its list depends   *)
(* on where the tool is.                                                   *)
(***************************************************************************)
Position ==
  /\ pc \in StagingSteps => m = 0 /\ finished = {}
  /\ pc \in MasterSteps => m < MasterCount /\ finished = {}
  /\ pc \in {"agents", "done"} \cup AgentSteps => m = MasterCount
  /\ pc \in AgentSteps => agent \in listed \ finished
  /\ pc = "done" => listed \subseteq finished /\ model = TargetVersion

TypeInv == TypeOK /\ Position

USE DEF RemoteRun, Fault, Abort, StagingSteps, MasterSteps, AgentSteps

LEMMA TypeInit == Init => TypeInv
  BY MasterCountAssumption, AgentsAssumption, FaultAssumption
     DEF Init, TypeInv, TypeOK, Position, Contents, Statuses, Files

\* What is a node.
LEMMA NodeFacts ==
  /\ Masters \subseteq Nodes /\ Agents \subseteq Nodes
  /\ LinuxAgents \subseteq Agents /\ WindowsAgents \subseteq Agents
  /\ 0 \in Masters
  BY MasterCountAssumption DEF Nodes, Agents, Masters

LEMMA StageType ==
  ASSUME TypeInv, NEW here \in StagingSteps, NEW next \in StagingSteps,
         NEW new \in SUBSET Files, Stage(here, next, new)
  PROVE  TypeInv'
<1>1. TypeOK'
  BY FaultAssumption DEF TypeInv, TypeOK, Position, Stage, node
<1>2. Position'
  BY DEF TypeInv, TypeOK, Position, Stage
<1> QED BY <1>1, <1>2 DEF TypeInv

LEMMA StageFilesType ==
  ASSUME TypeInv, StageFiles
  PROVE  TypeInv'
<1> USE StageType DEF Carry, Files
<1>1. CASE CopyKey BY <1>1 DEF CopyKey
<1>2. CASE ChmodKey BY <1>2 DEF ChmodKey
<1>3. CASE CopyBootstrapScript BY <1>3 DEF CopyBootstrapScript
<1>4. CASE ChmodBootstrapScript BY <1>4 DEF ChmodBootstrapScript
<1>5. CASE CopyBootstrapConfig BY <1>5 DEF CopyBootstrapConfig
<1>6. CASE ScpBootstrapScript BY <1>6 DEF ScpBootstrapScript
<1>7. CASE ScpBootstrapConfig BY <1>7 DEF ScpBootstrapConfig
<1>8. CASE CopyWinScript BY <1>8 DEF CopyWinScript
<1>9. CASE CopyWinConfig BY <1>9 DEF CopyWinConfig
<1>10. CASE ScpWinScript BY <1>10 DEF ScpWinScript
<1>11. CASE ScpWinConfig BY <1>11 DEF ScpWinConfig
<1> QED
  BY <1>1, <1>2, <1>3, <1>4, <1>5, <1>6, <1>7, <1>8, <1>9, <1>10, <1>11
     DEF StageFiles

LEMMA StartType ==
  ASSUME TypeInv, LoadCluster \/ ListAgents
  PROVE  TypeInv'
<1>1. CASE LoadCluster
  <2>1. TypeOK'
    BY <1>1, MasterCountAssumption, VersionAssumption
       DEF TypeInv, TypeOK, LoadCluster, node
  <2>2. Position'
    BY <1>1 DEF TypeInv, Position, LoadCluster
  <2> QED BY <2>1, <2>2 DEF TypeInv
<1>2. CASE ListAgents
  <2>1. TypeOK'
    BY <1>2, FaultAssumption DEF TypeInv, TypeOK, Position, ListAgents, node
  <2>2. Position'
    BY <1>2 DEF TypeInv, TypeOK, Position, ListAgents
  <2> QED BY <2>1, <2>2 DEF TypeInv
<1> QED BY <1>1, <1>2

LEMMA AgeType ==
  ASSUME NEW f \in [Nodes -> Contents], NEW set
  PROVE  AgeOn(set, f) \in [Nodes -> Contents]
  BY DEF AgeOn, Age, Contents

LEMMA PublishType ==
  ASSUME TypeInv, RunBootstrap \/ RunWinBootstrap \/ CreateWindowsAgentScript
  PROVE  TypeInv'
<1> USE FaultAssumption, AgeType DEF TypeInv, TypeOK, local
<1>1. CASE RunBootstrap
  <2>1. TypeOK' BY <1>1 DEF RunBootstrap, Republish
  <2>2. Position' BY <1>1, MasterCountAssumption DEF RunBootstrap, Position
  <2> QED BY <2>1, <2>2
<1>2. CASE RunWinBootstrap
  <2>1. Age(winScript) \in Contents BY DEF Age, Contents
  <2>2. TypeOK' BY <1>2, <2>1 DEF RunWinBootstrap, Republish
  <2>3. Position' BY <1>2 DEF RunWinBootstrap, Position
  <2> QED BY <2>2, <2>3
<1>3. CASE CreateWindowsAgentScript
  <2>1. TypeOK' BY <1>3 DEF CreateWindowsAgentScript, Contents
  <2>2. Position' BY <1>3, MasterCountAssumption DEF CreateWindowsAgentScript, Position
  <2> QED BY <2>1, <2>2
<1> QED BY <1>1, <1>2, <1>3

\* The two steps that run a node's script, on any node.
LEMMA ScriptType ==
  ASSUME TypeInv, NEW n \in Nodes, NEW here, NEW next,
         \/ here = "fetchOnMaster" /\ next = "executeOnMaster"
         \/ here = "executeOnMaster" /\ next = "verifyMaster"
         \/ here = "fetchOnAgent" /\ next = "executeOnAgent"
         \/ here = "executeOnAgent" /\ next = "verifyAgent",
         Fetch(n, here, next) \/ Execute(n, here, next)
  PROVE  TypeInv'
<1> USE FaultAssumption DEF TypeInv, TypeOK, local
<1>1. CASE Fetch(n, here, next)
  <2>1. fetched' \in [Nodes -> Contents] BY <1>1 DEF Fetch, Contents
  <2>2. TypeOK' BY <1>1, <2>1 DEF Fetch
  <2>3. Position' BY <1>1 DEF Fetch, Position
  <2> QED BY <2>2, <2>3
<1>2. CASE Execute(n, here, next)
  <2>1. /\ ran' \in [Nodes -> Contents]
        /\ status' \in [Nodes -> Statuses]
    BY <1>2 DEF Execute, Statuses
  <2>2. TypeOK' BY <1>2, <2>1 DEF Execute
  <2>3. Position' BY <1>2 DEF Execute, Position
  <2> QED BY <2>2, <2>3
<1> QED BY <1>1, <1>2

LEMMA MasterType ==
  ASSUME TypeInv, UpgradeMaster
  PROVE  TypeInv'
<1> USE FaultAssumption, MasterCountAssumption DEF TypeInv, TypeOK
<1>1. CASE CheckMaster
  <2>1. TypeOK' BY <1>1 DEF CheckMaster, AfterMaster, node, Position
  <2>2. Position' BY <1>1 DEF CheckMaster, AfterMaster, Position
  <2> QED BY <2>1, <2>2
<1>2. CASE CopyToMaster
  <2>1. home' \in [Nodes -> Contents] BY <1>2 DEF CopyToMaster, Contents
  <2>2. TypeOK' BY <1>2, <2>1 DEF CopyToMaster, local
  <2>3. Position' BY <1>2 DEF CopyToMaster, Position, local
  <2> QED BY <2>2, <2>3
<1>3. CASE ChmodOnMaster
  <2>1. TypeOK' BY <1>3 DEF ChmodOnMaster, local, node
  <2>2. Position' BY <1>3 DEF ChmodOnMaster, Position, local
  <2> QED BY <2>1, <2>2
<1>4. CASE RunOnMaster
  <2>1. m \in 0 .. MasterCount - 1 BY <1>4 DEF RunOnMaster, Fetch, Execute, Position
  <2>2. m \in Nodes BY <2>1, NodeFacts DEF Masters
  <2> QED BY <1>4, <2>2, ScriptType DEF RunOnMaster
<1>5. CASE VerifyMaster
  <2>1. TypeOK' BY <1>5 DEF VerifyMaster, AfterMaster, node, Position
  <2>2. Position' BY <1>5 DEF VerifyMaster, AfterMaster, Position
  <2> QED BY <2>1, <2>2
<1> QED BY <1>1, <1>2, <1>3, <1>4, <1>5 DEF UpgradeMaster

LEMMA AgentType ==
  ASSUME TypeInv, UpgradeAgent
  PROVE  TypeInv'
<1> USE FaultAssumption, MasterCountAssumption DEF TypeInv, TypeOK
<1>1. CASE \E a \in Agents : CheckAgent(a)
  <2>1. TypeOK' BY <1>1 DEF CheckAgent, node
  <2>2. Position' BY <1>1 DEF CheckAgent, Position
  <2> QED BY <2>1, <2>2
<1>2. CASE ScpToAgent
  <2>1. home[0] \in Contents BY NodeFacts
  <2>2. home' \in [Nodes -> Contents] BY <1>2, <2>1 DEF ScpToAgent
  <2>3. TypeOK' BY <1>2, <2>2 DEF ScpToAgent, local
  <2>4. Position' BY <1>2 DEF ScpToAgent, Position, local
  <2> QED BY <2>3, <2>4
<1>3. CASE RunOnAgent
  <2>1. agent \in Nodes BY <1>3, NodeFacts DEF RunOnAgent
  <2> QED BY <1>3, <2>1, ScriptType DEF RunOnAgent
<1>4. CASE VerifyAgent
  <2>1. TypeOK' BY <1>4 DEF VerifyAgent, node, Position
  <2>2. Position' BY <1>4 DEF VerifyAgent, Position
  <2> QED BY <2>1, <2>2
<1>5. CASE AgentUnreachable
  <2>1. TypeOK' BY <1>5 DEF AgentUnreachable, local, node
  <2>2. Position' BY <1>5 DEF AgentUnreachable, Position, local
  <2> QED BY <2>1, <2>2
<1> QED BY <1>1, <1>2, <1>3, <1>4, <1>5 DEF UpgradeAgent

LEMMA SaveType ==
  ASSUME TypeInv, SaveModel
  PROVE  TypeInv'
<1>1. TypeOK' BY FaultAssumption DEF TypeInv, TypeOK, SaveModel, local, node
<1>2. Position' BY DEF TypeInv, TypeOK, Position, SaveModel, local
<1> QED BY <1>1, <1>2 DEF TypeInv

LEMMA EnvironmentType ==
  ASSUME TypeInv, Environment
  PROVE  TypeInv'
<1> USE FaultAssumption DEF TypeInv, TypeOK, local, node
<1>1. CASE Drop
  <2>1. TypeOK' BY <1>1 DEF Drop
  <2>2. Position' BY <1>1 DEF Drop, Position
  <2> QED BY <2>1, <2>2
<1>2. ASSUME NEW a \in Agents, Join(a) \/ Leave(a) PROVE TypeInv'
  <2>1. TypeOK' BY <1>2 DEF Join, Leave
  <2>2. Position' BY <1>2 DEF Join, Leave, Position
  <2> QED BY <2>1, <2>2
<1> QED BY <1>1, <1>2 DEF Environment

LEMMA TypeStep == TypeInv /\ [Next]_vars => TypeInv'
<1> SUFFICES ASSUME TypeInv, [Next]_vars PROVE TypeInv'
  OBVIOUS
<1>1. CASE Tool
  BY <1>1, StartType, StageFilesType, PublishType, MasterType, AgentType, SaveType DEF Tool
<1>2. CASE Environment BY <1>2, EnvironmentType
<1>3. CASE UNCHANGED vars
  BY <1>3 DEF vars, local, node, TypeInv, TypeOK, Position
<1> QED BY <1>1, <1>2, <1>3 DEF Next

\* The state of the workflow keeps its type, whatever fails and however often the
\* command is run again: the loop over the masters stays within their number, and
\* the tool is through only with agents of its own list (upgrader.go:80-175).
THEOREM TypeCorrect == Spec => []TypeOK
<1>1. Spec => []TypeInv BY TypeInit, TypeStep, PTL DEF Spec
<1>2. TypeInv => TypeOK BY DEF TypeInv
<1> QED BY <1>1, <1>2, PTL

(***************************************************************************)
(* Where the scripts come from that a run of the command executes on the   *)
(* bootstrap nodes, the masters and the agents.                            *)
(***************************************************************************)

\* What this run has put on master 0 and the bootstrap nodes, by the place it is at.
StagedSoFar ==
  /\ pc \in StagingSteps \ {"listAgents", "copyKey"} => "key" \in staged
  /\ pc \in {"chmodScript", "copyConfig", "scpScript"} => "script" \in staged
  /\ pc \in {"scpScript", "scpConfig"} => "config" \in staged
  /\ pc \in {"scpConfig", "runBootstrap"} => "bsScript" \in staged
  /\ pc = "runBootstrap" => "bsConfig" \in staged
  /\ pc \in {"copyWinConfig", "scpWinScript"} => "winScript" \in staged
  /\ pc \in {"scpWinScript", "scpWinConfig"} => "winConfig" \in staged
  /\ pc \in {"scpWinConfig", "runWinBootstrap"} => "winBsScript" \in staged
  /\ pc = "runWinBootstrap" => "winBsConfig" \in staged

\* The node upgrade scripts that are of this run.
ScriptsFresh ==
  /\ pc \in {"chmodOnMaster", "fetchOnMaster"} => home[m] = "cur"
  /\ pc \in {"agents"} \cup MasterSteps \cup AgentSteps /\ hasWindowsAgents
       => winScript = "cur"
  /\ pc = "fetchOnAgent" /\ agent \in WindowsAgents => home[agent] = "cur"
  /\ pc = "executeOnAgent" /\ agent \in WindowsAgents => fetched[agent] = "cur"
  /\ pc = "verifyAgent" /\ agent \in WindowsAgents => ran[agent] = "cur"

LEMMA StagedStep ==
  ASSUME TypeInv, StagedSoFar, [Next]_vars
  PROVE  StagedSoFar'
<1> USE DEF StagedSoFar
<1>1. CASE LoadCluster \/ ListAgents BY <1>1 DEF LoadCluster, ListAgents
<1>2. CASE StageFiles
  <2> USE DEF Stage, Carry
  <2>1. CASE CopyKey \/ ChmodKey BY <2>1 DEF CopyKey, ChmodKey
  <2>2. CASE CopyBootstrapScript \/ ChmodBootstrapScript \/ CopyBootstrapConfig
    BY <2>2 DEF CopyBootstrapScript, ChmodBootstrapScript, CopyBootstrapConfig
  <2>3. CASE ScpBootstrapScript \/ ScpBootstrapConfig
    BY <2>3 DEF ScpBootstrapScript, ScpBootstrapConfig
  <2>4. CASE CopyWinScript \/ CopyWinConfig BY <2>4 DEF CopyWinScript, CopyWinConfig
  <2>5. CASE ScpWinScript \/ ScpWinConfig BY <2>5 DEF ScpWinScript, ScpWinConfig
  <2> QED BY <1>2, <2>1, <2>2, <2>3, <2>4, <2>5 DEF StageFiles
<1>3. CASE RunBootstrap \/ RunWinBootstrap \/ CreateWindowsAgentScript
  BY <1>3 DEF RunBootstrap, RunWinBootstrap, CreateWindowsAgentScript, local
<1>4. CASE UpgradeMaster \/ UpgradeAgent
  BY <1>4
     DEF UpgradeMaster, CheckMaster, CopyToMaster, ChmodOnMaster, RunOnMaster, VerifyMaster,
         AfterMaster, UpgradeAgent, CheckAgent, ScpToAgent, RunOnAgent, VerifyAgent,
         AgentUnreachable, Fetch, Execute
<1>5. CASE SaveModel BY <1>5 DEF SaveModel
<1>6. CASE Environment BY <1>6 DEF Environment, Drop, Join, Leave, local
<1>7. CASE UNCHANGED vars BY <1>7 DEF vars, local
<1> QED BY <1>1, <1>2, <1>3, <1>4, <1>5, <1>6, <1>7 DEF Next, Tool

LEMMA ScriptsStep ==
  ASSUME TypeInv, ScriptsFresh, [Next]_vars
  PROVE  ScriptsFresh'
<1> USE DEF ScriptsFresh, hasWindowsAgents
<1>t. /\ home \in [Nodes -> Contents] /\ fetched \in [Nodes -> Contents]
      /\ ran \in [Nodes -> Contents]
      /\ m \in 0 .. MasterCount
      /\ pc \in MasterSteps => m < MasterCount
      /\ pc \in AgentSteps => agent \in listed
  BY DEF TypeInv, TypeOK, Position
<1>1. CASE LoadCluster \/ ListAgents \/ SaveModel
  BY <1>1 DEF LoadCluster, ListAgents, SaveModel
<1>2. CASE StageFiles
  BY <1>2
     DEF StageFiles, CopyKey, ChmodKey, CopyBootstrapScript, ChmodBootstrapScript,
         CopyBootstrapConfig, ScpBootstrapScript, ScpBootstrapConfig, CopyWinScript,
         CopyWinConfig, ScpWinScript, ScpWinConfig, Stage
<1>3. CASE RunBootstrap BY <1>3 DEF RunBootstrap, local
<1>4. CASE RunWinBootstrap \/ CreateWindowsAgentScript
  BY <1>4 DEF RunWinBootstrap, CreateWindowsAgentScript, local
<1>5. CASE UpgradeMaster
  <2>1. CASE CheckMaster \/ VerifyMaster
    BY <2>1 DEF CheckMaster, VerifyMaster, AfterMaster, node
  <2>2. CASE CopyToMaster \/ ChmodOnMaster
    <3>1. m \in Nodes
      BY <2>2, <1>t, NodeFacts, MasterCountAssumption DEF CopyToMaster, ChmodOnMaster, Masters
    <3> QED BY <1>t, <2>2, <3>1 DEF CopyToMaster, ChmodOnMaster, local, node
  <2>3. CASE RunOnMaster BY <2>3 DEF RunOnMaster, Fetch, Execute, local
  <2> QED BY <1>5, <2>1, <2>2, <2>3 DEF UpgradeMaster
<1>6. CASE UpgradeAgent
  <2>1. CASE (\E a \in Agents : CheckAgent(a)) \/ VerifyAgent \/ AgentUnreachable
    BY <2>1 DEF CheckAgent, VerifyAgent, AgentUnreachable, local, node
  <2>2. CASE ScpToAgent
    <3>1. agent \in listed BY <1>t, <2>2 DEF ScpToAgent
    <3>2. agent \in WindowsAgents => agent \in Nodes BY NodeFacts
    <3> QED BY <1>t, <2>2, <3>1, <3>2 DEF ScpToAgent, local
  <2>3. CASE Fetch(agent, "fetchOnAgent", "executeOnAgent")
    <3>1. agent \in WindowsAgents => agent \in Nodes BY NodeFacts
    <3> QED BY <1>t, <2>3, <3>1 DEF Fetch, local
  <2>4. CASE Execute(agent, "executeOnAgent", "verifyAgent")
    <3>1. agent \in WindowsAgents => agent \in Nodes BY NodeFacts
    <3>2. pc' = "verifyAgent" /\ agent \in WindowsAgents => ran'[agent] = "cur"
      BY <1>t, <2>4, <3>1 DEF Execute
    <3> QED BY <2>4, <3>2 DEF Execute, local
  <2> QED BY <1>6, <2>1, <2>2, <2>3, <2>4 DEF UpgradeAgent, RunOnAgent
<1>7. CASE Environment BY <1>7 DEF Environment, Drop, Join, Leave, local, node
<1>8. CASE UNCHANGED vars BY <1>8 DEF vars, local, node
<1> QED BY <1>1, <1>2, <1>3, <1>4, <1>5, <1>6, <1>7, <1>8 DEF Next, Tool

LEMMA ScriptInvariant == Spec => [](StagedSoFar /\ ScriptsFresh)
<1>1. Init => TypeInv /\ StagedSoFar /\ ScriptsFresh
  BY TypeInit DEF Init, StagedSoFar, ScriptsFresh
<1>2. (TypeInv /\ StagedSoFar /\ ScriptsFresh) /\ [Next]_vars
        => (TypeInv /\ StagedSoFar /\ ScriptsFresh)'
  BY TypeStep, StagedStep, ScriptsStep
<1> QED BY <1>1, <1>2, PTL DEF Spec

\* Every run works with what it wrote itself: the scripts and configurations of the
\* bootstrap nodes, the script of a master, and the script of a Windows agent
\* (upgrader.go:177-223, 265-284, upgrader-win.go:16-35).
THEOREM InputsAreFresh == Spec => []FreshInputs
<1>1. StagedSoFar /\ ScriptsFresh => FreshInputs
  BY DEF StagedSoFar, ScriptsFresh, FreshInputs
<1> QED BY <1>1, ScriptInvariant, PTL

\* A Windows agent is never upgraded with what an earlier attempt downloaded
\* (winNodeUpgradeScript.ps1:77-86).
THEOREM WindowsScriptsAreFresh == Spec => []WindowsNeverStale
<1>1. ScriptsFresh => WindowsNeverStale BY DEF ScriptsFresh, WindowsNeverStale
<1> QED BY <1>1, ScriptInvariant, PTL

(***************************************************************************)
(* With the version apimodel.json holds already, no node is ever passed    *)
(* over: the run writes the script to master 0 before it comes to any      *)
(* other node.  For a new version this does not hold.                      *)
(***************************************************************************)
SameVersion == CurrentVersion = TargetVersion

Master0Fresh ==
  /\ pc \in {"fetchOnMaster", "chmodOnMaster", "executeOnMaster", "verifyMaster"}
       => home[m] = "cur"
  /\ pc \in MasterSteps /\ m # 0 => home[0] = "cur"
  /\ pc \in {"agents"} \cup AgentSteps => home[0] = "cur"
  /\ pc = "fetchOnAgent" => home[agent] = "cur" \/ agent \in WindowsAgents

LEMMA Master0Step ==
  ASSUME SameVersion, TypeInv, Master0Fresh, [Next]_vars
  PROVE  Master0Fresh'
<1> USE DEF Master0Fresh
<1>t. /\ home \in [Nodes -> Contents]
      /\ current = TargetVersion
      /\ m \in 0 .. MasterCount
      /\ pc \in MasterSteps => m < MasterCount
      /\ pc \in StagingSteps => m = 0
      /\ pc \in AgentSteps => agent \in Agents
  BY DEF SameVersion, TypeInv, TypeOK, Position
<1>1. CASE LoadCluster \/ ListAgents \/ SaveModel
  BY <1>1 DEF LoadCluster, ListAgents, SaveModel, local
<1>2. CASE StageFiles
  BY <1>2
     DEF StageFiles, CopyKey, ChmodKey, CopyBootstrapScript, ChmodBootstrapScript,
         CopyBootstrapConfig, ScpBootstrapScript, ScpBootstrapConfig, CopyWinScript,
         CopyWinConfig, ScpWinScript, ScpWinConfig, Stage
<1>3. CASE RunBootstrap \/ RunWinBootstrap \/ CreateWindowsAgentScript
  BY <1>t, <1>3 DEF RunBootstrap, RunWinBootstrap, CreateWindowsAgentScript, local
<1>4. CASE UpgradeMaster
  <2>1. CASE CheckMaster \/ VerifyMaster
    BY <1>t, <2>1, MasterCountAssumption
       DEF CheckMaster, VerifyMaster, UpToDate, AfterMaster, node
  <2>2. CASE CopyToMaster
    <3>1. m \in Nodes BY <2>2, <1>t, NodeFacts, MasterCountAssumption DEF CopyToMaster, Masters
    <3>2. home' = [home EXCEPT ![m] = "cur"] /\ pc = "copyToMaster" /\ UNCHANGED m
      BY <2>2 DEF CopyToMaster, local
    <3>3. home'[m] = "cur" /\ \A n \in Nodes \ {m} : home'[n] = home[n]
      BY <1>t, <3>1, <3>2
    <3>4. 0 \in Nodes BY NodeFacts
    <3> QED BY <2>2, <3>2, <3>3, <3>4 DEF CopyToMaster
  <2>3. CASE ChmodOnMaster \/ RunOnMaster
    BY <2>3 DEF ChmodOnMaster, RunOnMaster, Fetch, Execute, local, node
  <2> QED BY <1>4, <2>1, <2>2, <2>3 DEF UpgradeMaster
<1>5. CASE UpgradeAgent
  <2>1. CASE (\E a \in Agents : CheckAgent(a)) \/ VerifyAgent \/ AgentUnreachable
    BY <2>1 DEF CheckAgent, VerifyAgent, AgentUnreachable, local, node
  <2>2. CASE ScpToAgent
    <3>1. agent \in Agents /\ home[0] = "cur" /\ UNCHANGED agent
      BY <1>t, <2>2 DEF ScpToAgent, local
    <3>2. agent \in Nodes /\ 0 \in Nodes \ {agent} BY <3>1, NodeFacts, AgentsAssumption
    <3>3. /\ home'[0] = home[0]
          /\ agent \notin WindowsAgents => home'[agent] = home[0]
      BY <1>t, <2>2, <3>2 DEF ScpToAgent
    <3> QED BY <2>2, <3>1, <3>3 DEF ScpToAgent
  <2>3. CASE RunOnAgent BY <2>3 DEF RunOnAgent, Fetch, Execute, local
  <2> QED BY <1>5, <2>1, <2>2, <2>3 DEF UpgradeAgent
<1>6. CASE Environment BY <1>6 DEF Environment, Drop, Join, Leave, local, node
<1>7. CASE UNCHANGED vars BY <1>7 DEF vars, local, node
<1> QED BY <1>1, <1>2, <1>3, <1>4, <1>5, <1>6, <1>7 DEF Next, Tool

\* A run that installs the version apimodel.json holds already hands every Linux
\* agent the script it made itself (upgrader.go:265, 319).
THEOREM LinuxScriptsAreFresh == SameVersion => (Spec => []LinuxScriptFresh)
<1> SUFFICES ASSUME SameVersion PROVE Spec => []LinuxScriptFresh
  OBVIOUS
<1>1. Init => TypeInv /\ Master0Fresh BY TypeInit DEF Init, Master0Fresh
<1>2. (TypeInv /\ Master0Fresh) /\ [Next]_vars => (TypeInv /\ Master0Fresh)'
  BY TypeStep, Master0Step
<1>3. Master0Fresh => LinuxScriptFresh
  BY AgentsAssumption DEF Master0Fresh, LinuxScriptFresh
<1> QED BY <1>1, <1>2, <1>3, PTL DEF Spec


(***************************************************************************)
(* A node upgrade script switches dcos-version.json only when it is done:  *)
(* a node that stopped midway reads as not upgraded.  Where it switched    *)
(* earlier, the check for a partial upgrade would pass a half upgraded     *)
(* node over (upgrader.go:259-264), and none of the theorems would hold.   *)
(***************************************************************************)
SwitchesLast == HalfStates = {"halfOld"}

\* What the tool is through with is upgraded, and stays so.
ThroughUpgraded ==
  /\ \A n \in Nodes : status[n] # "halfNew"
  /\ \A i \in 0 .. m - 1 : status[i] = "new"
  /\ \A a \in finished : status[a] = "new"
  /\ pc = "verifyMaster" => status[m] = "new"
  /\ pc = "verifyAgent" => status[agent] = "new"

LEMMA ThroughInit == Init => ThroughUpgraded
<1> SUFFICES ASSUME Init PROVE ThroughUpgraded
  OBVIOUS
<1>1. 0 .. m - 1 = {} BY DEF Init
<1> QED BY <1>1 DEF Init, ThroughUpgraded

\* A step that upgrades no node and passes none.
LEMMA ThroughQuiet ==
  ASSUME TypeInv, ThroughUpgraded, UNCHANGED status,
         \/ UNCHANGED <<m, finished>>
         \/ m' = 0 /\ finished' = {},
         \/ pc' \notin {"verifyMaster", "verifyAgent"}
         \/ UNCHANGED <<pc, agent, m>>
  PROVE  ThroughUpgraded'
<1>1. CASE UNCHANGED <<m, finished>> BY <1>1 DEF ThroughUpgraded
<1>2. CASE m' = 0 /\ finished' = {}
  <2>1. 0 .. m' - 1 = {} BY <1>2
  <2> QED BY <1>2, <2>1 DEF ThroughUpgraded
<1> QED BY <1>1, <1>2

\* A script that ran to its end left its node upgraded; no other node changes.
LEMMA ExecuteEffect ==
  ASSUME SwitchesLast, status \in [Nodes -> Statuses],
         NEW n \in Nodes, NEW here, NEW next, next # "idle",
         status[n] # "halfNew", Execute(n, here, next)
  PROVE  /\ \A k \in Nodes \ {n} : status'[k] = status[k]
         /\ status'[n] # "halfNew"
         /\ pc' \in {"idle", next}
         /\ pc' = next => status'[n] = "new"
         /\ pc = here
         /\ UNCHANGED <<m, finished, agent, cluster>>
  BY DEF Execute, SwitchesLast, local

LEMMA ThroughExecute ==
  ASSUME SwitchesLast, TypeInv, ThroughUpgraded,
         \/ Execute(m, "executeOnMaster", "verifyMaster")
         \/ Execute(agent, "executeOnAgent", "verifyAgent")
  PROVE  ThroughUpgraded'
<1>1. status \in [Nodes -> Statuses] /\ \A n \in Nodes : status[n] # "halfNew"
  BY DEF TypeInv, TypeOK, ThroughUpgraded
<1>2. CASE Execute(m, "executeOnMaster", "verifyMaster")
  <2>1. pc = "executeOnMaster" BY <1>2 DEF Execute
  <2>2. m \in 0 .. MasterCount - 1 /\ finished = {}
    BY <2>1, MasterCountAssumption DEF TypeInv, TypeOK, Position
  <2>3. m \in Nodes BY <2>2, NodeFacts DEF Masters
  <2>4. \A i \in 0 .. m - 1 : i \in Nodes \ {m}
    BY <2>2, NodeFacts, MasterCountAssumption DEF Masters
  <2> QED BY <1>1, <1>2, <2>2, <2>3, <2>4, ExecuteEffect DEF ThroughUpgraded
<1>3. CASE Execute(agent, "executeOnAgent", "verifyAgent")
  <2>1. pc = "executeOnAgent" BY <1>3 DEF Execute
  <2>2. /\ agent \in Agents \ finished /\ m = MasterCount
        /\ finished \subseteq Agents
    BY <2>1 DEF TypeInv, TypeOK, Position
  <2>3. agent \in Nodes \ Masters BY <2>2, NodeFacts, AgentsAssumption
  <2>4. \A i \in 0 .. m - 1 : i \in Nodes \ {agent}
    BY <2>2, <2>3, NodeFacts DEF Masters
  <2>5. \A a \in finished : a \in Nodes \ {agent} BY <2>2, NodeFacts
  <2> QED BY <1>1, <1>3, <2>3, <2>4, <2>5, ExecuteEffect DEF ThroughUpgraded
<1> QED BY <1>2, <1>3

LEMMA ThroughMaster ==
  ASSUME SwitchesLast, TypeInv, ThroughUpgraded, UpgradeMaster
  PROVE  ThroughUpgraded'
<1> USE DEF TypeInv, TypeOK, Position
<1>1. CASE CheckMaster \/ VerifyMaster
  <2>1. m \in 0 .. MasterCount - 1
    BY <1>1, MasterCountAssumption DEF CheckMaster, VerifyMaster
  <2>2. m \in Nodes BY <2>1, NodeFacts DEF Masters
  <2>3. /\ \/ UNCHANGED m
           \/ m' = m + 1 /\ status[m] = "new"
        /\ UNCHANGED <<status, finished>>
        /\ pc' \notin {"verifyMaster", "verifyAgent"}
    BY <1>1, <2>2 DEF CheckMaster, VerifyMaster, UpToDate, AfterMaster, ThroughUpgraded, node
  <2>4. CASE UNCHANGED m BY <2>3, <2>4, ThroughQuiet
  <2>5. CASE m' = m + 1 /\ status[m] = "new"
    <3>1. \A i \in 0 .. m' - 1 : i \in 0 .. m - 1 \/ i = m BY <2>1, <2>5
    <3> QED BY <2>3, <2>5, <3>1 DEF ThroughUpgraded
  <2> QED BY <2>3, <2>4, <2>5
<1>2. CASE CopyToMaster \/ ChmodOnMaster \/ Fetch(m, "fetchOnMaster", "executeOnMaster")
  BY <1>2, ThroughQuiet DEF CopyToMaster, ChmodOnMaster, Fetch, local, node
<1>3. CASE Execute(m, "executeOnMaster", "verifyMaster") BY <1>3, ThroughExecute
<1> QED BY <1>1, <1>2, <1>3 DEF UpgradeMaster, RunOnMaster

LEMMA ThroughAgent ==
  ASSUME SwitchesLast, TypeInv, ThroughUpgraded, UpgradeAgent
  PROVE  ThroughUpgraded'
<1> USE DEF TypeInv, TypeOK, Position
<1>1. ASSUME NEW a \in Agents, CheckAgent(a) PROVE ThroughUpgraded'
  <2>1. a \in Nodes BY NodeFacts
  <2> QED BY <1>1, <2>1, ThroughQuiet DEF CheckAgent, UpToDate, ThroughUpgraded, node
<1>2. CASE ScpToAgent \/ AgentUnreachable \/ Fetch(agent, "fetchOnAgent", "executeOnAgent")
  BY <1>2, ThroughQuiet DEF ScpToAgent, AgentUnreachable, Fetch, local, node
<1>3. CASE Execute(agent, "executeOnAgent", "verifyAgent") BY <1>3, ThroughExecute
<1>4. CASE VerifyAgent BY <1>4 DEF VerifyAgent, ThroughUpgraded, node
<1> QED BY <1>1, <1>2, <1>3, <1>4 DEF UpgradeAgent, RunOnAgent

LEMMA ThroughStaging ==
  ASSUME TypeInv, ThroughUpgraded,
         \/ LoadCluster \/ ListAgents \/ StageFiles
         \/ RunBootstrap \/ RunWinBootstrap \/ CreateWindowsAgentScript
  PROVE  ThroughUpgraded'
<1>1. CASE LoadCluster \/ ListAgents
  BY <1>1, ThroughQuiet DEF LoadCluster, ListAgents, node
<1>2. ASSUME NEW here, NEW next, NEW new, Stage(here, next, new),
             next \notin {"verifyMaster", "verifyAgent"}
      PROVE  ThroughUpgraded'
  BY <1>2, ThroughQuiet DEF Stage, node
<1>3. CASE StageFiles
  BY <1>2, <1>3
     DEF StageFiles, CopyKey, ChmodKey, CopyBootstrapScript, ChmodBootstrapScript,
         CopyBootstrapConfig, ScpBootstrapScript, ScpBootstrapConfig, CopyWinScript,
         CopyWinConfig, ScpWinScript, ScpWinConfig
<1>4. CASE RunBootstrap \/ RunWinBootstrap \/ CreateWindowsAgentScript
  BY <1>4, ThroughQuiet
     DEF RunBootstrap, RunWinBootstrap, CreateWindowsAgentScript, local
<1> QED BY <1>1, <1>3, <1>4

LEMMA ThroughStep ==
  ASSUME SwitchesLast, TypeInv, ThroughUpgraded, [Next]_vars
  PROVE  ThroughUpgraded'
<1>1. CASE SaveModel \/ Environment
  BY <1>1, ThroughQuiet DEF SaveModel, Environment, Drop, Join, Leave, local, node
<1>2. CASE UNCHANGED vars
  BY <1>2, ThroughQuiet DEF vars, local, node
<1> QED
  BY <1>1, <1>2, ThroughStaging, ThroughMaster, ThroughAgent DEF Next, Tool

LEMMA ThroughInvariant == SwitchesLast => (Spec => [](TypeInv /\ ThroughUpgraded))
<1> SUFFICES ASSUME SwitchesLast PROVE Spec => [](TypeInv /\ ThroughUpgraded)
  OBVIOUS
<1>1. Init => TypeInv /\ ThroughUpgraded BY TypeInit, ThroughInit
<1>2. (TypeInv /\ ThroughUpgraded) /\ [Next]_vars => (TypeInv /\ ThroughUpgraded)'
  BY TypeStep, ThroughStep
<1> QED BY <1>1, <1>2, PTL DEF Spec

\* When the command reports success, every master and every agent of its list has
\* finished the upgrade and apimodel.json says so, whichever runs failed before it
\* and wherever (dcos-upgrade.go:244-265).
THEOREM SuccessMeansUpgraded == SwitchesLast => (Spec => []UpgradedWhenDone)
<1> SUFFICES ASSUME SwitchesLast PROVE Spec => []UpgradedWhenDone
  OBVIOUS
<1>1. TypeInv /\ ThroughUpgraded => UpgradedWhenDone
  BY DEF TypeInv, TypeOK, Position, ThroughUpgraded, UpgradedWhenDone, Masters
<1> QED BY <1>1, ThroughInvariant, PTL

\* No agent is touched before every master has finished its upgrade, in whatever
\* state earlier runs left the masters (upgrader.go:157-162).
THEOREM MastersBeforeAgents == SwitchesLast => (Spec => []MastersFirst)
<1> SUFFICES ASSUME SwitchesLast PROVE Spec => []MastersFirst
  OBVIOUS
<1>1. TypeInv /\ ThroughUpgraded => MastersFirst
  BY DEF TypeInv, TypeOK, Position, ThroughUpgraded, MastersFirst, Masters
<1> QED BY <1>1, ThroughInvariant, PTL

(***************************************************************************)
(* An upgrade to a version that apimodel.json does not hold yet: until it  *)
(* succeeds every run compares the nodes' versions with the new one.       *)
(***************************************************************************)
NewVersion == CurrentVersion # TargetVersion

Comparing ==
  /\ pc # "done" => model # TargetVersion
  /\ pc \notin {"idle", "done"} => current # TargetVersion
  /\ pc \in {"copyToMaster", "chmodOnMaster", "fetchOnMaster", "executeOnMaster"}
       => status[m] # "new"
  /\ pc \in {"scpToAgent", "fetchOnAgent", "executeOnAgent"} => status[agent] # "new"

LEMMA ComparingInit == NewVersion /\ Init => Comparing
  BY DEF NewVersion, Init, Comparing

LEMMA ComparingStep ==
  ASSUME NewVersion, TypeInv, Comparing, [Next]_vars
  PROVE  Comparing'
<1>1. CASE LoadCluster
  BY <1>1 DEF LoadCluster, Comparing, TypeInv, TypeOK
<1>2. CASE ListAgents BY <1>2 DEF ListAgents, Comparing
<1>3. ASSUME NEW here \in StagingSteps, NEW next \in StagingSteps, NEW new,
             Stage(here, next, new)
      PROVE  Comparing'
  BY <1>3 DEF Stage, Comparing
<1>4. CASE StageFiles
  BY <1>3, <1>4
     DEF StageFiles, CopyKey, ChmodKey, CopyBootstrapScript, ChmodBootstrapScript,
         CopyBootstrapConfig, ScpBootstrapScript, ScpBootstrapConfig, CopyWinScript,
         CopyWinConfig, ScpWinScript, ScpWinConfig
<1>5. CASE RunBootstrap \/ RunWinBootstrap \/ CreateWindowsAgentScript
  BY <1>5 DEF RunBootstrap, RunWinBootstrap, CreateWindowsAgentScript, Comparing, local
<1>6. CASE UpgradeMaster
  <2>1. CASE CheckMaster
    BY <2>1 DEF CheckMaster, UpToDate, AfterMaster, Comparing, node
  <2>2. CASE CopyToMaster \/ ChmodOnMaster
    BY <2>2 DEF CopyToMaster, ChmodOnMaster, Comparing, local, node
  <2>3. CASE RunOnMaster BY <2>3 DEF RunOnMaster, Fetch, Execute, Comparing, local
  <2>4. CASE VerifyMaster BY <2>4 DEF VerifyMaster, AfterMaster, Comparing
  <2> QED BY <1>6, <2>1, <2>2, <2>3, <2>4 DEF UpgradeMaster
<1>7. CASE UpgradeAgent
  <2>1. CASE \E a \in Agents : CheckAgent(a)
    BY <2>1 DEF CheckAgent, UpToDate, Comparing, node
  <2>2. CASE ScpToAgent \/ AgentUnreachable
    BY <2>2 DEF ScpToAgent, AgentUnreachable, Comparing, local, node
  <2>3. CASE RunOnAgent BY <2>3 DEF RunOnAgent, Fetch, Execute, Comparing, local
  <2>4. CASE VerifyAgent BY <2>4 DEF VerifyAgent, Comparing
  <2> QED BY <1>7, <2>1, <2>2, <2>3, <2>4 DEF UpgradeAgent
<1>8. CASE SaveModel
  BY <1>8, VersionAssumption DEF SaveModel, Comparing, local
<1>9. CASE Environment
  BY <1>9 DEF Environment, Drop, Join, Leave, Comparing, local, node
<1>10. CASE UNCHANGED vars BY <1>10 DEF vars, local, node, Comparing
<1> QED
  BY <1>1, <1>2, <1>4, <1>5, <1>6, <1>7, <1>8, <1>9, <1>10 DEF Next, Tool

LEMMA ComparingInvariant == NewVersion => (Spec => []Comparing)
<1> SUFFICES ASSUME NewVersion PROVE Spec => []Comparing
  OBVIOUS
<1>1. Init => TypeInv /\ Comparing BY TypeInit, ComparingInit
<1>2. (TypeInv /\ Comparing) /\ [Next]_vars => (TypeInv /\ Comparing)'
  BY TypeStep, ComparingStep
<1> QED BY <1>1, <1>2, PTL DEF Spec

\* A run of an upgrade to a new version picks up where the failed one stopped: no
\* node that has finished its upgrade runs the script again (docs/dcos.md:130).
THEOREM NewVersionResumes == NewVersion => (Spec => []ResumesFromCheckpoint)
<1> SUFFICES ASSUME NewVersion PROVE Spec => []ResumesFromCheckpoint
  OBVIOUS
<1>1. Comparing => ResumesFromCheckpoint BY DEF Comparing, ResumesFromCheckpoint
<1> QED BY <1>1, ComparingInvariant, PTL

(***************************************************************************)
(* The masters behind the first one that is not upgraded are untouched.    *)
(***************************************************************************)
Frontier == \A i, j \in Masters : i < j /\ status[i] # "new" => status[j] = "old"

LEMMA FrontierStep ==
  ASSUME SwitchesLast, TypeInv, ThroughUpgraded, Comparing, Frontier, [Next]_vars
  PROVE  Frontier'
<1>1. status \in [Nodes -> Statuses] /\ \A n \in Nodes : status[n] # "halfNew"
  BY DEF TypeInv, TypeOK, ThroughUpgraded
<1>2. CASE UNCHANGED status BY <1>2 DEF Frontier
<1>3. CASE Execute(m, "executeOnMaster", "verifyMaster")
  <2>1. pc = "executeOnMaster" /\ status[m] # "new"
    BY <1>3 DEF Execute, Comparing
  <2>2. m \in Masters
    BY <2>1, MasterCountAssumption DEF TypeInv, TypeOK, Position, Masters
  <2>3. \A k \in Nodes \ {m} : status'[k] = status[k]
    BY <1>1, <1>3, <2>2, NodeFacts, ExecuteEffect
  <2> SUFFICES ASSUME NEW i \in Masters, NEW j \in Masters, i < j, status'[i] # "new"
               PROVE  status'[j] = "old"
    BY DEF Frontier
  <2>4. i \in Int /\ j \in Int /\ m \in Int
    BY <2>2, MasterCountAssumption DEF Masters
  <2>5. CASE i = m
    BY <2>1, <2>2, <2>3, <2>4, <2>5, NodeFacts DEF Frontier
  <2>6. CASE i # m
    <3>1. status[i] # "new" BY <2>3, <2>6, NodeFacts
    <3>2. ~(i < m)
      BY <3>1, <2>2, <2>4, MasterCountAssumption DEF ThroughUpgraded, Masters
    <3>3. j # m BY <2>4, <3>2
    <3> QED BY <3>1, <3>3, <2>3, NodeFacts DEF Frontier
  <2> QED BY <2>5, <2>6
<1>4. CASE Execute(agent, "executeOnAgent", "verifyAgent")
  <2>1. agent \in Agents BY <1>4 DEF Execute, TypeInv, TypeOK, Position
  <2>2. \A k \in Nodes \ {agent} : status'[k] = status[k]
    BY <1>1, <1>4, <2>1, NodeFacts, ExecuteEffect
  <2>3. \A i \in Masters : status'[i] = status[i]
    BY <2>1, <2>2, NodeFacts, AgentsAssumption
  <2> QED BY <2>3 DEF Frontier
<1>5. \/ UNCHANGED status
      \/ Execute(m, "executeOnMaster", "verifyMaster")
      \/ Execute(agent, "executeOnAgent", "verifyAgent")
  <2>1. CASE StageFiles
    BY <2>1
       DEF StageFiles, CopyKey, ChmodKey, CopyBootstrapScript, ChmodBootstrapScript,
           CopyBootstrapConfig, ScpBootstrapScript, ScpBootstrapConfig, CopyWinScript,
           CopyWinConfig, ScpWinScript, ScpWinConfig, Stage, node
  <2>2. CASE UpgradeMaster \/ UpgradeAgent
    BY <2>2
       DEF UpgradeMaster, CheckMaster, CopyToMaster, ChmodOnMaster, RunOnMaster,
           VerifyMaster, UpgradeAgent, CheckAgent, ScpToAgent, RunOnAgent, VerifyAgent,
           AgentUnreachable, Fetch, node
  <2>3. CASE \/ LoadCluster \/ ListAgents \/ SaveModel \/ Environment \/ UNCHANGED vars
             \/ RunBootstrap \/ RunWinBootstrap \/ CreateWindowsAgentScript
    BY <2>3
       DEF LoadCluster, ListAgents, SaveModel, Environment, Drop, Join, Leave, vars,
           RunBootstrap, RunWinBootstrap, CreateWindowsAgentScript, node
  <2> QED BY <2>1, <2>2, <2>3 DEF Next, Tool
<1> QED BY <1>2, <1>3, <1>4, <1>5

\* However many runs of an upgrade to a new version fail, at most one master is
\* left half upgraded: the next run comes to it before it touches another
\* (upgrader.go:244-264).
THEOREM AtMostOneMasterDown == SwitchesLast /\ NewVersion => (Spec => []OneMasterDown)
<1> SUFFICES ASSUME SwitchesLast, NewVersion PROVE Spec => []OneMasterDown
  OBVIOUS
<1> DEFINE Inv == TypeInv /\ ThroughUpgraded /\ Comparing /\ Frontier
<1>1. Init => Inv
  <2>1. Init => Frontier BY NodeFacts DEF Init, Frontier
  <2> QED BY <2>1, TypeInit, ThroughInit, ComparingInit
<1>2. Inv /\ [Next]_vars => Inv'
  BY TypeStep, ThroughStep, ComparingStep, FrontierStep
<1>3. Inv => OneMasterDown
  <2> DEFINE Down == {i \in Masters : status[i] \notin {"old", "new"}}
  <2> SUFFICES ASSUME Inv PROVE Cardinality(Down) <= 1
    BY DEF OneMasterDown
  <2>1. \A i, j \in Down : i = j
    BY MasterCountAssumption DEF Frontier, Masters
  <2>2. CASE Down = {} BY <2>2, FS_EmptySet
  <2>3. CASE Down # {}
    <3>1. PICK i : i \in Down BY <2>3
    <3>2. Down = {i} BY <2>1, <3>1
    <3>3. Cardinality(Down) = 1 BY <3>2, FS_Singleton
    <3> QED BY <3>3
  <2> QED BY <2>2, <2>3
<1> QED BY <1>1, <1>2, <1>3, PTL DEF Spec

(***************************************************************************)
(* DcosUpgrade implements RollingUpgrade: initial states map to initial    *)
(* states, and every step to a step or a stutter.                          *)
(***************************************************************************)

\* The images of the variables of RollingUpgrade.
phase    == IF pc = "idle" THEN "off" ELSE IF pc = "done" THEN "done" ELSE "on"
through  == (0 .. m - 1) \cup finished
upgraded == {n \in Nodes : status[n] = "new"}

\* A step that changes nothing RollingUpgrade sees, or ends the attempt.
LEMMA QuietStep ==
  ASSUME UNCHANGED <<listed, m, finished, status>>,
         pc # "done", pc # "idle", pc' # "done"
  PROVE  [Rolling!Next]_(Rolling!vars)
  BY DEF Rolling!Next, Rolling!GiveUp, Rolling!vars

LEMMA StartStep ==
  ASSUME TypeInv, LoadCluster \/ ListAgents
  PROVE  Rolling!Next
<1>1. CASE LoadCluster
  <2>1. 0 .. m' - 1 = {} BY <1>1 DEF LoadCluster
  <2>2. Rolling!Begin BY <1>1, <2>1 DEF LoadCluster, Rolling!Begin, node
  <2> QED BY <2>2 DEF Rolling!Next
<1>2. CASE ListAgents
  <2>1. m = 0 /\ finished = {} /\ cluster \subseteq Agents
    BY <1>2 DEF ListAgents, TypeInv, TypeOK, Position
  <2>2. 0 .. m - 1 = {} BY <2>1
  <2>3. Rolling!Enroll BY <1>2, <2>1, <2>2 DEF ListAgents, Rolling!Enroll, node
  <2>4. phase' \in {"on", "off"} BY <1>2 DEF ListAgents, phase
  <2> QED BY <2>3, <2>4 DEF Rolling!Next, phase
<1> QED BY <1>1, <1>2

\* Whose turn it is, where the tool upgrades a node or passes it.
LEMMA MasterTurn ==
  ASSUME TypeInv, pc \in MasterSteps
  PROVE  m \in Nodes /\ m \in Masters /\ Rolling!Turn(m) /\ finished = {}
<1>1. m \in 0 .. MasterCount - 1 /\ finished = {}
  BY MasterCountAssumption DEF TypeInv, TypeOK, Position
<1>2. m \in Masters /\ m \in Nodes BY <1>1, NodeFacts DEF Masters
<1>3. m \notin 0 .. m - 1 BY <1>1
<1> QED BY <1>1, <1>2, <1>3 DEF Rolling!Turn, Rolling!Masters, Masters

LEMMA AgentTurn ==
  ASSUME TypeInv, NEW a \in listed \ finished, pc \in {"agents"} \cup AgentSteps
  PROVE  a \in Nodes /\ Rolling!Turn(a)
<1>1. m = MasterCount /\ a \in Agents BY DEF TypeInv, TypeOK, Position
<1>2. a \in Nodes /\ a \notin 0 .. m - 1
  BY <1>1, NodeFacts, AgentsAssumption DEF Masters
<1> QED BY <1>1, <1>2 DEF Rolling!Turn, Rolling!Masters

LEMMA PassStep ==
  ASSUME NEW n \in Nodes, Rolling!Turn(n), status[n] = "new",
         through' = through \cup {n}, UNCHANGED <<listed, status>>,
         pc' # "done"
  PROVE  Rolling!Next
<1>1. Rolling!PassOn(n)
  BY DEF Rolling!PassOn, through
<1>2. phase' \in {"on", "off"} BY DEF phase
<1>3. n \in Rolling!Nodes BY DEF Rolling!Nodes, Rolling!Masters, Nodes, Masters
<1> QED BY <1>1, <1>2, <1>3 DEF Rolling!Next, Rolling!Work, phase

LEMMA ExecuteStep ==
  ASSUME TypeInv, NEW n \in Nodes, Rolling!Turn(n), NEW here, NEW next,
         next \notin {"idle", "done"}, Execute(n, here, next)
  PROVE  Rolling!Next
<1>1. /\ \A k \in Nodes \ {n} : status'[k] = status[k]
      /\ UNCHANGED <<listed, m, finished>>
      /\ pc' \in {"idle", next}
  BY DEF TypeInv, TypeOK, Execute, local
<1>2. upgraded' \in {upgraded \cup {n}, upgraded \ {n}} BY <1>1 DEF upgraded
<1>3. Rolling!Upgrade(n) BY <1>1, <1>2 DEF Rolling!Upgrade, upgraded
<1>4. phase' \in {"on", "off"} BY <1>1 DEF phase
<1>5. n \in Rolling!Nodes BY DEF Rolling!Nodes, Rolling!Masters, Nodes, Masters
<1> QED BY <1>3, <1>4, <1>5 DEF Rolling!Next, Rolling!Work, phase

LEMMA MasterStep ==
  ASSUME TypeInv, ThroughUpgraded, UpgradeMaster
  PROVE  [Rolling!Next]_(Rolling!vars)
<1>1. CASE CheckMaster \/ VerifyMaster
  <2>1. pc \in MasterSteps BY <1>1 DEF CheckMaster, VerifyMaster
  <2>2. m \in Nodes /\ Rolling!Turn(m) /\ finished = {} /\ m \in Nat
    BY <2>1, MasterTurn DEF TypeInv, TypeOK
  <2>3. /\ UNCHANGED <<listed, finished, status>>
        /\ pc' # "done" /\ pc # "done" /\ pc # "idle"
        /\ \/ UNCHANGED m
           \/ m' = m + 1 /\ status[m] = "new"
    BY <1>1, <2>2
       DEF CheckMaster, VerifyMaster, AfterMaster, UpToDate, ThroughUpgraded, node
  <2>4. CASE UNCHANGED m BY <2>3, <2>4, QuietStep
  <2>5. CASE m' = m + 1 /\ status[m] = "new"
    <3>1. 0 .. m' - 1 = (0 .. m - 1) \cup {m} BY <2>2, <2>5
    <3>2. through' = through \cup {m} BY <2>3, <3>1 DEF through
    <3> QED BY <2>2, <2>3, <2>5, <3>2, PassStep
  <2> QED BY <2>3, <2>4, <2>5
<1>2. CASE CopyToMaster \/ ChmodOnMaster \/ Fetch(m, "fetchOnMaster", "executeOnMaster")
  BY <1>2, QuietStep DEF CopyToMaster, ChmodOnMaster, Fetch, local, node
<1>3. CASE Execute(m, "executeOnMaster", "verifyMaster")
  <2>1. pc \in MasterSteps BY <1>3 DEF Execute
  <2> QED BY <1>3, <2>1, MasterTurn, ExecuteStep
<1> QED BY <1>1, <1>2, <1>3 DEF UpgradeMaster, RunOnMaster

LEMMA AgentStep ==
  ASSUME TypeInv, ThroughUpgraded, UpgradeAgent
  PROVE  [Rolling!Next]_(Rolling!vars)
<1>1. ASSUME NEW a \in Agents, CheckAgent(a) PROVE [Rolling!Next]_(Rolling!vars)
  <2>1. a \in listed \ finished /\ pc = "agents" BY <1>1 DEF CheckAgent
  <2>2. a \in Nodes /\ Rolling!Turn(a) BY <2>1, AgentTurn
  <2>3. /\ UNCHANGED <<listed, m, status>>
        /\ pc' # "done"
        /\ \/ UNCHANGED finished
           \/ finished' = finished \cup {a} /\ status[a] = "new"
    BY <1>1, <2>2 DEF CheckAgent, UpToDate, ThroughUpgraded, node
  <2>4. CASE UNCHANGED finished BY <2>1, <2>3, <2>4, QuietStep
  <2>5. CASE finished' = finished \cup {a} /\ status[a] = "new"
    <3>1. through' = through \cup {a} BY <2>3, <2>5 DEF through
    <3> QED BY <2>2, <2>3, <2>5, <3>1, PassStep
  <2> QED BY <2>3, <2>4, <2>5
<1>2. CASE ScpToAgent \/ AgentUnreachable \/ Fetch(agent, "fetchOnAgent", "executeOnAgent")
  BY <1>2, QuietStep DEF ScpToAgent, AgentUnreachable, Fetch, local, node
<1>3. CASE Execute(agent, "executeOnAgent", "verifyAgent")
  <2>1. pc \in AgentSteps BY <1>3 DEF Execute
  <2>2. agent \in listed \ finished BY <2>1 DEF TypeInv, Position
  <2> QED BY <1>3, <2>1, <2>2, AgentTurn, ExecuteStep
<1>4. CASE VerifyAgent
  <2>1. pc = "verifyAgent" BY <1>4 DEF VerifyAgent
  <2>2. agent \in listed \ finished BY <2>1 DEF TypeInv, Position
  <2>3. agent \in Nodes /\ Rolling!Turn(agent) BY <2>1, <2>2, AgentTurn
  <2>4. through' = through \cup {agent} BY <1>4 DEF VerifyAgent, through
  <2> QED BY <1>4, <2>1, <2>3, <2>4, PassStep DEF VerifyAgent, ThroughUpgraded, node
<1> QED BY <1>1, <1>2, <1>3, <1>4 DEF UpgradeAgent, RunOnAgent

LEMMA SaveStep ==
  ASSUME TypeInv, SaveModel
  PROVE  Rolling!Next
<1>1. /\ pc = "agents" /\ m = MasterCount
      /\ UNCHANGED <<listed, m, finished, status>>
      /\ pc' \in {"done", "idle"} /\ listed \subseteq finished
  BY DEF SaveModel, TypeInv, TypeOK, Position, local, node
<1>2. CASE pc' = "done"
  BY <1>1, <1>2 DEF Rolling!Next, Rolling!Commit, Rolling!Masters
<1>3. CASE pc' = "idle"
  BY <1>1, <1>3 DEF Rolling!Next, Rolling!GiveUp
<1> QED BY <1>1, <1>2, <1>3

LEMMA OtherStep ==
  ASSUME TypeInv, StageFiles \/ RunBootstrap \/ RunWinBootstrap
                  \/ CreateWindowsAgentScript \/ Environment \/ UNCHANGED vars
  PROVE  [Rolling!Next]_(Rolling!vars)
<1>1. CASE StageFiles
  BY <1>1, QuietStep
     DEF StageFiles, CopyKey, ChmodKey, CopyBootstrapScript, ChmodBootstrapScript,
         CopyBootstrapConfig, ScpBootstrapScript, ScpBootstrapConfig, CopyWinScript,
         CopyWinConfig, ScpWinScript, ScpWinConfig, Stage, node
<1>2. CASE RunBootstrap \/ RunWinBootstrap \/ CreateWindowsAgentScript
  BY <1>2, QuietStep
     DEF RunBootstrap, RunWinBootstrap, CreateWindowsAgentScript, local
<1>3. CASE Drop BY <1>3, QuietStep DEF Drop, local, node
<1>4. CASE (\E a \in Agents : Join(a) \/ Leave(a)) \/ UNCHANGED vars
  BY <1>4 DEF Join, Leave, vars, local, node, Rolling!vars
<1> QED BY <1>1, <1>2, <1>3, <1>4 DEF Environment

\* The upgrade workflow is a rolling upgrade: an attempt, wherever it stops and
\* whatever earlier attempts left, goes through the masters in order and then the
\* agents, leaves no node behind that is not upgraded, and commits only at the end
\* (upgrader.go:80-175).
THEOREM WorkflowRolls == SwitchesLast => (Spec => ImplementsRolling)
<1> SUFFICES ASSUME SwitchesLast PROVE Spec => Rolling!Spec
  BY DEF ImplementsRolling
<1>1. Init => Rolling!Init
  <2> SUFFICES ASSUME Init PROVE Rolling!Init
    OBVIOUS
  <2>1. 0 .. m - 1 = {} BY DEF Init
  <2> QED BY <2>1 DEF Init, Rolling!Init
<1>2. TypeInv /\ ThroughUpgraded /\ [Next]_vars => [Rolling!Next]_(Rolling!vars)
  BY StartStep, MasterStep, AgentStep, SaveStep, OtherStep DEF Next, Tool
<1>3. Spec => [](TypeInv /\ ThroughUpgraded) BY ThroughInvariant
<1> QED BY <1>1, <1>2, <1>3, PTL DEF Spec, Rolling!Spec
=============================================================================
