---------------------------- MODULE DeployProofs ----------------------------
(***************************************************************************)
(* Type correctness of Deploy, and that no cluster is deployed with a      *)
(* service principal that is not ready, for every set of command lines,    *)
(* any number of runs and faults, with runs at the same time or not.       *)
(* When runs do not overlap: what they leave on disk.                      *)
(***************************************************************************)
EXTENDS Deploy, TLAPS

\* A run that works on an apimodel has one, and a role
\* assignment has its name.
Loaded ==
  \A r \in Runs : /\ pc[r] \notin {"none", "failed"} => model[r] \in ApiModels
                  /\ pc[r] = "assignRole" => role[r] = 1

\* Once it is past EnsureResourceGroup, a deployment has its resource group.
SaveSteps == {"saveModel", "saveTemplate", "saveParameters"}
Grouped ==
  \A r \in Runs :
    \/ pc[r] \in {"createApp", "createPrincipal", "assignRole", "validate", "deployTemplate"}
    \/ pc[r] \in SaveSteps /\ cmd[r].kind = "deploy"
    => model[r].prefix \in groups

IInv == TypeOK /\ Loaded /\ Grouped

ParameterAssumptions ==
  BoundsAssumption /\ CommandsAssumption /\ SourcesAssumption /\ NamesAssumption

THEOREM Assumptions == ParameterAssumptions
BY BoundsAssumption, CommandsAssumption, SourcesAssumption, NamesAssumption
   DEF ParameterAssumptions

USE DEF Goto, Fault, Call, run, aad

(***************************************************************************)
(* Type correctness.                                                       *)
(***************************************************************************)
LEMMA WriteType ==
  ASSUME TypeOK, NEW d \in Prefixes, NEW file, NEW data, Write(d, file, data),
         \/ file = "key" /\ data \in Runs \cup {NoFile, Torn}
         \/ file \in {"model", "template", "parameters"}
            /\ data \in ApiModels \cup {NoFile, Torn}
  PROVE  DOMAIN disk' \subseteq Prefixes /\ \A e \in DOMAIN disk' : disk'[e] \in Folders
<1>1. Output \in Prefixes
  BY DEF Output, Prefixes
<1>2. \A e : e \in DOMAIN disk => disk[e] \in Folders
  BY DEF TypeOK
<1>3. \A e : Contents(e) \in Folders
  BY <1>2 DEF Contents, Folders
<1>4. [Contents(d) EXCEPT ![file] = data] \in Folders
  <2>1. Contents(d) \in Folders
    BY <1>3
  <2> QED
    BY <2>1 DEF Folders
<1>5. DOMAIN disk' = DOMAIN disk \cup {d, Output}
  BY DEF Write
<1>6. \A e \in DOMAIN disk' :
        disk'[e] = IF e = d THEN [Contents(d) EXCEPT ![file] = data] ELSE Contents(e)
  BY DEF Write
<1>7. \A e \in DOMAIN disk' : disk'[e] \in Folders
  <2>1. TAKE e \in DOMAIN disk'
  <2>2. CASE e = d
    BY <2>2, <1>4, <1>6
  <2>3. CASE e # d
    BY <2>3, <1>3, <1>6
  <2> QED
    BY <2>2, <2>3
<1> QED
  BY <1>1, <1>5, <1>7 DEF TypeOK

LEMMA SaveFileType ==
  ASSUME TypeOK, NEW r \in Runs, NEW here, NEW file, NEW data, NEW next,
         SaveFile(r, here, file, data, next),
         \/ file = "key" /\ data \in Runs
         \/ file \in {"model", "template", "parameters"} /\ data \in ApiModels
  PROVE  DOMAIN disk' \subseteq Prefixes /\ \A e \in DOMAIN disk' : disk'[e] \in Folders
<1>1. dir[r] \in Prefixes
  BY DEF TypeOK
<1>2. CASE Write(dir[r], file, data)
  BY <1>1, <1>2, WriteType
<1>3. CASE Write(dir[r], file, Torn)
  BY <1>1, <1>3, WriteType
<1> QED
  BY <1>2, <1>3 DEF SaveFile

\* The apimodel a run loads is an apimodel, if there is one.
LEMMA FileType ==
  ASSUME TypeOK, NEW c \in Commands
  PROVE  ApimodelFile(c) \in ApiModels \cup {NoFile, Torn}
<1>1. c.source \in ApiModels
  BY Assumptions DEF ParameterAssumptions, CommandsAssumption, CommandLines
<1>2. \A d \in DOMAIN disk : disk[d].model \in ApiModels \cup {NoFile, Torn}
  BY DEF TypeOK, Folders
<1> QED
  BY <1>1, <1>2 DEF ApimodelFile

LEMMA InitTyped == Init => IInv
<1> SUFFICES ASSUME Init PROVE IInv
  OBVIOUS
<1>1. Output \in Prefixes
  BY DEF Output, Prefixes
<1>2. DOMAIN disk = {} /\ DOMAIN cluster = {}
  BY DEF Init
<1> QED
  BY <1>1, <1>2, Assumptions
     DEF Init, IInv, TypeOK, Loaded, Grouped, SaveSteps, ParameterAssumptions, BoundsAssumption

LEMMA StepTyped == IInv /\ [Next]_vars => TypeOK' /\ Loaded'
<1> SUFFICES ASSUME TypeOK, Loaded, Grouped, [Next]_vars PROVE TypeOK' /\ Loaded'
  BY DEF IInv
<1> USE Assumptions DEF ParameterAssumptions, BoundsAssumption
<1>0. ASSUME NEW r \in Runs, NEW m \in ApiModels
      PROVE  [model EXCEPT ![r] = m] \in [Runs -> ApiModels \cup {NoFile}]
  BY DEF TypeOK
<1>1. ASSUME NEW r \in Runs, LoadAPIModel(r) PROVE TypeOK' /\ Loaded'
  <2> DEFINE file == ApimodelFile(cmd[r])
  <2>1. cmd[r] \in CommandLines
    BY DEF TypeOK, CommandsAssumption
  <2>2. CASE file \in {NoFile, Torn} \/ (cmd[r].kind # "deploy" /\ ~Validates(file))
    <3>1. pc' = [pc EXCEPT ![r] = "failed"] /\ UNCHANGED <<model, dir>>
      BY <1>1, <2>2 DEF LoadAPIModel
    <3> QED
      BY <1>1, <3>1 DEF LoadAPIModel, TypeOK, Loaded
  <2>3. CASE ~(file \in {NoFile, Torn} \/ (cmd[r].kind # "deploy" /\ ~Validates(file)))
    <3>1. file \in ApiModels
      BY <2>3, FileType DEF TypeOK
    <3>2. /\ model' = [model EXCEPT ![r] = file]
          /\ dir' = [dir EXCEPT ![r] = IF cmd[r].outputDirectory = NoFlag
                                       THEN file.prefix ELSE cmd[r].outputDirectory]
          /\ pc' = [pc EXCEPT ![r] = CASE cmd[r].kind = "deploy"     -> "autofill"
                                       [] cmd[r].kind = "generate"   -> "saveModel"
                                       [] cmd[r].kind = "parameters" -> "saveParameters"]
      BY <1>1, <2>3 DEF LoadAPIModel
    <3>3. model' \in [Runs -> ApiModels \cup {NoFile}]
      BY <1>0, <3>1, <3>2
    <3>4. dir' \in [Runs -> Prefixes]
      <4>1. file.prefix \in Prefixes
        BY <3>1 DEF ApiModels
      <4>2. cmd[r].outputDirectory \in Prefixes \cup {NoFlag}
        BY <2>1 DEF CommandLines
      <4> HIDE DEF file
      <4> QED
        BY <3>2, <4>1, <4>2 DEF TypeOK
    <3>5. \E next \in {"autofill", "saveModel", "saveParameters"} :
            pc' = [pc EXCEPT ![r] = next]
      <4>1. cmd[r].kind \in {"deploy", "generate", "parameters"}
        BY <2>1 DEF CommandLines
      <4> QED
        BY <3>2, <4>1
    <3>6. Loaded'
      <4>1. UNCHANGED role
        BY <1>1 DEF LoadAPIModel
      <4>2. pc'[r] \in {"autofill", "saveModel", "saveParameters"} /\ model'[r] = file
        BY <3>2, <3>5 DEF TypeOK
      <4>3. \A q \in Runs \ {r} : pc'[q] = pc[q] /\ model'[q] = model[q]
        BY <3>2, <3>5 DEF TypeOK
      <4> HIDE DEF file
      <4> QED
        BY <3>1, <4>1, <4>2, <4>3 DEF Loaded
    <3> QED
      BY <1>1, <3>3, <3>4, <3>5, <3>6 DEF LoadAPIModel, TypeOK
  <2> QED
    BY <2>2, <2>3
<1>2. ASSUME NEW r \in Runs, Autofill(r) PROVE TypeOK' /\ Loaded'
  <2>1. model[r] \in ApiModels
    BY <1>2 DEF Autofill, Loaded
  <2>2. PrefixOf(model[r], cmd[r]) \in Prefixes
    BY <2>1 DEF PrefixOf, ApiModels, TypeOK, CommandsAssumption, CommandLines
  <2>3. \A t \in Suffixes : Append(PrefixOf(model[r], cmd[r]), t) \in Prefixes
    BY <2>2 DEF Prefixes, CommandsAssumption
  <2>4. UNCHANGED model \/ \E p \in Prefixes : model' = [model EXCEPT ![r].prefix = p]
    BY <1>2, <2>2, <2>3 DEF Autofill
  <2>5. model' \in [Runs -> ApiModels \cup {NoFile}] /\ model'[r] \in ApiModels
    BY <2>1, <2>4 DEF TypeOK, ApiModels
  <2>6. \E next \in {"failed", "saveKey", "ensureGroup"} : pc' = [pc EXCEPT ![r] = next]
    BY <1>2 DEF Autofill
  <2>7. \A q \in Runs \ {r} : model'[q] = model[q]
    BY <2>4 DEF TypeOK
  <2> QED
    BY <1>2, <2>5, <2>6, <2>7 DEF Autofill, TypeOK, Loaded
<1>3. ASSUME NEW r \in Runs, SaveKey(r) PROVE TypeOK' /\ Loaded'
  <2>1. model[r] \in ApiModels
    BY <1>3 DEF SaveKey, SaveFile, Loaded
  <2>2. model' \in [Runs -> ApiModels \cup {NoFile}] /\ model'[r] \in ApiModels
        /\ \A q \in Runs \ {r} : model'[q] = model[q]
    BY <1>3, <2>1 DEF SaveKey, TypeOK, ApiModels
  <2>3. DOMAIN disk' \subseteq Prefixes /\ \A e \in DOMAIN disk' : disk'[e] \in Folders
    BY <1>3, SaveFileType DEF SaveKey
  <2> QED
    BY <1>3, <2>2, <2>3 DEF SaveKey, SaveFile, TypeOK, Loaded
<1>4. ASSUME NEW r \in Runs, EnsureResourceGroup(r) PROVE TypeOK' /\ Loaded'
  <2>1. model[r] \in ApiModels
    BY <1>4 DEF EnsureResourceGroup, Loaded
  <2>2. model' \in [Runs -> ApiModels \cup {NoFile}] /\ model'[r] \in ApiModels
        /\ \A q \in Runs \ {r} : model'[q] = model[q]
    BY <1>4, <2>1 DEF EnsureResourceGroup, TypeOK, ApiModels
  <2>3. groups' \subseteq Prefixes /\ groups \subseteq groups'
    BY <1>4, <2>1 DEF EnsureResourceGroup, TypeOK, ApiModels
  <2>4. \E next \in {"createApp", "validate", "failed"} : pc' = [pc EXCEPT ![r] = next]
    BY <1>4 DEF EnsureResourceGroup
  <2>5. faults' \in 0..MaxFaults
    BY <1>4 DEF EnsureResourceGroup, TypeOK
  <2> QED
    BY <1>4, <2>2, <2>3, <2>4, <2>5 DEF EnsureResourceGroup, TypeOK, Loaded
<1>5. ASSUME NEW r \in Runs, CreateApplication(r) PROVE TypeOK' /\ Loaded'
  <2>1. model[r].prefix \in Prefixes
    BY <1>5 DEF CreateApplication, Loaded, ApiModels
  <2> QED
    BY <1>5, <2>1 DEF CreateApplication, TypeOK, Loaded
<1>6. ASSUME NEW r \in Runs, RefuseApplication(r) \/ RefuseTemplate(r) \/ ValidateApimodel(r)
      PROVE  TypeOK' /\ Loaded'
  BY <1>6 DEF RefuseApplication, RefuseTemplate, ValidateApimodel, TypeOK, Loaded
<1>7. ASSUME NEW r \in Runs, CreatePrincipal(r) PROVE TypeOK' /\ Loaded'
  BY <1>7 DEF CreatePrincipal, TypeOK, Loaded
<1>8. ASSUME NEW r \in Runs, CreateRoleAssignment(r) PROVE TypeOK' /\ Loaded'
  <2>1. model[r] \in ApiModels
    BY <1>8 DEF CreateRoleAssignment, Loaded
  <2>2. model' \in [Runs -> ApiModels \cup {NoFile}] /\ model'[r] \in ApiModels
        /\ \A q \in Runs \ {r} : model'[q] = model[q]
    BY <1>8, <2>1 DEF CreateRoleAssignment, TypeOK, ApiModels
  <2>3. Assignment(r) \in [to : Runs, group : Prefixes, name : {1}]
    <3>1. role[r] = 1
      BY <1>8 DEF CreateRoleAssignment, Loaded
    <3> QED
      BY <2>1, <3>1 DEF Assignment, ApiModels
  <2>4. roles' \subseteq [to : Runs, group : Prefixes, name : {1}]
    BY <1>8, <2>3 DEF CreateRoleAssignment, TypeOK
  <2> QED
    BY <1>8, <2>2, <2>4 DEF CreateRoleAssignment, TypeOK, Loaded
<1>9. ASSUME NEW r \in Runs, SaveModel(r) \/ SaveTemplate(r) \/ SaveParameters(r)
      PROVE  TypeOK' /\ Loaded'
  <2>1. model[r] \in ApiModels
    BY <1>9 DEF SaveModel, SaveTemplate, SaveParameters, SaveFile, Loaded
  <2>2. DOMAIN disk' \subseteq Prefixes /\ \A e \in DOMAIN disk' : disk'[e] \in Folders
    BY <1>9, <2>1, SaveFileType DEF SaveModel, SaveTemplate, SaveParameters
  <2> QED
    BY <1>9, <2>1, <2>2
       DEF SaveModel, SaveTemplate, SaveParameters, SaveFile, TypeOK, Loaded
<1>10. ASSUME NEW r \in Runs, DeployTemplate(r) PROVE TypeOK' /\ Loaded'
  <2> DEFINE g == model[r].prefix
  <2>1. model[r] \in ApiModels /\ g \in groups
    BY <1>10 DEF DeployTemplate, Loaded, Grouped
  <2>2. cluster' = [h \in DOMAIN cluster \cup {g} |-> IF h = g THEN model[r] ELSE cluster[h]]
    BY <1>10 DEF DeployTemplate
  <2>3. DOMAIN cluster' \subseteq groups'
    BY <1>10, <2>1, <2>2 DEF DeployTemplate, TypeOK
  <2>4. \A h \in DOMAIN cluster' : cluster'[h] \in ApiModels
    BY <2>1, <2>2 DEF TypeOK
  <2> QED
    BY <1>10, <2>1, <2>3, <2>4 DEF DeployTemplate, TypeOK, Loaded
<1>11. ASSUME NEW r \in Runs, Drop(r) \/ Replicate(r) PROVE TypeOK' /\ Loaded'
  BY <1>11 DEF Drop, Replicate, TypeOK, Loaded
<1>12. CASE UNCHANGED vars
  BY <1>12 DEF vars, TypeOK, Loaded
<1> QED
  BY <1>1, <1>2, <1>3, <1>4, <1>5, <1>6, <1>7, <1>8, <1>9, <1>10, <1>11, <1>12
     DEF Next, Step

LEMMA StepGrouped == IInv /\ [Next]_vars => Grouped'
<1> SUFFICES ASSUME TypeOK, Loaded, Grouped, [Next]_vars PROVE Grouped'
  BY DEF IInv
<1> USE DEF SaveSteps
<1>1. ASSUME NEW r \in Runs, LoadAPIModel(r) PROVE Grouped'
  <2>1. \A q \in Runs \ {r} : pc'[q] = pc[q] /\ model'[q] = model[q]
    BY <1>1 DEF LoadAPIModel, TypeOK
  <2>2. \/ pc'[r] \in {"failed", "autofill"}
        \/ pc'[r] \in SaveSteps /\ cmd[r].kind # "deploy"
    <3>1. cmd[r].kind \in {"deploy", "generate", "parameters"}
      BY Assumptions DEF ParameterAssumptions, TypeOK, CommandsAssumption, CommandLines
    <3> QED
      BY <1>1, <3>1 DEF LoadAPIModel, TypeOK
  <2> QED
    BY <1>1, <2>1, <2>2 DEF LoadAPIModel, Grouped
<1>2. ASSUME NEW r \in Runs, Autofill(r) PROVE Grouped'
  <2>1. \A q \in Runs \ {r} : pc'[q] = pc[q] /\ model'[q] = model[q]
    BY <1>2 DEF Autofill, TypeOK
  <2>2. pc'[r] \in {"failed", "saveKey", "ensureGroup"}
    BY <1>2 DEF Autofill, TypeOK
  <2> QED
    BY <1>2, <2>1, <2>2 DEF Autofill, Grouped
<1>3. ASSUME NEW r \in Runs, SaveKey(r) PROVE Grouped'
  <2>1. \A q \in Runs \ {r} : pc'[q] = pc[q] /\ model'[q] = model[q]
    BY <1>3 DEF SaveKey, SaveFile, TypeOK
  <2>2. pc'[r] \in {"failed", "ensureGroup"}
    BY <1>3 DEF SaveKey, SaveFile, TypeOK
  <2> QED
    BY <1>3, <2>1, <2>2 DEF SaveKey, SaveFile, Grouped
<1>4. ASSUME NEW r \in Runs, EnsureResourceGroup(r) PROVE Grouped'
  <2>1. \A q \in Runs \ {r} : pc'[q] = pc[q] /\ model'[q] = model[q]
    BY <1>4 DEF EnsureResourceGroup, TypeOK
  <2>2. model[r] \in ApiModels
    BY <1>4 DEF EnsureResourceGroup, Loaded
  <2>3. model'[r].prefix = model[r].prefix
    BY <1>4, <2>2 DEF EnsureResourceGroup, TypeOK, ApiModels
  <2>4. groups' = groups \cup {model[r].prefix} /\ UNCHANGED cmd
    BY <1>4 DEF EnsureResourceGroup
  <2> QED
    BY <2>1, <2>3, <2>4 DEF Grouped
<1>5. ASSUME NEW r \in Runs,
             \/ CreateApplication(r) \/ RefuseApplication(r) \/ CreatePrincipal(r)
             \/ DeployTemplate(r) \/ RefuseTemplate(r) \/ ValidateApimodel(r)
      PROVE  Grouped'
  BY <1>5 DEF CreateApplication, RefuseApplication, CreatePrincipal, DeployTemplate,
              RefuseTemplate, ValidateApimodel, TypeOK, Grouped
<1>6. ASSUME NEW r \in Runs, CreateRoleAssignment(r) PROVE Grouped'
  <2>1. \A q \in Runs \ {r} : pc'[q] = pc[q] /\ model'[q] = model[q]
    BY <1>6 DEF CreateRoleAssignment, TypeOK
  <2>2. model[r] \in ApiModels
    BY <1>6 DEF CreateRoleAssignment, Loaded
  <2>3. model'[r].prefix = model[r].prefix
    BY <1>6, <2>2 DEF CreateRoleAssignment, TypeOK, ApiModels
  <2>4. pc[r] = "assignRole" /\ UNCHANGED <<cmd, groups>>
    BY <1>6 DEF CreateRoleAssignment
  <2> QED
    BY <2>1, <2>3, <2>4 DEF Grouped
<1>7. ASSUME NEW r \in Runs, SaveModel(r) \/ SaveTemplate(r) \/ SaveParameters(r)
      PROVE  Grouped'
  <2>1. UNCHANGED <<cmd, model, groups>>
    BY <1>7 DEF SaveModel, SaveTemplate, SaveParameters, SaveFile
  <2>2. pc[r] \in SaveSteps
    BY <1>7 DEF SaveModel, SaveTemplate, SaveParameters, SaveFile
  <2>3. \/ \E next \in SaveSteps \cup {"done", "failed"} : pc' = [pc EXCEPT ![r] = next]
        \/ pc' = [pc EXCEPT ![r] = "deployTemplate"] /\ cmd[r].kind = "deploy"
    BY <1>7 DEF SaveModel, SaveTemplate, SaveParameters, SaveFile
  <2> QED
    BY <2>1, <2>2, <2>3 DEF Grouped, TypeOK
<1>8. ASSUME NEW r \in Runs, Drop(r) \/ Replicate(r) PROVE Grouped'
  BY <1>8 DEF Drop, Replicate, TypeOK, Grouped
<1>9. CASE UNCHANGED vars
  BY <1>9 DEF vars, Grouped
<1> QED
  BY <1>1, <1>2, <1>3, <1>4, <1>5, <1>6, <1>7, <1>8, <1>9 DEF Next, Step

\* Every variable has its type, a run that works on an apimodel has one, and a
\* deployment that is past that point has its resource group.
THEOREM TypeCorrect == Spec => []IInv
<1>1. IInv /\ [Next]_vars => IInv'
  BY StepTyped, StepGrouped DEF IInv
<1> QED
  BY InitTyped, <1>1, PTL DEF Spec

\* Every variable of Deploy has its type.
THEOREM Typed == Spec => []TypeOK
BY TypeCorrect, PTL DEF IInv

(***************************************************************************)
(* Credentials.  What a run made for a principal stays; so it is enough    *)
(* that an apimodel names a principal only when all of it is there.        *)
(***************************************************************************)
Made(k) ==
  /\ k \in principals
  /\ \E a \in apps : a.by = k
  /\ \E a \in roles : a.to = k /\ a.group = model[k].prefix

Sound(m) == m \in ApiModels /\ m.sp \in Runs => Made(m.sp)

InProgress ==
  /\ \A r \in Runs : pc[r] \in {"createPrincipal", "assignRole"} => \E a \in apps : a.by = r
  /\ \A k \in principals : pc[k] \notin {"none", "autofill"}

AllSound ==
  /\ \A r \in Runs : Sound(model[r])
  /\ \A d \in DOMAIN disk : Sound(disk[d].model)
  /\ \A g \in DOMAIN cluster : Sound(cluster[g])

\* From Autofill on a run keeps its prefix.
LEMMA PrefixKept ==
  ASSUME IInv, [Next]_vars, NEW k \in Runs, pc[k] \notin {"none", "autofill"}
  PROVE  model'[k].prefix = model[k].prefix
<1> USE DEF IInv, TypeOK
<1>1. ASSUME NEW r \in Runs, LoadAPIModel(r) \/ Autofill(r)
      PROVE  model'[k] = model[k]
  BY <1>1 DEF LoadAPIModel, MayStart, Autofill
<1>2. ASSUME NEW r \in Runs, SaveKey(r) \/ EnsureResourceGroup(r) \/ CreateRoleAssignment(r)
      PROVE  model'[k].prefix = model[k].prefix
  <2>1. model[r] \in ApiModels
    BY <1>2 DEF SaveKey, SaveFile, EnsureResourceGroup, CreateRoleAssignment, Loaded
  <2>2. \/ UNCHANGED model
        \/ \E x \in Runs : model' = [model EXCEPT ![r].key = x]
        \/ \E x \in Runs \cup {Operator} : model' = [model EXCEPT ![r].sp = x]
    BY <1>2 DEF SaveKey, EnsureResourceGroup, CreateRoleAssignment
  <2> QED
    BY <2>1, <2>2 DEF ApiModels
<1>3. ASSUME NEW r \in Runs,
             \/ CreateApplication(r) \/ RefuseApplication(r) \/ CreatePrincipal(r)
             \/ ValidateApimodel(r) \/ SaveModel(r) \/ SaveTemplate(r) \/ SaveParameters(r)
             \/ DeployTemplate(r) \/ RefuseTemplate(r) \/ Drop(r) \/ Replicate(r)
             \/ UNCHANGED vars
      PROVE  UNCHANGED model
  BY <1>3 DEF CreateApplication, RefuseApplication, CreatePrincipal, ValidateApimodel,
              SaveModel, SaveTemplate, SaveParameters, DeployTemplate, RefuseTemplate,
              Drop, Replicate, vars
<1>4. CASE UNCHANGED vars
  BY <1>4 DEF vars
<1> QED
  BY <1>1, <1>2, <1>3, <1>4 DEF Next, Step

\* Nothing is taken away in Azure Active Directory.
LEMMA NothingRemoved ==
  ASSUME [Next]_vars
  PROVE  principals \subseteq principals' /\ apps \subseteq apps' /\ roles \subseteq roles'
<1>1. ASSUME NEW r \in Runs, Step(r) \/ Drop(r) \/ Replicate(r)
      PROVE  principals \subseteq principals' /\ apps \subseteq apps' /\ roles \subseteq roles'
  BY <1>1 DEF Step, LoadAPIModel, Autofill, SaveKey, SaveFile, EnsureResourceGroup,
              CreateApplication, RefuseApplication, CreatePrincipal, CreateRoleAssignment,
              ValidateApimodel, SaveModel, SaveTemplate, SaveParameters, DeployTemplate,
              RefuseTemplate, Drop, Replicate
<1>2. CASE UNCHANGED vars
  BY <1>2 DEF vars
<1> QED
  BY <1>1, <1>2 DEF Next

LEMMA MadeKept ==
  ASSUME IInv, InProgress, [Next]_vars, NEW k \in Runs, Made(k)
  PROVE  Made(k)'
<1>1. pc[k] \notin {"none", "autofill"}
  BY DEF InProgress, Made
<1>2. model'[k].prefix = model[k].prefix
  BY <1>1, PrefixKept
<1> QED
  BY <1>2, NothingRemoved DEF Made

LEMMA StepInProgress == IInv /\ InProgress /\ [Next]_vars => InProgress'
<1> SUFFICES ASSUME IInv, InProgress, [Next]_vars PROVE InProgress'
  OBVIOUS
<1> USE DEF IInv, TypeOK
<1>1. apps \subseteq apps'
  BY NothingRemoved
<1>2. ASSUME NEW r \in Runs, LoadAPIModel(r) PROVE InProgress'
  <2>1. pc[r] = "none" /\ r \notin principals
    BY <1>2 DEF LoadAPIModel, MayStart, InProgress
  <2>2. cmd[r].kind \in {"deploy", "generate", "parameters"}
    BY Assumptions DEF ParameterAssumptions, CommandsAssumption, CommandLines
  <2>3. pc'[r] \in {"failed", "autofill", "saveModel", "saveParameters"}
    BY <1>2, <2>2 DEF LoadAPIModel
  <2>4. \A q \in Runs \ {r} : pc'[q] = pc[q]
    BY <1>2 DEF LoadAPIModel
  <2> QED
    BY <1>2, <2>1, <2>3, <2>4 DEF LoadAPIModel, InProgress
<1>3. ASSUME NEW r \in Runs, CreateApplication(r) PROVE InProgress'
  <2>1. [uri |-> model[r].prefix, by |-> r] \in apps'
    BY <1>3 DEF CreateApplication
  <2>2. \E a \in apps' : a.by = r
    BY <2>1
  <2>3. \A q \in Runs \ {r} : pc'[q] = pc[q]
    BY <1>3 DEF CreateApplication
  <2>4. pc'[r] \in {"createPrincipal", "failed"} /\ UNCHANGED principals
    BY <1>3 DEF CreateApplication
  <2> QED
    BY <1>1, <2>2, <2>3, <2>4 DEF InProgress
<1>4. ASSUME NEW r \in Runs, CreatePrincipal(r) PROVE InProgress'
  BY <1>4 DEF CreatePrincipal, InProgress
<1>5. ASSUME NEW r \in Runs,
             \/ Autofill(r) \/ SaveKey(r) \/ EnsureResourceGroup(r) \/ RefuseApplication(r)
             \/ ValidateApimodel(r) \/ SaveModel(r) \/ SaveTemplate(r)
             \/ SaveParameters(r) \/ DeployTemplate(r) \/ RefuseTemplate(r) \/ Drop(r)
      PROVE  InProgress'
  <2>1. UNCHANGED <<principals, apps>>
    BY <1>5 DEF Autofill, SaveKey, SaveFile, EnsureResourceGroup, RefuseApplication,
                ValidateApimodel, SaveModel, SaveTemplate, SaveParameters,
                DeployTemplate, RefuseTemplate, Drop
  <2>2. \E next \in {"failed", "saveKey", "ensureGroup", "createApp", "validate", "saveModel",
                     "saveTemplate", "saveParameters", "deployTemplate", "done"} :
          pc' = [pc EXCEPT ![r] = next]
    BY <1>5 DEF Autofill, SaveKey, SaveFile, EnsureResourceGroup, RefuseApplication,
                ValidateApimodel, SaveModel, SaveTemplate, SaveParameters,
                DeployTemplate, RefuseTemplate, Drop
  <2> QED
    BY <2>1, <2>2 DEF InProgress
<1>6. ASSUME NEW r \in Runs, CreateRoleAssignment(r) PROVE InProgress'
  <2>1. UNCHANGED <<principals, apps>>
    BY <1>6 DEF CreateRoleAssignment
  <2>2. UNCHANGED pc \/ pc' = [pc EXCEPT ![r] = "validate"]
    BY <1>6 DEF CreateRoleAssignment
  <2> QED
    BY <2>1, <2>2 DEF InProgress
<1>7. ASSUME NEW r \in Runs, Replicate(r) PROVE InProgress'
  BY <1>7 DEF Replicate, InProgress
<1>8. CASE UNCHANGED vars
  BY <1>8 DEF vars, InProgress
<1> QED
  BY <1>2, <1>3, <1>4, <1>5, <1>6, <1>7, <1>8 DEF Next, Step

\* Only CreateRoleAssignment puts a principal into an apimodel; the other
\* actions move apimodels between the tool, the disk and the cloud.
LEMMA StepAllSound == IInv /\ InProgress /\ AllSound /\ [Next]_vars => AllSound'
<1> SUFFICES ASSUME IInv, InProgress, AllSound, [Next]_vars PROVE AllSound'
  OBVIOUS
<1> USE DEF IInv, TypeOK
<1> DEFINE MadeNext(k) ==
             /\ k \in principals'
             /\ \E a \in apps' : a.by = k
             /\ \E a \in roles' : a.to = k /\ a.group = model'[k].prefix
           Ready(m) == m \in ApiModels /\ m.sp \in Runs => MadeNext(m.sp)
<1>0. ASSUME NEW k \in Runs, Made(k) PROVE MadeNext(k)
  <2>1. Made(k)'
    BY <1>0, MadeKept
  <2> QED
    BY <2>1 DEF Made
<1>1. \A m : Sound(m) => Ready(m)
  <2> HIDE DEF MadeNext
  <2> QED
    BY <1>0 DEF Sound
<1>2. SUFFICES /\ \A r \in Runs : Ready(model'[r])
               /\ \A d \in DOMAIN disk' : Ready(disk'[d].model)
               /\ \A g \in DOMAIN cluster' : Ready(cluster'[g])
  BY DEF AllSound, Sound, Made
<1>3. /\ \A r \in Runs : Ready(model[r])
      /\ \A d \in DOMAIN disk : Ready(disk[d].model)
      /\ \A g \in DOMAIN cluster : Ready(cluster[g])
  <2> HIDE DEF Ready
  <2> QED
    BY <1>1 DEF AllSound
<1>4. Ready(NoFile) /\ Ready(Torn)
  BY Assumptions DEF ParameterAssumptions, NamesAssumption
<1> HIDE DEF Ready, MadeNext
<1>5. ASSUME NEW r \in Runs, LoadAPIModel(r)
      PROVE  Ready(model'[r]) /\ \A q \in Runs \ {r} : model'[q] = model[q]
  <2>1. Ready(cmd[r].source)
    BY Assumptions DEF ParameterAssumptions, SourcesAssumption, Ready
  <2>2. Ready(ApimodelFile(cmd[r]))
    BY <1>3, <1>4, <2>1 DEF ApimodelFile
  <2> QED
    BY <1>3, <1>5, <2>2 DEF LoadAPIModel
<1>6. ASSUME NEW r \in Runs, Autofill(r) \/ SaveKey(r)
      PROVE  Ready(model'[r]) /\ \A q \in Runs \ {r} : model'[q] = model[q]
  <2>1. model[r] \in ApiModels
    BY <1>6 DEF Autofill, SaveKey, SaveFile, Loaded
  <2>2. \/ UNCHANGED model
        \/ \E x : model' = [model EXCEPT ![r].prefix = x]
        \/ \E x : model' = [model EXCEPT ![r].key = x]
    BY <1>6 DEF Autofill, SaveKey
  <2>3. model'[r].sp = model[r].sp
    BY <2>1, <2>2 DEF ApiModels
  <2> QED
    BY <1>3, <2>1, <2>2, <2>3 DEF Ready
<1>7. ASSUME NEW r \in Runs, EnsureResourceGroup(r)
      PROVE  Ready(model'[r]) /\ \A q \in Runs \ {r} : model'[q] = model[q]
  <2>1. model[r] \in ApiModels
    BY <1>7 DEF EnsureResourceGroup, Loaded
  <2>2. UNCHANGED model \/ model' = [model EXCEPT ![r].sp = Operator]
    BY <1>7 DEF EnsureResourceGroup
  <2>3. CASE UNCHANGED model
    BY <1>3, <2>3
  <2>4. CASE model' = [model EXCEPT ![r].sp = Operator]
    <3>1. model'[r].sp = Operator /\ \A q \in Runs \ {r} : model'[q] = model[q]
      BY <2>1, <2>4 DEF ApiModels
    <3>2. Operator \notin Runs
      BY Assumptions DEF ParameterAssumptions, NamesAssumption
    <3> QED
      BY <3>1, <3>2 DEF Ready
  <2> QED
    BY <2>2, <2>3, <2>4
<1>8. ASSUME NEW r \in Runs, CreateRoleAssignment(r)
      PROVE  Ready(model'[r]) /\ \A q \in Runs \ {r} : model'[q] = model[q]
  <2>1. model[r] \in ApiModels
    BY <1>8 DEF CreateRoleAssignment, Loaded
  <2>2. CASE UNCHANGED model
    BY <1>3, <2>2
  <2>3. CASE model' = [model EXCEPT ![r].sp = r]
    <3>1. /\ model'[r].sp = r /\ model'[r].prefix = model[r].prefix
          /\ \A q \in Runs \ {r} : model'[q] = model[q]
      BY <2>1, <2>3 DEF ApiModels
    <3>2. r \in principals' /\ \E a \in apps' : a.by = r
      BY <1>8 DEF CreateRoleAssignment, InProgress
    <3>3. Assignment(r) \in roles' /\ Assignment(r).to = r
          /\ Assignment(r).group = model[r].prefix
      BY <1>8 DEF CreateRoleAssignment, Assignment
    <3>4. MadeNext(r)
      BY <3>1, <3>2, <3>3 DEF MadeNext
    <3> QED
      BY <3>1, <3>4 DEF Ready
  <2> QED
    BY <1>8, <2>2, <2>3 DEF CreateRoleAssignment
<1>9. ASSUME NEW r \in Runs, NEW here, NEW file, NEW data, NEW next,
             SaveFile(r, here, file, data, next), file = "model" => Ready(data),
             file \in {"key", "model", "template", "parameters"}
      PROVE  \A d \in DOMAIN disk' : Ready(disk'[d].model)
  <2>1. \A e : Contents(e) \in Folders /\ Ready(Contents(e).model)
    BY <1>3, <1>4 DEF Contents, Folders
  <2>2. PICK x : Write(dir[r], file, x) /\ (file = "model" => Ready(x))
    BY <1>4, <1>9 DEF SaveFile
  <2>3. Ready([Contents(dir[r]) EXCEPT ![file] = x].model)
    <3>1. Contents(dir[r]) \in Folders
      BY <2>1
    <3>2. CASE file = "model"
      BY <2>2, <3>1, <3>2 DEF Folders
    <3>3. CASE file # "model"
      <4>1. [Contents(dir[r]) EXCEPT ![file] = x].model = Contents(dir[r]).model
        BY <1>9, <3>1, <3>3 DEF Folders
      <4> QED
        BY <2>1, <4>1
    <3> QED
      BY <3>2, <3>3
  <2>4. \A d \in DOMAIN disk' : disk'[d] = IF d = dir[r]
                                 THEN [Contents(dir[r]) EXCEPT ![file] = x] ELSE Contents(d)
    BY <2>2 DEF Write
  <2>5. ASSUME NEW d \in DOMAIN disk' PROVE Ready(disk'[d].model)
    <3>1. CASE d = dir[r]
      BY <2>3, <2>4, <3>1
    <3>2. CASE d # dir[r]
      BY <2>1, <2>4, <3>2
    <3> QED
      BY <3>1, <3>2
  <2> QED
    BY <2>5
<1>10. ASSUME NEW r \in Runs, SaveKey(r) \/ SaveModel(r) \/ SaveTemplate(r) \/ SaveParameters(r)
       PROVE  \A d \in DOMAIN disk' : Ready(disk'[d].model)
  BY <1>3, <1>9, <1>10 DEF SaveKey, SaveModel, SaveTemplate, SaveParameters
<1>11. ASSUME NEW r \in Runs, DeployTemplate(r)
       PROVE  \A g \in DOMAIN cluster' : Ready(cluster'[g])
  BY <1>3, <1>11 DEF DeployTemplate
<1>12. ASSUME NEW r \in Runs,
              \/ LoadAPIModel(r) \/ Autofill(r) \/ EnsureResourceGroup(r)
              \/ CreateRoleAssignment(r)
       PROVE  UNCHANGED <<disk, cluster>>
  BY <1>12 DEF LoadAPIModel, Autofill, EnsureResourceGroup, CreateRoleAssignment
<1>13. ASSUME NEW r \in Runs, SaveKey(r) PROVE UNCHANGED cluster
  BY <1>13 DEF SaveKey, SaveFile
<1>14. ASSUME NEW r \in Runs, SaveModel(r) \/ SaveTemplate(r) \/ SaveParameters(r)
       PROVE  UNCHANGED <<model, cluster>>
  BY <1>14 DEF SaveModel, SaveTemplate, SaveParameters, SaveFile
<1>15. ASSUME NEW r \in Runs, DeployTemplate(r) PROVE UNCHANGED <<model, disk>>
  BY <1>15 DEF DeployTemplate
<1>16. ASSUME NEW r \in Runs,
              \/ CreateApplication(r) \/ RefuseApplication(r) \/ CreatePrincipal(r)
              \/ ValidateApimodel(r) \/ RefuseTemplate(r) \/ Drop(r) \/ Replicate(r)
       PROVE  UNCHANGED <<model, disk, cluster>>
  BY <1>16 DEF CreateApplication, RefuseApplication, CreatePrincipal, ValidateApimodel,
               RefuseTemplate, Drop, Replicate
<1>17. CASE UNCHANGED vars
  BY <1>3, <1>17 DEF vars
<1> QED
  BY <1>3, <1>5, <1>6, <1>7, <1>8, <1>10, <1>11, <1>12, <1>13, <1>14, <1>15, <1>16, <1>17
     DEF Next, Step

\* A cluster is deployed with a service principal that deploy made only when
\* its application, the principal and its role in the group are there
\* (deploy.go 263-290, graph.go 52-136), also when runs work at the same time
\* and when a run starts from an apimodel that an earlier one saved.
THEOREM PrincipalsAreReady == Spec => []CredentialsReady
<1>1. Init => InProgress /\ AllSound
  <2> SUFFICES ASSUME Init PROVE InProgress /\ AllSound
    OBVIOUS
  <2>1. NoFile \notin ApiModels
    BY Assumptions DEF ParameterAssumptions, NamesAssumption
  <2> QED
    BY <2>1 DEF Init, InProgress, AllSound, Sound
<1>2. IInv /\ AllSound => CredentialsReady
  BY DEF IInv, TypeOK, AllSound, Sound, Made, CredentialsReady
<1>3. IInv /\ InProgress /\ AllSound /\ [Next]_vars => (InProgress /\ AllSound)'
  BY StepInProgress, StepAllSound
<1> QED
  BY <1>1, <1>2, <1>3, TypeCorrect, PTL DEF Spec
(***************************************************************************)
(* The disk, when a run starts only after the earlier ones ended: a run    *)
(* then works alone, so the directory that was absent in Autofill still    *)
(* has none of the files the run is about to write, and what it wrote is   *)
(* still there when it deploys.                                            *)
(***************************************************************************)
Idle(r) == pc[r] \in {"none", "done", "failed"}

OneAtATime == \A q, r \in Runs : q < r /\ pc[r] # "none" => Ended(q)

OnlyDeploy ==
  \A r \in Runs :
    pc[r] \in {"autofill", "saveKey", "ensureGroup", "createApp", "createPrincipal",
               "assignRole", "validate", "deployTemplate"}
    => cmd[r].kind = "deploy"

Careful(r) == cmd[r].kind = "deploy" /\ ~cmd[r].forceOverwrite

BeforeModel == {"saveKey", "ensureGroup", "createApp", "createPrincipal", "assignRole",
                "validate", "saveModel"}

Fresh(r) ==
  LET f == Contents(dir[r]) IN
    /\ pc[r] = "saveKey" => f.key = NoFile
    /\ pc[r] \in BeforeModel => f.model = NoFile
    /\ pc[r] \in BeforeModel \cup {"saveTemplate"} => f.template = NoFile
    /\ pc[r] \in BeforeModel \cup {"saveTemplate", "saveParameters"} => f.parameters = NoFile

Stored(r) ==
  LET f == Contents(dir[r]) IN
    /\ pc[r] \in {"saveTemplate", "saveParameters", "deployTemplate"} => f.model = model[r]
    /\ pc[r] \in {"saveParameters", "deployTemplate"} => f.template = model[r]
    /\ pc[r] = "deployTemplate" => f.parameters = model[r]

OnDisk ==
  /\ OneAtATime /\ OnlyDeploy
  /\ \A r \in Runs : /\ Careful(r) => Fresh(r)
                     /\ cmd[r].kind = "deploy" => Stored(r)

LEMMA CommandKept == [Next]_vars => UNCHANGED cmd
BY DEF Next, Step, LoadAPIModel, Autofill, SaveKey, SaveFile, EnsureResourceGroup,
       CreateApplication, RefuseApplication, CreatePrincipal, CreateRoleAssignment,
       ValidateApimodel, SaveModel, SaveTemplate, SaveParameters, DeployTemplate,
       RefuseTemplate, Drop, Replicate, vars

\* Only a run that has not ended makes steps, and its first one loads an apimodel.
LEMMA Acts ==
  ASSUME NEW r \in Runs, Step(r) \/ Drop(r)
  PROVE  ~Ended(r) /\ (pc[r] = "none" => LoadAPIModel(r))
BY DEF Ended, Step, LoadAPIModel, MayStart, Autofill, SaveKey, SaveFile,
       EnsureResourceGroup, CreateApplication, RefuseApplication, CreatePrincipal,
       CreateRoleAssignment, ValidateApimodel, SaveModel, SaveTemplate, SaveParameters,
       DeployTemplate, RefuseTemplate, Drop

LEMMA Alone ==
  ASSUME ~Overlap, TypeOK, OneAtATime, NEW r \in Runs, Step(r) \/ Drop(r),
         NEW q \in Runs \ {r}
  PROVE  Idle(q) /\ pc'[q] = pc[q] /\ dir'[q] = dir[q] /\ model'[q] = model[q]
<1> USE DEF TypeOK
<1>1. ~Ended(r)
  BY Acts
<1>2. q \in Nat /\ r \in Nat /\ q # r
  BY Assumptions DEF ParameterAssumptions, BoundsAssumption, Runs
<1>3. Idle(q)
  <2>1. CASE r < q
    BY <1>1, <2>1 DEF OneAtATime, Idle, Ended
  <2>2. CASE q < r
    <3>1. CASE pc[r] # "none"
      BY <2>2, <3>1 DEF OneAtATime, Idle, Ended
    <3>2. CASE pc[r] = "none"
      <4>1. LoadAPIModel(r)
        BY <3>2, Acts
      <4>2. q \in 1..(r - 1)
        BY <1>2, <2>2 DEF Runs
      <4> QED
        BY <4>1, <4>2 DEF LoadAPIModel, MayStart, Idle, Ended
    <3> QED
      BY <3>1, <3>2
  <2> QED
    BY <1>2, <2>1, <2>2
<1>4. pc'[q] = pc[q] /\ dir'[q] = dir[q] /\ model'[q] = model[q]
  <2>1. CASE LoadAPIModel(r)
    BY <2>1 DEF LoadAPIModel
  <2>2. CASE Autofill(r)
    BY <2>2 DEF Autofill
  <2>3. CASE SaveKey(r) \/ EnsureResourceGroup(r) \/ CreateRoleAssignment(r)
    BY <2>3 DEF SaveKey, SaveFile, EnsureResourceGroup, CreateRoleAssignment
  <2>4. CASE \/ CreateApplication(r) \/ RefuseApplication(r) \/ CreatePrincipal(r)
             \/ ValidateApimodel(r) \/ SaveModel(r) \/ SaveTemplate(r)
             \/ SaveParameters(r) \/ DeployTemplate(r) \/ RefuseTemplate(r) \/ Drop(r)
    BY <2>4 DEF CreateApplication, RefuseApplication, CreatePrincipal, ValidateApimodel,
                SaveModel, SaveTemplate, SaveParameters, SaveFile, DeployTemplate,
                RefuseTemplate, Drop
  <2> QED
    BY <2>1, <2>2, <2>3, <2>4 DEF Step
<1> QED
  BY <1>3, <1>4

\* What a write does to every directory, those that are absent included.
LEMMA WriteContents ==
  ASSUME NEW d, NEW file, NEW data, Write(d, file, data)
  PROVE  /\ \A e : Contents(e)' = IF e = d THEN [Contents(d) EXCEPT ![file] = data]
                                  ELSE Contents(e)
         /\ DOMAIN disk' = DOMAIN disk \cup {d, Output}
<1>1. DOMAIN disk' = DOMAIN disk \cup {d, Output}
  BY DEF Write
<1>2. \A e \in DOMAIN disk' :
        disk'[e] = IF e = d THEN [Contents(d) EXCEPT ![file] = data] ELSE Contents(e)
  BY DEF Write
<1>3. ASSUME NEW e
      PROVE  Contents(e)' = IF e = d THEN [Contents(d) EXCEPT ![file] = data] ELSE Contents(e)
  <2>1. CASE e \in DOMAIN disk'
    BY <1>2, <2>1 DEF Contents
  <2>2. CASE e \notin DOMAIN disk'
    BY <1>1, <2>2 DEF Contents
  <2> QED
    BY <2>1, <2>2
<1> QED
  BY <1>1, <1>3

LEMMA ContentsType == TypeOK => \A d : Contents(d) \in Folders
BY DEF TypeOK, Contents, Folders

\* A step that saves no file keeps every directory.
LEMMA NoWrite ==
  ASSUME NEW r,
         \/ LoadAPIModel(r) \/ Autofill(r) \/ EnsureResourceGroup(r) \/ CreateApplication(r)
         \/ RefuseApplication(r) \/ CreatePrincipal(r) \/ CreateRoleAssignment(r)
         \/ ValidateApimodel(r) \/ DeployTemplate(r) \/ RefuseTemplate(r)
         \/ Drop(r) \/ Replicate(r)
  PROVE  UNCHANGED disk
BY DEF LoadAPIModel, Autofill, EnsureResourceGroup, CreateApplication, RefuseApplication,
       CreatePrincipal, CreateRoleAssignment, ValidateApimodel, DeployTemplate,
       RefuseTemplate, Drop, Replicate

LEMMA StepOneAtATime ==
  ASSUME ~Overlap, IInv, OneAtATime, [Next]_vars
  PROVE  OneAtATime'
<1> USE DEF IInv, TypeOK
<1>1. ASSUME NEW r \in Runs, Step(r) \/ Drop(r) PROVE OneAtATime'
  <2>1. ASSUME NEW q \in Runs, NEW s \in Runs, q < s, pc'[s] # "none" PROVE Ended(q)'
    <3>1. q \in Nat /\ s \in Nat /\ r \in Nat
      BY Assumptions DEF ParameterAssumptions, BoundsAssumption, Runs
    <3>2. CASE r = s
      <4>1. CASE pc[r] = "none"
        <5>1. LoadAPIModel(r)
          BY <1>1, <4>1, Acts
        <5>2. q \in 1..(r - 1)
          BY <2>1, <3>1, <3>2 DEF Runs
        <5>3. Ended(q)
          BY <5>1, <5>2 DEF LoadAPIModel, MayStart
        <5> QED
          BY <1>1, <2>1, <3>1, <3>2, <5>3, Alone DEF Ended
      <4>2. CASE pc[r] # "none"
        <5>1. Ended(q)
          BY <2>1, <3>2, <4>2 DEF OneAtATime
        <5> QED
          BY <1>1, <2>1, <3>1, <3>2, <5>1, Alone DEF Ended
      <4> QED
        BY <4>1, <4>2
    <3>3. CASE r # s
      <4>1. pc[s] # "none"
        BY <1>1, <2>1, <3>3, Alone
      <4>2. Ended(q)
        BY <2>1, <4>1 DEF OneAtATime
      <4>3. q # r
        BY <1>1, <4>2, Acts
      <4> QED
        BY <1>1, <4>2, <4>3, Alone DEF Ended
    <3> QED
      BY <3>2, <3>3
  <2> QED
    BY <2>1 DEF OneAtATime
<1>2. ASSUME NEW r \in Runs, Replicate(r) PROVE OneAtATime'
  BY <1>2 DEF Replicate, OneAtATime, Ended
<1>3. CASE UNCHANGED vars
  BY <1>3 DEF vars, OneAtATime, Ended
<1> QED
  BY <1>1, <1>2, <1>3 DEF Next

\* What a run that makes a step knows afterwards of its own directory.
LEMMA StepOwn ==
  ASSUME IInv, OnDisk, NEW r \in Runs, Step(r) \/ Drop(r)
  PROVE  /\ pc'[r] \in {"autofill", "saveKey", "ensureGroup", "createApp",
                        "createPrincipal", "assignRole", "validate", "deployTemplate"}
            => cmd[r].kind = "deploy"
         /\ Careful(r) => Fresh(r)'
         /\ cmd[r].kind = "deploy" => Stored(r)'
<1> DEFINE Goal == /\ pc'[r] \in {"autofill", "saveKey", "ensureGroup", "createApp",
                        "createPrincipal", "assignRole", "validate", "deployTemplate"}
                      => cmd[r].kind = "deploy"
                   /\ Careful(r) => Fresh(r)'
                   /\ cmd[r].kind = "deploy" => Stored(r)'
<1> USE DEF IInv, TypeOK
<1>1. /\ pc[r] \in {"autofill", "saveKey", "ensureGroup", "createApp",
                    "createPrincipal", "assignRole", "validate", "deployTemplate"}
         => cmd[r].kind = "deploy"
      /\ Careful(r) => Fresh(r)
      /\ cmd[r].kind = "deploy" => Stored(r)
  BY DEF OnDisk, OnlyDeploy
<1>2. CASE LoadAPIModel(r)
  <2>1. cmd[r].kind \in {"deploy", "generate", "parameters"}
    BY Assumptions DEF ParameterAssumptions, CommandsAssumption, CommandLines
  <2>2. \/ pc'[r] = "failed"
        \/ pc'[r] = "autofill" /\ cmd[r].kind = "deploy"
        \/ pc'[r] \in {"saveModel", "saveParameters"} /\ cmd[r].kind # "deploy"
    BY <1>2, <2>1 DEF LoadAPIModel
  <2> QED
    BY <2>2 DEF Fresh, Stored, BeforeModel, Careful
<1>3. CASE Autofill(r)
  <2>1. UNCHANGED <<disk, dir>>
    BY <1>3 DEF Autofill
  <2>2. pc'[r] \in {"failed", "saveKey", "ensureGroup"}
    BY <1>3 DEF Autofill
  <2>3. Careful(r) /\ pc'[r] # "failed" => dir[r] \notin DOMAIN disk
    BY <1>3 DEF Autofill, DirectoryTaken, Careful
  <2>4. cmd[r].kind = "deploy"
    BY <1>1, <1>3 DEF Autofill
  <2> QED
    BY <2>1, <2>2, <2>3, <2>4 DEF Fresh, Stored, Contents, BeforeModel
<1>4. CASE SaveKey(r)
  <2>1. PICK x : Write(dir[r], "key", x)
    BY <1>4 DEF SaveKey, SaveFile
  <2>2. Contents(dir[r]) \in Folders
    BY ContentsType
  <2>3. Contents(dir[r])' = [Contents(dir[r]) EXCEPT !["key"] = x] /\ UNCHANGED dir
    <3>1. UNCHANGED dir
      BY <1>4 DEF SaveKey, SaveFile
    <3>2. \A e : Contents(e)' = IF e = dir[r] THEN [Contents(dir[r]) EXCEPT !["key"] = x]
                                ELSE Contents(e)
      BY <2>1, WriteContents
    <3>3. Contents(dir[r])' = [Contents(dir[r]) EXCEPT !["key"] = x]
      BY <3>1, <3>2 DEF Contents
    <3> QED
      BY <3>1, <3>3
  <2>4. pc[r] = "saveKey" /\ pc'[r] \in {"ensureGroup", "failed"}
    BY <1>4 DEF SaveKey, SaveFile
  <2> QED
    BY <1>1, <2>2, <2>3, <2>4 DEF Fresh, Stored, Folders, BeforeModel
<1>5. CASE SaveModel(r) \/ SaveTemplate(r) \/ SaveParameters(r)
  <2>1. UNCHANGED <<model, dir>>
    BY <1>5 DEF SaveModel, SaveTemplate, SaveParameters, SaveFile
  <2>2. CASE pc'[r] = "failed"
    BY <2>2 DEF Fresh, Stored, BeforeModel
  <2>3. CASE pc'[r] # "failed"
    <3>1. PICK file \in {"model", "template", "parameters"} :
            /\ Write(dir[r], file, model[r])
            /\ file = "model" => pc[r] = "saveModel" /\ pc'[r] = "saveTemplate"
            /\ file = "template" => pc[r] = "saveTemplate" /\ pc'[r] = "saveParameters"
            /\ file = "parameters" =>
                 /\ pc[r] = "saveParameters"
                 /\ pc'[r] = IF cmd[r].kind = "deploy" THEN "deployTemplate" ELSE "done"
      BY <1>5, <2>3 DEF SaveModel, SaveTemplate, SaveParameters, SaveFile
    <3>2. Contents(dir[r]) \in Folders
      BY ContentsType
    <3>3. Contents(dir[r])' = [Contents(dir[r]) EXCEPT ![file] = model[r]]
      <4>1. \A e : Contents(e)' = IF e = dir[r]
                                  THEN [Contents(dir[r]) EXCEPT ![file] = model[r]]
                                  ELSE Contents(e)
        BY <3>1, WriteContents
      <4> QED
        BY <2>1, <4>1 DEF Contents
    <3>4. CASE file = "model"
      BY <1>1, <2>1, <3>1, <3>2, <3>3, <3>4 DEF Fresh, Stored, Folders, BeforeModel
    <3>5. CASE file = "template"
      BY <1>1, <2>1, <3>1, <3>2, <3>3, <3>5 DEF Fresh, Stored, Folders, BeforeModel
    <3>6. CASE file = "parameters"
      BY <1>1, <2>1, <3>1, <3>2, <3>3, <3>6 DEF Fresh, Stored, Folders, BeforeModel
    <3> QED
      BY <3>4, <3>5, <3>6
  <2> QED
    BY <2>2, <2>3
<1>6. CASE \/ EnsureResourceGroup(r) \/ CreateApplication(r) \/ RefuseApplication(r)
           \/ CreatePrincipal(r) \/ CreateRoleAssignment(r) \/ ValidateApimodel(r)
           \/ DeployTemplate(r) \/ RefuseTemplate(r) \/ Drop(r)
  <2>1. UNCHANGED <<disk, dir>>
    BY <1>6 DEF EnsureResourceGroup, CreateApplication, RefuseApplication,
                CreatePrincipal, CreateRoleAssignment, ValidateApimodel,
                DeployTemplate, RefuseTemplate, Drop
  <2>2. \/ pc'[r] \in {"done", "failed"}
        \/ /\ pc[r] \in {"ensureGroup", "createApp", "createPrincipal", "assignRole", "validate"}
           /\ pc'[r] \in {"createApp", "createPrincipal", "assignRole", "validate", "saveModel"}
    BY <1>6 DEF EnsureResourceGroup, CreateApplication, RefuseApplication,
                CreatePrincipal, CreateRoleAssignment, ValidateApimodel,
                DeployTemplate, RefuseTemplate, Drop
  <2> QED
    BY <1>1, <2>1, <2>2 DEF Fresh, Stored, Contents, BeforeModel
<1> QED
  BY <1>2, <1>3, <1>4, <1>5, <1>6 DEF Step

LEMMA StepOnDisk == ~Overlap /\ IInv /\ OnDisk /\ [Next]_vars => OnDisk'
<1> SUFFICES ASSUME ~Overlap, IInv, OnDisk, [Next]_vars PROVE OnDisk'
  OBVIOUS
<1>1. OneAtATime'
  BY StepOneAtATime DEF OnDisk
<1>2. UNCHANGED cmd
  BY CommandKept
<1>3. ASSUME NEW r \in Runs, Step(r) \/ Drop(r) PROVE OnDisk'
  <2>1. ASSUME NEW q \in Runs \ {r} PROVE pc'[q] \in {"none", "done", "failed"}
    BY <1>3, <2>1, Alone DEF IInv, OnDisk, Idle
  <2>2. OnlyDeploy'
    BY <1>2, <1>3, <2>1, StepOwn DEF OnlyDeploy
  <2>3. ASSUME NEW q \in Runs PROVE /\ (Careful(q) => Fresh(q))'
                                    /\ (cmd[q].kind = "deploy" => Stored(q))'
    <3>1. CASE q = r
      BY <1>2, <1>3, <3>1, StepOwn DEF Careful
    <3>2. CASE q # r
      BY <2>1, <3>2 DEF Fresh, Stored, BeforeModel
    <3> QED
      BY <3>1, <3>2
  <2> QED
    BY <1>1, <2>2, <2>3 DEF OnDisk
<1>4. ASSUME UNCHANGED <<pc, model, dir, disk>> PROVE OnDisk'
  BY <1>1, <1>2, <1>4 DEF OnDisk, OnlyDeploy, Careful, Fresh, Stored, Contents
<1> QED
  BY <1>3, <1>4 DEF Next, Replicate, vars

LEMMA InitOnDisk == Init => OnDisk
BY DEF Init, OnDisk, OneAtATime, OnlyDeploy, Fresh, Stored, BeforeModel

\* The step that writes a file.
StepOf(file) == CASE file = "key" -> "saveKey" [] file = "model" -> "saveModel"
                  [] file = "template" -> "saveTemplate"
                  [] file = "parameters" -> "saveParameters"

LEMMA Saves ==
  ASSUME TypeOK, NEW r \in Runs,
         SaveKey(r) \/ SaveModel(r) \/ SaveTemplate(r) \/ SaveParameters(r)
  PROVE  \E file, x :
           /\ file \in {"key", "model", "template", "parameters"}
           /\ pc[r] = StepOf(file) /\ pc'[r] # pc[r] /\ Write(dir[r], file, x)
<1> USE DEF TypeOK
<1>1. CASE SaveKey(r)
  <2>1. PICK x : Write(dir[r], "key", x)
    BY <1>1 DEF SaveKey, SaveFile
  <2>2. pc[r] = StepOf("key") /\ pc'[r] # pc[r]
    BY <1>1 DEF SaveKey, SaveFile, StepOf
  <2> QED
    BY <2>1, <2>2
<1>2. CASE SaveModel(r)
  <2>1. PICK x : Write(dir[r], "model", x)
    BY <1>2 DEF SaveModel, SaveFile
  <2>2. pc[r] = StepOf("model") /\ pc'[r] # pc[r]
    BY <1>2 DEF SaveModel, SaveFile, StepOf
  <2> QED
    BY <2>1, <2>2
<1>3. CASE SaveTemplate(r)
  <2>1. PICK x : Write(dir[r], "template", x)
    BY <1>3 DEF SaveTemplate, SaveFile
  <2>2. pc[r] = StepOf("template") /\ pc'[r] # pc[r]
    BY <1>3 DEF SaveTemplate, SaveFile, StepOf
  <2> QED
    BY <2>1, <2>2
<1>4. CASE SaveParameters(r)
  <2>1. PICK x : Write(dir[r], "parameters", x)
    BY <1>4 DEF SaveParameters, SaveFile
  <2>2. pc[r] = StepOf("parameters") /\ pc'[r] # pc[r]
    BY <1>4 DEF SaveParameters, SaveFile, StepOf
  <2> QED
    BY <2>1, <2>2
<1> QED
  BY <1>1, <1>2, <1>3, <1>4

\* A deploy without --force-overwrite changes no file that is there
\* (deploy.go 228-230), when commands run one after the other.
THEOREM NothingLost == ~Overlap => (Spec => NothingOverwritten)
<1> DEFINE Step1 == \A d \in DOMAIN disk : \A file \in DOMAIN disk[d] :
       disk[d][file] # NoFile /\ disk'[d][file] # disk[d][file] =>
         \E r \in Runs : /\ pc'[r] # pc[r]
                         /\ cmd[r].forceOverwrite \/ cmd[r].kind # "deploy"
<1> SUFFICES ASSUME ~Overlap PROVE Spec => NothingOverwritten
  OBVIOUS
<1>1. ASSUME IInv, OnDisk, [Next]_vars PROVE [Step1]_vars
  <2> SUFFICES ASSUME NEW d \in DOMAIN disk, NEW file \in DOMAIN disk[d],
                      disk[d][file] # NoFile, disk'[d][file] # disk[d][file]
               PROVE  \E r \in Runs : /\ pc'[r] # pc[r]
                                      /\ cmd[r].forceOverwrite \/ cmd[r].kind # "deploy"
    OBVIOUS
  <2> USE DEF IInv, TypeOK
  <2>1. PICK r \in Runs : SaveKey(r) \/ SaveModel(r) \/ SaveTemplate(r) \/ SaveParameters(r)
    BY <1>1, NoWrite DEF Next, Step, vars
  <2>2. PICK changed, x :
          /\ changed \in {"key", "model", "template", "parameters"}
          /\ pc[r] = StepOf(changed) /\ pc'[r] # pc[r] /\ Write(dir[r], changed, x)
    BY <1>1, <2>1, Saves
  <2>3. d \in DOMAIN disk' /\ disk[d] = Contents(d)
        /\ disk'[d] = IF d = dir[r] THEN [disk[d] EXCEPT ![changed] = x] ELSE disk[d]
    BY <2>2 DEF Write, Contents
  <2>4. d = dir[r] /\ file = changed
    BY <2>3
  <2>5. ~Careful(r)
    <3>1. SUFFICES ASSUME Careful(r) PROVE disk[d][file] = NoFile
      OBVIOUS
    <3>2. Fresh(r)
      BY <1>1, <3>1 DEF OnDisk
    <3> QED
      BY <2>2, <2>3, <2>4, <3>2 DEF Fresh, BeforeModel, StepOf
  <2> QED
    BY <2>2, <2>5 DEF Careful
<1>2. ~Overlap /\ IInv /\ OnDisk /\ [Next]_vars => OnDisk'
  BY StepOnDisk
<1> QED
  BY <1>1, <1>2, InitOnDisk, TypeCorrect, PTL DEF Spec, NothingOverwritten

(***************************************************************************)
(* Keys.  A run that did not fail, a saved apimodel and a cluster name the *)
(* key of a run only when it is on disk, or a later run with               *)
(* --force-overwrite replaced it.                                          *)
(***************************************************************************)
Held(k) ==
  /\ pc[k] \notin {"none", "autofill", "saveKey"}
  /\ dir[k] \in DOMAIN disk
  /\ \/ disk[dir[k]].key = k
     \/ \E q \in (k + 1)..NumRuns : cmd[q].forceOverwrite /\ disk[dir[k]].key \in {q, Torn}

Kept(m) == m \in ApiModels /\ m.key \in Runs => Held(m.key)

AllKept ==
  /\ \A r \in Runs : pc[r] # "failed" => Kept(model[r])
  /\ \A d \in DOMAIN disk : Kept(disk[d].model)
  /\ \A g \in DOMAIN cluster : Kept(cluster[g])

LEMMA HeldKept ==
  ASSUME ~Overlap, IInv, OnDisk, [Next]_vars, NEW k \in Runs, Held(k)
  PROVE  Held(k)'
<1> USE DEF IInv, TypeOK
<1>1. UNCHANGED cmd
  BY CommandKept
<1>2. dir'[k] = dir[k] /\ pc'[k] \notin {"none", "autofill", "saveKey"}
  <2>1. ASSUME NEW r \in Runs, Step(r) \/ Drop(r), r # k
        PROVE  dir'[k] = dir[k] /\ pc'[k] = pc[k]
    BY <2>1, Alone DEF OnDisk
  <2>2. ASSUME Step(k) \/ Drop(k)
        PROVE  dir'[k] = dir[k] /\ pc'[k] \notin {"none", "autofill", "saveKey"}
    BY <2>2 DEF Held, Step, LoadAPIModel, MayStart, Autofill, SaveKey, SaveFile,
         EnsureResourceGroup, CreateApplication, RefuseApplication, CreatePrincipal,
         CreateRoleAssignment, ValidateApimodel, SaveModel, SaveTemplate, SaveParameters,
         DeployTemplate, RefuseTemplate, Drop
  <2>3. ASSUME UNCHANGED <<pc, dir>>
        PROVE  dir'[k] = dir[k] /\ pc'[k] \notin {"none", "autofill", "saveKey"}
    BY <2>3 DEF Held
  <2> QED
    BY <2>1, <2>2, <2>3 DEF Next, Replicate, vars, Held
<1>3. ASSUME UNCHANGED disk PROVE Held(k)'
  BY <1>1, <1>2, <1>3 DEF Held
<1>4. ASSUME NEW r \in Runs, SaveModel(r) \/ SaveTemplate(r) \/ SaveParameters(r)
      PROVE  Held(k)'
  <2>1. PICK file, x : file \in {"model", "template", "parameters"} /\ Write(dir[r], file, x)
    BY <1>4 DEF SaveModel, SaveTemplate, SaveParameters, SaveFile
  <2>2. Contents(dir[r]) \in Folders
    BY ContentsType
  <2>3. [Contents(dir[r]) EXCEPT ![file] = x].key = Contents(dir[r]).key
    BY <2>1, <2>2 DEF Folders
  <2>4. dir[k] \in DOMAIN disk' /\ disk'[dir[k]].key = disk[dir[k]].key
    BY <2>1, <2>3 DEF Write, Contents, Held
  <2> QED
    BY <1>1, <1>2, <2>4 DEF Held
<1>5. ASSUME NEW r \in Runs, SaveKey(r) PROVE Held(k)'
  <2>1. PICK x \in {r, Torn} : Write(dir[r], "key", x)
    BY <1>5 DEF SaveKey, SaveFile
  <2>2. Contents(dir[r]) \in Folders
    BY ContentsType
  <2>3. pc[r] = "saveKey" /\ r # k /\ pc[k] # "none"
    BY <1>5 DEF SaveKey, SaveFile, Held
  <2>4. dir[k] \in DOMAIN disk'
    BY <2>1 DEF Write, Held
  <2>5. CASE dir[r] # dir[k]
    <3>1. disk'[dir[k]] = disk[dir[k]]
      BY <2>1, <2>5 DEF Write, Contents, Held
    <3> QED
      BY <1>1, <1>2, <2>4, <3>1 DEF Held
  <2>6. CASE dir[r] = dir[k]
    <3>1. disk'[dir[k]].key = x
      BY <2>1, <2>2, <2>4, <2>6 DEF Write, Folders
    <3>2. r \in (k + 1)..NumRuns
      <4>1. r \in 1..NumRuns /\ k \in 1..NumRuns /\ NumRuns \in Nat
        BY Assumptions DEF ParameterAssumptions, BoundsAssumption, Runs
      <4>2. ~(r < k)
        BY <2>3 DEF OnDisk, OneAtATime, Ended
      <4> QED
        BY <2>3, <4>1, <4>2
    <3>3. cmd[r].forceOverwrite
      <4>1. SUFFICES ASSUME ~cmd[r].forceOverwrite PROVE FALSE
        OBVIOUS
      <4>2. Contents(dir[r]).key = NoFile
        BY <2>3, <4>1 DEF OnDisk, OnlyDeploy, Careful, Fresh
      <4>3. disk[dir[k]].key = NoFile
        BY <2>6, <4>2 DEF Contents, Held
      <4>4. NoFile \notin Runs /\ NoFile # Torn /\ \A q \in (k + 1)..NumRuns : q \in Runs
        BY Assumptions
           DEF ParameterAssumptions, NamesAssumption, BoundsAssumption, Runs
      <4> QED
        BY <4>3, <4>4 DEF Held
    <3> QED
      BY <1>1, <1>2, <2>1, <2>4, <3>1, <3>2, <3>3 DEF Held
  <2> QED
    BY <2>5, <2>6
<1>6. UNCHANGED disk \/ \E r \in Runs :
        SaveKey(r) \/ SaveModel(r) \/ SaveTemplate(r) \/ SaveParameters(r)
  BY NoWrite DEF Next, Step, vars
<1> QED
  BY <1>3, <1>4, <1>5, <1>6

\* Only SaveKey puts the key of a run into an apimodel.
LEMMA StepAllKept == ~Overlap /\ IInv /\ OnDisk /\ AllKept /\ [Next]_vars => AllKept'
<1> SUFFICES ASSUME ~Overlap, IInv, OnDisk, AllKept, [Next]_vars PROVE AllKept'
  OBVIOUS
<1> USE DEF IInv, TypeOK
<1> DEFINE HeldNext(k) ==
             /\ pc'[k] \notin {"none", "autofill", "saveKey"}
             /\ dir'[k] \in DOMAIN disk'
             /\ \/ disk'[dir'[k]].key = k
                \/ \E q \in (k + 1)..NumRuns :
                     cmd'[q].forceOverwrite /\ disk'[dir'[k]].key \in {q, Torn}
           Ready(m) == m \in ApiModels /\ m.key \in Runs => HeldNext(m.key)
<1>0. ASSUME NEW k \in Runs, Held(k) PROVE HeldNext(k)
  <2>1. Held(k)'
    BY <1>0, HeldKept
  <2> QED
    BY <2>1 DEF Held
<1>1. \A m : Kept(m) => Ready(m)
  <2> HIDE DEF HeldNext
  <2> QED
    BY <1>0 DEF Kept
<1>2. SUFFICES /\ \A r \in Runs : pc'[r] # "failed" => Ready(model'[r])
               /\ \A d \in DOMAIN disk' : Ready(disk'[d].model)
               /\ \A g \in DOMAIN cluster' : Ready(cluster'[g])
  BY DEF AllKept, Kept, Held
<1>3. /\ \A r \in Runs : pc[r] # "failed" => Ready(model[r])
      /\ \A d \in DOMAIN disk : Ready(disk[d].model)
      /\ \A g \in DOMAIN cluster : Ready(cluster[g])
  <2> HIDE DEF Ready
  <2> QED
    BY <1>1 DEF AllKept
<1>4. Ready(NoFile) /\ Ready(Torn)
  BY Assumptions DEF ParameterAssumptions, NamesAssumption
<1> HIDE DEF HeldNext
<1>5. ASSUME NEW r \in Runs, Step(r) \/ Drop(r), pc'[r] # "failed" => Ready(model'[r])
      PROVE  \A q \in Runs : pc'[q] # "failed" => Ready(model'[q])
  <2> HIDE DEF Ready
  <2>1. TAKE q \in Runs
  <2>2. CASE q = r
    BY <1>5, <2>2
  <2>3. CASE q # r
    BY <1>3, <1>5, <2>3, Alone DEF OnDisk
  <2> QED
    BY <2>2, <2>3
<1>6. ASSUME NEW r \in Runs, LoadAPIModel(r)
      PROVE  pc'[r] # "failed" => Ready(model'[r])
  <2>1. Ready(cmd[r].source)
    BY Assumptions DEF ParameterAssumptions, SourcesAssumption
  <2> HIDE DEF Ready
  <2>2. Ready(ApimodelFile(cmd[r]))
    BY <1>3, <1>4, <2>1 DEF ApimodelFile
  <2>3. pc'[r] # "failed" => model'[r] = ApimodelFile(cmd[r])
    BY <1>6 DEF LoadAPIModel
  <2> QED
    BY <2>2, <2>3
<1>7. ASSUME NEW r \in Runs, Autofill(r) \/ EnsureResourceGroup(r) \/ CreateRoleAssignment(r)
      PROVE  pc'[r] # "failed" => Ready(model'[r])
  <2>1. model[r] \in ApiModels /\ pc[r] # "failed"
    BY <1>7 DEF Autofill, EnsureResourceGroup, CreateRoleAssignment, Loaded
  <2>2. \/ UNCHANGED model
        \/ \E x : model' = [model EXCEPT ![r].prefix = x]
        \/ \E x : model' = [model EXCEPT ![r].sp = x]
    BY <1>7 DEF Autofill, EnsureResourceGroup, CreateRoleAssignment
  <2>3. model'[r].key = model[r].key
    BY <2>1, <2>2 DEF ApiModels
  <2> QED
    BY <1>3, <2>1, <2>3
<1>8. ASSUME NEW r \in Runs, SaveKey(r) PROVE pc'[r] # "failed" => Ready(model'[r])
  <2>1. SUFFICES ASSUME pc'[r] # "failed" PROVE Ready(model'[r])
    OBVIOUS
  <2>2. Write(dir[r], "key", r) /\ pc'[r] = "ensureGroup" /\ UNCHANGED dir
    BY <1>8, <2>1 DEF SaveKey, SaveFile
  <2>3. Contents(dir[r]) \in Folders
    BY ContentsType
  <2>4. dir[r] \in DOMAIN disk' /\ disk'[dir[r]].key = r
    BY <2>2, <2>3 DEF Write, Folders
  <2>5. model[r] \in ApiModels
    BY <1>8 DEF SaveKey, SaveFile, Loaded
  <2>6. model'[r].key = r
    BY <1>8, <2>5 DEF SaveKey, ApiModels
  <2> QED
    BY <2>2, <2>4, <2>6 DEF HeldNext
<1>9. ASSUME NEW r \in Runs, NEW file \in {"key", "model", "template", "parameters"}, NEW x,
             Write(dir[r], file, x), file = "model" => Ready(x)
      PROVE  \A d \in DOMAIN disk' : Ready(disk'[d].model)
  <2> HIDE DEF Ready
  <2>1. \A e : Contents(e) \in Folders /\ Ready(Contents(e).model)
    BY <1>3, <1>4, ContentsType DEF Contents
  <2>2. Ready([Contents(dir[r]) EXCEPT ![file] = x].model)
    <3>1. Contents(dir[r]) \in Folders
      BY <2>1
    <3>2. CASE file = "model"
      BY <1>9, <3>1, <3>2 DEF Folders
    <3>3. CASE file # "model"
      <4>1. [Contents(dir[r]) EXCEPT ![file] = x].model = Contents(dir[r]).model
        BY <1>9, <3>1, <3>3 DEF Folders
      <4> QED
        BY <2>1, <4>1
    <3> QED
      BY <3>2, <3>3
  <2>3. \A d \in DOMAIN disk' : disk'[d] = IF d = dir[r]
                                 THEN [Contents(dir[r]) EXCEPT ![file] = x] ELSE Contents(d)
    BY <1>9 DEF Write
  <2> TAKE d \in DOMAIN disk'
  <2>4. CASE d = dir[r]
    BY <2>2, <2>3, <2>4
  <2>5. CASE d # dir[r]
    BY <2>1, <2>3, <2>5
  <2> QED
    BY <2>4, <2>5
<1>10. ASSUME NEW r \in Runs, SaveKey(r) \/ SaveModel(r) \/ SaveTemplate(r) \/ SaveParameters(r)
       PROVE  \A d \in DOMAIN disk' : Ready(disk'[d].model)
  <2> HIDE DEF Ready
  <2>1. CASE SaveModel(r)
    <3>1. Ready(model[r])
      BY <1>3, <2>1 DEF SaveModel, SaveFile
    <3>2. PICK x : Write(dir[r], "model", x) /\ Ready(x)
      BY <1>4, <2>1, <3>1 DEF SaveModel, SaveFile
    <3> QED
      BY <1>9, <3>2
  <2>2. CASE SaveKey(r) \/ SaveTemplate(r) \/ SaveParameters(r)
    <3>1. PICK file, x : file \in {"key", "template", "parameters"} /\ Write(dir[r], file, x)
      BY <2>2 DEF SaveKey, SaveTemplate, SaveParameters, SaveFile
    <3> QED
      BY <1>9, <3>1
  <2> QED
    BY <1>10, <2>1, <2>2
<1>11. ASSUME NEW r \in Runs, DeployTemplate(r)
       PROVE  \A g \in DOMAIN cluster' : Ready(cluster'[g])
  <2> HIDE DEF Ready
  <2> QED
    BY <1>3, <1>11 DEF DeployTemplate
<1> HIDE DEF Ready
<1>12. ASSUME NEW r \in Runs,
              \/ LoadAPIModel(r) \/ Autofill(r) \/ SaveKey(r) \/ EnsureResourceGroup(r)
              \/ CreateRoleAssignment(r) \/ SaveModel(r) \/ SaveTemplate(r) \/ SaveParameters(r)
       PROVE  UNCHANGED cluster
  BY <1>12 DEF LoadAPIModel, Autofill, SaveKey, SaveFile, EnsureResourceGroup,
               CreateRoleAssignment, SaveModel, SaveTemplate, SaveParameters
<1>13. ASSUME NEW r \in Runs,
              \/ SaveModel(r) \/ SaveTemplate(r) \/ SaveParameters(r) \/ DeployTemplate(r)
              \/ CreateApplication(r) \/ RefuseApplication(r) \/ CreatePrincipal(r)
              \/ ValidateApimodel(r) \/ RefuseTemplate(r) \/ Drop(r)
       PROVE  pc'[r] # "failed" => Ready(model'[r])
  <2>1. UNCHANGED model /\ (pc'[r] # "failed" => pc[r] # "failed")
    BY <1>13 DEF SaveModel, SaveTemplate, SaveParameters, SaveFile, DeployTemplate,
                 CreateApplication, RefuseApplication, CreatePrincipal, ValidateApimodel,
                 RefuseTemplate, Drop
  <2> QED
    BY <1>3, <2>1
<1>14. ASSUME NEW r \in Runs,
              \/ CreateApplication(r) \/ RefuseApplication(r) \/ CreatePrincipal(r)
              \/ ValidateApimodel(r) \/ RefuseTemplate(r) \/ Drop(r) \/ Replicate(r)
       PROVE  UNCHANGED cluster
  BY <1>14 DEF CreateApplication, RefuseApplication, CreatePrincipal, ValidateApimodel,
               RefuseTemplate, Drop, Replicate
<1>15. ASSUME NEW r \in Runs, Step(r) \/ Drop(r)
       PROVE  \A q \in Runs : pc'[q] # "failed" => Ready(model'[q])
  BY <1>5, <1>6, <1>7, <1>8, <1>13, <1>15 DEF Step
<1>16. ASSUME UNCHANGED <<pc, model, disk, cluster>>
       PROVE  /\ \A r \in Runs : pc'[r] # "failed" => Ready(model'[r])
              /\ \A d \in DOMAIN disk' : Ready(disk'[d].model)
              /\ \A g \in DOMAIN cluster' : Ready(cluster'[g])
  BY <1>3, <1>16
<1>17. ASSUME NEW r \in Runs, Step(r) \/ Drop(r)
       PROVE  \A d \in DOMAIN disk' : Ready(disk'[d].model)
  <2>1. UNCHANGED disk \/ SaveKey(r) \/ SaveModel(r) \/ SaveTemplate(r) \/ SaveParameters(r)
    BY <1>17, NoWrite DEF Step
  <2> QED
    BY <1>3, <1>10, <2>1
<1>18. ASSUME NEW r \in Runs, Step(r) \/ Drop(r)
       PROVE  \A g \in DOMAIN cluster' : Ready(cluster'[g])
  <2>1. UNCHANGED cluster \/ DeployTemplate(r)
    BY <1>12, <1>14, <1>18 DEF Step
  <2> QED
    BY <1>3, <1>11, <2>1
<1> QED
  BY <1>15, <1>16, <1>17, <1>18 DEF Next, Replicate, vars

\* The private key of a cluster whose key deploy made is in the output
\* directory of the run that made it, unless a later run with
\* --force-overwrite replaced it (deploy.go 228-253), when commands run one
\* after the other.
THEOREM KeysAreKept == ~Overlap => (Spec => []KeyKept)
<1> SUFFICES ASSUME ~Overlap PROVE Spec => []KeyKept
  OBVIOUS
<1>1. Init => AllKept
  <2> SUFFICES ASSUME Init PROVE AllKept
    OBVIOUS
  <2>1. NoFile \notin ApiModels
    BY Assumptions DEF ParameterAssumptions, NamesAssumption
  <2> QED
    BY <2>1 DEF Init, AllKept, Kept
<1>2. IInv /\ AllKept => KeyKept
  BY DEF IInv, TypeOK, AllKept, Kept, Held, KeyKept
<1>3. IInv /\ OnDisk /\ AllKept /\ [Next]_vars => (OnDisk /\ AllKept)'
  BY StepOnDisk, StepAllKept
<1> QED
  BY <1>1, <1>2, <1>3, InitOnDisk, TypeCorrect, PTL DEF Spec

(***************************************************************************)
(* Success.  What a deployment left stays until a later run overwrites its *)
(* directory or works on its cluster from another one.                     *)
(***************************************************************************)
Whole(r) ==
  LET f == Contents(dir[r]) IN
    /\ f.model = model[r] /\ f.template = model[r] /\ f.parameters = model[r]
    /\ model[r].prefix \in DOMAIN cluster /\ cluster[model[r].prefix] = model[r]

Superseded(r) ==
  \E q \in (r + 1)..NumRuns :
    /\ pc[q] # "autofill"   \* where the prefix may still change
    /\ model[q] # NoFile
    /\ IF dir[q] = dir[r] THEN cmd[q].forceOverwrite \/ cmd[q].kind # "deploy"
       ELSE model[q].prefix = model[r].prefix

Unstarted == \A r \in Runs : pc[r] = "none" => model[r] = NoFile

Succeeded ==
  \A r \in Runs : pc[r] = "done" /\ cmd[r].kind = "deploy" => Superseded(r) \/ Whole(r)

\* From Autofill on a run keeps its directory and has an apimodel.
LEMMA ModelKept ==
  ASSUME ~Overlap, IInv, OnDisk, [Next]_vars, NEW k \in Runs,
         pc[k] \notin {"none", "autofill"}, model[k] # NoFile
  PROVE  pc'[k] \notin {"none", "autofill"} /\ dir'[k] = dir[k] /\ model'[k] # NoFile
<1> USE DEF IInv, TypeOK
<1>0. NoFile \notin ApiModels /\ model[k] \in ApiModels
  BY Assumptions DEF ParameterAssumptions, NamesAssumption
<1>1. ASSUME NEW r \in Runs, Step(r) \/ Drop(r), r # k
      PROVE  pc'[k] = pc[k] /\ dir'[k] = dir[k] /\ model'[k] = model[k]
  BY <1>1, Alone DEF OnDisk
<1>2. ASSUME SaveKey(k) \/ EnsureResourceGroup(k) \/ CreateRoleAssignment(k)
      PROVE  pc'[k] \notin {"none", "autofill"} /\ dir'[k] = dir[k] /\ model'[k] # NoFile
  <2>1. pc'[k] \notin {"none", "autofill"} /\ UNCHANGED dir
    BY <1>2 DEF SaveKey, SaveFile, EnsureResourceGroup, CreateRoleAssignment
  <2>2. \/ UNCHANGED model
        \/ model' = [model EXCEPT ![k].key = k]
        \/ \E x \in Runs \cup {Operator} : model' = [model EXCEPT ![k].sp = x]
    BY <1>2 DEF SaveKey, EnsureResourceGroup, CreateRoleAssignment
  <2>3. model'[k] \in ApiModels
    BY <1>0, <2>2 DEF ApiModels
  <2> QED
    BY <1>0, <2>1, <2>3
<1>3. ASSUME \/ LoadAPIModel(k) \/ Autofill(k)
             \/ CreateApplication(k) \/ RefuseApplication(k) \/ CreatePrincipal(k)
             \/ ValidateApimodel(k) \/ SaveModel(k) \/ SaveTemplate(k) \/ SaveParameters(k)
             \/ DeployTemplate(k) \/ RefuseTemplate(k) \/ Drop(k)
      PROVE  pc'[k] \notin {"none", "autofill"} /\ dir'[k] = dir[k] /\ model'[k] # NoFile
  BY <1>3 DEF LoadAPIModel, MayStart, Autofill, CreateApplication, RefuseApplication,
              CreatePrincipal, ValidateApimodel, SaveModel, SaveTemplate, SaveParameters,
              SaveFile, DeployTemplate, RefuseTemplate, Drop
<1> QED
  BY <1>1, <1>2, <1>3 DEF Next, Step, Replicate, vars

LEMMA SupersededKept ==
  ASSUME ~Overlap, IInv, OnDisk, Unstarted, [Next]_vars, NEW r \in Runs, pc[r] = "done",
         Superseded(r)
  PROVE  Superseded(r)'
<1>1. PICK q \in (r + 1)..NumRuns :
        /\ pc[q] # "autofill" /\ model[q] # NoFile
        /\ IF dir[q] = dir[r] THEN cmd[q].forceOverwrite \/ cmd[q].kind # "deploy"
           ELSE model[q].prefix = model[r].prefix
  BY DEF Superseded
<1>2. q \in Runs
  BY <1>1, Assumptions DEF ParameterAssumptions, BoundsAssumption, Runs
<1>3. pc[q] \notin {"none", "autofill"}
  BY <1>1, <1>2 DEF Unstarted
<1>4. /\ pc'[q] # "autofill" /\ dir'[q] = dir[q] /\ model'[q] # NoFile
      /\ model'[q].prefix = model[q].prefix
  BY <1>1, <1>2, <1>3, ModelKept, PrefixKept
<1>5. dir'[r] = dir[r] /\ model'[r].prefix = model[r].prefix
  <2>1. model[r] # NoFile
    BY Assumptions DEF ParameterAssumptions, NamesAssumption, IInv, Loaded
  <2> QED
    BY <2>1, ModelKept, PrefixKept
<1> QED
  BY <1>1, <1>4, <1>5, CommandKept DEF Superseded

LEMMA StepSucceeded ==
  ~Overlap /\ IInv /\ OnDisk /\ Unstarted /\ Succeeded /\ [Next]_vars
  => (Unstarted /\ Succeeded)'
<1> SUFFICES ASSUME ~Overlap, IInv, OnDisk, Unstarted, Succeeded, [Next]_vars
             PROVE  Unstarted' /\ Succeeded'
  OBVIOUS
<1> USE DEF IInv, TypeOK
<1>1. UNCHANGED cmd
  BY CommandKept
<1>2. Unstarted'
  <2>1. ASSUME NEW r \in Runs, Step(r) \/ Drop(r) PROVE pc'[r] # "none"
    <3>1. ASSUME LoadAPIModel(r) PROVE pc'[r] # "none"
      <4>1. cmd[r].kind \in {"deploy", "generate", "parameters"}
        BY Assumptions DEF ParameterAssumptions, CommandsAssumption, CommandLines
      <4> QED
        BY <3>1, <4>1 DEF LoadAPIModel
    <3> QED
      BY <2>1, <3>1
         DEF Step, Autofill, SaveKey, SaveFile, EnsureResourceGroup, CreateApplication,
             RefuseApplication, CreatePrincipal, CreateRoleAssignment, ValidateApimodel,
             SaveModel, SaveTemplate, SaveParameters, DeployTemplate, RefuseTemplate, Drop
  <2>2. ASSUME NEW r \in Runs, Step(r) \/ Drop(r) PROVE Unstarted'
    BY <2>1, <2>2, Alone DEF OnDisk, Unstarted
  <2> QED
    BY <2>2 DEF Next, Replicate, vars, Unstarted
<1>3. SUFFICES ASSUME NEW r \in Runs, pc'[r] = "done", cmd[r].kind = "deploy"
               PROVE  Superseded(r)' \/ Whole(r)'
  BY <1>1, <1>2 DEF Succeeded
<1>4. CASE pc[r] = "done" /\ Superseded(r)
  BY <1>4, SupersededKept
<1>5. ASSUME pc[r] = "done", Whole(r), NEW s \in Runs, Step(s) \/ Drop(s)
      PROVE  Superseded(r)' \/ Whole(r)'
  <2>1. s # r
    BY <1>5, Acts DEF Ended
  <2>2. dir'[r] = dir[r] /\ model'[r] = model[r] /\ model[r] \in ApiModels
    BY <1>5, <2>1, Alone DEF OnDisk, Loaded
  <2>3. CASE UNCHANGED <<disk, cluster>>
    BY <1>5, <2>2, <2>3 DEF Whole, Contents
  <2>4. ASSUME pc[s] \in {"saveKey", "saveModel", "saveTemplate", "saveParameters",
                          "deployTemplate"},
               UNCHANGED dir, pc'[s] # "autofill",
               IF dir[s] = dir[r] THEN ~Careful(s) ELSE model[s].prefix = model[r].prefix
        PROVE  Superseded(r)'
    <3>1. s \in (r + 1)..NumRuns
      <4>1. s \in 1..NumRuns /\ r \in 1..NumRuns /\ NumRuns \in Nat
        BY Assumptions DEF ParameterAssumptions, BoundsAssumption, Runs
      <4>2. ~(s < r)
        BY <1>5, <2>4 DEF OnDisk, OneAtATime, Ended
      <4> QED
        BY <2>1, <4>1, <4>2
    <3>2. pc[s] \notin {"none", "autofill"} /\ model[s] # NoFile
      BY <2>4, Assumptions DEF ParameterAssumptions, NamesAssumption, Loaded
    <3>3. model'[s] # NoFile /\ model'[s].prefix = model[s].prefix
      BY <3>2, ModelKept, PrefixKept
    <3> QED
      BY <1>1, <2>2, <2>4, <3>1, <3>3 DEF Superseded, Careful
  <2>5. CASE SaveKey(s) \/ SaveModel(s) \/ SaveTemplate(s) \/ SaveParameters(s)
    <3>1. PICK file, x :
            /\ file \in {"key", "model", "template", "parameters"}
            /\ pc[s] = StepOf(file) /\ Write(dir[s], file, x)
      BY <2>5, Saves
    <3>2. UNCHANGED <<cluster, dir>> /\ pc'[s] # "autofill"
      BY <2>5 DEF SaveKey, SaveModel, SaveTemplate, SaveParameters, SaveFile
    <3>3. pc[s] \in {"saveKey", "saveModel", "saveTemplate", "saveParameters"}
      BY <2>5 DEF SaveKey, SaveModel, SaveTemplate, SaveParameters, SaveFile
    <3>4. \A e : Contents(e)' = IF e = dir[s] THEN [Contents(dir[s]) EXCEPT ![file] = x]
                                ELSE Contents(e)
      BY <3>1, WriteContents
    <3>5. CASE dir[s] # dir[r]
      <4>1. Contents(dir[r])' = Contents(dir[r])
        BY <2>2, <3>4, <3>5 DEF Contents
      <4> QED
        BY <1>5, <2>2, <3>2, <4>1 DEF Whole
    <3>6. CASE dir[s] = dir[r] /\ ~Careful(s)
      BY <2>4, <3>2, <3>3, <3>6
    <3>7. CASE dir[s] = dir[r] /\ Careful(s)
      <4>1. Fresh(s)
        BY <3>7 DEF OnDisk
      <4>2. file = "key"
        <5>1. NoFile \notin ApiModels
          BY Assumptions DEF ParameterAssumptions, NamesAssumption
        <5>2. CASE file = "model"
          BY <1>5, <2>2, <3>1, <3>7, <4>1, <5>1, <5>2 DEF Fresh, BeforeModel, StepOf, Whole
        <5>3. CASE file = "template"
          BY <1>5, <2>2, <3>1, <3>7, <4>1, <5>1, <5>3 DEF Fresh, BeforeModel, StepOf, Whole
        <5>4. CASE file = "parameters"
          BY <1>5, <2>2, <3>1, <3>7, <4>1, <5>1, <5>4 DEF Fresh, BeforeModel, StepOf, Whole
        <5> QED
          BY <3>1, <5>2, <5>3, <5>4
      <4>3. Contents(dir[r]) \in Folders
        BY ContentsType
      <4>4. Contents(dir[r])' = [Contents(dir[r]) EXCEPT !["key"] = x]
        BY <2>2, <3>4, <3>7, <4>2 DEF Contents
      <4>5. /\ Contents(dir[r])'.model = Contents(dir[r]).model
            /\ Contents(dir[r])'.template = Contents(dir[r]).template
            /\ Contents(dir[r])'.parameters = Contents(dir[r]).parameters
        BY <4>3, <4>4 DEF Folders
      <4> QED
        BY <1>5, <2>2, <3>2, <4>5 DEF Whole
    <3> QED
      BY <3>5, <3>6, <3>7
  <2>6. CASE DeployTemplate(s)
    <3>1. /\ UNCHANGED <<disk, dir, model>> /\ pc'[s] # "autofill"
          /\ pc[s] = "deployTemplate"
          /\ cluster' = [h \in DOMAIN cluster \cup {model[s].prefix} |->
                           IF h = model[s].prefix THEN model[s] ELSE cluster[h]]
      BY <2>6 DEF DeployTemplate
    <3>2. CASE model[s].prefix # model[r].prefix
      BY <1>5, <2>2, <3>1, <3>2 DEF Whole, Contents
    <3>3. CASE dir[s] # dir[r] /\ model[s].prefix = model[r].prefix
      BY <2>4, <3>1, <3>3
    <3>4. CASE dir[s] = dir[r] /\ model[s].prefix = model[r].prefix
      <4>1. Stored(s)
        BY <3>1 DEF OnDisk, OnlyDeploy
      <4>2. model[s] = model[r]
        BY <1>5, <3>1, <3>4, <4>1 DEF Stored, Whole
      <4> QED
        BY <1>5, <3>1, <4>2 DEF Whole, Contents
    <3> QED
      BY <3>2, <3>3, <3>4
  <2>7. \/ UNCHANGED <<disk, cluster>> \/ DeployTemplate(s)
        \/ SaveKey(s) \/ SaveModel(s) \/ SaveTemplate(s) \/ SaveParameters(s)
    BY <1>5 DEF Step, LoadAPIModel, Autofill, EnsureResourceGroup, CreateApplication,
                RefuseApplication, CreatePrincipal, CreateRoleAssignment,
                ValidateApimodel, RefuseTemplate, Drop
  <2> QED
    BY <2>3, <2>5, <2>6, <2>7
<1>6. ASSUME pc[r] # "done", NEW s \in Runs, Step(s) \/ Drop(s)
      PROVE  Whole(r)'
  <2>1. s = r
    BY <1>3, <1>6, Alone DEF OnDisk
  <2>2. DeployTemplate(r)
    BY <1>3, <1>6, <2>1 DEF Step, LoadAPIModel, Autofill, SaveKey, SaveFile,
       EnsureResourceGroup, CreateApplication, RefuseApplication, CreatePrincipal,
       CreateRoleAssignment, ValidateApimodel, SaveModel, SaveTemplate, SaveParameters,
       RefuseTemplate, Drop
  <2>3. /\ UNCHANGED <<disk, dir, model>> /\ pc[r] = "deployTemplate"
        /\ cluster' = [h \in DOMAIN cluster \cup {model[r].prefix} |->
                         IF h = model[r].prefix THEN model[r] ELSE cluster[h]]
    BY <2>2 DEF DeployTemplate
  <2>4. Stored(r)
    BY <1>3 DEF OnDisk
  <2> QED
    BY <2>3, <2>4 DEF Stored, Whole, Contents
<1>7. CASE UNCHANGED <<pc, model, dir, disk, cluster>>
  BY <1>1, <1>3, <1>7 DEF Succeeded, Superseded, Whole, Contents
<1> QED
  BY <1>3, <1>4, <1>5, <1>6, <1>7 DEF Next, Replicate, vars, Succeeded

\* After a deployment that succeeded its directory holds the apimodel, the
\* template and the parameters that were deployed, and they are the cluster's,
\* unless a later command may overwrite that directory or works on the same
\* cluster from another one (deploy.go 328-378, output.go 17-57), when
\* commands run one after the other.
THEOREM SuccessIsKept == ~Overlap => (Spec => []SuccessIsOnDisk)
<1> SUFFICES ASSUME ~Overlap PROVE Spec => []SuccessIsOnDisk
  OBVIOUS
<1>1. Init => Unstarted /\ Succeeded
  BY DEF Init, Unstarted, Succeeded
<1>2. IInv /\ Succeeded => SuccessIsOnDisk
  <2> SUFFICES ASSUME IInv, Succeeded, NEW r \in Runs,
                      pc[r] = "done", cmd[r].kind = "deploy",
                      ~Superseded(r)
               PROVE  LET f == disk[dir[r]] IN
                        /\ f.model = model[r] /\ f.template = model[r]
                        /\ f.parameters = model[r] /\ cluster[model[r].prefix] = model[r]
    BY DEF SuccessIsOnDisk, Superseded
  <2>1. Whole(r)
    BY DEF Succeeded
  <2>2. model[r] # NoFile
    BY Assumptions DEF ParameterAssumptions, NamesAssumption, IInv, Loaded
  <2>3. dir[r] \in DOMAIN disk
    BY <2>1, <2>2 DEF Whole, Contents
  <2> QED
    BY <2>1, <2>3 DEF Whole, Contents
<1>3. ~Overlap /\ IInv /\ OnDisk /\ Unstarted /\ Succeeded /\ [Next]_vars
      => (OnDisk /\ Unstarted /\ Succeeded)'
  BY StepOnDisk, StepSucceeded
<1> QED
  BY <1>1, <1>2, <1>3, InitOnDisk, TypeCorrect, PTL DEF Spec
=============================================================================
