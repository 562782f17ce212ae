------------------------------- MODULE Deploy -------------------------------
(***************************************************************************)
(* The commands deploy (cmd/deploy.go) and generate (cmd/generate.go), run *)
(* several times by an operator: what they leave in the output directories *)
(* on disk, in Azure Active Directory and in Azure, when calls fail, their *)
(* answers are lost, or the tool is killed.                                *)
(*                                                                         *)
(* An apimodel is abstracted to the parts deploy fills in: the DNS prefix, *)
(* the SSH key and the service principal.  A key or principal is named     *)
(* after the run that made it.                                             *)
(***************************************************************************)
EXTENDS Integers, Sequences

CONSTANTS
  NumRuns,    \* bound: how many times a command is started
  Labels,     \* what DNS prefixes are made of
  Suffixes,   \* the time stamps --auto-suffix can append
  Commands,   \* the command lines the operator may use
  Overlap,    \* whether one command may start before another one ended
  MaxFaults,  \* bound: calls that fail, answers that are lost, kills
  Nobody,     \* no SSH key, or a service principal profile left empty
  Missing,    \* no service principal profile
  Operator,   \* a key or principal the operator has
  NoFile, Torn, \* a file that is absent; a file whose write was cut short
  Source,     \* the apimodel is the operator's own file
  NoFlag      \* a flag that is not given

Runs     == 1..NumRuns
Prefixes == Seq(Labels)   \* <<>> is the empty string
Output   == <<>>          \* _output; and <<"p">> is _output/p

ApiModels == [prefix : Prefixes, key : Runs \cup {Nobody, Operator},
              sp : Runs \cup {Missing, Nobody, Operator}, valid : BOOLEAN]

Folders == [key : Runs \cup {NoFile, Torn}, model : ApiModels \cup {NoFile, Torn},
            template : ApiModels \cup {NoFile, Torn},
            parameters : ApiModels \cup {NoFile, Torn}]

CommandLines ==
  [kind : {"deploy", "generate", "parameters"},  \* parameters: generate --parameters-only
   source : ApiModels,                   \* the operator's apimodel file, or instead
   saved : Prefixes \cup {Source},       \* the output directory it is read from
   dnsPrefix : Prefixes,                 \* --dns-prefix
   autoSuffix : BOOLEAN,                 \* --auto-suffix
   outputDirectory : Prefixes \cup {NoFlag},
   forceOverwrite : BOOLEAN,
   client : BOOLEAN]                     \* --client-id and --client-secret

ASSUME BoundsAssumption == NumRuns \in Nat /\ MaxFaults \in Nat /\ Overlap \in BOOLEAN
ASSUME CommandsAssumption == Commands \subseteq CommandLines /\ Suffixes \subseteq Labels
ASSUME SourcesAssumption == \A c \in Commands : {c.source.key, c.source.sp} \cap Runs = {}
ASSUME NamesAssumption ==
  /\ {Nobody, Missing, Operator} \cap Runs = {}
  /\ Nobody # Operator /\ Nobody # Missing /\ Missing # Operator
  /\ {NoFile, Torn} \cap (ApiModels \cup Runs) = {} /\ NoFile # Torn
  /\ NoFlag \notin Prefixes /\ Source \notin Prefixes

VARIABLES
  cmd,    \* cmd[r]: the command line of run r
  \* One run of the tool.
  pc,     \* what it does next; "none", "done" or "failed"
  model,  \* containerService
  dir,    \* outputDirectory
  role,   \* roleAssignmentName; 0 before there is one
  \* The disk.
  disk,   \* the output directories that exist, with their files
  \* Azure Active Directory and Azure.
  groups,      \* the resource groups
  apps,        \* the applications: [uri |-> identifier URI, by |-> run]
  principals,  \* the runs whose application has a service principal
  visible,     \* those of them that Azure knows of by now
  roles,       \* the role assignments
  cluster,     \* the apimodel last deployed in a group
  faults

run   == <<pc, model, dir, role>>
aad   == <<apps, principals, visible, roles>>
vars  == <<cmd, run, disk, groups, aad, cluster, faults>>

Init ==
  /\ cmd \in [Runs -> Commands]
  /\ pc = [r \in Runs |-> "none"]
  /\ model = [r \in Runs |-> NoFile]
  /\ dir = [r \in Runs |-> Output]
  /\ role = [r \in Runs |-> 0]
  /\ disk = [d \in {} |-> NoFile]
  /\ groups = {} /\ apps = {} /\ principals = {} /\ visible = {} /\ roles = {}
  /\ cluster = [g \in {} |-> NoFile]
  /\ faults = 0

(***************************************************************************)
(* Steps of a run.  A call to Azure, or a command, takes effect and the    *)
(* run goes on, or takes effect and is reported as failed; that it had no  *)
(* effect, or that the tool was killed before it, is the action Drop.      *)
(***************************************************************************)
Ended(r) == pc[r] \in {"done", "failed"}
Goto(r, next) == pc' = [pc EXCEPT ![r] = next]

Fault ==
  /\ faults < MaxFaults
  /\ faults' = faults + 1

Call(r, here, next) ==
  /\ pc[r] = here
  /\ \/ Goto(r, next) /\ UNCHANGED faults
     \/ Goto(r, "failed") /\ Fault

Drop(r) ==
  /\ pc[r] # "none" /\ ~Ended(r)
  /\ Goto(r, "failed")
  /\ Fault
  /\ UNCHANGED <<cmd, model, dir, role, disk, groups, aad, cluster>>

\* SaveFile makes the directory, with those above it, and writes the file.
Contents(d) ==
  IF d \in DOMAIN disk THEN disk[d]
  ELSE [key |-> NoFile, model |-> NoFile, template |-> NoFile, parameters |-> NoFile]

Write(d, file, data) ==
  disk' = [e \in DOMAIN disk \cup {d, Output} |->
             IF e = d THEN [Contents(d) EXCEPT ![file] = data] ELSE Contents(e)]

SaveFile(r, here, file, data, next) ==
  /\ pc[r] = here
  /\ \/ Write(dir[r], file, data) /\ Goto(r, next) /\ UNCHANGED faults
     \/ Write(dir[r], file, Torn) /\ Goto(r, "failed") /\ Fault
  /\ UNCHANGED <<cmd, dir, role, groups, aad, cluster>>

(***************************************************************************)
(* loadAPIModel.  deploy does not validate yet; generate does.             *)
(***************************************************************************)
MayStart(r) ==
  /\ pc[r] = "none"
  /\ \A q \in 1..(r - 1) : IF Overlap THEN pc[q] # "none" ELSE Ended(q)

Validates(m) == m.valid /\ m.prefix # <<>> /\ m.key # Nobody

ApimodelFile(c) == IF c.saved = Source THEN c.source ELSE
                   IF c.saved \in DOMAIN disk THEN disk[c.saved].model ELSE NoFile

LoadAPIModel(r) ==
  /\ MayStart(r)
  /\ LET file == ApimodelFile(cmd[r]) IN
       IF file \in {NoFile, Torn} \/ (cmd[r].kind # "deploy" /\ ~Validates(file))
       THEN Goto(r, "failed") /\ UNCHANGED <<model, dir>>
       ELSE /\ Goto(r, CASE cmd[r].kind = "deploy"     -> "autofill"
                         [] cmd[r].kind = "generate"   -> "saveModel"
                         [] cmd[r].kind = "parameters" -> "saveParameters")
            /\ model' = [model EXCEPT ![r] = file]
            /\ dir' = [dir EXCEPT ![r] = IF cmd[r].outputDirectory = NoFlag
                                         THEN file.prefix ELSE cmd[r].outputDirectory]
  /\ UNCHANGED <<cmd, role, disk, groups, aad, cluster, faults>>

(***************************************************************************)
(* autofillApimodel: the DNS prefix, the output directory, the SSH key,    *)
(* the resource group, and the service principal.                          *)
(***************************************************************************)
PrefixOf(m, c) == IF m.prefix = <<>> THEN c.dnsPrefix ELSE m.prefix

DirectoryTaken_Unchecked(r) == FALSE
DirectoryTaken(r) == dir[r] \in DOMAIN disk /\ ~cmd[r].forceOverwrite

Autofill(r) ==
  /\ pc[r] = "autofill"
  /\ LET m == model[r]
         c == cmd[r]
     IN  IF (m.prefix = <<>>) = (c.dnsPrefix = <<>>) \/ DirectoryTaken(r)
         THEN Goto(r, "failed") /\ UNCHANGED model
         ELSE /\ Goto(r, IF m.key = Nobody THEN "saveKey" ELSE "ensureGroup")
              /\ IF c.autoSuffix
                 THEN \E t \in Suffixes :
                        model' = [model EXCEPT ![r].prefix = Append(PrefixOf(m, c), t)]
                 ELSE model' = [model EXCEPT ![r].prefix = PrefixOf(m, c)]
  /\ UNCHANGED <<cmd, dir, role, disk, groups, aad, cluster, faults>>

\* CreateSaveSSH.
SaveKey_NotSaved(r) ==
  /\ pc[r] = "saveKey"
  /\ Goto(r, "ensureGroup")
  /\ model' = [model EXCEPT ![r].key = r]
  /\ UNCHANGED <<cmd, dir, role, disk, groups, aad, cluster, faults>>

SaveKey(r) ==
  /\ SaveFile(r, "saveKey", "key", r, "ensureGroup")
  /\ model' = [model EXCEPT ![r].key = r]

CreatesApp(m, c) == m.sp = Nobody /\ ~c.client
UsesClient(m, c) == m.sp \in {Nobody, Missing} /\ c.client

EnsureResourceGroup(r) ==
  /\ Call(r, "ensureGroup",
          IF CreatesApp(model[r], cmd[r]) THEN "createApp" ELSE "validate")
  /\ groups' = groups \cup {model[r].prefix}
  /\ model' = IF UsesClient(model[r], cmd[r])
              THEN [model EXCEPT ![r].sp = Operator] ELSE model
  /\ UNCHANGED <<cmd, dir, role, disk, aad, cluster>>

(***************************************************************************)
(* CreateApp and CreateRoleAssignmentSimple.  An identifier URI belongs to *)
(* one application only.                                                   *)
(***************************************************************************)
UriInUse(uri) == \E a \in apps : a.uri = uri

CreateApplication(r) ==
  /\ Call(r, "createApp", "createPrincipal")
  /\ ~UriInUse(model[r].prefix)
  /\ apps' = apps \cup {[uri |-> model[r].prefix, by |-> r]}
  /\ UNCHANGED <<cmd, model, dir, role, disk, groups, principals, visible, roles, cluster>>

RefuseApplication(r) ==
  /\ pc[r] = "createApp"
  /\ UriInUse(model[r].prefix)
  /\ Goto(r, "failed")
  /\ UNCHANGED <<cmd, model, dir, role, disk, groups, aad, cluster, faults>>

CreatePrincipal(r) ==
  /\ Call(r, "createPrincipal", "assignRole")
  /\ principals' = principals \cup {r}
  /\ role' = [role EXCEPT ![r] = 1]
  /\ UNCHANGED <<cmd, model, dir, disk, groups, apps, visible, roles, cluster>>

\* A new principal takes a while to be known outside Azure Active Directory.
Replicate(r) ==
  /\ r \in principals \ visible
  /\ visible' = visible \cup {r}
  /\ UNCHANGED <<cmd, run, disk, groups, apps, principals, roles, cluster, faults>>

\* Azure refuses to give a principal a role it has under another name.
Conflict(a) == \E b \in roles : b.to = a.to /\ b.group = a.group /\ b.name # a.name

Assignment(r) == [to |-> r, group |-> model[r].prefix, name |-> role[r]]

CreateRoleAssignment_FreshName(r) ==
  /\ pc[r] = "assignRole"
  /\ r \in visible
  /\ ~Conflict(Assignment(r))
  /\ roles' = roles \cup {Assignment(r)}
  /\ \/ /\ Goto(r, "validate")
        /\ model' = [model EXCEPT ![r].sp = r]
        /\ UNCHANGED <<role, faults>>
     \/ role' = [role EXCEPT ![r] = @ + 1] /\ UNCHANGED <<pc, model>> /\ Fault
  /\ UNCHANGED <<cmd, dir, disk, groups, apps, principals, visible, cluster>>

CreateRoleAssignment_GivesUp(r) ==
  /\ pc[r] = "assignRole"
  /\ roles' = IF r \in visible THEN roles \cup {Assignment(r)} ELSE roles
  /\ Goto(r, "validate")
  /\ model' = [model EXCEPT ![r].sp = r]
  /\ UNCHANGED <<cmd, dir, role, disk, groups, apps, principals, visible, cluster, faults>>

\* The loop is left on success, and on a 403, which is among the outcomes of Drop.
CreateRoleAssignment(r) ==
  /\ pc[r] = "assignRole"
  /\ r \in visible
  /\ ~Conflict(Assignment(r))
  /\ roles' = roles \cup {Assignment(r)}
  /\ \/ /\ Goto(r, "validate")
        /\ model' = [model EXCEPT ![r].sp = r]
        /\ UNCHANGED faults
     \/ UNCHANGED <<pc, model>> /\ Fault   \* the answer is lost
  /\ UNCHANGED <<cmd, dir, role, disk, groups, apps, principals, visible, cluster>>

(***************************************************************************)
(* validateApimodel, and run: the artifacts and the deployment.            *)
(***************************************************************************)
ValidateApimodel_ParametersOnly(r) ==
  /\ pc[r] = "validate"
  /\ Goto(r, IF Validates(model[r]) THEN "saveParameters" ELSE "failed")
  /\ UNCHANGED <<cmd, model, dir, role, disk, groups, aad, cluster, faults>>

ValidateApimodel(r) ==
  /\ pc[r] = "validate"
  /\ Goto(r, IF Validates(model[r]) THEN "saveModel" ELSE "failed")
  /\ UNCHANGED <<cmd, model, dir, role, disk, groups, aad, cluster, faults>>

SaveModel(r) ==
  /\ SaveFile(r, "saveModel", "model", model[r], "saveTemplate")
  /\ UNCHANGED model

SaveTemplate(r) ==
  /\ SaveFile(r, "saveTemplate", "template", model[r], "saveParameters")
  /\ UNCHANGED model

SaveParameters(r) ==
  /\ SaveFile(r, "saveParameters", "parameters", model[r],
              IF cmd[r].kind = "deploy" THEN "deployTemplate" ELSE "done")
  /\ UNCHANGED model

\* The key of a machine cannot be changed by deploying its template again.
KeyChanges(g, m) == g \in DOMAIN cluster /\ cluster[g].key # m.key

DeployTemplate(r) ==
  /\ Call(r, "deployTemplate", "done")
  /\ LET g == model[r].prefix IN
       /\ ~KeyChanges(g, model[r])
       /\ cluster' = [h \in DOMAIN cluster \cup {g} |-> IF h = g THEN model[r] ELSE cluster[h]]
  /\ UNCHANGED <<cmd, model, dir, role, disk, groups, aad>>

RefuseTemplate(r) ==
  /\ pc[r] = "deployTemplate"
  /\ KeyChanges(model[r].prefix, model[r])
  /\ Goto(r, "failed")
  /\ UNCHANGED <<cmd, model, dir, role, disk, groups, aad, cluster, faults>>

Step(r) ==
  \/ LoadAPIModel(r) \/ Autofill(r) \/ SaveKey(r) \/ EnsureResourceGroup(r)
  \/ CreateApplication(r) \/ RefuseApplication(r) \/ CreatePrincipal(r)
  \/ CreateRoleAssignment(r) \/ ValidateApimodel(r)
  \/ SaveModel(r) \/ SaveTemplate(r) \/ SaveParameters(r)
  \/ DeployTemplate(r) \/ RefuseTemplate(r)

Next == \E r \in Runs : Step(r) \/ Drop(r) \/ Replicate(r)

Spec == Init /\ [][Next]_vars

FairSpec == Spec /\ \A r \in Runs : WF_vars(Step(r)) /\ WF_vars(Replicate(r))

(***************************************************************************)
(* Properties.                                                             *)
(***************************************************************************)

\* Every variable has its type.
TypeOK ==
  /\ cmd \in [Runs -> Commands]
  /\ pc \in [Runs -> {"none", "autofill", "saveKey", "ensureGroup", "createApp",
                      "createPrincipal", "assignRole", "validate", "saveModel",
                      "saveTemplate", "saveParameters", "deployTemplate",
                      "done", "failed"}]
  /\ model \in [Runs -> ApiModels \cup {NoFile}]
  /\ dir \in [Runs -> Prefixes]
  /\ role \in [Runs -> 0..1]
  /\ DOMAIN disk \subseteq Prefixes /\ \A d \in DOMAIN disk : disk[d] \in Folders
  /\ groups \subseteq Prefixes
  /\ apps \subseteq [uri : Prefixes, by : Runs]
  /\ visible \subseteq principals /\ principals \subseteq Runs
  /\ roles \subseteq [to : Runs, group : Prefixes, name : {1}]
  /\ DOMAIN cluster \subseteq groups /\ \A g \in DOMAIN cluster : cluster[g] \in ApiModels
  /\ faults \in 0..MaxFaults

\* When a cluster is deployed with a service principal that deploy made, the
\* application, the principal and its role on the group that run worked in are
\* all there (graph.go 78-101), whatever failed before, and also when a later
\* run takes the principal from a saved apimodel.
CredentialsReady ==
  \A g \in DOMAIN cluster : cluster[g].sp \in Runs =>
    LET r == cluster[g].sp IN
      /\ r \in principals
      /\ \E a \in apps : a.by = r
      /\ \E a \in roles : a.to = r /\ a.group = model[r].prefix

\* The private key of a cluster whose key deploy made is in the output
\* directory of the run that made it, unless a later run that was given
\* --force-overwrite has put another one there (deploy.go 228-253).
KeyKept ==
  \A g \in DOMAIN cluster : cluster[g].key \in Runs =>
    LET r == cluster[g].key IN
      /\ dir[r] \in DOMAIN disk
      /\ \/ disk[dir[r]].key = r
         \/ \E q \in (r + 1)..NumRuns :
              cmd[q].forceOverwrite /\ disk[dir[r]].key \in {q, Torn}

\* After a deployment that succeeded its directory holds the apimodel, the
\* template and the parameters that were deployed, and they are the cluster's,
\* unless a later command may overwrite that directory, or works on the same
\* cluster from another one (deploy.go 328-378, output.go 17-57).
SuccessIsOnDisk ==
  \A r \in Runs : pc[r] = "done" /\ cmd[r].kind = "deploy" =>
    \/ \E q \in (r + 1)..NumRuns :
         /\ model[q] # NoFile
         /\ IF dir[q] = dir[r] THEN cmd[q].forceOverwrite \/ cmd[q].kind # "deploy"
            ELSE model[q].prefix = model[r].prefix
    \/ LET f == disk[dir[r]] IN
         /\ f.model = model[r] /\ f.template = model[r] /\ f.parameters = model[r]
         /\ cluster[model[r].prefix] = model[r]

\* A deploy without --force-overwrite changes no file that is there, so that a
\* cluster deployed before keeps its artifacts and its key (deploy.go 228-230).
NothingOverwritten ==
  [][\A d \in DOMAIN disk : \A file \in DOMAIN disk[d] :
       disk[d][file] # NoFile /\ disk'[d][file] # disk[d][file] =>
         \E r \in Runs : /\ pc'[r] # pc[r]
                         /\ cmd[r].forceOverwrite \/ cmd[r].kind # "deploy"]_vars

\* Every command that starts comes to an end; the role assignment in
\* particular, which is tried again after any error, also when the assignment
\* was made and only the answer lost (graph.go 114-132).
EveryRunEnds == \A r \in Runs : pc[r] # "none" ~> Ended(r)

\* "output directory (derived from FQDN if absent)" (deploy.go 92): two
\* deployments that are not given a directory and are of clusters with
\* different names do not work in the same directory.
OneClusterPerDirectory ==
  \A q, r \in Runs :
    /\ pc[q] \notin {"none", "autofill", "failed"}
    /\ pc[r] \notin {"none", "autofill", "failed"}
    /\ cmd[q].outputDirectory = NoFlag /\ cmd[r].outputDirectory = NoFlag
    /\ model[q].prefix # model[r].prefix
    => dir[q] # dir[r]
=============================================================================
