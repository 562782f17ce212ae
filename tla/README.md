# dcos-engine: a verification project

TLA+ models of dcos-engine, the configurations that model-check them, and
theorems about them checked by TLAPS. dcos-engine is a command line tool in Go:
it generates ARM templates for DC/OS clusters on Azure, deploys them, and
upgrades the clusters it deployed. All state that outlives a command is in the
deployment directory on the operator's disk, in Azure, and on the nodes of the
cluster; what is hard about the tool is what a command does to these three when
it fails in the middle and is run again.

## The system

| component | source | state | operations | interacts with |
|---|---|---|---|---|
| upgrade command | `cmd/dcos-upgrade.go` | `apimodel.json` | load, check version, run workflow, save | loader, version rules, workflow, disk |
| upgrade workflow | `pkg/operations/dcosupgrade` | one run's variables; files on the nodes | prepare bootstrap nodes, upgrade masters, upgrade agents | nodes, through `RemoteRun` |
| upgrade scripts | `parts/windowsupgradescripts`, constants of `upgrader.go` | upgrade directories, published URLs, the nodes' versions | publish a node upgrade script; download and run it | bootstrap nodes, masters, agents |
| remote commands | `pkg/operations/remote_ssh.go` | none | one SSH session per command | nodes |
| scale down | `pkg/operations/deletevm.go`, `scaledownagentpool.go` | VMs, NICs, disks, role assignments in Azure; a channel | one goroutine per machine | Azure client |
| deploy command | `cmd/deploy.go` | output directory, AAD application, resource group, deployment | validate, fill in, generate, write, deploy | Azure client, generator, disk |
| generate command | `cmd/generate.go` | output directory | merge, load, generate, write | generator, disk |
| orchestrators command, version rules | `cmd/orchestrators.go`, `pkg/api/orchestrators.go`, `pkg/api/common` | none | pick a version, list upgrades | loader, upgrade command |
| apimodel loading and validation | `pkg/api/apiloader.go`, `strictjson.go`, `vlabs` | none | parse, validate, convert | all commands |
| converters | `pkg/api/convert*.go` | none | vlabs to internal and back | loader |
| overrides | `pkg/acsengine/transform/apimodel_merger.go`, `vlabs/merge.go` | the JSON document | apply `--set`, decode strictly | deploy, generate, loader |
| defaults | `pkg/acsengine/defaults.go` | the internal model | fill in addresses, storage, versions | generator |
| template generation | `pkg/acsengine/{engine,template_generator,params,output}.go`, `parts` | none | render templates, write artifacts | deploy, generate, Azure Resource Manager |
| template transformation | `pkg/acsengine/transform/transform.go` | a template | prepare a template for scaling or upgrading | no command |
| Azure clients | `pkg/armhelpers` | cached token | sign in, create, deploy, delete | Azure |
| test runner | `test/src` | a lock, a report, package variables; resource groups in Azure | run deployments in parallel, clean up, retry | the tool itself, Azure |

Hard behaviours, and the property that makes each component correct:

* **Upgrade.** A run is a long sequence of remote commands. Any of them can be
  lost before or after it took effect, the tool can be killed anywhere, and the
  operator runs it again; agents join and leave meanwhile. The next run knows
  only what it reads from `apimodel.json` and from each node's
  `dcos-version.json`. Correct: success means every node is upgraded, masters
  come before agents, no two masters are down at once, every run works with its
  own scripts, and a failed upgrade can be repeated until it succeeds.
* **Scale down.** Goroutines delete machines in parallel, two of them possibly
  the same one; every call can fail after it took effect. Correct: a machine
  that exists keeps its NIC, OS disk and role assignments, a deletion reported as
  a success left none of them, the report is exact, and the call returns.
* **Deploy.** Effects on disk, in AAD and in Azure in an order that a failure
  cuts short, with a role assignment that is retried without end, and later runs,
  or other ones at the same time, that meet what is left. Correct: the key and the
  artifacts of a cluster stay on disk, success means that what was deployed is what
  is there, no cluster is deployed with credentials that do not work, and every run
  ends.
* **Versions, validation, converters, defaults.** Sequential algorithms over the
  apimodel, applied again and again by commands that read what earlier ones saved.
  Correct: what is saved can be used again and means the same, no address is handed
  out twice, an upgrade starts from the cluster's version.
* **Overrides.** The pairs of `--set` are applied in the random order of a Go map,
  errors are dropped, and the result is decoded without regard to case. Correct: the
  merged document does not depend on the order, and what is accepted is what the file
  and the command say, but for the texts the tool cuts and the pairs it drops.
* **Template.** Twelve template files, `params.go`, `engine.go` and `azureconst.go`
  have to agree on names that no compiler compares; Azure Resource Manager compares
  them when the deployment has begun, and creates the resources in any order that
  `dependsOn` leaves open. Correct: a document that was accepted by the tool is
  accepted by Azure, no resource is created before what it needs, the deployment
  does not wait on itself, and agents are public exactly when asked to be.
* **Test runner.** Goroutines that share a lock and unprotected package variables,
  retries next to clean-ups that take their time or are refused. Correct: attempts do
  not meet in a resource group, groups that stay are accounted for, the two counts of
  errors agree with the verdict, and the run returns.

## Modules

| module | what it is |
|---|---|
| `DcosUpgrade` | the upgrade command and workflow, its environment, its properties |
| `RollingUpgrade` | what the workflow promises, without how |
| `MCDcosUpgrade` | constants for TLC |
| `DcosUpgradeProofs`, `RollingUpgradeProofs` | the theorems: types, scripts, order, success and refinement; what the abstract specification guarantees |
| `ScaleDown`, `MCScaleDown`, `ScaleDownProofs` | `ScaleDownVMs` and `CleanDeleteVirtualMachine` |
| `Removal` | what scaling down promises, without how |
| `Deploy`, `MCDeploy`, `DeployProofs` | the commands `deploy` and `generate`, run several times |
| `Versions` | which version a document stands for, which upgrades there are |
| `ApiModel`, `MCApiModel`, `ApiModelProofs` | the life of an apimodel: validation, converters, defaults |
| `ClusterLife` | what the commands may do to a cluster, without documents |
| `Overrides`, `MCOverrides`, `OverridesProofs` | `--set`, up to the decoded document |
| `Template`, `MCTemplate`, `TemplateProofs` | from a document to the resources in Azure |
| `TestRunner`, `MCTestRunner`, `TestRunnerProofs` | the parallel deployments of the test runner |

The `MC` modules give the constants values for TLC; the `Proofs` modules extend the
module they are about and hold its theorems.

### DcosUpgrade

`pc` is where the tool is: `"idle"` between runs, `"done"` after a success, and
otherwise the remote command that comes next. Every `RemoteRun` of
`upgrader.go` and `upgrader-win.go` is a step of its own. The operator
`RemoteRun(here, next)` has the outcomes of `remote_ssh.go`: the command took
effect and the tool goes on, or it took effect and the tool aborts because the
answer was lost. `Drop` is the third one: the command never ran, or the tool was
killed before it.

A run begins with `LoadCluster`, which reads the version in `apimodel.json`
(`model`) into `current`, and ends with `SaveModel`, which writes the new one.
`listed` is the answer of Mesos, taken once. `staged` holds the files this run
has put on master 0 and the bootstrap nodes.

A node upgrade URL is abstracted to whether it is the one that the last run of
the bootstrap script published: `"cur"`, or `"old"` for one published earlier,
which is dead, because the script removes what it published before
(`upgrader.go:39`). `home[n]` is the URL in the script on node `n`, `fetched[n]`
the generation of what was downloaded from it, `ran[n]` of what the node ran
last. The Linux script does not look at curl's exit status (75-76) and so can
run what an earlier attempt left there; the Windows script removes the directory
and stops.

`status[n]` is `"old"`, `"new"`, or how a node looks whose script stopped
midway: `"halfOld"` reads as the old version in `dcos-version.json`, `"halfNew"`
as the new one. The script that does the upgrade comes out of
`dcos_generate_config`, which is not in this repository, so which of the two
occurs is the constant `HalfStates`. The runs of an upgrade to the version
`apimodel.json` holds allow both; those to a new version allow `"halfOld"` only.
With `"halfNew"` the check for a partial upgrade (259-264) passes over a half
upgraded node.

Left out: flag validation, the location check and the version rules (`LoadCluster`
starts where they passed), logging, the contents of the configuration files,
`chmod` beyond its being a command that can fail (so is a `dcos-version.json` that
cannot be parsed, `upgrader.go:254-258`: it ends a run and is no lasting state of a
node), the order of the agents in the list (any), and two tools at work at the same time. In this build only one DC/OS
version is supported (`pkg/api/common/const.go`), so the command line reaches only
the upgrade to the same version; an upgrade to a new one is what the exported
`UpgradeCluster` and the check for a partial upgrade are written for.

### RollingUpgrade

Attempts (`phase`), the agents of an attempt (`roster`), the nodes it is through
with (`through`) and the nodes whose last upgrade finished (`upgraded`). An
attempt takes the masters in order, then the roster in any order, passes a node
only when it is upgraded, and commits when it is through with all.
`DcosUpgrade!Rolling` gives the mapping: `through` is the masters below the loop
variable and the agents that are finished.

### ScaleDown

`main` is the caller's goroutine, `pc[c]` the goroutine for position `c` of
`vmNames` (two positions may name one machine), `channel` the results sent and
not received. `Call` is a call to Azure that takes effect, whose answer may be an
error all the same; `CallFails` one that has no effect. `Retry` is a caller that
asks again for what failed. Deleting a machine, NIC or managed disk that is gone
succeeds, a blob that is gone is an error: that is how the Azure API answers, and
the code relies on it. The results in the channel are a set: all that matters is
which of them are there. Only machines are asked for by name; their belongings are
named after them, and are what the code deletes: the first NIC (`deletevm.go:36`), the
OS disk (25-33; line 17 promises no other) and the role assignments of the identity.
Data disks and further NICs are neither modelled nor deleted: they stay, and no property
here says otherwise.

`Removal` is the promise: jobs that remove machines, the machine first and its
belongings later, which may give up at any point but succeed only when none of these
is left, and a call that returns when all have ended, with those that did not
succeed. `ScaleDown!Promise` is the mapping: a job has ended when its result is in
the channel (`open`, `bad`), `left` is what still has a machine, NIC, named disk or role
assignment, and the report is the caller's list once it returns. What happens in the
channel, and which call to Azure comes next, is invisible there.

### Deploy

A run is one start of the tool with a command line (`cmd`). `model[r]` is its
`containerService`, abstracted to the parts `deploy` fills in: the DNS prefix, the
SSH key, the service principal, and whether the rest passes validation. A DNS prefix
is a sequence of labels, `--auto-suffix` appends one, and the directory
`_output/<prefix>` is named by the same sequence, so that `_output` is the empty one.
A key or a principal is named after the run that made it. `disk` maps each
directory that exists to its files: the private key, `apimodel.json`, the template and
the parameters, each of which holds the apimodel it was made from or is torn.

The actions follow `deploy.go`: `LoadAPIModel` reads the apimodel (the operator's file,
or one that an earlier run saved) and derives the directory; `Autofill` completes the
name and looks at the directory; `SaveKey`, `EnsureResourceGroup`,
`CreateApplication`, `CreatePrincipal`, `CreateRoleAssignment`, `ValidateApimodel`,
three writes and `DeployTemplate` follow. `generate` validates when it loads and goes
on to the writes. `Call` and `Drop` are the outcomes of a call as in the other
modules. Four facts about the cloud are taken from how the code relies on them: an
identifier URI belongs to one application, a new principal is visible to Azure only
after a while, a role given twice under different names is refused, and the key of a
machine cannot be changed by deploying again.

Left out: `--set` (the apimodel is the merged one; `Overrides` has the merge),
`--resource-group` (the group is
named after the DNS prefix), the location, signing in, tags of the group, defaults and
template text.

### Versions, ApiModel

`doc` is the apimodel the next command is given, `cluster` the model the last
template was rendered from, `build` the build of the tool that is installed, of which
a version rule sees the supported versions and the default. `Generate`, `Deploy`,
`Upgrade`, the operator's `Scale` and `Install` are each one action: commands follow
each other here, and one that fails leaves the document alone. (What a crash inside
a command does is the subject of `Deploy` and `DcosUpgrade`.)

A document and the tool's own model of it have the same fields, but for `subnet`,
which is not exported and so never written. The converters are operators between
records, the validation of `vlabs` a conjunction with one conjunct per function, and
the defaults are applied in the order of `setPropertiesDefaults`. `Deploy` has the
round trip of `cmd/deploy.go`: load without validation, fill in, convert back,
validate the result, load that. An address is a network and a last byte; an
identifier or name has the few forms validation tells apart.

Left out: fields that are only copied; the address counts, which nothing reads;
`vlabs`' merge with an existing document and `isUpgrade` in the defaults, which no
command uses; resizing of disks, whose sizes are legal here; `--set` (see `Overrides`).
No command sets `subnet` in a custom VNET. `Produce` renders any version the build
supports: a build has templates for each (`GetDCOSBootstrapConfig` has a case per version
and panics for others), and the one in this repository supports 1.12.0 alone
(`engine.go:594-599`, `629-635`).

`ClusterLife` has no documents: a cluster is made once, with a version the build
supports, and from then on changes by upgrades, and by builds that do not support its
version, whose `deploy` replaces that version by the default and nothing else. `shown` maps
a cluster to it: its version, what the two bootstrap nodes are installed from, and the rest
of what the template shows (`Rest`: all but the sizes of pools, which operators edit, and
the source prefix of HTTP, which is lost). That `generate` and `deploy` are mostly
stutters is the point: what is kept beside a cluster makes it again as it is.

### Overrides

A document is the function from the paths of its leaves to their values. `Map` is
`MapValues`, which turns the pairs into a map with the text of the key; `Merge(key)` and
`MergeFound(key)` are the body of the loop over that map, for whichever key it yields next,
without and with an array on the way to the array that is indexed; `LoadAPIModel`
decodes the merged file: `checkJSONKeys`, which compares without case, and the types of
the values. `SetP` and `Settable` are the vendored library `gabs`: what it makes,
replaces and refuses, and that the refusal goes unnoticed. `Cluster(doc)` is what the
fields of the loaded document are: of two spellings of one field the later one in the
file counts, and Go writes the keys of an object in the order of their bytes.

`Merged` is the reference: the result without an order, from the file and the pairs
alone. It is a reference where no two keys name one place (`Unaliased`) and no name meets
an array before its end (`Direct`). Where one does, as in
`agentPoolProfiles.imageReference[0].name`, the search of `gabs` collects what it finds in
the elements of the array, and the index counts that (`Search`, `Nth`): another pair can
give an element an `imageReference`, so the order decides, and both properties leave such
commands out. `AcceptedMeansAsked` compares with the text of the pair as it was given
(`Means`), not with what `MapValues` made of it; it excepts the pairs that find no place
(`Lost`) and the texts the tool changes (`Altered`: those with a second `=`, and the empty
one, which becomes 0). That such pairs are accepted is what the code does, and not what the
command line asks for: the findings name them, and no property claims that it does not happen.

Left out: empty arrays and objects, `null`, errors of reading and writing, and how the shell
and the flag library split the pairs at commas (`Commands` has them already split).

### Template

A run takes one document (`cs`): `GenerateTemplate`, `Submit`, which is the check that
Azure Resource Manager makes, and one `Create(r)` per resource, in any order; `Stop` is a
deployment that Azure gives up. The template is what Resource Manager looks at: the
parameters it declares (`RequiredParameters`, `OptionalParameters`, from `masterparams.t`
to `windowsparams.t`) against those `params.go` gives (`getParameters`), the variables it
uses against those it defines, and its resources with what each one waits for
(`dependsOn`) and what its properties name (`refersTo`), read from the conditions of the
`.t` files. Names are pairs of an owner and a kind, as the templates build them from
variables of the owner. The custom data is kept as far as it decides the role of an agent,
and for the helpers that panic (`makeExtensionScriptCommands`, `combineYAML`).

`KnownCause` is the list of disagreements the code has, each stated of the document
alone; `RefusedOnly` says that there is no other. So it is a reference definition of what
Azure accepts, and the findings below that concern the template come from it.

Left out: the text of the scripts, outputs (but for a variable one of them uses), values
of parameters, API versions; the copies of a copy loop are one resource. Whether Azure has
the capacity, and what the provisioning scripts do on the node, is `Stop`.

### TestRunner

A goroutine per deployment (`pc`), each with its attempt, its group, the step it is at and
the error of the attempt. `ReadPrefix`, `SetDefault` and `NameGroup` are the three
statements that touch the package variable `rgPrefix`; they are apart because nothing
protects it, and `TornPrefix` is what the data race can do: the two words of a string are
not written at once. `StartStep` takes the lock that a goroutine gives back two seconds later
(`Unlock`), `StepDone` and `StepFails` are a run of `step.sh`, `GetVersions` the calls that
follow `generate_template`, `Cleanup` the deletion that Azure goes on with
(`Deleted`) or refuses (`left`), `EndAttempt` the book-keeping of the goroutine and
`Return` the end of `Run`.

Left out: metrics, the text of logs and report, an empty configuration, and the package
variable `orchestrator`: all cluster definitions of the repository have the same. A time
limit ends only the shell, so a step ends when its processes do.

## Runs

| run | expected | bounds | what it shows |
|---|---|---|---|
| `upgrade_same` | pass | 3 masters, 1 Linux and 1 Windows agent, 3 faults | with an unchanged version each run uses only its own scripts and a repeated upgrade succeeds |
| `upgrade_new` | pass | 3 masters, 2 Linux and 1 Windows agents, 3 faults | order, meaning of success, at most one master down, refinement |
| `upgrade_rerun` | violation | the same, 1 fault | to a new version a re-run may hand Linux agents a dead script for ever |
| `scaledown` | pass | 4 names of 3 machines, 2 faults | success is clean, the report exact, what it leaves out is gone after any retries, the call returns; refinement of `Removal` |
| `deploy_sequence` | pass | 3 commands of 11, one after the other, 2 faults | keys and artifacts are kept, success is what is on disk |
| `deploy_overlap` | pass | 2 commands of 6 at the same time, 2 faults | credentials work before they are used; every run ends |
| `deploy_directory` | violation | 2 commands, 1 fault | clusters named with `--dns-prefix` share a directory |
| `apimodel` | pass | 2400 documents, 2 builds, commands without end | what is saved can be used again and describes the cluster; refinement of `ClusterLife` |
| `apimodel_version` | violation | the same | `deploy` replaces a version that is not supported by the default |
| `overrides` | pass | 3 documents, up to 3 of 30 pairs in any order | the order does not matter; accepted means asked |
| `template` | pass | 2936 documents; 4 deployments to the end | a template is refused for known causes only; what is accepted is created in a sound order and completes |
| `testrunner` | pass | 2 deployments, up to 2 attempts, 5 settings | groups are not shared and accounted for, counts and verdict agree, the run returns |

Three masters are the smallest number a cluster of more than one may have, and
enough for a master before and one after the one being upgraded. One agent of
each kind reaches all code for agents; a second Linux agent can join late. Three
faults give a failed run, a failed second run for another reason, and one more
disturbance; a fault is whatever makes a run end or go wrong, so that runs without
end are cut off only by the bound. Two faults of `scaledown` suffice to fail a
deletion and its retry, or two deletions of one machine. Three commands are a
deployment, one that repeats, resumes or disturbs it, and one that finds what both
left; two faults make both of the first two fail.

The documents of `apimodel` vary one group of fields at a time: all ways to ask for a
version, without prefix or key; the addresses of masters and bootstrap nodes, given or
not, in both kinds of network; bootstrap nodes with files of their own; one pool with
everything that validation and the defaults look at; two pools that may share a name, a
VNET or a distribution. Fields of different groups do not meet in the code, but for the
version and the addresses of the bootstrap nodes, which every document has. The two builds
differ in their default, and each supports a version that the other does not; one has a
pre-release. Commands need no bound: there are finitely many documents to save.

The three machines of `scaledown` have a disk in a storage account, an unnamed one and a
managed one. The pairs of `overrides` reach every branch of the merge: three spellings of
one object, both kinds of value, indices in and out of range, negative, no number and
spelled twice, paths through and above each other, names through an array, free members,
pairs without `=`, with two and without a text; three pairs give all orders of two that
collide and one more. None of the three documents has an array in an element of an array.
The documents of `template` are all kinds of pools in all kinds of networks and disks, and all pairs of
options over ten lists of pools; the four deployments that are followed have, between
them, every resource of the templates (the created resources multiply, hence the bound).
Two deployments and two attempts are what a race, a retry and a clean-up still under way
need; the settings include the one of the `Jenkinsfile`.

Fairness. `DcosUpgrade!FairSpec` is weak fairness of the tool as a whole: it is
sequential, does not stop between two steps, and the operator starts it again
until it succeeds. Nothing is assumed of the environment, and agents that are
unreachable fail the run. `ScaleDown!FairSpec` is weak fairness of the caller and
of each goroutine: Go schedules all of them, and the SDK answers every call.
`Deploy!FairSpec` is weak fairness of each run, a process of its own, and of the
replication of a new principal, without which the loop of
`CreateRoleAssignmentSimple` could not end. `Template!Spec` is weak fairness of the tool,
which runs on after generating, and of Resource Manager, which goes on creating while
something can be created. `TestRunner!Spec` is strong fairness of each goroutine,
because Go's mutex hands itself to a goroutine that has waited long, and weak fairness of
the unlocking goroutine and of `Run`; processes of a step end. Deadlock is not checked
because all these programs end.

## Findings

* `upgrade_rerun` contradicts `docs/dcos.md:130`, which says that a failed upgrade "could be
  re-run and will pick the execution from the last successful checkpoint".
* `deploy_directory`: the help of `--output-directory` (`deploy.go:92`) says "derived
  from FQDN if absent"; it is derived before `--dns-prefix` and `--auto-suffix` are
  applied (170-172), and the derivation after that (224-226) is dead code.

* `apimodel_version`: `deploy.go:164` says "validation is done later after autofilling
  values", but the conversion before it has by then dropped a version that is not
  supported, and an empty one stands for the default.

Seen while modelling, and no run's subject:

* `HTTPSourceAddressPrefix` (`docs/dcos-engine.md:19`) is not converted back: `deploy`
  ignores it and every saved document loses it. `SameAgain` leaves it out.
* `deploy` accepts disks in a pool without a storage profile, which `generate` refuses:
  the first conversion fills it in.
* The pools after one with a custom image are not validated (`validate.go:152-154`), so
  that their names may repeat, for all that line 138 checks them.
* `validate.go:68` keeps an upgrade possible when a build has dropped a version, but
  `dcos-upgrade.go:166-169` refuses it: the conversion has emptied the version.
* From a pre-release, upgrades include pre-releases of the second next minor version.
* The list of masters wraps round at 256 (`engine.go:132`), the template's does not.
* A saved document names the bootstrap URL of the version it was upgraded to; an
  operator who edits the version keeps the old URL.
* An upgrade with an unchanged version that is run again upgrades finished nodes again.
* A kill during the write of `apimodel.json` is final: no command can load it any more.
* A role assignment that `CleanDeleteVirtualMachine` could not delete is never tried again
  (a retry stops at the machine that is gone), and `ScaleDownVMs` has no caller.

In the template (all of them in `KnownCause` or excepted by name):

* A Linux pool in an availability set, which `docs/clusterdefinition.md:61` offers, has a
  `dependsOn` whose expression lacks a quote (`dcosagentresourcesvmas.t:179`).
* `searchDomain` and the DNS server of nodes (`docs/clusterdefinition.md:88-91`) are given as
  parameters that no template declares; so is the registry of a cluster without pools.
* With storage accounts everywhere `apiVersionStorageManagedDisks` is not defined, which the
  bootstrap node uses; `windowsProfileSecrets` is never defined; in a custom VNET a pool in an
  availability set with storage accounts uses a variable that is not.
* Validation does not compare the sizes of machines with the lists of the templates.
* Pools may be called `master`, `bootstrap` or `bootstrapwin`, and then share names with
  the nodes of that name.
* The texts of extensions are fetched twice; they are in the template only when exactly
  one of the two fetches succeeds entirely, and twice, which is refused, when both do.
* A hosted bootstrap node cannot be generated.
* Nothing waits for a custom Windows image (`dcosWindowsAgentResourcesVmas.t:250`).

In the overrides:

* A pair whose index is out of range, or whose path goes through a scalar or an array
  (`agentPoolProfiles.count=7`), is dropped without a word, for all that
  `apimodel_merger.go:86` says "update api model definition with each value in the map":
  the errors of `SetP` are dropped (93-101). Without `=`, or with a negative index, the tool
  panics.
* What follows a second `=` is dropped, too (`apimodel_merger.go:36-38`): after
  `--set linuxProfile.adminUsername=z=y` the document is accepted and the user is `z`. A
  pair with nothing after its `=` gives the number 0. The help of the flag
  (`deploy.go:96`, `generate.go:65`) names no such limit.
* A name that meets an array before its end (`agentPoolProfiles.imageReference[0].name`)
  writes to the first element that has the rest of it, which may be any pool.
* Text that is a number is written as a number, so a string field given `5` is refused.
* `MasterProfile.count` is written beside `masterProfile.count`, and loses.
* `pools[0]` and `pools[00]` are two keys for one place: which one counts is random.

In the test runner:

* Without `RESOURCE_GROUP_PREFIX` the race on `rgPrefix` can give a group an empty prefix,
  or end the program.
* Errors of `get_orchestrator_type` and the like fail the run and are not in its report.

## Theorems

For every number of masters, all sets of agents, any faults and any bound on
them:

* `TypeCorrect`: `TypeOK`, strengthened by `Position` (what `pc` says of the loop
  variables and the list), without which an agent outside the list, or a master
  number out of range, could not be excluded.
* `InputsAreFresh`, `WindowsScriptsAreFresh`: from `StagedSoFar` (the files that are
  in place, by the command that comes next) and `ScriptsFresh` (which scripts carry the
  live URL). `LinuxScriptsAreFresh` needs `SameVersion`, for the reason the run
  `upgrade_rerun` shows.
* `SuccessMeansUpgraded`, `MastersBeforeAgents`: from `ThroughUpgraded`, everything
  the tool is through with is upgraded and stays so. They assume `SwitchesLast`
  (`HalfStates = {"halfOld"}`).
* `NewVersionResumes` and `AtMostOneMasterDown`: for a new version, from `Comparing`
  (until it succeeds, every run compares) and `Frontier` (behind the first master
  that is not upgraded all masters are untouched).
* `DeployProofs!Typed`, and `PrincipalsAreReady`: `CredentialsReady` for all command lines
  and runs at the same time. An apimodel, wherever it is, names a principal of deploy's
  own only when all of it is there (`AllSound`), and nothing is taken away;
  `DeployProofs!TypeCorrect` needs `Grouped`, that a deployment past `EnsureResourceGroup`
  has its group. Sources of apimodels do not name principals that are yet to be made
  (`SourcesAssumption`).
* `NothingLost`, `KeysAreKept` and `SuccessIsKept`: the three properties of `Deploy` about
  the disk, for runs one after the other (`~Overlap`); with two at once the code protects
  nothing. They rest on `OnDisk`: a run that works is alone (`OneAtATime`), a directory
  that was absent in `Autofill` still has none of the files the run is about to write
  (`Fresh`), and has those it wrote (`Stored`). `AllKept` adds that every apimodel with a
  run's key has that key on disk, but for runs that failed; `Succeeded` that what a
  deployment left is whole until a later run supersedes it.
* `SuccessIsAlwaysClean`, `LiveVMsStayIntact`: from `Gone`, what is deleted when a
  goroutine has come so far, which other goroutines cannot undo because in Azure
  things only disappear (`OnlyDeletes`). Both hold for every list of names, all
  machines and any number of failures and retries.
* `ReportIsExact`, `ScaleDownProofs!TypeCorrect`: from `Counting`, the number received
  is that of the goroutines that have ended and are no longer in the channel; when it
  reaches the number asked for, these are all of them.
* `ScaleDownRemoves` is `ImplementsRemoval`, step by step: a call to Azure is a `Remove` or
  a stutter, a `Send` is an `End` of the job, which `Gone` allows when it carries no error,
  and `Return` needs `Counting`. `UnreportedIsGone` follows from it and from the
  invariant of `Removal` that accounts for every job: it is open, or reported, or failed
  in this call, or its machine is gone.
* `ApiModelProofs` has `TypeCorrect`, `DocumentsKeepAddresses`, `AddressesDiffer` and
  `UpgradesStayInRange`, for all builds and all documents of the right type, from
  `Linked` (a saved document has the version and the addresses of the cluster it
  describes) and `OwnNetwork` (a cluster in the tool's own network has the tool's
  addresses). Without `Linked` an upgrade could start from another version than the
  cluster's. They assume that a build supports finitely many versions (`FiniteAssumption`),
  of which the semantic order, which is a strict one (`VersionOrder`), has a latest
  (`LatestExists`), and that the constants of the code are strings.
* `SavedDocumentsLoad`, `SavedDocumentsGiveTheirCluster` and `DeployAgreesWithGenerate`
  are `SavedLoads`, `SameAgain` and `DeployIsGenerate` for all builds and documents, any
  number of pools and any sequence of commands. They rest on a second invariant, `Kept`:
  a saved document is `Normal` (loading it, filling in defaults and saving it again change
  nothing), `Ready` (valid in all but its version, which is the build's affair) and
  `Mirrors` its cluster (it differs from it only in what generating fills in again and in
  the sizes of the pools). That `Produce` establishes the three is `SavedNormal`,
  `SavedReady` and `SavedMirrors`, which go field by field through what `LoadForm`,
  `RenderedForm` and `SavedForm` say of the converters and the defaults; that an upgrade
  and an edit of a size keep them is `UpgradeKept` and `ScaleKept`. The third theorem needs
  only that a document has no value for unexported fields (`Decoded`): the round trip of
  `deploy` is then the identity but for the source prefix of HTTP (`RenderedSame`). They
  assume that what operators write has no such values (`DocsAssumption`) and that sizes
  they choose are legal (`CountsAssumption`).
* `ClusterLives` is `ImplementsLife`: every command is a step of `ClusterLife` or changes
  nothing it shows, for all builds, documents and sequences of commands. It needs `IInv` and
  `Kept` and goes further than `SavedDocumentsGiveTheirCluster`, which is about builds that
  support the version: `KeptAlike` says that what any build renders from a saved document
  is the cluster but for the version (`Alike`), `DeployedAlike` that the round trip of
  `deploy` keeps that, and `SavedStandsFor` which version it has. That a version which is
  not supported stands for none, and none for the default, makes the one exception,
  `Replace`. `UpgradedShown` is the upgrade.
* `WorkflowRolls`: every step of the workflow is a step of `RollingUpgrade` or leaves
  it alone, by `ThroughUpgraded`; `CommitsWhole`: what that guarantees.

* `OverridesProofs` has `Typed` (every document on the way is one JSON can write down) and
  `AnyOrder` (`OrderFree`) for all documents, pairs and orders. The invariant is that the
  document is `Merged` of the keys done so far; the work is in `MergeStep`: one more
  `SetP` is what `Merged` says of one more key, for which a pair that can be set, or
  cannot, stays so whatever was set before it (`StaysSettable`, `StaysUnsettable`). It
  holds where no two keys name one place (`Unaliased`) and no name meets an array
  (`Direct`, which `StaysDirect` keeps: a merge makes no new array, `NoNewArrays`).
* `AskedIsGiven` is `AcceptedMeansAsked`, whether keys share a place or not. `Origin` says of
  the document on the way that each leaf is the file's or what a key wrote, that a leaf of
  the file is missing only below what a key wrote, and that a key whose place nothing else
  reaches (`Clear`) has its value; `Progress` that the loop ends with all keys done. That
  the value is the text of the pair is `ValueMeans`, for texts that are not `Altered`. The
  other half is decoding: of the spellings of a field the one that counts is the last in
  the order of bytes, which has to exist and be one (`FiniteAssumption`, `RankAssumption`),
  and a field of the schema has none below it (`SchemaAssumption`, `FoldedAssumption`).
* `TestRunnerProofs` has `TypeCorrect`, `GroupsAccountedFor` (`GroupsCleaned`) and
  `VerdictIsExact` (`VerdictExact`), for any number of deployments and attempts, all
  settings and every outcome of the race. Types need `Placed` and `Started`, what the step
  of a goroutine says of its group and its error. A group belongs to the attempt under way
  or to an earlier one (`Owned`), one that is deleted or left behind to one that is over
  (`Removed`), so that no more stay than the errors of steps explain (`Room`); an attempt
  that is over has an error or is the one that succeeded (`Counted`), and the report is
  ahead of the goroutines by the error that is being cleaned up after (`Seen`). The totals
  are sums over finite sets. That a sum exists, and grows with its terms, is proved
  without induction over data: a nonempty set of numbers or of subsets of a finite set has
  a minimal member (`Smallest`, `Minimal`), so a least counterexample is looked for and not
  found (`SumsExist`, `SumMore`).
* `TemplateProofs` has `Typed`, `RefusedIsKnown`, `Referenced`, `BootstrapFirst` and
  `PublicIsPublic` for all documents that passed validation, with any number of pools,
  ports and extensions. The invariant is `Written` (the template is the one of the
  document) and `Closed` (what exists has what it waited for). Under it are static
  lemmas, one per group of resources: each waits for what it names, each has names of its
  own owner, each dependency is there; `AcceptedUnlessKnown` goes through the checks of
  Resource Manager one by one.

Model-checked only: liveness (`RerunSucceeds`, `AlwaysReturns`, `EveryRunEnds`,
`Completes`, `RunReturns`), which needs fairness and ENABLED, which the prover does not
handle; and what the violation runs check, which the code violates: `VersionAsAsked`,
`OneClusterPerDirectory` and, to a new version, `RerunSucceeds`. The other way round, the
type invariants of `Deploy`, `Overrides`, `Template` and `TestRunner` are proved and no run
checks them.

## Plan

What remains: the tags of a resource group, which `EnsureResourceGroup` loses when its
`Get` fails (`groupsclient.go:11`).

## Not modelled

* `pkg/acsengine/transform/transform.go`: no command calls it, only its tests.
* `vlabs/merge.go` and `isUpgrade` in the defaults: reached only with an existing
  container service, which no command passes.
* The listing of all versions, `GetMaxVersion` (only tests call it), flags and sign-in.
* The provisioning scripts that run on the nodes, the text of the templates, what the SDKs
  do inside a call, translations, vendored code.
