------------------------------ MODULE Template ------------------------------
(***************************************************************************)
(* From a document that passed validation and defaults to the cluster:     *)
(* GenerateTemplate (template_generator.go, engine.go, params.go) writes   *)
(* an ARM template and its parameters, Azure Resource Manager checks the   *)
(* one against the other and creates the resources, each as soon as what   *)
(* its dependsOn names exists.                                             *)
(*                                                                         *)
(* The template is kept as what ARM looks at: the parameters it declares,  *)
(* the variables it uses and defines, and its resources with what each     *)
(* waits for and what each refers to.  A copy loop is one resource: every  *)
(* copy has the same dependencies.                                         *)
(***************************************************************************)
EXTENDS Integers, Sequences

CONSTANTS
  Docs,        \* the documents a user asks with
  Followed,    \* bound: those whose deployment is followed to its end
  Extensions   \* names of extensions

\* The sizes of machines that the lists of azureconst.go tell apart.
Sizes == {"large",      \* in every list
          "small",      \* in all but that of masters and bootstrap nodes
          "unlisted"}   \* in none

AgentPoolProfile ==
  [name : STRING, windows : BOOLEAN, vmss : BOOLEAN, storageAccount : BOOLEAN,
   lowPriority : BOOLEAN, disks : BOOLEAN, size : Sizes, ports : Seq(Nat),
   preprovision : SUBSET Extensions, postprovision : SUBSET Extensions,
   extensions : SUBSET Extensions]

MasterProfile ==
  [size : Sizes, storageAccount : BOOLEAN, customVNET : BOOLEAN,
   scripts : SUBSET Extensions, extensions : SUBSET Extensions]

BootstrapProfile ==
  [hosted : BOOLEAN, publicIP : BOOLEAN, size : Sizes,
   extraConfigs : {"none", "new", "repeated"}]   \* a key of the configuration repeated

OrchestratorProfile ==
  [registry : BOOLEAN, linux : BootstrapProfile, windows : BootstrapProfile]

LinuxProfile == [secrets : BOOLEAN, searchDomain : BOOLEAN, nodesDNS : BOOLEAN]

WindowsProfile == [secrets : BOOLEAN, image : BOOLEAN]

\* The network of the masters is that of the pools; rhel is the distro of a profile.
DocType ==
  [classic : BOOLEAN, rhel : BOOLEAN, orchestrator : OrchestratorProfile,
   master : MasterProfile, pools : Seq(AgentPoolProfile), linux : LinuxProfile,
   windows : WindowsProfile, profiles : SUBSET Extensions]

\* What validation leaves: names differ, ports are told apart, a scale set has
\* no disks in storage accounts and no extensions.
ValidDoc(doc) ==
  /\ \A i, j \in DOMAIN doc.pools : i # j => doc.pools[i].name # doc.pools[j].name
  /\ \A i \in DOMAIN doc.pools :
       LET p == doc.pools[i] IN
       /\ \A k, l \in DOMAIN p.ports : k # l => p.ports[k] # p.ports[l]
       /\ p.vmss => ~ (p.storageAccount /\ p.disks) /\ p.extensions = {}
       /\ p.lowPriority => p.vmss

ASSUME DocsAssumption == Docs \subseteq {doc \in DocType : ValidDoc(doc)}
ASSUME FollowedAssumption == Followed \subseteq Docs

When(condition, S) == IF condition THEN S ELSE {}

Pools(doc) == {doc.pools[i] : i \in DOMAIN doc.pools}

IsPublic(p) == p.ports # <<>>

HasWindows(doc) == \E p \in Pools(doc) : p.windows

HasManagedDisks(doc) ==
  ~ doc.master.storageAccount \/ \E p \in Pools(doc) : ~ p.storageAccount

HasStorageAccountDisks(doc) ==
  doc.master.storageAccount \/ \E p \in Pools(doc) : p.storageAccount

(***************************************************************************)
(* Parameters, each a pair of the part of the cluster it is about and the  *)
(* rest of its name.  The required ones have no defaultValue.              *)
(***************************************************************************)
Of(owner, attributes) == {owner} \X attributes

RequiredOfPool(doc, p) ==
  Of(p.name, When(doc.master.customVNET, {"VnetSubnetID"})
             \union When(IsPublic(p), {"EndpointDNSNamePrefix"}))
  \union Of("registry", When(doc.orchestrator.registry, {"Name", "Key"}))

RequiredOfCluster(doc) ==
  {"linuxAdminUsername", "sshRSAPublicKey"} \union When(doc.linux.secrets, {"linuxKeyVaultID"})

RequiredOfMasters(doc) ==
  {"EndpointDNSNamePrefix", "VMSize"} \union When(doc.master.customVNET, {"VnetSubnetID"})

RequiredOfWindows(doc) ==
  When(HasWindows(doc),
       {"AdminUsername", "AdminPassword", "BootstrapStaticIP", "BootstrapVMSize"}
       \union When(doc.windows.secrets, {"KeyVaultID"}))

RequiredParameters(doc) ==
  (UNION {RequiredOfPool(doc, p) : p \in Pools(doc)})
  \union Of("cluster", RequiredOfCluster(doc))
  \union Of("master", RequiredOfMasters(doc))
  \union Of("bootstrap", {"StaticIP", "VMSize"})
  \union Of("Parameters", doc.profiles)
  \union Of("windows", RequiredOfWindows(doc))

OptionalOfPool(doc, p) ==
  Of(p.name, {"Count", "VMSize", "osImage"}
             \union When(~ p.vmss, {"Offset"})
             \union When(p.lowPriority, {"ScaleSetPriority", "ScaleSetEvictionPolicy"})
             \union When(~ doc.master.customVNET, {"Subnet"}))

OptionalOfCluster ==
  {"location", "osImage", "fqdnEndpointSuffix", "targetEnvironment", "nameSuffix",
   "dcosBootstrapURL", "dcosWindowsBootstrapURL"}

OptionalOfMasters(doc) ==
  {"firstConsecutiveStaticIP"} \union When(~ doc.master.customVNET, {"Subnet"})
                              \union When(doc.classic, {"Count"})

OptionalOfWindows(doc) ==
  When(HasWindows(doc), {"dcosBinaries", "agentWindows"})
  \union When(doc.classic /\ ~ HasWindows(doc), {"AdminUsername", "AdminPassword"})

OptionalParameters(doc) ==
  (UNION {OptionalOfPool(doc, p) : p \in Pools(doc)})
  \union Of("cluster", OptionalOfCluster)
  \union Of("master", OptionalOfMasters(doc))
  \union Of("windows", OptionalOfWindows(doc))

GivenOfCluster(doc) ==
  {"location", "osImage", "fqdnEndpointSuffix", "targetEnvironment", "linuxAdminUsername",
   "sshRSAPublicKey", "dcosBootstrapURL"}
  \union When(doc.linux.searchDomain, {"searchDomain"})
  \union When(doc.linux.nodesDNS, {"dnsServer"})
  \union When(doc.linux.secrets, {"linuxKeyVaultID"})
  \union When(HasWindows(doc), {"dcosWindowsBootstrapURL"})

GivenOfMasters(doc) ==
  {"EndpointDNSNamePrefix", "firstConsecutiveStaticIP", "VMSize"}
  \union When(doc.master.customVNET, {"VnetSubnetID"})
  \union When(~ doc.master.customVNET, {"Subnet"})
  \union When(doc.classic, {"Count"})

GivenOfWindows(doc) ==
  When(HasWindows(doc), {"AdminUsername", "AdminPassword", "agentWindows",
                         "BootstrapStaticIP", "BootstrapVMSize"}
                        \union When(doc.windows.secrets, {"KeyVaultID"}))

\* Mutant: the DNS name of a public pool is not given.
PoolParameters_NoDNS(doc, p) ==
  Of(p.name, {"Count", "VMSize"}
             \union When(doc.master.customVNET, {"VnetSubnetID"})
             \union When(~ doc.master.customVNET, {"Subnet"})
             \union When(~ p.windows, {"osImage"}))

PoolParameters(doc, p) ==
  Of(p.name, {"Count", "VMSize"}
             \union When(doc.master.customVNET, {"VnetSubnetID"})
             \union When(~ doc.master.customVNET, {"Subnet"})
             \union When(IsPublic(p), {"EndpointDNSNamePrefix"})
             \union When(~ p.windows, {"osImage"}))

getParameters(doc) ==
  (UNION {PoolParameters(doc, p) : p \in Pools(doc)})
  \union Of("cluster", GivenOfCluster(doc))
  \union Of("master", GivenOfMasters(doc))
  \union Of("bootstrap", {"StaticIP", "VMSize"})
  \union Of("registry", When(doc.orchestrator.registry, {"Name", "Key"}))
  \union Of("Parameters", doc.profiles)
  \union Of("windows", GivenOfWindows(doc))

(***************************************************************************)
(* The variables that only some documents define, by owner and name.       *)
(***************************************************************************)
DefinedOfPool(doc, p) ==
  Of(p.name, When(p.storageAccount, {"AccountName", "StorageAccountOffset"}
                                    \union When(p.disks, {"DataAccountName"}))
             \union When(~ p.vmss, {"AvailabilitySet", "Offset"})
             \union When(~ doc.master.customVNET, {"SubnetName"})
             \union When(IsPublic(p), {"IPAddressName", "LbName"}))

DefinedOfCluster(doc) ==
  When(doc.linux.secrets, {"linuxProfileSecrets"})
  \union When(HasStorageAccountDisks(doc), {"storageAccountPrefixes"})
  \union When(HasManagedDisks(doc), {"apiVersionStorageManagedDisks"})
  \union When(~ doc.master.customVNET, {"vnetID"})

DefinedVariables(doc) ==
  (UNION {DefinedOfPool(doc, p) : p \in Pools(doc)})
  \union Of("cluster", DefinedOfCluster(doc))
  \union Of("master", When(doc.master.storageAccount, {"StorageAccountName"}))
  \union Of("bootstrapwin", When(HasWindows(doc), {"VMName", "StaticIP"}))

getDataDisks(p) == When(p.storageAccount /\ p.disks, {"DataAccountName"})

UsedOfPool(p) ==
  When(p.storageAccount, {"AccountName", "StorageAccountOffset"})
  \union getDataDisks(p)
  \union When(~ p.vmss, {"AvailabilitySet", "Offset"})
  \union When(~ p.vmss /\ p.storageAccount, {"SubnetName"})  \* agentoutputs.t
  \union When(IsPublic(p), {"IPAddressName", "LbName"})

UsedOfCluster(doc, p) ==
  When(doc.linux.secrets /\ ~ p.windows, {"linuxProfileSecrets"})
  \union When(doc.windows.secrets /\ p.windows /\ p.vmss, {"windowsProfileSecrets"})
  \union When(p.storageAccount, {"storageAccountPrefixes"})
  \union When(~ doc.master.customVNET, {"vnetID"})

UsedByPool(doc, p) ==
  Of(p.name, UsedOfPool(p)) \union Of("cluster", UsedOfCluster(doc, p))
  \union Of("bootstrapwin", When(p.windows, {"VMName", "StaticIP"}))

\* The bootstrap node has a managed disk.
UsedByMasters(doc) ==
  {"apiVersionStorageManagedDisks"}
  \union When(doc.linux.secrets, {"linuxProfileSecrets"})
  \union When(~ doc.master.customVNET, {"vnetID"})

UsedVariables(doc) ==
  (UNION {UsedByPool(doc, p) : p \in Pools(doc)})
  \union Of("cluster", UsedByMasters(doc))
  \union Of("master", When(doc.master.storageAccount, {"StorageAccountName"}))

(***************************************************************************)
(* Resources, by owner and kind: what each waits for, and what it names.   *)
(* Names of variables and resources are made of that of the owner, which   *)
(* is here in lower case: Resource Manager does not look at the case.      *)
(***************************************************************************)
Resource(id, dependsOn, refersTo) ==
  [id |-> id, dependsOn |-> dependsOn, refersTo |-> refersTo]

Master(kind) == <<"master", kind>>

VNET(doc) == When(~ doc.master.customVNET, {Master("vnet")})

MasterStorage(doc) == When(doc.master.storageAccount, {Master("storage")})

getVNETSubnetDependencies(doc) == {<<p.name, "nsg">> : p \in Pools(doc)}

getVNETSubnets(doc) == {<<p.name, "nsg">> : p \in Pools(doc)}

MasterNIC(doc) == {Master("nsg"), Master("lb"), Master("nat")} \union VNET(doc)

MasterDisks(doc) == {Master("nic"), Master("avset")} \union MasterStorage(doc)

MasterVM(doc) ==
  Resource(Master("vm"),
           MasterDisks(doc) \union {Master("exhibitor"), <<"bootstrap", "ready">>},
           MasterDisks(doc))

MasterResources(doc) ==
  {Resource(Master("avset"), {}, {}),
   Resource(Master("exhibitor"), {Master("ip")}, {}),
   Resource(Master("ip"), {}, {}),
   Resource(Master("lb"), {Master("ip")}, {Master("ip")}),
   Resource(Master("nat"), {Master("lb")}, {Master("lb")}),
   Resource(Master("nsg"), {}, {}),
   Resource(Master("nic"), MasterNIC(doc), MasterNIC(doc)),
   MasterVM(doc),
   Resource(Master("leader"), {Master("vm")}, {Master("vm")})}
  \union When(doc.master.storageAccount, {Resource(Master("storage"), {Master("ip")}, {})})
  \union When(~ doc.master.customVNET,
              {Resource(Master("vnet"), getVNETSubnetDependencies(doc),
                        getVNETSubnets(doc))})

\* Mutant: the bootstrap nodes wait for the masters.
BootstrapNode_Last(doc, owner, publicIP, image) ==
  LET own(kind) == <<owner, kind>>
      address   == {own("nsg")} \union VNET(doc) \union When(publicIP, {own("ip")})
      disks     == {own("nic")} \union MasterStorage(doc)
  IN {Resource(own("nsg"), {}, {}),
      Resource(own("nic"), address, address),
      Resource(own("vm"), disks \union {Master("vm")}, disks),
      Resource(own("ready"), {own("vm")}, {own("vm")})}
     \union When(publicIP, {Resource(own("ip"), {}, {})})
     \union When(image, {Resource(own("image"), {}, {})})

\* A bootstrap node and the extension that waits until it serves packages.
BootstrapNode(doc, owner, publicIP, image) ==
  LET own(kind) == <<owner, kind>>
      address   == {own("nsg")} \union VNET(doc) \union When(publicIP, {own("ip")})
      disks     == {own("nic")} \union MasterStorage(doc)
  IN {Resource(own("nsg"), {}, {}),
      Resource(own("nic"), address, address),
      Resource(own("vm"), disks \union {Master("exhibitor")},
               disks \union When(image, {own("image")})),
      Resource(own("ready"), {own("vm")}, {own("vm")})}
     \union When(publicIP, {Resource(own("ip"), {}, {})})
     \union When(image, {Resource(own("image"), {}, {})})

BootstrapResources(doc) == BootstrapNode(doc, "bootstrap", doc.orchestrator.linux.publicIP, FALSE)

BootstrapWinResources(doc) ==
  When(HasWindows(doc),
       BootstrapNode(doc, "bootstrapwin", doc.orchestrator.windows.publicIP, doc.windows.image))

BootstrapReady(p) == <<IF p.windows THEN "bootstrapwin" ELSE "bootstrap", "ready">>

NodeKind(p) == IF p.vmss THEN "vmss" ELSE "vm"

\* Where the node's network card is: the pool's load balancer and its network.
PoolNetwork(doc, p) ==
  {IF doc.master.customVNET THEN <<p.name, "nsg">> ELSE Master("vnet")}
  \union When(IsPublic(p), {<<p.name, "lb">>})

PoolDisks(doc, p) ==
  When(p.storageAccount, {<<p.name, "storage">>} \union When(p.disks, {<<p.name, "data">>}))

\* Mutants: the nodes wait for the network only, or not for the bootstrap node.
PoolNode_NoStorage(doc, p) ==
  LET address == IF p.vmss THEN PoolNetwork(doc, p)
                           ELSE {<<p.name, "nic">>, <<p.name, "avset">>}
  IN Resource(<<p.name, NodeKind(p)>>, address \union {BootstrapReady(p)},
              address \union PoolDisks(doc, p))

PoolNode_NoBootstrap(doc, p) ==
  LET named == PoolDisks(doc, p)
               \union (IF p.vmss THEN PoolNetwork(doc, p)
                                 ELSE {<<p.name, "nic">>, <<p.name, "avset">>})
  IN Resource(<<p.name, NodeKind(p)>>, named, named)

\* What the machines, or the scale set, of a pool name.
PoolNode(doc, p) ==
  LET named == PoolDisks(doc, p)
               \union (IF p.vmss THEN PoolNetwork(doc, p)
                                 ELSE {<<p.name, "nic">>, <<p.name, "avset">>})
  IN Resource(<<p.name, NodeKind(p)>>, named \union {BootstrapReady(p)},
              named \union When(p.windows /\ doc.windows.image, {<<p.name, "image">>}))

PoolResources(doc, p) ==
  {Resource(<<p.name, "nsg">>, {}, {}), PoolNode(doc, p)}
  \union {Resource(disk, {Master("ip")}, {}) : disk \in PoolDisks(doc, p)}
  \union When(IsPublic(p),
              {Resource(<<p.name, "ip">>, {}, {}),
               Resource(<<p.name, "lb">>, {<<p.name, "ip">>}, {<<p.name, "ip">>})})
  \union When(p.windows /\ doc.windows.image, {Resource(<<p.name, "image">>, {}, {})})
  \union When(~ p.vmss,
              {Resource(<<p.name, "nic">>, PoolNetwork(doc, p), PoolNetwork(doc, p)),
               Resource(<<p.name, "avset">>, {}, {})})
  \union When(~ p.vmss /\ p.windows,
              {Resource(<<p.name, "cse">>, {<<p.name, "vm">>}, {<<p.name, "vm">>})})

(***************************************************************************)
(* Custom data: what the provisioning scripts of a node are told.  A       *)
(* helper panics if a script it names is of no extension profile, and ends *)
(* the program if extraConfigs repeat a key.                               *)
(***************************************************************************)
makeExtensionScriptCommands(scripts, profiles) == scripts \subseteq profiles

getWindowsExtensionScriptData(scripts, profiles) == scripts \subseteq profiles

combineYAML(bootstrap) == bootstrap.extraConfigs # "repeated"

GetDCOSBootstrapConfig(doc) == combineYAML(doc.orchestrator.linux)

GetDCOSWindowsBootstrapConfig(doc) == combineYAML(doc.orchestrator.windows)

\* Mutant: every agent is private.
getDCOSAgentProvisionScript_Private(p) == "slave"

\* The role file that the provisioning script touches.
getDCOSAgentProvisionScript(p) == IF IsPublic(p) THEN "slave_public" ELSE "slave"

getDCOSAgentCustomNodeLabels(p) == When(IsPublic(p), {"public_ip"})

getDCOSWindowsAgentCustomAttributes(p) == When(IsPublic(p), {"public_ip"})

GetDCOSMasterCustomData(doc) == makeExtensionScriptCommands(doc.master.scripts, doc.profiles)

GetDCOSAgentCustomData(doc, p) ==
  [role       |-> IF IsPublic(p) THEN "slave_public" ELSE "slave",
   roleFile   |-> getDCOSAgentProvisionScript(p),
   attributes |-> getDCOSAgentCustomNodeLabels(p),
   found      |-> makeExtensionScriptCommands(p.preprovision \union p.postprovision,
                                              doc.profiles)]

GetDCOSWindowsAgentCustomData(doc, p) ==
  LET role == IF IsPublic(p) THEN "slave_public" ELSE "slave" IN
  [role       |-> role,
   roleFile   |-> role,         \* dcosWindowsProvision.ps1 is given nothing else
   attributes |-> getDCOSWindowsAgentCustomAttributes(p),
   found      |-> getWindowsExtensionScriptData(p.preprovision \union p.postprovision,
                                                doc.profiles)]

CustomData(doc, p) == IF p.windows THEN GetDCOSWindowsAgentCustomData(doc, p)
                                   ELSE GetDCOSAgentCustomData(doc, p)

(***************************************************************************)
(* What a load balancer forwards and a network security group lets in.     *)
(***************************************************************************)
getLBRules(p) ==
  {[front |-> p.ports[i], back |-> p.ports[i], probe |-> p.ports[i]] : i \in DOMAIN p.ports}

getProbes(p) == {p.ports[i] : i \in DOMAIN p.ports}

BaseLBPriority == 200

getSecurityRule(port, index) == [port |-> port, priority |-> BaseLBPriority + index]

getSecurityRules(p) == {getSecurityRule(p.ports[i], i - 1) : i \in DOMAIN p.ports}

(***************************************************************************)
(* Allowed values of the parameters for sizes, and the map from the size   *)
(* of a pool's machines to the kind of its storage accounts.               *)
(***************************************************************************)
GetDCOSMasterAllowedSizes == {"large"}
GetMasterAgentAllowedSizes == {"large", "small"}
GetClassicAllowedSizes == {"large", "small"}
MappedSizes == {"large", "small"}
ClassicMappedSizes == {"large", "small"}

GetMasterAllowedSizes(doc) ==
  IF doc.classic THEN GetClassicAllowedSizes ELSE GetDCOSMasterAllowedSizes

GetAgentAllowedSizes(doc) ==
  IF doc.classic THEN GetClassicAllowedSizes ELSE GetMasterAgentAllowedSizes

GetSizeMap(doc) == IF doc.classic THEN ClassicMappedSizes ELSE MappedSizes

(***************************************************************************)
(* Extensions.  getLinkedTemplatesForExtensions asks a server for the text *)
(* of every extension that the masters or a pool opted for; if any request *)
(* fails it prints the error and returns no text at all.  The template     *)
(* calls it twice.                                                         *)
(***************************************************************************)
OptedExtensions(doc) ==
  doc.profiles \intersect (doc.master.extensions \union UNION {p.extensions : p \in Pools(doc)})

TemplateCalls == {"bootstrapresources.t", "dcosmasterresources.t"}

\* The calls whose requests are all answered.
Answered == SUBSET TemplateCalls

\* The calls that return the text.
getLinkedTemplatesForExtensions(doc, answered) ==
  IF OptedExtensions(doc) = {} THEN {} ELSE answered

\* template-link.json: to be run when the last master has seen a leader.
ExtensionResources(doc, linked) ==
  When(linked # {}, {Resource(<<x, "deployment">>, {Master("leader")}, {Master("leader")}) :
                         x \in OptedExtensions(doc)})

AllPoolResources(doc) == UNION {PoolResources(doc, p) : p \in Pools(doc)}

Resources(doc, linked) ==
  MasterResources(doc) \union BootstrapResources(doc) \union BootstrapWinResources(doc)
  \union AllPoolResources(doc) \union ExtensionResources(doc, linked)

Ids(resources) == {r.id : r \in resources}

(***************************************************************************)
(* What makes GenerateTemplate fail: besides the helpers above, a          *)
(* distribution without support, and bootstrapparams.t, which looks for    *)
(* the URL of a hosted bootstrap node where the model does not keep it.    *)
(***************************************************************************)
hostedBootstrap(doc) ==
  doc.orchestrator.linux.hosted \/ (HasWindows(doc) /\ doc.orchestrator.windows.hosted)

validateDistro(doc) == ~ doc.rhel

Generates(doc) ==
  /\ validateDistro(doc)
  /\ ~ hostedBootstrap(doc)
  /\ GetDCOSBootstrapConfig(doc)
  /\ HasWindows(doc) => GetDCOSWindowsBootstrapConfig(doc)
  /\ GetDCOSMasterCustomData(doc)
  /\ \A p \in Pools(doc) : CustomData(doc, p).found

(***************************************************************************)
(* What Resource Manager checks before it creates anything.                *)
(***************************************************************************)
\* The dependsOn of dcosagentresourcesvmas.t, where an expression lacks a quote.
WellFormed(doc) == \A p \in Pools(doc) : p.vmss \/ p.windows

SizesAllowed(doc) ==
  /\ {doc.master.size, doc.orchestrator.linux.size} \subseteq GetMasterAllowedSizes(doc)
  /\ HasWindows(doc) => doc.orchestrator.windows.size \in GetMasterAllowedSizes(doc)
  /\ \A p \in Pools(doc) :
       /\ p.size \in GetAgentAllowedSizes(doc)
       /\ p.storageAccount => p.size \in GetSizeMap(doc)

NamedOnce(doc, linked) ==
  /\ linked # TemplateCalls
  /\ Ids(MasterResources(doc) \union BootstrapResources(doc) \union BootstrapWinResources(doc))
     \intersect Ids(AllPoolResources(doc)) = {}

DependenciesExist(doc, linked) ==
  \A r \in Resources(doc, linked) : r.dependsOn \subseteq Ids(Resources(doc, linked))

Accepted(doc, linked) ==
  /\ RequiredParameters(doc) \subseteq getParameters(doc)
  /\ getParameters(doc) \subseteq RequiredParameters(doc) \union OptionalParameters(doc)
  /\ UsedVariables(doc) \subseteq DefinedVariables(doc)
  /\ SizesAllowed(doc)
  /\ WellFormed(doc)
  /\ NamedOnce(doc, linked)
  /\ DependenciesExist(doc, linked)

(***************************************************************************)
(* The run of a document.                                                  *)
(***************************************************************************)
VARIABLES
  cs,       \* the document
  phase,    \* where it is
  linked,   \* the calls whose text of the extensions is in the template
  template, \* the resources of the generated template
  created   \* the resources that exist

vars == <<cs, phase, linked, template, created>>

Phases == {"asked", "failed", "generated", "refused", "deploying", "stopped", "deployed"}

Init ==
  /\ cs \in Docs
  /\ phase = "asked"
  /\ linked = {}
  /\ template = {}
  /\ created = {}

\* GenerateTemplate.  A panic of a helper comes back as an error; nothing is written.
GenerateTemplate ==
  /\ phase = "asked"
  /\ IF Generates(cs)
       THEN /\ phase' = "generated"
            /\ \E answered \in Answered :
                 linked' = getLinkedTemplatesForExtensions(cs, answered)
            /\ template' = Resources(cs, linked')
       ELSE /\ phase' = "failed"
            /\ UNCHANGED <<linked, template>>
  /\ UNCHANGED <<cs, created>>

Submit ==
  /\ phase = "generated"
  /\ phase' = IF Accepted(cs, linked) THEN "deploying" ELSE "refused"
  /\ UNCHANGED <<cs, linked, template, created>>

\* Resource Manager creates a resource whose dependencies exist.
Create(r) ==
  /\ phase = "deploying"
  /\ cs \in Followed
  /\ r \in template
  /\ r \notin created
  /\ r.dependsOn \subseteq Ids(created)
  /\ created' = created \union {r}
  /\ UNCHANGED <<cs, phase, linked, template>>

\* It cannot create one, or an extension reports an error: the deployment ends.
Stop ==
  /\ phase = "deploying"
  /\ phase' = "stopped"
  /\ UNCHANGED <<cs, linked, template, created>>

Finish ==
  /\ phase = "deploying"
  /\ template \subseteq created
  /\ phase' = "deployed"
  /\ UNCHANGED <<cs, linked, template, created>>

Next ==
  \/ GenerateTemplate
  \/ Submit
  \/ \E r \in template : Create(r)
  \/ Stop
  \/ Finish

\* GenerateTemplate and deploy.go run on; Resource Manager works on what it accepted.
Spec ==
  /\ Init
  /\ [][Next]_vars
  /\ WF_vars(GenerateTemplate)
  /\ WF_vars(Submit)
  /\ WF_vars(\E r \in template : Create(r))
  /\ WF_vars(Finish)

(***************************************************************************)
(* Properties.                                                             *)
(***************************************************************************)
\* The variables keep their types: only resources of the template exist.
TypeOK ==
  /\ cs \in DocType
  /\ phase \in Phases
  /\ linked \subseteq TemplateCalls
  /\ phase \in {"asked", "failed"} => template = {}
  /\ created \subseteq template

BootstrapSizes ==
  {cs.orchestrator.linux.size} \union When(HasWindows(cs), {cs.orchestrator.windows.size})

NodeSizes == BootstrapSizes \union {cs.master.size} \union {p.size : p \in Pools(cs)}

\* Why Resource Manager refuses a template, from the document alone.
KnownCause ==
  \* dcosagentresourcesvmas.t, the expression that lacks a quote
  \/ \E p \in Pools(cs) : ~ p.vmss /\ ~ p.windows
  \* parameters that params.go gives and no template declares
  \/ cs.linux.searchDomain \/ cs.linux.nodesDNS
  \/ cs.orchestrator.registry /\ cs.pools = <<>>
  \* sizes of machines that validation does not compare with the lists of the templates
  \/ "unlisted" \in NodeSizes
  \/ ~ cs.classic /\ "small" \in BootstrapSizes \union {cs.master.size}
  \* variables that a template uses and none defines
  \/ ~ HasManagedDisks(cs)
  \/ cs.windows.secrets /\ \E p \in Pools(cs) : p.windows /\ p.vmss
  \/ cs.master.customVNET /\ \E p \in Pools(cs) : ~ p.vmss /\ p.storageAccount
  \* names used twice
  \/ \E p \in Pools(cs) :
       \/ p.name \in {"master", "bootstrap"}
       \/ p.name = "bootstrapwin" /\ HasWindows(cs)
  \/ linked = TemplateCalls

\* The seven templates, params.go and engine.go agree on parameters, variables and
\* names, which no code compares: what was generated is refused for one of the
\* causes listed above and for no other.
RefusedOnly ==
  /\ phase = "refused" => KnownCause
  /\ phase \in {"deploying", "stopped", "deployed"} => ~ KnownCause

\* Resources are created at the same time, in any order dependsOn leaves open: one
\* that exists names only what exists.  (A custom Windows image is named without
\* being waited for: dcosWindowsAgentResourcesVmas.t:250, Vmss.t:180.)
ReferencesExist ==
  \A r \in created : \A named \in r.refersTo : named[2] = "image" \/ named \in Ids(created)

\* No master or agent starts before the bootstrap node of its system serves the
\* packages its provisioning script downloads, and no extension before the masters
\* elected a leader.
NodesAfterBootstrap ==
  /\ Master("vm") \in Ids(created) => <<"bootstrap", "ready">> \in Ids(created)
  /\ \A p \in Pools(cs) :
       <<p.name, NodeKind(p)>> \in Ids(created) => BootstrapReady(p) \in Ids(created)
  /\ \A x \in Extensions : <<x, "deployment">> \in Ids(created) => Master("leader") \in Ids(created)

\* The agents that register as public are exactly those behind a public address, and
\* every port their load balancer forwards is probed and let in, by rules whose
\* priorities differ: six functions and two templates decide this on their own.
PublicAgents ==
  phase = "deployed" => \A p \in Pools(cs) :
    LET public == <<p.name, "ip">> \in Ids(created) IN
    /\ CustomData(cs, p).role = "slave_public" <=> public
    /\ CustomData(cs, p).roleFile = CustomData(cs, p).role
    /\ "public_ip" \in CustomData(cs, p).attributes <=> public
    /\ \A rule \in getLBRules(p) :
         /\ rule.probe \in getProbes(p)
         /\ \E allow \in getSecurityRules(p) : allow.port = rule.back
    /\ \A a, b \in getSecurityRules(p) : a.priority = b.priority => a = b

\* An accepted template does not wait on itself: its deployment completes, unless
\* something in it fails.
Completes ==
  phase = "deploying" /\ cs \in Followed ~> phase \in {"stopped", "deployed"}
=============================================================================
