--------------------------- MODULE TemplateProofs ---------------------------
(***************************************************************************)
(* For every document that passed validation, with any number of pools and *)
(* ports: its template is refused for no other cause than those known, and *)
(* the resources of an accepted one are created in an order that works.    *)
(***************************************************************************)
EXTENDS Template, TLAPS

(***************************************************************************)
(* Every resource waits for what it names.                                 *)
(***************************************************************************)
\* But for custom images, which nothing waits for.
Waits(r) == \A named \in r.refersTo : named[2] = "image" \/ named \in r.dependsOn

LEMMA MastersWait ==
  ASSUME NEW doc, NEW r \in MasterResources(doc)
  PROVE  Waits(r)
BY DEF MasterResources, Resource, Waits, When, MasterVM, getVNETSubnets, getVNETSubnetDependencies

LEMMA BootstrapWaits ==
  ASSUME NEW doc, NEW owner, NEW publicIP, NEW image,
         NEW r \in BootstrapNode(doc, owner, publicIP, image)
  PROVE  Waits(r)
BY DEF BootstrapNode, Resource, Waits, When

LEMMA PoolWaits ==
  ASSUME NEW doc, NEW p, NEW r \in PoolResources(doc, p)
  PROVE  Waits(r)
<1> DEFINE disks == PoolDisks(doc, p)
           net == PoolNetwork(doc, p)
<1>1. Waits(PoolNode(doc, p))
  <2> DEFINE n == disks \union (IF p.vmss THEN net ELSE {<<p.name, "nic">>, <<p.name, "avset">>})
  <2>1. /\ PoolNode(doc, p).dependsOn = n \union {BootstrapReady(p)}
        /\ PoolNode(doc, p).refersTo =
             n \union When(p.windows /\ doc.windows.image, {<<p.name, "image">>})
    BY DEF PoolNode, Resource
  <2> QED
    BY <2>1 DEF Waits, When
<1> QED
  BY <1>1 DEF PoolResources, Resource, Waits, When

LEMMA ResourcesWait ==
  ASSUME NEW doc, NEW calls, NEW r \in Resources(doc, calls)
  PROVE  Waits(r)
<1>1. CASE r \in BootstrapResources(doc) \union BootstrapWinResources(doc)
  BY <1>1, BootstrapWaits DEF BootstrapResources, BootstrapWinResources, When
<1>2. CASE r \in AllPoolResources(doc)
  BY <1>2, PoolWaits DEF AllPoolResources
<1>3. CASE r \in ExtensionResources(doc, calls)
  BY <1>3 DEF ExtensionResources, When, Resource, Waits
<1> QED
  BY <1>1, <1>2, <1>3, MastersWait DEF Resources

(***************************************************************************)
(* Who owns a resource, and what the nodes wait for.                       *)
(***************************************************************************)
LEMMA MastersOwn ==
  ASSUME NEW doc, NEW r \in MasterResources(doc)
  PROVE  /\ r.id[1] = "master"
         /\ r.id[2] # "deployment"
         /\ r.id[2] = "vm" => <<"bootstrap", "ready">> \in r.dependsOn
BY DEF MasterResources, MasterVM, Master, Resource, When

LEMMA BootstrapOwns ==
  ASSUME NEW doc, NEW owner, NEW publicIP, NEW image,
         NEW r \in BootstrapNode(doc, owner, publicIP, image)
  PROVE  r.id[1] = owner /\ r.id[2] # "deployment"
BY DEF BootstrapNode, Resource, When

LEMMA DisksOwn ==
  ASSUME NEW doc, NEW p, NEW disk \in PoolDisks(doc, p)
  PROVE  disk[1] = p.name /\ disk[2] \in {"storage", "data"}
BY DEF PoolDisks, When

LEMMA PoolOwns ==
  ASSUME NEW doc, NEW p, NEW r \in PoolResources(doc, p)
  PROVE  /\ r.id[1] = p.name
         /\ r.id[2] # "deployment"
         /\ r.id[2] = NodeKind(p) => BootstrapReady(p) \in r.dependsOn
         /\ r.id[2] = "ip" => IsPublic(p)
<1>0. NodeKind(p) \in {"vm", "vmss"}
  BY DEF NodeKind
<1>1. CASE r = PoolNode(doc, p)
  BY <1>0, <1>1 DEF PoolNode, Resource
<1>2. CASE \E disk \in PoolDisks(doc, p) : r = Resource(disk, {Master("ip")}, {})
  BY <1>0, <1>2, DisksOwn DEF Resource
<1>3. CASE r # PoolNode(doc, p) /\ ~ (\E disk \in PoolDisks(doc, p) : r = Resource(disk, {Master("ip")}, {}))
  BY <1>0, <1>3 DEF PoolResources, Resource, When
<1> QED
  BY <1>1, <1>2, <1>3

LEMMA ExtensionsOwn ==
  ASSUME NEW doc, NEW calls, NEW r \in ExtensionResources(doc, calls)
  PROVE  r.id[2] = "deployment" /\ Master("leader") \in r.dependsOn
BY DEF ExtensionResources, When, Resource

LEMMA NamesDiffer ==
  ASSUME NEW doc, ValidDoc(doc), NEW p \in Pools(doc), NEW q \in Pools(doc), p.name = q.name
  PROVE  p = q
BY DEF ValidDoc, Pools

LEMMA NamesFree ==
  ASSUME NEW doc, NEW calls, NamedOnce(doc, calls), NEW p \in Pools(doc)
  PROVE  /\ p.name \notin {"master", "bootstrap"}
         /\ HasWindows(doc) => p.name # "bootstrapwin"
<1>1. <<p.name, "nsg">> \in Ids(AllPoolResources(doc))
  <2>1. Resource(<<p.name, "nsg">>, {}, {}) \in PoolResources(doc, p)
    BY DEF PoolResources
  <2>2. Resource(<<p.name, "nsg">>, {}, {}) \in AllPoolResources(doc)
    BY <2>1 DEF AllPoolResources
  <2> QED
    BY <2>2 DEF Ids, Resource
<1>2. /\ <<"master", "nsg">> \in Ids(MasterResources(doc))
      /\ <<"bootstrap", "nsg">> \in Ids(BootstrapResources(doc))
      /\ HasWindows(doc) => <<"bootstrapwin", "nsg">> \in Ids(BootstrapWinResources(doc))
  <2>1. /\ Resource(<<"master", "nsg">>, {}, {}) \in MasterResources(doc)
        /\ Resource(<<"bootstrap", "nsg">>, {}, {}) \in BootstrapResources(doc)
        /\ HasWindows(doc) =>
             Resource(<<"bootstrapwin", "nsg">>, {}, {}) \in BootstrapWinResources(doc)
    BY DEF MasterResources, Master, BootstrapResources, BootstrapWinResources, BootstrapNode, When
  <2> QED
    BY <2>1 DEF Ids, Resource
<1> QED
  BY <1>1, <1>2 DEF NamedOnce, Ids

LEMMA NodesWait ==
  ASSUME NEW doc, ValidDoc(doc), NEW calls, NamedOnce(doc, calls),
         NEW r \in Resources(doc, calls)
  PROVE  /\ r.id = Master("vm") => <<"bootstrap", "ready">> \in r.dependsOn
         /\ \A p \in Pools(doc) :
              /\ r.id = <<p.name, NodeKind(p)>> => BootstrapReady(p) \in r.dependsOn
              /\ r.id = <<p.name, "ip">> => IsPublic(p)
         /\ r.id[2] = "deployment" => Master("leader") \in r.dependsOn
<1>0. \A p : NodeKind(p) # "deployment"
  BY DEF NodeKind
<1>1. CASE r \in MasterResources(doc)
  BY <1>1, MastersOwn, NamesFree DEF Master
<1>2. CASE r \in BootstrapResources(doc)
  <2>1. PICK image : r \in BootstrapNode(doc, "bootstrap", doc.orchestrator.linux.publicIP, image)
    BY <1>2 DEF BootstrapResources
  <2>2. r.id[1] = "bootstrap" /\ r.id[2] # "deployment"
    BY <2>1, BootstrapOwns
  <2> QED
    BY <2>2, NamesFree DEF Master
<1>5. CASE r \in BootstrapWinResources(doc)
  <2>1. /\ HasWindows(doc)
        /\ r \in BootstrapNode(doc, "bootstrapwin", doc.orchestrator.windows.publicIP,
                               doc.windows.image)
    BY <1>5 DEF BootstrapWinResources, When
  <2>2. r.id[1] = "bootstrapwin" /\ r.id[2] # "deployment"
    BY <2>1, BootstrapOwns
  <2> QED
    BY <2>1, <2>2, NamesFree DEF Master
<1>3. CASE r \in AllPoolResources(doc)
  <2>1. PICK q \in Pools(doc) : r \in PoolResources(doc, q)
    BY <1>3 DEF AllPoolResources
  <2>2. q.name # "master"
    BY NamesFree
  <2>3. /\ r.id[1] = q.name
        /\ r.id[2] # "deployment"
        /\ r.id[2] = NodeKind(q) => BootstrapReady(q) \in r.dependsOn
        /\ r.id[2] = "ip" => IsPublic(q)
    BY <2>1, PoolOwns
  <2>4. \A p \in Pools(doc) : p.name = q.name => p = q
    BY NamesDiffer
  <2> QED
    BY <2>2, <2>3, <2>4 DEF Master
<1>4. CASE r \in ExtensionResources(doc, calls)
  BY <1>0, <1>4, ExtensionsOwn DEF Master
<1> QED
  BY <1>1, <1>2, <1>3, <1>4, <1>5 DEF Resources

(***************************************************************************)
(* Why a template is refused: each check of Resource Manager on its own.   *)
(***************************************************************************)
LEMMA Subset ==
  ASSUME NEW owner, NEW S, NEW T, S \subseteq T
  PROVE  Of(owner, S) \subseteq Of(owner, T)
BY DEF Of

LEMMA IsOf ==
  ASSUME NEW owner, NEW S, NEW o, NEW a
  PROVE  <<o, a>> \in Of(owner, S) <=> o = owner /\ a \in S
BY DEF Of

LEMMA ParametersGiven ==
  ASSUME NEW doc
  PROVE  RequiredParameters(doc) \subseteq getParameters(doc)
<1>1. ASSUME NEW p \in Pools(doc) PROVE RequiredOfPool(doc, p) \subseteq getParameters(doc)
  <2>1. RequiredOfPool(doc, p) \subseteq
          PoolParameters(doc, p)
          \union Of("registry", When(doc.orchestrator.registry, {"Name", "Key"}))
    BY DEF RequiredOfPool, PoolParameters, Of, When
  <2> QED
    BY <2>1 DEF getParameters
<1>2. Of("cluster", RequiredOfCluster(doc)) \subseteq getParameters(doc)
  <2>1. RequiredOfCluster(doc) \subseteq GivenOfCluster(doc)
    BY DEF RequiredOfCluster, GivenOfCluster, When
  <2> QED
    BY <2>1, Subset DEF getParameters
<1>3. Of("master", RequiredOfMasters(doc)) \subseteq getParameters(doc)
  <2>1. RequiredOfMasters(doc) \subseteq GivenOfMasters(doc)
    BY DEF RequiredOfMasters, GivenOfMasters, When
  <2> QED
    BY <2>1, Subset DEF getParameters
<1>4. Of("windows", RequiredOfWindows(doc)) \subseteq getParameters(doc)
  <2>1. RequiredOfWindows(doc) \subseteq GivenOfWindows(doc)
    BY DEF RequiredOfWindows, GivenOfWindows, When
  <2> QED
    BY <2>1, Subset DEF getParameters
<1>5. Of("bootstrap", {"StaticIP", "VMSize"}) \subseteq getParameters(doc)
  BY DEF getParameters
<1>6. Of("Parameters", doc.profiles) \subseteq getParameters(doc)
  BY DEF getParameters
<1> QED
  BY <1>1, <1>2, <1>3, <1>4, <1>5, <1>6 DEF RequiredParameters

LEMMA ParametersDeclared ==
  ASSUME NEW doc, ~ doc.linux.searchDomain, ~ doc.linux.nodesDNS,
         doc.orchestrator.registry => Pools(doc) # {}
  PROVE  getParameters(doc) \subseteq RequiredParameters(doc) \union OptionalParameters(doc)
<1> DEFINE declared == RequiredParameters(doc) \union OptionalParameters(doc)
<1>1. ASSUME NEW p \in Pools(doc) PROVE PoolParameters(doc, p) \subseteq declared
  <2>1. PoolParameters(doc, p) \subseteq RequiredOfPool(doc, p) \union OptionalOfPool(doc, p)
    BY DEF RequiredOfPool, OptionalOfPool, PoolParameters, Of, When
  <2> QED
    BY <2>1 DEF RequiredParameters, OptionalParameters
<1>2. Of("cluster", GivenOfCluster(doc)) \subseteq declared
  <2>1. GivenOfCluster(doc) \subseteq RequiredOfCluster(doc) \union OptionalOfCluster
    BY DEF RequiredOfCluster, OptionalOfCluster, GivenOfCluster, When
  <2>2. Of("cluster", GivenOfCluster(doc)) \subseteq
          Of("cluster", RequiredOfCluster(doc)) \union Of("cluster", OptionalOfCluster)
    BY <2>1 DEF Of
  <2> QED
    BY <2>2 DEF RequiredParameters, OptionalParameters
<1>3. Of("master", GivenOfMasters(doc)) \subseteq declared
  <2>1. GivenOfMasters(doc) \subseteq RequiredOfMasters(doc) \union OptionalOfMasters(doc)
    BY DEF RequiredOfMasters, OptionalOfMasters, GivenOfMasters, When
  <2>2. Of("master", GivenOfMasters(doc)) \subseteq
          Of("master", RequiredOfMasters(doc)) \union Of("master", OptionalOfMasters(doc))
    BY <2>1 DEF Of
  <2> QED
    BY <2>2 DEF RequiredParameters, OptionalParameters
<1>4. Of("windows", GivenOfWindows(doc)) \subseteq declared
  <2>1. GivenOfWindows(doc) \subseteq RequiredOfWindows(doc) \union OptionalOfWindows(doc)
    BY DEF RequiredOfWindows, OptionalOfWindows, GivenOfWindows, When
  <2>2. Of("windows", GivenOfWindows(doc)) \subseteq
          Of("windows", RequiredOfWindows(doc)) \union Of("windows", OptionalOfWindows(doc))
    BY <2>1 DEF Of
  <2> QED
    BY <2>2 DEF RequiredParameters, OptionalParameters
<1>5. Of("registry", When(doc.orchestrator.registry, {"Name", "Key"})) \subseteq declared
  <2>1. CASE doc.orchestrator.registry
    <3>1. PICK p : p \in Pools(doc)
      BY <2>1
    <3>2. Of("registry", When(doc.orchestrator.registry, {"Name", "Key"})) \subseteq RequiredOfPool(doc, p)
      BY DEF RequiredOfPool
    <3> QED
      BY <3>1, <3>2 DEF RequiredParameters
  <2>2. CASE ~ doc.orchestrator.registry
    BY <2>2 DEF Of, When
  <2> QED
    BY <2>1, <2>2
<1>6. /\ Of("bootstrap", {"StaticIP", "VMSize"}) \subseteq declared
      /\ Of("Parameters", doc.profiles) \subseteq declared
  BY DEF RequiredParameters
<1> HIDE DEF declared
<1>7. getParameters(doc) \subseteq declared
  BY <1>1, <1>2, <1>3, <1>4, <1>5, <1>6 DEF getParameters
<1> QED
  BY <1>7 DEF declared

\* An undeclared parameter refuses the template.
LEMMA ParametersUndeclared ==
  ASSUME NEW doc, getParameters(doc) \subseteq RequiredParameters(doc) \union OptionalParameters(doc)
  PROVE  /\ ~ doc.linux.searchDomain
         /\ ~ doc.linux.nodesDNS
         /\ doc.orchestrator.registry => Pools(doc) # {}
<1>1. ASSUME NEW p, NEW a \in {"searchDomain", "dnsServer"}
      PROVE  <<"cluster", a>> \notin RequiredOfPool(doc, p) \union OptionalOfPool(doc, p)
  BY <1>1, IsOf DEF RequiredOfPool, OptionalOfPool, When
<1>2. ASSUME NEW a \in {"searchDomain", "dnsServer"}
      PROVE  a \notin RequiredOfCluster(doc) \union OptionalOfCluster
  BY <1>2 DEF RequiredOfCluster, OptionalOfCluster, When
<1>3. ASSUME NEW a \in {"searchDomain", "dnsServer"}
      PROVE  <<"cluster", a>> \notin RequiredParameters(doc) \union OptionalParameters(doc)
  BY <1>1, <1>2, IsOf DEF RequiredParameters, OptionalParameters
<1>4. Pools(doc) = {} =>
        <<"registry", "Name">> \notin RequiredParameters(doc) \union OptionalParameters(doc)
  BY IsOf DEF RequiredParameters, OptionalParameters
<1>5. /\ doc.linux.searchDomain => <<"cluster", "searchDomain">> \in getParameters(doc)
      /\ doc.linux.nodesDNS => <<"cluster", "dnsServer">> \in getParameters(doc)
  <2>1. /\ doc.linux.searchDomain => "searchDomain" \in GivenOfCluster(doc)
        /\ doc.linux.nodesDNS => "dnsServer" \in GivenOfCluster(doc)
    BY DEF GivenOfCluster, When
  <2> QED
    BY <2>1, IsOf DEF getParameters
<1>6. doc.orchestrator.registry => <<"registry", "Name">> \in getParameters(doc)
  BY IsOf DEF getParameters, When
<1> QED
  BY <1>3, <1>4, <1>5, <1>6

\* A document has what its variables need.
VariablesFit(doc) ==
  /\ HasManagedDisks(doc)
  /\ \A p \in Pools(doc) :
       /\ ~ (doc.windows.secrets /\ p.windows /\ p.vmss)
       /\ ~ (doc.master.customVNET /\ ~ p.vmss /\ p.storageAccount)

LEMMA VariablesDefined ==
  ASSUME NEW doc, VariablesFit(doc)
  PROVE  UsedVariables(doc) \subseteq DefinedVariables(doc)
<1>1. ASSUME NEW p \in Pools(doc) PROVE UsedByPool(doc, p) \subseteq DefinedVariables(doc)
  <2>1. Of(p.name, UsedOfPool(p)) \subseteq DefinedOfPool(doc, p)
    BY DEF VariablesFit, DefinedOfPool, UsedOfPool, getDataDisks, Of, When
  <2>2. DefinedOfPool(doc, p) \subseteq DefinedVariables(doc)
    BY DEF DefinedVariables
  <2>3. UsedOfCluster(doc, p) \subseteq DefinedOfCluster(doc)
    BY DEF VariablesFit, UsedOfCluster, DefinedOfCluster, HasStorageAccountDisks, When
  <2>4. Of("cluster", UsedOfCluster(doc, p)) \subseteq DefinedVariables(doc)
    BY <2>3, Subset DEF DefinedVariables
  <2>5. When(p.windows, {"VMName", "StaticIP"}) \subseteq When(HasWindows(doc), {"VMName", "StaticIP"})
    BY DEF HasWindows, When
  <2>6. Of("bootstrapwin", When(p.windows, {"VMName", "StaticIP"})) \subseteq DefinedVariables(doc)
    BY <2>5, Subset DEF DefinedVariables
  <2> QED
    BY <2>1, <2>2, <2>4, <2>6 DEF UsedByPool
<1>2. Of("cluster", UsedByMasters(doc)) \subseteq DefinedVariables(doc)
  <2>1. UsedByMasters(doc) \subseteq DefinedOfCluster(doc)
    BY DEF VariablesFit, UsedByMasters, DefinedOfCluster, When
  <2> QED
    BY <2>1, Subset DEF DefinedVariables
<1>3. Of("master", When(doc.master.storageAccount, {"StorageAccountName"}))
      \subseteq DefinedVariables(doc)
  BY DEF DefinedVariables
<1> QED
  BY <1>1, <1>2, <1>3 DEF UsedVariables

LEMMA VariablesUndefined ==
  ASSUME NEW doc, UsedVariables(doc) \subseteq DefinedVariables(doc)
  PROVE  VariablesFit(doc)
<1>1. ASSUME NEW p, NEW owner
      PROVE  /\ <<owner, "apiVersionStorageManagedDisks">> \notin DefinedOfPool(doc, p)
             /\ <<owner, "windowsProfileSecrets">> \notin DefinedOfPool(doc, p)
             /\ <<owner, "SubnetName">> \in DefinedOfPool(doc, p) => ~ doc.master.customVNET
  BY IsOf DEF DefinedOfPool, When
<1>2. /\ "apiVersionStorageManagedDisks" \in DefinedOfCluster(doc) => HasManagedDisks(doc)
      /\ "windowsProfileSecrets" \notin DefinedOfCluster(doc)
      /\ "SubnetName" \notin DefinedOfCluster(doc)
  BY DEF DefinedOfCluster, When
<1>3. ASSUME NEW a, NEW owner, a \notin {"StorageAccountName", "VMName", "StaticIP"},
             <<owner, a>> \in DefinedVariables(doc)
      PROVE  \/ \E p \in Pools(doc) : <<owner, a>> \in DefinedOfPool(doc, p)
             \/ a \in DefinedOfCluster(doc)
  BY <1>3, IsOf DEF DefinedVariables, When
<1>4. HasManagedDisks(doc)
  <2>1. "apiVersionStorageManagedDisks" \in UsedByMasters(doc)
    BY DEF UsedByMasters
  <2>2. <<"cluster", "apiVersionStorageManagedDisks">> \in DefinedVariables(doc)
    BY <2>1, IsOf DEF UsedVariables
  <2> QED
    BY <1>1, <1>2, <1>3, <2>2
<1>5. ASSUME NEW p \in Pools(doc), doc.windows.secrets, p.windows, p.vmss PROVE FALSE
  <2>1. "windowsProfileSecrets" \in UsedOfCluster(doc, p)
    BY <1>5 DEF UsedOfCluster, When
  <2>2. <<"cluster", "windowsProfileSecrets">> \in UsedByPool(doc, p)
    BY <2>1, IsOf DEF UsedByPool
  <2>3. <<"cluster", "windowsProfileSecrets">> \in DefinedVariables(doc)
    BY <2>2 DEF UsedVariables
  <2> QED
    BY <1>1, <1>2, <1>3, <2>3
<1>6. ASSUME NEW p \in Pools(doc), doc.master.customVNET, ~ p.vmss, p.storageAccount PROVE FALSE
  <2>1. "SubnetName" \in UsedOfPool(p)
    BY <1>6 DEF UsedOfPool, When
  <2>2. <<p.name, "SubnetName">> \in UsedByPool(doc, p)
    BY <2>1, IsOf DEF UsedByPool
  <2>3. <<p.name, "SubnetName">> \in DefinedVariables(doc)
    BY <2>2 DEF UsedVariables
  <2> QED
    BY <1>1, <1>2, <1>3, <1>6, <2>3
<1> QED
  BY <1>4, <1>5, <1>6 DEF VariablesFit

\* Sizes: what KnownCause says of them.
SizesKnown(doc) ==
  LET bootstrap == {doc.orchestrator.linux.size}
                   \union When(HasWindows(doc), {doc.orchestrator.windows.size})
      nodes == bootstrap \union {doc.master.size} \union {p.size : p \in Pools(doc)}
  IN /\ "unlisted" \notin nodes
     /\ doc.classic \/ "small" \notin bootstrap \union {doc.master.size}

LEMMA SizesOf ==
  ASSUME NEW doc \in DocType
  PROVE  /\ doc.master.size \in Sizes
         /\ doc.orchestrator.linux.size \in Sizes
         /\ doc.orchestrator.windows.size \in Sizes
         /\ \A p \in Pools(doc) : p.size \in Sizes
<1>1. /\ doc.pools \in Seq(AgentPoolProfile)
      /\ doc.master \in MasterProfile
      /\ doc.orchestrator \in OrchestratorProfile
  BY DEF DocType
<1>2. \A p \in Pools(doc) : p \in AgentPoolProfile
  BY <1>1 DEF Pools
<1> QED
  BY <1>1, <1>2 DEF AgentPoolProfile, MasterProfile, OrchestratorProfile, BootstrapProfile

LEMMA SizesRefused ==
  ASSUME NEW doc \in DocType
  PROVE  SizesAllowed(doc) <=> SizesKnown(doc)
<1> USE SizesOf
<1> USE DEF Sizes, SizesAllowed, SizesKnown, GetMasterAllowedSizes, GetAgentAllowedSizes, GetSizeMap,
            GetClassicAllowedSizes, GetDCOSMasterAllowedSizes, GetMasterAgentAllowedSizes,
            MappedSizes, ClassicMappedSizes, When
<1>1. CASE HasWindows(doc)
  BY <1>1
<1>2. CASE ~ HasWindows(doc)
  BY <1>2
<1> QED
  BY <1>1, <1>2

\* Names: each resource has that of its owner, and pools have theirs.
NamesKnown(doc) ==
  \A p \in Pools(doc) :
    /\ p.name \notin {"master", "bootstrap"}
    /\ HasWindows(doc) => p.name # "bootstrapwin"

LEMMA NamesRefused ==
  ASSUME NEW doc, NEW calls
  PROVE  NamedOnce(doc, calls) <=> calls # TemplateCalls /\ NamesKnown(doc)
<1>1. ASSUME NamedOnce(doc, calls) PROVE calls # TemplateCalls /\ NamesKnown(doc)
  <2>1. calls # TemplateCalls
    BY <1>1 DEF NamedOnce
  <2> QED
    BY <1>1, <2>1, NamesFree DEF NamesKnown
<1>2. ASSUME calls # TemplateCalls, NamesKnown(doc) PROVE NamedOnce(doc, calls)
  <2>1. ASSUME NEW r \in AllPoolResources(doc)
        PROVE  r.id[1] \notin {"master", "bootstrap"} /\ (HasWindows(doc) => r.id[1] # "bootstrapwin")
    <3>1. PICK p \in Pools(doc) : r \in PoolResources(doc, p)
      BY <2>1 DEF AllPoolResources
    <3>2. r.id[1] = p.name
      BY <3>1, PoolOwns
    <3> QED
      BY <1>2, <3>2 DEF NamesKnown
  <2>2. ASSUME NEW r \in MasterResources(doc) PROVE r.id[1] = "master"
    BY MastersOwn
  <2>3. ASSUME NEW r \in BootstrapResources(doc) PROVE r.id[1] = "bootstrap"
    <3>1. PICK image : r \in BootstrapNode(doc, "bootstrap", doc.orchestrator.linux.publicIP, image)
      BY <2>3 DEF BootstrapResources
    <3> QED
      BY <3>1, BootstrapOwns
  <2>4. ASSUME NEW r \in BootstrapWinResources(doc) PROVE HasWindows(doc) /\ r.id[1] = "bootstrapwin"
    <3>1. /\ HasWindows(doc)
          /\ r \in BootstrapNode(doc, "bootstrapwin", doc.orchestrator.windows.publicIP,
                                 doc.windows.image)
      BY <2>4 DEF BootstrapWinResources, When
    <3> QED
      BY <3>1, BootstrapOwns
  <2>5. ASSUME NEW id \in Ids(MasterResources(doc) \union BootstrapResources(doc)
                              \union BootstrapWinResources(doc)),
               id \in Ids(AllPoolResources(doc))
        PROVE  FALSE
    BY <2>1, <2>2, <2>3, <2>4, <2>5 DEF Ids
  <2> QED
    BY <1>2, <2>5 DEF NamedOnce
<1> QED
  BY <1>1, <1>2

\* Dependencies: none is missing from any template.
LEMMA HaveMasters ==
  ASSUME NEW doc
  PROVE  LET ids == Ids(MasterResources(doc)) IN
         /\ {Master("avset"), Master("exhibitor"), Master("ip"), Master("lb"), Master("nat"),
             Master("nsg"), Master("nic"), Master("vm"), Master("leader")} \subseteq ids
         /\ MasterStorage(doc) \subseteq ids
         /\ VNET(doc) \subseteq ids
<1> DEFINE M == MasterResources(doc)
<1>1. /\ Resource(Master("avset"), {}, {}) \in M
      /\ Resource(Master("exhibitor"), {Master("ip")}, {}) \in M
      /\ Resource(Master("ip"), {}, {}) \in M
      /\ Resource(Master("lb"), {Master("ip")}, {Master("ip")}) \in M
      /\ Resource(Master("nat"), {Master("lb")}, {Master("lb")}) \in M
      /\ Resource(Master("nsg"), {}, {}) \in M
      /\ Resource(Master("nic"), MasterNIC(doc), MasterNIC(doc)) \in M
      /\ MasterVM(doc) \in M
      /\ Resource(Master("leader"), {Master("vm")}, {Master("vm")}) \in M
  BY DEF MasterResources
<1>2. doc.master.storageAccount => Resource(Master("storage"), {Master("ip")}, {}) \in M
  BY DEF MasterResources, When
<1>3. ~ doc.master.customVNET =>
        Resource(Master("vnet"), getVNETSubnetDependencies(doc), getVNETSubnets(doc)) \in M
  BY DEF MasterResources, When
<1> HIDE DEF M
<1>4. \A id, d, n : Resource(id, d, n) \in M => id \in Ids(M)
  BY DEF Ids, Resource
<1>5. MasterVM(doc).id = Master("vm")
  BY DEF MasterVM, Resource
<1>6. Master("vm") \in Ids(M)
  BY <1>1, <1>5 DEF Ids
<1>7. /\ MasterStorage(doc) \subseteq Ids(M)
      /\ VNET(doc) \subseteq Ids(M)
  BY <1>2, <1>3, <1>4 DEF MasterStorage, VNET, When
<1> QED
  BY <1>1, <1>4, <1>6, <1>7 DEF M

LEMMA HaveBootstrap ==
  ASSUME NEW doc, NEW owner, NEW publicIP, NEW image
  PROVE  LET ids == Ids(BootstrapNode(doc, owner, publicIP, image)) IN
         /\ {<<owner, "nsg">>, <<owner, "nic">>, <<owner, "vm">>, <<owner, "ready">>} \subseteq ids
         /\ publicIP => <<owner, "ip">> \in ids
         /\ image => <<owner, "image">> \in ids
<1> DEFINE B == BootstrapNode(doc, owner, publicIP, image)
<1>1. /\ \E d, n : Resource(<<owner, "nsg">>, d, n) \in B
      /\ \E d, n : Resource(<<owner, "nic">>, d, n) \in B
      /\ \E d, n : Resource(<<owner, "vm">>, d, n) \in B
      /\ \E d, n : Resource(<<owner, "ready">>, d, n) \in B
  BY DEF BootstrapNode
<1>2. /\ publicIP => Resource(<<owner, "ip">>, {}, {}) \in B
      /\ image => Resource(<<owner, "image">>, {}, {}) \in B
  BY DEF BootstrapNode, When
<1> HIDE DEF B
<1>3. \A id, d, n : Resource(id, d, n) \in B => id \in Ids(B)
  BY DEF Ids, Resource
<1> QED
  BY <1>1, <1>2, <1>3 DEF B

LEMMA HavePool ==
  ASSUME NEW doc, NEW p
  PROVE  LET ids == Ids(PoolResources(doc, p)) IN
         /\ {<<p.name, "nsg">>, <<p.name, NodeKind(p)>>} \subseteq ids
         /\ PoolDisks(doc, p) \subseteq ids
         /\ IsPublic(p) => {<<p.name, "ip">>, <<p.name, "lb">>} \subseteq ids
         /\ ~ p.vmss => {<<p.name, "nic">>, <<p.name, "avset">>} \subseteq ids
<1> DEFINE P == PoolResources(doc, p)
<1>1. /\ Resource(<<p.name, "nsg">>, {}, {}) \in P
      /\ PoolNode(doc, p) \in P
      /\ \A disk \in PoolDisks(doc, p) : Resource(disk, {Master("ip")}, {}) \in P
  BY DEF PoolResources
<1>2. IsPublic(p) => /\ Resource(<<p.name, "ip">>, {}, {}) \in P
                     /\ Resource(<<p.name, "lb">>, {<<p.name, "ip">>}, {<<p.name, "ip">>}) \in P
  BY DEF PoolResources, When
<1>3. ~ p.vmss =>
        /\ Resource(<<p.name, "nic">>, PoolNetwork(doc, p), PoolNetwork(doc, p)) \in P
        /\ Resource(<<p.name, "avset">>, {}, {}) \in P
  BY DEF PoolResources, When
<1> HIDE DEF P
<1>4. \A id, d, n : Resource(id, d, n) \in P => id \in Ids(P)
  BY DEF Ids, Resource
<1>5. PoolNode(doc, p).id = <<p.name, NodeKind(p)>>
  BY DEF PoolNode, Resource
<1>6. <<p.name, NodeKind(p)>> \in Ids(P)
  BY <1>1, <1>5 DEF Ids
<1> QED
  BY <1>1, <1>2, <1>3, <1>4, <1>6 DEF P

LEMMA MastersDepend ==
  ASSUME NEW doc, NEW r \in MasterResources(doc)
  PROVE  \A id \in r.dependsOn :
           \/ id \in Ids(MasterResources(doc))
           \/ id = <<"bootstrap", "ready">>
           \/ \E p \in Pools(doc) : id = <<p.name, "nsg">>
<1> DEFINE ids == Ids(MasterResources(doc))
<1>1. /\ {Master("avset"), Master("exhibitor"), Master("ip"), Master("lb"), Master("nat"),
          Master("nsg"), Master("nic"), Master("vm"), Master("leader")} \subseteq ids
      /\ MasterStorage(doc) \subseteq ids
      /\ VNET(doc) \subseteq ids
  BY HaveMasters
<1> HIDE DEF ids
<1>2. MasterNIC(doc) \subseteq ids /\ MasterDisks(doc) \subseteq ids
  BY <1>1 DEF MasterNIC, MasterDisks
<1>3. \A id \in getVNETSubnetDependencies(doc) : \E p \in Pools(doc) : id = <<p.name, "nsg">>
  BY DEF getVNETSubnetDependencies
<1>4. \A id \in r.dependsOn : \/ id \in ids
                              \/ id = <<"bootstrap", "ready">>
                              \/ id \in getVNETSubnetDependencies(doc)
  BY <1>1, <1>2 DEF MasterResources, MasterVM, Resource, When
<1> QED
  BY <1>3, <1>4 DEF ids

LEMMA BootstrapDepends ==
  ASSUME NEW doc, NEW owner, NEW publicIP, NEW image,
         NEW r \in BootstrapNode(doc, owner, publicIP, image)
  PROVE  r.dependsOn \subseteq Ids(BootstrapNode(doc, owner, publicIP, image))
                              \union Ids(MasterResources(doc))
<1> DEFINE own == Ids(BootstrapNode(doc, owner, publicIP, image))
           ids == Ids(MasterResources(doc))
<1>1. /\ {<<owner, "nsg">>, <<owner, "nic">>, <<owner, "vm">>} \subseteq own
      /\ publicIP => <<owner, "ip">> \in own
  BY HaveBootstrap
<1>2. Master("exhibitor") \in ids /\ MasterStorage(doc) \subseteq ids /\ VNET(doc) \subseteq ids
  BY HaveMasters
<1> HIDE DEF own, ids
<1>3. \A id \in r.dependsOn :
        \/ id \in {<<owner, "nsg">>, <<owner, "nic">>, <<owner, "vm">>, Master("exhibitor")}
        \/ publicIP /\ id = <<owner, "ip">>
        \/ id \in VNET(doc) \union MasterStorage(doc)
  BY DEF BootstrapNode, Resource, When
<1>4. r.dependsOn \subseteq own \union ids
  BY <1>1, <1>2, <1>3
<1> QED
  BY <1>4 DEF own, ids

LEMMA PoolDepends ==
  ASSUME NEW doc, NEW p, NEW r \in PoolResources(doc, p)
  PROVE  \A id \in r.dependsOn :
           \/ id \in Ids(PoolResources(doc, p)) \union Ids(MasterResources(doc))
           \/ id = BootstrapReady(p)
<1> DEFINE own == Ids(PoolResources(doc, p))
           ids == Ids(MasterResources(doc))
<1>1. /\ {<<p.name, "nsg">>, <<p.name, NodeKind(p)>>} \subseteq own
      /\ PoolDisks(doc, p) \subseteq own
      /\ IsPublic(p) => {<<p.name, "ip">>, <<p.name, "lb">>} \subseteq own
      /\ ~ p.vmss => {<<p.name, "nic">>, <<p.name, "avset">>} \subseteq own
  BY HavePool
<1>2. Master("ip") \in ids /\ (~ doc.master.customVNET => Master("vnet") \in ids)
  BY HaveMasters DEF VNET, When
<1> HIDE DEF own, ids
<1>3. PoolNetwork(doc, p) \subseteq own \union ids
  BY <1>1, <1>2 DEF PoolNetwork, When
<1>4. \A id \in PoolNode(doc, p).dependsOn : id \in own \union ids \/ id = BootstrapReady(p)
  BY <1>1, <1>3 DEF PoolNode, Resource
<1>5. ~ p.vmss => <<p.name, "vm">> \in own
  BY <1>1 DEF NodeKind
<1>6. \A id \in r.dependsOn : id \in own \union ids \/ id = BootstrapReady(p)
  <2>1. CASE r = PoolNode(doc, p)
    BY <1>4, <2>1
  <2>2. CASE r # PoolNode(doc, p)
    BY <1>1, <1>2, <1>3, <1>5, <2>2 DEF PoolResources, Resource, When
  <2> QED
    BY <2>1, <2>2
<1> QED
  BY <1>6 DEF own, ids

LEMMA NoneMissing ==
  ASSUME NEW doc, NEW calls
  PROVE  DependenciesExist(doc, calls)
<1> DEFINE all == Ids(Resources(doc, calls))
<1>1. /\ Ids(MasterResources(doc)) \subseteq all
      /\ Ids(BootstrapResources(doc)) \subseteq all
      /\ Ids(BootstrapWinResources(doc)) \subseteq all
      /\ Ids(AllPoolResources(doc)) \subseteq all
  BY DEF Ids, Resources
<1>2. ASSUME NEW p \in Pools(doc) PROVE Ids(PoolResources(doc, p)) \subseteq all
  <2>1. PoolResources(doc, p) \subseteq AllPoolResources(doc)
    BY DEF AllPoolResources
  <2>2. Ids(PoolResources(doc, p)) \subseteq Ids(AllPoolResources(doc))
    BY <2>1 DEF Ids
  <2> QED
    BY <1>1, <2>2
<1>3. PICK image : BootstrapResources(doc) =
                     BootstrapNode(doc, "bootstrap", doc.orchestrator.linux.publicIP, image)
  BY DEF BootstrapResources
<1>4. HasWindows(doc) =>
        BootstrapWinResources(doc) =
          BootstrapNode(doc, "bootstrapwin", doc.orchestrator.windows.publicIP, doc.windows.image)
  BY DEF BootstrapWinResources, When
<1>5. /\ <<"bootstrap", "ready">> \in all
      /\ HasWindows(doc) => <<"bootstrapwin", "ready">> \in all
  BY <1>1, <1>3, <1>4, HaveBootstrap
<1>6. \A p \in Pools(doc) : <<p.name, "nsg">> \in all
  BY <1>2, HavePool
<1>7. Master("leader") \in all
  BY <1>1, HaveMasters
<1> HIDE DEF all
<1>8. ASSUME NEW r \in MasterResources(doc) PROVE r.dependsOn \subseteq all
  BY <1>1, <1>5, <1>6, MastersDepend
<1>9. ASSUME NEW r \in BootstrapResources(doc) PROVE r.dependsOn \subseteq all
  BY <1>1, <1>3, BootstrapDepends
<1>10. ASSUME NEW r \in BootstrapWinResources(doc) PROVE r.dependsOn \subseteq all
  <2>1. HasWindows(doc)
    BY <1>10 DEF BootstrapWinResources, When
  <2> QED
    BY <1>1, <1>4, <2>1, BootstrapDepends
<1>11. ASSUME NEW r \in AllPoolResources(doc) PROVE r.dependsOn \subseteq all
  <2>1. PICK p \in Pools(doc) : r \in PoolResources(doc, p)
    BY <1>11 DEF AllPoolResources
  <2>2. BootstrapReady(p) \in all
    BY <1>5 DEF BootstrapReady, HasWindows
  <2> QED
    BY <1>1, <1>2, <2>1, <2>2, PoolDepends
<1>12. ASSUME NEW r \in ExtensionResources(doc, calls) PROVE r.dependsOn \subseteq all
  BY <1>7, <1>12 DEF ExtensionResources, Resource, When
<1> QED
  BY <1>8, <1>9, <1>10, <1>11, <1>12 DEF DependenciesExist, Resources, all

\* Together: the causes listed in KnownCause are all there are.
LEMMA AcceptedUnlessKnown ==
  ASSUME cs \in DocType
  PROVE  Accepted(cs, linked) <=> ~ KnownCause
<1>1. SizesAllowed(cs) <=>
        ~ ("unlisted" \in NodeSizes \/ (~ cs.classic /\ "small" \in BootstrapSizes \union {cs.master.size}))
  BY SizesRefused DEF SizesKnown, NodeSizes, BootstrapSizes
<1>2. (UsedVariables(cs) \subseteq DefinedVariables(cs)) <=> VariablesFit(cs)
  BY VariablesDefined, VariablesUndefined
<1>3. (getParameters(cs) \subseteq RequiredParameters(cs) \union OptionalParameters(cs)) <=>
        ~ cs.linux.searchDomain /\ ~ cs.linux.nodesDNS /\ (cs.orchestrator.registry => Pools(cs) # {})
  BY ParametersDeclared, ParametersUndeclared
<1>4. Pools(cs) = {} <=> cs.pools = <<>>
  <2>1. cs.pools \in Seq(AgentPoolProfile)
    BY DEF DocType
  <2>2. CASE cs.pools = <<>>
    BY <2>2 DEF Pools
  <2>3. CASE cs.pools # <<>>
    <3>1. 1 \in DOMAIN cs.pools
      BY <2>1, <2>3
    <3> QED
      BY <2>3, <3>1 DEF Pools
  <2> QED
    BY <2>2, <2>3
<1>5. NamedOnce(cs, linked) <=> linked # TemplateCalls /\ NamesKnown(cs)
  BY NamesRefused
<1>6. RequiredParameters(cs) \subseteq getParameters(cs) /\ DependenciesExist(cs, linked)
  BY ParametersGiven, NoneMissing
<1>7. Accepted(cs, linked) <=>
        /\ ~ cs.linux.searchDomain /\ ~ cs.linux.nodesDNS
        /\ cs.orchestrator.registry => cs.pools # <<>>
        /\ VariablesFit(cs)
        /\ ~ ("unlisted" \in NodeSizes \/ (~ cs.classic /\ "small" \in BootstrapSizes \union {cs.master.size}))
        /\ WellFormed(cs)
        /\ linked # TemplateCalls
        /\ NamesKnown(cs)
  BY <1>1, <1>2, <1>3, <1>4, <1>5, <1>6 DEF Accepted
<1>8. ~ WellFormed(cs) <=> \E p \in Pools(cs) : ~ p.vmss /\ ~ p.windows
  BY DEF WellFormed
<1>9. ~ VariablesFit(cs) <=>
        \/ ~ HasManagedDisks(cs)
        \/ cs.windows.secrets /\ \E p \in Pools(cs) : p.windows /\ p.vmss
        \/ cs.master.customVNET /\ \E p \in Pools(cs) : ~ p.vmss /\ p.storageAccount
  BY DEF VariablesFit
<1>10. ~ NamesKnown(cs) <=>
         \E p \in Pools(cs) :
           \/ p.name \in {"master", "bootstrap"}
           \/ p.name = "bootstrapwin" /\ HasWindows(cs)
  BY DEF NamesKnown
<1>11. KnownCause <=>
         \/ ~ WellFormed(cs)
         \/ cs.linux.searchDomain \/ cs.linux.nodesDNS
         \/ cs.orchestrator.registry /\ cs.pools = <<>>
         \/ "unlisted" \in NodeSizes
         \/ ~ cs.classic /\ "small" \in BootstrapSizes \union {cs.master.size}
         \/ ~ VariablesFit(cs)
         \/ ~ NamesKnown(cs)
         \/ linked = TemplateCalls
  BY <1>8, <1>9, <1>10, Zenon DEF KnownCause
<1> QED
  BY <1>7, <1>11, Zenon

(***************************************************************************)
(* The inductive invariant: what the template is, and that what exists     *)
(* had everything it waits for.                                            *)
(***************************************************************************)
InHand == {"deploying", "stopped", "deployed"}

Written ==
  /\ cs \in Docs
  /\ phase \in Phases
  /\ linked \subseteq TemplateCalls
  /\ template = IF phase \in {"asked", "failed"} THEN {} ELSE Resources(cs, linked)
  /\ created \subseteq template
  /\ phase \in InHand => Accepted(cs, linked)
  /\ phase \notin InHand => created = {}
  /\ phase = "refused" => ~ Accepted(cs, linked)
  /\ phase = "deployed" => created = template

Closed == \A r \in created : r.dependsOn \subseteq Ids(created)

IInv == Written /\ Closed

LEMMA Initially == Init => IInv
BY DEF Init, IInv, Written, Closed, InHand, Phases

LEMMA Linked ==
  ASSUME NEW doc, NEW answered \in Answered
  PROVE  getLinkedTemplatesForExtensions(doc, answered) \subseteq TemplateCalls
BY DEF getLinkedTemplatesForExtensions, Answered

LEMMA Inductive == IInv /\ [Next]_vars => IInv'
<1> SUFFICES ASSUME IInv, [Next]_vars PROVE IInv'
  OBVIOUS
<1> USE DEF IInv, Written, Closed, InHand, Phases
<1>1. CASE GenerateTemplate
  BY <1>1, Linked DEF GenerateTemplate
<1>2. CASE Submit
  BY <1>2 DEF Submit
<1>3. ASSUME NEW r \in template, Create(r) PROVE IInv'
  <2>1. Ids(created) \subseteq Ids(created')
    BY <1>3 DEF Create, Ids
  <2>2. Closed'
    BY <1>3, <2>1 DEF Create
  <2> QED
    BY <1>3, <2>2 DEF Create
<1>4. CASE Stop
  BY <1>4 DEF Stop
<1>5. CASE Finish
  BY <1>5 DEF Finish
<1>6. CASE UNCHANGED vars
  BY <1>6 DEF vars
<1> QED
  BY <1>1, <1>2, <1>3, <1>4, <1>5, <1>6 DEF Next

THEOREM Invariant == Spec => []IInv
BY Initially, Inductive, PTL DEF Spec

(***************************************************************************)
(* What follows from it.                                                   *)
(***************************************************************************)
LEMMA DocsValid ==
  ASSUME NEW doc \in Docs
  PROVE  doc \in DocType /\ ValidDoc(doc)
BY DocsAssumption

LEMMA TypeFollows == IInv => TypeOK
BY DocsValid DEF IInv, Written, TypeOK

LEMMA ReferencesFollow == IInv => ReferencesExist
<1> SUFFICES ASSUME IInv, NEW r \in created, NEW named \in r.refersTo, named[2] # "image"
             PROVE  named \in Ids(created)
  BY DEF ReferencesExist
<1>1. r \in Resources(cs, linked)
  BY DEF IInv, Written
<1>2. named \in r.dependsOn
  BY <1>1, ResourcesWait DEF Waits
<1> QED
  BY <1>2 DEF IInv, Closed

LEMMA NodesFollow == IInv => NodesAfterBootstrap
<1> SUFFICES ASSUME IInv PROVE NodesAfterBootstrap
  OBVIOUS
<1>1. ASSUME NEW r \in created
      PROVE  /\ r \in Resources(cs, linked)
             /\ NamedOnce(cs, linked)
             /\ ValidDoc(cs)
             /\ r.dependsOn \subseteq Ids(created)
  BY DocsValid DEF IInv, Written, Closed, InHand, Accepted
<1>2. \A id \in Ids(created) : \E r \in created : r.id = id
  BY DEF Ids
<1>3. Master("vm") \in Ids(created) => <<"bootstrap", "ready">> \in Ids(created)
  BY <1>1, <1>2, NodesWait
<1>4. ASSUME NEW p \in Pools(cs), <<p.name, NodeKind(p)>> \in Ids(created)
      PROVE  BootstrapReady(p) \in Ids(created)
  BY <1>1, <1>2, <1>4, NodesWait
<1>5. ASSUME NEW x \in Extensions, <<x, "deployment">> \in Ids(created)
      PROVE  Master("leader") \in Ids(created)
  <2>1. PICK r \in created : r.id = <<x, "deployment">>
    BY <1>2, <1>5
  <2>2. r.id[2] = "deployment"
    BY <2>1
  <2> QED
    BY <1>1, <2>2, NodesWait
<1> QED
  BY <1>3, <1>4, <1>5 DEF NodesAfterBootstrap

LEMMA PublicFollows == IInv => PublicAgents
<1> SUFFICES ASSUME IInv, phase = "deployed", NEW p \in Pools(cs)
             PROVE
               LET public == <<p.name, "ip">> \in Ids(created) IN
               /\ CustomData(cs, p).role = "slave_public" <=> public
               /\ CustomData(cs, p).roleFile = CustomData(cs, p).role
               /\ "public_ip" \in CustomData(cs, p).attributes <=> public
               /\ \A rule \in getLBRules(p) :
                    /\ rule.probe \in getProbes(p)
                    /\ \E allow \in getSecurityRules(p) : allow.port = rule.back
               /\ \A a, b \in getSecurityRules(p) : a.priority = b.priority => a = b
  BY DEF PublicAgents
<1>1. created = Resources(cs, linked) /\ NamedOnce(cs, linked) /\ cs \in DocType /\ ValidDoc(cs)
  BY DocsValid DEF IInv, Written, InHand, Accepted
<1>2. <<p.name, "ip">> \in Ids(created) <=> IsPublic(p)
  <2>1. ASSUME <<p.name, "ip">> \in Ids(created) PROVE IsPublic(p)
    BY <1>1, <2>1, NodesWait DEF Ids
  <2>2. ASSUME IsPublic(p) PROVE <<p.name, "ip">> \in Ids(created)
    <3>1. Resource(<<p.name, "ip">>, {}, {}) \in PoolResources(cs, p)
      BY <2>2 DEF PoolResources, When
    <3>2. Resource(<<p.name, "ip">>, {}, {}) \in created
      BY <1>1, <3>1 DEF Resources, AllPoolResources
    <3> QED
      BY <3>2 DEF Ids, Resource
  <2> QED
    BY <2>1, <2>2
<1>3. /\ CustomData(cs, p).role = "slave_public" <=> IsPublic(p)
      /\ CustomData(cs, p).roleFile = CustomData(cs, p).role
      /\ "public_ip" \in CustomData(cs, p).attributes <=> IsPublic(p)
  BY DEF CustomData, GetDCOSAgentCustomData, GetDCOSWindowsAgentCustomData, When,
         getDCOSAgentProvisionScript, getDCOSAgentCustomNodeLabels,
         getDCOSWindowsAgentCustomAttributes
<1>4. ASSUME NEW rule \in getLBRules(p)
      PROVE  /\ rule.probe \in getProbes(p)
             /\ \E allow \in getSecurityRules(p) : allow.port = rule.back
  <2>1. PICK i \in DOMAIN p.ports : rule.probe = p.ports[i] /\ rule.back = p.ports[i]
    BY <1>4 DEF getLBRules
  <2>2. getSecurityRule(p.ports[i], i - 1) \in getSecurityRules(p)
    BY DEF getSecurityRules
  <2> QED
    BY <2>1, <2>2 DEF getProbes, getSecurityRule
<1>5. ASSUME NEW a \in getSecurityRules(p), NEW b \in getSecurityRules(p), a.priority = b.priority
      PROVE  a = b
  <2>1. PICK i \in DOMAIN p.ports : a = getSecurityRule(p.ports[i], i - 1)
    BY DEF getSecurityRules
  <2>2. PICK j \in DOMAIN p.ports : b = getSecurityRule(p.ports[j], j - 1)
    BY DEF getSecurityRules
  <2>3. p.ports \in Seq(Nat)
    <3>1. cs.pools \in Seq(AgentPoolProfile)
      BY <1>1 DEF DocType
    <3>2. p \in AgentPoolProfile
      BY <3>1 DEF Pools
    <3> QED
      BY <3>2 DEF AgentPoolProfile
  <2>4. i \in Int /\ j \in Int
    BY <2>3
  <2>5. i = j
    BY <1>5, <2>1, <2>2, <2>4 DEF getSecurityRule, BaseLBPriority
  <2> QED
    BY <2>1, <2>2, <2>5
<1> QED
  BY <1>2, <1>3, <1>4, <1>5

LEMMA RefusedFollows == IInv => RefusedOnly
BY AcceptedUnlessKnown, DocsValid DEF IInv, Written, InHand, RefusedOnly

\* Only resources of the template exist, and a failed generation leaves none of it
\* (GenerateTemplate, template_generator.go).
THEOREM Typed == Spec => []TypeOK
BY Invariant, TypeFollows, PTL

\* Whatever the document asks for, and whatever order Resource Manager takes, what a
\* resource names was created before it (the dependsOn of the templates under parts/dcos).
THEOREM Referenced == Spec => []ReferencesExist
BY Invariant, ReferencesFollow, PTL

\* For every document, Resource Manager refuses what was generated for a cause that
\* KnownCause lists and for no other (params.go, engine.go and the templates agree).
THEOREM RefusedIsKnown == Spec => []RefusedOnly
BY Invariant, RefusedFollows, PTL

\* No node of any cluster starts before the bootstrap node that serves its packages
\* is ready (the dependsOn of dcosmasterresources.t and of the four agent templates).
THEOREM BootstrapFirst == Spec => []NodesAfterBootstrap
BY Invariant, NodesFollow, PTL

\* In every deployed cluster the agents with the public role are those with a public
\* address, and their ports are probed and let in, however many there are (engine.go).
THEOREM PublicIsPublic == Spec => []PublicAgents
BY Invariant, PublicFollows, PTL
=============================================================================
