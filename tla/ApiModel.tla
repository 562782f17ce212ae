---------------------------- MODULE ApiModel ----------------------------
(***************************************************************************)
(* The life of an apimodel: the operator writes it, generate or deploy     *)
(* loads it, validates it, converts it, fills in defaults, renders a       *)
(* template from it and saves it as apimodel.json; later commands, perhaps *)
(* of another build of the tool, start from what was saved, which the      *)
(* operator may have scaled meanwhile.                                     *)
(*                                                                         *)
(* Here a command is one action, because commands follow each other and    *)
(* one that fails leaves the document alone; what a crash between its      *)
(* writes does is the subject of Deploy and DcosUpgrade.                   *)
(*                                                                         *)
(* A document and the tool's own model of it are records of the same       *)
(* shape.  "subnet" is an unexported field: it is never in a document.     *)
(* Fields that are only copied, the profiles' numbers among them, are left *)
(* out.  An IP address is <<network, last byte>>, one that cannot be       *)
(* parsed has a last byte above 255.  A subnet of a VNET is                *)
(* <<network, name>>, an identifier that cannot be parsed has another      *)
(* length.  An image is "none", "ok", or "half" when only its name or only *)
(* its group is given.  disks is the number of attached disks, all of a    *)
(* legal size.                                                             *)
(***************************************************************************)
EXTENDS Versions, FiniteSets, Sequences

CONSTANTS
    Builds,     \* the builds of the tool: [supported, default]
    PoolNames,  \* the names a pool may have
    DnsNames,   \* the DNS prefixes that are well formed
    Docs,       \* the documents operators write
    Counts      \* the sizes an operator scales a pool to

ASSUME BuildsAssumption ==
    \A b \in Builds : b.supported \subseteq Version /\ b.default \in b.supported

\* A build has a list of versions, which is finite.
ASSUME FiniteAssumption == \A b \in Builds : IsFiniteSet(b.supported)

ASSUME NamesAssumption == DnsNames \subseteq STRING

\* The constants of the code are strings.
ASSUME LiteralsAssumption ==
    {"", "default", "ubuntu", "*", "Linux", "ManagedDisks", "StorageAccount",
     "VirtualMachineScaleSets", "Delete", "192.168.255", "10"} \subseteq STRING

Address == {None} \union (STRING \X Nat)

BootstrapProfile ==
    [given : BOOLEAN, url : {None} \union Version, ip : Address, size : STRING]

OrchestratorProfile ==
    [release : {None} \union (Nat \X Nat), version : {None} \union Version,
     linux : BootstrapProfile, windows : BootstrapProfile]

MasterProfile ==
    [count : Nat, dns : STRING, vnet : Seq(STRING), cidr : {"none", "ok", "bad"},
     firstIP : Address, storage : STRING, httpSource : STRING, distro : STRING,
     image : {"none", "ok", "half"}, subnet : STRING]

AgentPoolProfile ==
    [name : STRING, count : Nat, dns : STRING, os : STRING, ports : Seq(Nat),
     avail : STRING, priority : STRING, eviction : STRING, storage : STRING,
     disks : Nat, vnet : Seq(STRING), distro : STRING,
     image : {"none", "ok", "half"}, role : STRING, extensions : BOOLEAN,
     subnet : Address]

ContainerService ==
    [orchestrator : OrchestratorProfile, master : MasterProfile,
     pools : Seq(AgentPoolProfile),
     windowsProfile : {"none", "complete", "incomplete"},
     sshKey : {"none", "empty", "given"}]

\* A document gives no value to unexported fields, and none to the fields of a
\* bootstrap profile it does not have.
ASSUME DocsAssumption ==
    /\ Docs \subseteq ContainerService
    /\ \A d \in Docs :
         /\ d.master.subnet = ""
         /\ \A i \in DOMAIN d.pools : d.pools[i].subnet = None
         /\ \A boot \in {d.orchestrator.linux, d.orchestrator.windows} :
              boot.given \/ boot.ip = None

\* An operator scales a pool to a size that is legal.
ASSUME CountsAssumption == Counts \subseteq 1..100

VARIABLES
    build,      \* the build of the tool that is installed
    doc,        \* the apimodel the next command is given
    cluster     \* the model that azuredeploy.json was rendered from, if any

vars == <<build, doc, cluster>>

NoCluster == [none |-> TRUE]

Saved == cluster # NoCluster

----------------------------------------------------------------------------
(* validate.go *)

IsCustomVNET(profile) == Len(profile.vnet) > 0

IsIP(ip) == ip # None /\ ip[2] <= 255

\* The tags of the structs.
ValidPoolStruct(p) ==
    /\ p.name # ""
    /\ p.count \in 1..100
    /\ \A k \in DOMAIN p.ports : p.ports[k] \in 1..65535
    /\ p.priority \in {"Regular", "Low", ""}
    /\ p.eviction \in {"Delete", "Deallocate", ""}
    /\ p.storage \in {"StorageAccount", "ManagedDisks", ""}
    /\ p.disks <= 4

ValidStruct(d) ==
    /\ d.master.count \in {1, 3, 5}
    /\ d.master.dns # ""
    /\ d.master.storage \in {"StorageAccount", "ManagedDisks", ""}
    /\ d.sshKey \in {"empty", "given"}
    /\ \A i \in DOMAIN d.pools : ValidPoolStruct(d.pools[i])

ValidOrchestratorProfile(b, d, isUpdate) ==
    LET o == d.orchestrator
        rational == RationalizeReleaseAndVersion(b, o.release, o.version)
    IN  IF isUpdate
        THEN rational # None \/ GetValidPatchVersion(b, o.version) # None
        ELSE /\ rational # None
             /\ \A boot \in {o.linux, o.windows} :
                  boot.given /\ boot.ip # None => IsIP(boot.ip)

ValidMasterProfile(d) == d.master.image # "half" /\ d.master.dns \in DnsNames

\* validateOrchestratorSpecificProperties
ValidPorts(p) ==
    IF p.dns # ""
    THEN /\ p.dns \in DnsNames
         /\ \A j, k \in DOMAIN p.ports : p.ports[j] = p.ports[k] => j = k
    ELSE p.ports = <<>>

ValidDisks(p) ==
    p.disks > 0 =>
        /\ p.storage \in {"StorageAccount", "ManagedDisks"}
        /\ p.avail \in {"VirtualMachineScaleSets", "AvailabilitySet"}
        /\ ~(p.storage = "StorageAccount" /\ p.avail = "VirtualMachineScaleSets")

\* The loop over the pools returns from the first one that has an image.
Visited(pools) ==
    {i \in DOMAIN pools : \A j \in 1..(i - 1) : pools[j].image = "none"}

ValidAgentPoolProfiles(d) ==
    \A i \in Visited(d.pools) :
        LET p == d.pools[i] IN
        /\ p.name \in PoolNames
        /\ \A j \in 1..(i - 1) : d.pools[j].name # p.name
        /\ p.os \in {"Linux", "Windows", ""}
        /\ ValidPorts(p)
        /\ ValidDisks(p)
        /\ p.image # "half"
        /\ p.image = "none" =>
             /\ p.avail \in {"AvailabilitySet", "VirtualMachineScaleSets", ""}
             /\ p.role = ""
             /\ p.os = "Windows" => d.windowsProfile = "complete"

ValidLinuxProfile(d) == d.sshKey # "empty"

ValidExtensions(d) ==
    \A i \in DOMAIN d.pools :
        d.pools[i].extensions =>
            d.pools[i].avail \notin {"", "VirtualMachineScaleSets"}

ValidVNET(d) ==
    /\ \A i \in DOMAIN d.pools : IsCustomVNET(d.pools[i]) = IsCustomVNET(d.master)
    /\ IsCustomVNET(d.master) =>
         /\ Len(d.master.vnet) = 2
         /\ \A i \in DOMAIN d.pools : /\ Len(d.pools[i].vnet) = 2
                                      /\ d.pools[i].vnet[1] = d.master.vnet[1]
         /\ IsIP(d.master.firstIP)
         /\ d.master.cidr # "bad"

Validate(b, d, isUpdate) ==
    /\ ValidStruct(d)
    /\ ValidOrchestratorProfile(b, d, isUpdate)
    /\ ValidMasterProfile(d)
    /\ ValidAgentPoolProfiles(d)
    /\ ValidLinuxProfile(d)
    /\ ValidExtensions(d)
    /\ ValidVNET(d)

DefaultPorts == <<80, 443, 8080>>

\* Validation also fills in the ports of the pools it looks at.
WithPorts(d) ==
    [d EXCEPT !.pools = [i \in DOMAIN d.pools |->
        IF i \in Visited(d.pools) /\ d.pools[i].dns # "" /\ d.pools[i].ports = <<>>
        THEN [d.pools[i] EXCEPT !.ports = DefaultPorts]
        ELSE d.pools[i]]]

----------------------------------------------------------------------------
(* The converters *)

\* Managed disks are the default of documents.
OrManaged(storage) == IF storage = "" THEN "ManagedDisks" ELSE storage

ConvertVLabsOrchestratorProfile(b, o) ==
    [o EXCEPT !.release = None,
              !.version = RationalizeReleaseAndVersion(b, o.release, o.version)]

ConvertVLabsMasterProfile(m) == [m EXCEPT !.storage = OrManaged(m.storage)]

ConvertVLabsAgentPoolProfile(p) == [p EXCEPT !.storage = OrManaged(p.storage)]

ConvertVLabsContainerService(b, d) ==
    [d EXCEPT !.orchestrator = ConvertVLabsOrchestratorProfile(b, d.orchestrator),
              !.master = ConvertVLabsMasterProfile(d.master),
              !.pools = [i \in DOMAIN d.pools |->
                            ConvertVLabsAgentPoolProfile(d.pools[i])]]

\* As the next, with the release made of the wrong part of the version.
ConvertOrchestratorProfileToVLabs_Patch(o) ==
    [o EXCEPT !.release = IF o.version = None THEN None
                          ELSE <<o.version[1], o.version[3]>>]

\* As the next, without the static address of the Linux bootstrap node.
ConvertOrchestratorProfileToVLabs_NoStaticIP(o) ==
    [o EXCEPT !.release = IF o.version = None THEN None ELSE Release(o.version),
              !.linux.ip = None]

\* The release is computed from the version.
ConvertOrchestratorProfileToVLabs(o) ==
    [o EXCEPT !.release = IF o.version = None THEN None ELSE Release(o.version)]

\* The source prefix of HTTP traffic is not converted back.
ConvertMasterProfileToVLabs(m) == [m EXCEPT !.httpSource = "", !.subnet = ""]

\* As the next, without the storage profile.
ConvertAgentPoolProfileToVLabs_NoStorage(p) ==
    [p EXCEPT !.subnet = None, !.storage = ""]

\* As the next, without the priority of the scale set.
ConvertAgentPoolProfileToVLabs_NoPriority(p) ==
    [p EXCEPT !.subnet = None, !.priority = ""]

ConvertAgentPoolProfileToVLabs(p) == [p EXCEPT !.subnet = None]

\* The conversion together with the JSON encoding that follows it.
SerializeContainerService(cs) ==
    [cs EXCEPT !.orchestrator = ConvertOrchestratorProfileToVLabs(cs.orchestrator),
               !.master = ConvertMasterProfileToVLabs(cs.master),
               !.pools = [i \in DOMAIN cs.pools |->
                             ConvertAgentPoolProfileToVLabs(cs.pools[i])]]

\* A document as the tool holds it once it is loaded and valid.
LoadContainerService(b, d) == ConvertVLabsContainerService(b, WithPorts(d))

----------------------------------------------------------------------------
(* defaults.go *)

DefaultMasterNet == "192.168.255"

SetOrchestratorDefaults(b, cs) ==
    LET Sized(boot) == [boot EXCEPT !.given = TRUE,
                                    !.size = IF @ = "" THEN "default" ELSE @]
    IN  [cs EXCEPT !.orchestrator.version = GetValidPatchVersion(b, @),
                   !.orchestrator.linux = Sized(@),
                   !.orchestrator.windows = Sized(@)]

InOwnNetwork(cs, first, linux, windows) ==
    [cs EXCEPT !.master.subnet = DefaultMasterNet,
               !.master.firstIP = first,
               !.orchestrator.linux.ip = linux,
               !.orchestrator.windows.ip = windows]

\* As the next, keeping the addresses that are given, as in an upgrade.
WithAddresses_KeepsGiven(cs, isUpgrade) ==
    LET Kept(ip, byte) == IF ip # None THEN ip ELSE <<DefaultMasterNet, byte>>
    IN  InOwnNetwork(cs, Kept(cs.master.firstIP, 5), Kept(cs.orchestrator.linux.ip, 240),
                     Kept(cs.orchestrator.windows.ip, 241))

\* Addresses in the tool's own network are reset, but for an upgrade.
WithAddresses(cs, isUpgrade) ==
    LET Kept(ip, byte) == IF isUpgrade /\ ip # None THEN ip
                          ELSE <<DefaultMasterNet, byte>>
    IN  InOwnNetwork(cs, Kept(cs.master.firstIP, 5), Kept(cs.orchestrator.linux.ip, 240),
                     Kept(cs.orchestrator.windows.ip, 241))

SetMasterNetworkDefaults(cs, isUpgrade) ==
    [(IF IsCustomVNET(cs.master) THEN cs ELSE WithAddresses(cs, isUpgrade)) EXCEPT
        !.master.distro = IF @ = "" THEN "ubuntu" ELSE @,
        !.master.httpSource = IF @ = "" THEN "*" ELSE @]

SetAgentNetworkDefaults(cs) ==
    [cs EXCEPT !.pools = [i \in DOMAIN cs.pools |->
        [cs.pools[i] EXCEPT
            !.subnet = IF IsCustomVNET(cs.master) THEN @ ELSE <<"10", i - 1>>,
            !.os = IF @ = "" THEN "Linux" ELSE @,
            !.distro = IF @ = "" THEN "ubuntu" ELSE @]]]

\* As the next, without the availability profile.
SetStorageDefaults_NoAvail(cs) ==
    [cs EXCEPT
        !.master.storage = IF @ = "" THEN "ManagedDisks" ELSE @,
        !.pools = [i \in DOMAIN cs.pools |->
            [cs.pools[i] EXCEPT
                !.storage = IF @ = "" THEN "StorageAccount" ELSE @,
                !.eviction = IF @ = "" /\ cs.pools[i].priority = "Low"
                             THEN "Delete" ELSE @]]]

SetStorageDefaults(cs) ==
    [cs EXCEPT
        !.master.storage = IF @ = "" THEN "ManagedDisks" ELSE @,
        !.pools = [i \in DOMAIN cs.pools |->
            [cs.pools[i] EXCEPT
                !.storage = IF @ = "" THEN "StorageAccount" ELSE @,
                !.avail = IF @ = "" THEN "VirtualMachineScaleSets" ELSE @,
                !.eviction = IF @ = "" /\ cs.pools[i].priority = "Low"
                             THEN "Delete" ELSE @]]]

SetPropertiesDefaults(b, cs, isUpgrade) ==
    SetStorageDefaults(
        SetAgentNetworkDefaults(
            SetMasterNetworkDefaults(SetOrchestratorDefaults(b, cs), isUpgrade)))

ValidateDistro(cs) ==
    /\ cs.master.distro # "rhel"
    /\ \A i \in DOMAIN cs.pools : cs.pools[i].distro # "rhel"

\* The model a template is rendered from.
Rendered(b, cs) == SetPropertiesDefaults(b, cs, FALSE)

\* What GenerateTemplate leaves behind: it puts the version back.
AfterGenerate(b, cs) ==
    [Rendered(b, cs) EXCEPT !.orchestrator.version = cs.orchestrator.version]

GenerateIPList(count, first) ==
    [i \in 1..count |-> <<first[1], (first[2] + i - 1) % 256>>]

\* The parameters hold the URL of the document or else the version's own.
BootstrapURL(boot, version) == IF boot.url = None THEN version ELSE boot.url

----------------------------------------------------------------------------
(* The commands *)

Init ==
    /\ build \in Builds
    /\ doc \in Docs
    /\ cluster = NoCluster

\* The end of generate and deploy: render cs, save it.  A build has templates for each
\* version it supports; this one for 1.12.0 alone, its only one (engine.go:594-599, 629-635).
Produce(cs) ==
    /\ ValidateDistro(Rendered(build, cs))
    /\ cluster' = Rendered(build, cs)
    /\ doc' = SerializeContainerService(AfterGenerate(build, cs))
    /\ UNCHANGED build

Generate ==
    /\ Validate(build, doc, FALSE)
    /\ Produce(LoadContainerService(build, doc))

\* deploy loads without validating, fills in a prefix given as a flag and a
\* new key, and validates what it gets when it converts that back.  (The
\* ports are filled in by the second conversion whatever the first one did;
\* --auto-suffix and the directory are the subject of Deploy.)
Autofill(d, dnsFlag) ==
    [d EXCEPT !.master.dns = IF @ = "" THEN dnsFlag ELSE @, !.sshKey = "given"]

DeployedDocument(b, d, dnsFlag) ==
    SerializeContainerService(Autofill(ConvertVLabsContainerService(b, d), dnsFlag))

Deploy(dnsFlag) ==
    LET d == DeployedDocument(build, doc, dnsFlag) IN
    /\ (doc.master.dns = "") = (dnsFlag # "")
    /\ Validate(build, d, FALSE)
    /\ Produce(LoadContainerService(build, d))

\* As the next, without the Windows bootstrap node.
UpgradedModel_LinuxOnly(cs, v) ==
    [cs EXCEPT !.orchestrator.version = v, !.orchestrator.linux.url = v]

\* dcos-upgrade to version v, to its end.  The upgrade of the nodes is the
\* subject of DcosUpgrade; a document without bootstrap profiles makes the
\* command panic.
UpgradedModel(cs, v) ==
    [cs EXCEPT !.orchestrator.version = v,
               !.orchestrator.linux.url = v,
               !.orchestrator.windows.url = v]

Upgradeable(b, cs, v) ==
    /\ cs.orchestrator.version # None
    /\ ~LT(v, cs.orchestrator.version)
    /\ v \in DcosUpgrades(b, cs.orchestrator.version) \union {cs.orchestrator.version}

Upgrade(v) ==
    LET cs == LoadContainerService(build, doc) IN
    /\ Saved
    /\ Validate(build, doc, TRUE)
    /\ Upgradeable(build, cs, v)
    /\ cs.orchestrator.linux.given /\ cs.orchestrator.windows.given
    /\ doc' = SerializeContainerService(UpgradedModel(cs, v))
    /\ cluster' = UpgradedModel(cluster, v)
    /\ UNCHANGED build

\* The operator edits the size of a pool in a saved document.
Scale(i, n) ==
    /\ Saved
    /\ doc' = [doc EXCEPT !.pools[i].count = n]
    /\ UNCHANGED <<build, cluster>>

\* Another build of the tool is installed.
Install(b) ==
    /\ build' = b
    /\ UNCHANGED <<doc, cluster>>

Next ==
    \/ Generate
    \/ \E flag \in DnsNames \union {""} : Deploy(flag)
    \/ \E v \in build.supported : Upgrade(v)
    \/ \E i \in DOMAIN doc.pools, n \in Counts : Scale(i, n)
    \/ \E b \in Builds : Install(b)

Spec == Init /\ [][Next]_vars

----------------------------------------------------------------------------
(* Properties *)

\* Does the installed build still support what the document says?
Supported == doc.orchestrator.version \in build.supported

\* The fields of pools that must not be empty in a template.
Filled(cs) == \A i \in DOMAIN cs.pools : cs.pools[i].os # "" /\ cs.pools[i].avail # ""

\* The types of the variables; in a cluster's model what has a default is
\* filled in, and a document that was saved names its version and release.
TypeOK ==
    /\ build \in Builds
    /\ doc \in ContainerService
    /\ Saved =>
         /\ cluster \in ContainerService
         /\ Filled(cluster)
         /\ doc.orchestrator.version # None
         /\ doc.orchestrator.release = Release(doc.orchestrator.version)

\* What the tool saved can be used by every later command as long as the
\* installed build supports its version: it is valid for generate and for
\* dcos-upgrade, which dereferences the bootstrap profiles without a check
\* (dcos-upgrade.go:205-206).
SavedLoads ==
    Saved /\ Supported =>
        /\ Validate(build, doc, FALSE)
        /\ Validate(build, doc, TRUE)
        /\ doc.orchestrator.linux.given /\ doc.orchestrator.windows.given
        /\ ValidateDistro(LoadContainerService(build, doc))

\* What the template shows of a model, pool sizes apart, which operators edit.
\* The source prefix is left out: it is lost on the way.
Visible(cs) ==
    [cs EXCEPT !.orchestrator.linux.url = BootstrapURL(cs.orchestrator.linux, cs.orchestrator.version),
               !.orchestrator.windows.url = BootstrapURL(cs.orchestrator.windows, cs.orchestrator.version),
               !.orchestrator.release = None,
               !.master.httpSource = "",
               !.pools = [i \in DOMAIN cs.pools |-> [cs.pools[i] EXCEPT !.count = 0]]]

\* The document that is kept beside a cluster describes it: generating from it
\* again gives the cluster that runs, after any number of commands, upgrades
\* and changes of the build (template_generator.go:47-53).
SameAgain ==
    Saved /\ Supported =>
        Visible(Rendered(build, LoadContainerService(build, doc))) = Visible(cluster)

\* The addresses a document leads an upgrade to: the master list and the
\* bootstrap nodes of GetDCOSBootstrapConfig, which reads the document and
\* fills in no defaults.
Masters(cs) == GenerateIPList(cs.master.count, cs.master.firstIP)

AddressesKept ==
    Saved => /\ Masters(doc) = Masters(cluster)
             /\ doc.orchestrator.linux.ip = cluster.orchestrator.linux.ip
             /\ doc.orchestrator.windows.ip = cluster.orchestrator.windows.ip

\* In the tool's own network no two of the masters and bootstrap nodes share an
\* address, and no two pools a subnet, whatever addresses the operator wrote
\* (engine.go:125-135, defaults.go:198-236).
NoAddressTwice ==
    Saved /\ ~IsCustomVNET(cluster.master) =>
        LET m == Masters(cluster)
            boots == <<cluster.orchestrator.linux.ip, cluster.orchestrator.windows.ip>>
            all == m \o boots
        IN  /\ \A i, j \in DOMAIN all : all[i] = all[j] => i = j
            /\ \A i \in DOMAIN all : all[i][1] = cluster.master.subnet
            /\ \A i, j \in DOMAIN cluster.pools :
                 cluster.pools[i].subnet = cluster.pools[j].subnet => i = j

\* generate and deploy make the same cluster of a document that both accept
\* (the conversion back and forth of deploy.go:301-314 changes nothing).
DeployIsGenerate ==
    LET d == DeployedDocument(build, doc, "") IN
    Validate(build, doc, FALSE) /\ Validate(build, d, FALSE) =>
        Visible(Rendered(build, LoadContainerService(build, doc)))
          = Visible(Rendered(build, LoadContainerService(build, d)))

\* A cluster's version never goes back, and from a release dcos-upgrade takes
\* it at most to the next minor version and never to a pre-release
\* (orchestrators.go:120-134).
UpgradeRange ==
    [][\A v \in build.supported :
         Upgrade(v) =>
           LET old == cluster.orchestrator.version
               new == cluster'.orchestrator.version
           IN  /\ ~LT(new, old)
               /\ new[1] = old[1]
               /\ ~IsPreRelease(old) => /\ new[2] <= old[2] + 1
                                        /\ ~IsPreRelease(new)]_vars

\* What is visible but for the version and the URLs of the bootstrap nodes.
Rest(cs) ==
    [Visible(cs) EXCEPT !.orchestrator.version = None,
                        !.orchestrator.linux.url = None,
                        !.orchestrator.windows.url = None]

URLs(cs) ==
    LET o == cs.orchestrator
    IN  <<BootstrapURL(o.linux, o.version), BootstrapURL(o.windows, o.version)>>

\* A cluster as ClusterLife sees it.
shown ==
    IF Saved THEN [version |-> cluster.orchestrator.version, urls |-> URLs(cluster),
                   rest |-> Rest(cluster)]
             ELSE NoCluster

Life == INSTANCE ClusterLife WITH Nothing <- NoCluster

\* Generating and deploying again from the document kept beside a cluster change
\* nothing of it but the sizes of its pools, through any upgrades and changes of the
\* build: only upgrades do, and builds that do not support its version
\* (deploy.go:164, dcos-upgrade.go:205-238).
ImplementsLife == Life!Spec

\* The version of a new cluster is the one its document asks for; a document
\* that asks for a version the build does not support is refused by the
\* validation that deploy puts off until it has filled in the rest
\* (validate.go:70-79, deploy.go:164).
VersionAsAsked ==
    [][cluster' # cluster /\ ~Saved =>
         cluster'.orchestrator.version =
           RationalizeReleaseAndVersion(build, doc.orchestrator.release,
                                        doc.orchestrator.version)]_vars

=============================================================================
