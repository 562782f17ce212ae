---------------------------- MODULE MCTemplate ----------------------------
(* Documents for TLC. *)
EXTENDS Template

MCExtensions == {"hello"}

Pool == [name |-> "a", windows |-> FALSE, vmss |-> TRUE, storageAccount |-> FALSE,
         lowPriority |-> FALSE, disks |-> FALSE, size |-> "large", ports |-> <<>>,
         preprovision |-> {}, postprovision |-> {}, extensions |-> {}]

Boot == [hosted |-> FALSE, publicIP |-> FALSE, size |-> "large", extraConfigs |-> "none"]

Base == [classic |-> FALSE, rhel |-> FALSE,
         orchestrator |-> [registry |-> FALSE, linux |-> Boot, windows |-> Boot],
         master |-> [size |-> "large", storageAccount |-> FALSE, customVNET |-> FALSE,
                     scripts |-> {}, extensions |-> {}],
         pools |-> <<Pool>>,
         linux |-> [secrets |-> FALSE, searchDomain |-> FALSE, nodesDNS |-> FALSE],
         windows |-> [secrets |-> FALSE, image |-> FALSE],
         profiles |-> {}]

\* One pool of every kind, in both kinds of network and of disks of the masters.
Kinds ==
    {[Base EXCEPT !.master.storageAccount = sa, !.master.customVNET = vnet, !.windows.image = image,
                  !.pools = <<p>>] :
        sa \in BOOLEAN, vnet \in BOOLEAN, image \in BOOLEAN,
        p \in {q \in {[Pool EXCEPT !.windows = w, !.vmss = v, !.storageAccount = s,
                                   !.disks = d, !.ports = ports] :
                        w \in BOOLEAN, v \in BOOLEAN, s \in BOOLEAN, d \in BOOLEAN,
                        ports \in {<<>>, <<80, 443>>}} :
                ~ (q.vmss /\ q.storageAccount /\ q.disks)}}

\* What a document can ask for besides, one thing or two at a time.
Asked ==
    LET options(d) ==
            {[d EXCEPT !.classic = TRUE], [d EXCEPT !.orchestrator.registry = TRUE],
             [d EXCEPT !.orchestrator.linux.hosted = TRUE], [d EXCEPT !.orchestrator.linux.publicIP = TRUE],
             [d EXCEPT !.orchestrator.linux.extraConfigs = "repeated"], [d EXCEPT !.orchestrator.windows.hosted = TRUE],
             [d EXCEPT !.orchestrator.windows.publicIP = TRUE], [d EXCEPT !.linux.secrets = TRUE],
             [d EXCEPT !.linux.searchDomain = TRUE], [d EXCEPT !.linux.nodesDNS = TRUE],
             [d EXCEPT !.windows.secrets = TRUE], [d EXCEPT !.windows.image = TRUE],
             [d EXCEPT !.rhel = TRUE], [d EXCEPT !.profiles = {"hello"}],
             [d EXCEPT !.master.scripts = {"hello"}], [d EXCEPT !.master.extensions = {"hello"}],
             [d EXCEPT !.profiles = {"hello"}, !.master.scripts = {"hello"}],
             [d EXCEPT !.orchestrator.windows.extraConfigs = "repeated"],
             [d EXCEPT !.orchestrator.linux.extraConfigs = "new"],
             [d EXCEPT !.master.size = "small"], [d EXCEPT !.master.size = "unlisted"],
             [d EXCEPT !.orchestrator.linux.size = "small"],
             [d EXCEPT !.orchestrator.windows.size = "unlisted"]}
        bases == {[Base EXCEPT !.pools = pools] :
                    pools \in {<<>>, <<Pool>>, <<[Pool EXCEPT !.windows = TRUE, !.size = "small"]>>,
                               <<[Pool EXCEPT !.lowPriority = TRUE, !.postprovision = {"hello"}]>>,
                               <<[Pool EXCEPT !.windows = TRUE, !.preprovision = {"hello"}]>>,
                               <<[Pool EXCEPT !.size = "unlisted"]>>,
                               <<[Pool EXCEPT !.name = "master"]>>,
                               <<[Pool EXCEPT !.name = "bootstrapwin"]>>,
                               <<Pool, [Pool EXCEPT !.name = "bootstrap", !.windows = TRUE]>>,
                               <<[Pool EXCEPT !.windows = TRUE], [Pool EXCEPT !.name = "bootstrapwin"]>>}}
    IN UNION {options(d) : d \in bases \union UNION {options(e) : e \in bases}}

Public == [Pool EXCEPT !.name = "b", !.ports = <<80, 443>>]
WindowsSet == [Pool EXCEPT !.windows = TRUE, !.vmss = FALSE, !.storageAccount = TRUE,
                           !.disks = TRUE]

\* Deployments followed: between them they have every resource of the templates.
MCFollowed ==
    {[Base EXCEPT !.pools = <<Public>>],
     [Base EXCEPT !.master.customVNET = TRUE, !.master.storageAccount = TRUE, !.orchestrator.linux.publicIP = TRUE,
                  !.profiles = {"hello"}, !.master.extensions = {"hello"}],
     [Base EXCEPT !.master.customVNET = TRUE, !.windows.image = TRUE,
                  !.pools = <<[Public EXCEPT !.windows = TRUE]>>],
     [Base EXCEPT !.pools = <<WindowsSet>>]}

MCDocs == MCFollowed \union Kinds \union Asked
=============================================================================
