--------------------------- MODULE MCApiModel ---------------------------
(* Documents and builds for TLC. *)
EXTENDS ApiModel

V112 == <<1, 12, 0, Final>>
V112p == <<1, 12, 1, Final>>
V113b == <<1, 13, 0, 1>>
V113 == <<1, 13, 0, Final>>
V114 == <<1, 14, 0, Final>>

MCBuilds == {[supported |-> {V112, V112p, V113b, V114}, default |-> V112],
             [supported |-> {V112p, V113b, V113, V114}, default |-> V113]}
MCPoolNames == {"a", "b"}
MCDnsNames == {"m"}
MCCounts == {2}

Boot == [given |-> FALSE, url |-> None, ip |-> None, size |-> ""]

Given(ip) == [Boot EXCEPT !.given = TRUE, !.ip = ip]

Pool == [name |-> "a", count |-> 1, dns |-> "", os |-> "", ports |-> <<>>, avail |-> "",
         priority |-> "", eviction |-> "", storage |-> "", disks |-> 0, vnet |-> <<>>,
         distro |-> "", image |-> "none", role |-> "", extensions |-> FALSE, subnet |-> None]

Base == [orchestrator |-> [release |-> None, version |-> V112, linux |-> Boot, windows |-> Boot],
         master |-> [count |-> 3, dns |-> "m", vnet |-> <<>>, cidr |-> "none", firstIP |-> None,
                     storage |-> "", httpSource |-> "", distro |-> "", image |-> "none",
                     subnet |-> ""],
         pools |-> <<Pool>>, windowsProfile |-> "none", sshKey |-> "given"]

\* Every way to ask for a version, and documents that lack what deploy fills in.
Versioned ==
    {[Base EXCEPT !.orchestrator.release = r, !.orchestrator.version = v,
                  !.master.dns = dns, !.sshKey = key] :
        r \in {None, <<1, 12>>, <<1, 13>>, <<1, 15>>},
        v \in {None, V112, V112p, V113b},
        dns \in {"", "m", "-"}, key \in {"none", "given"}}

\* The addresses of masters and bootstrap nodes, in both kinds of network.
Addressed ==
    {[Base EXCEPT !.master.count = c, !.master.firstIP = ip, !.orchestrator.linux = l,
                  !.orchestrator.windows = w, !.master.httpSource = h,
                  !.master.vnet = net, !.pools[1].vnet = net] :
        c \in {2, 5}, ip \in {None, <<"10.0.0", 254>>, <<DefaultMasterNet, 239>>},
        l \in {Boot, Given(None), Given(<<DefaultMasterNet, 6>>)},
        w \in {Boot, Given(<<DefaultMasterNet, 240>>), Given(<<"bad", 256>>)},
        h \in {"", "own"}, net \in {<<>>, <<"v", "s">>}}

\* One pool, with everything validation and defaults look at.
OnePool ==
    {[Base EXCEPT !.windowsProfile = wp,
                  !.pools = <<[Pool EXCEPT !.dns = p[1], !.ports = p[2], !.os = os, !.avail = a,
                                           !.priority = pr, !.storage = st, !.disks = d,
                                           !.extensions = x]>>] :
        p \in {<<"", <<>>>>, <<"m", <<>>>>, <<"m", <<80, 80>>>>, <<"", <<80>>>>, <<"m", <<81>>>>},
        os \in {"", "Windows"}, wp \in {"none", "complete"},
        a \in {"", "AvailabilitySet", "VirtualMachineScaleSets"},
        pr \in {"", "Low"}, st \in {"", "StorageAccount"}, d \in {0, 5, 1}, x \in BOOLEAN}

\* Two pools: names, images, distributions, networks.
TwoPools ==
    {[Base EXCEPT !.master.vnet = net, !.master.firstIP = <<"10.0.0", 5>>,
                  !.pools = <<[Pool EXCEPT !.image = im, !.vnet = net, !.distro = di],
                              [Pool EXCEPT !.name = n, !.vnet = net2, !.role = ro,
                                           !.image = im2, !.dns = "m"]>>] :
        net \in {<<>>, <<"v", "s">>}, net2 \in {<<>>, <<"v", "t">>, <<"w", "s">>},
        im \in {"none", "ok", "half"}, im2 \in {"none", "half"}, di \in {"", "rhel", "coreos"},
        n \in {"a", "b", "B"}, ro \in {"", "other"}}

\* Bootstrap nodes whose files are those of another version.
Sourced ==
    {[Base EXCEPT !.orchestrator.linux = l, !.orchestrator.windows = w] :
        l \in {Boot, [Given(None) EXCEPT !.url = V112p]},
        w \in {Boot, [Given(None) EXCEPT !.url = V114]}}

MCDocs == Versioned \union Addressed \union OnePool \union TwoPools \union Sourced
=============================================================================
