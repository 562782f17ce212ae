------------------------- MODULE ApiModelProofs -------------------------
(***************************************************************************)
(* Theorems about ApiModel, for all builds and documents.                  *)
(***************************************************************************)
EXTENDS ApiModel, SequenceTheorems, FiniteSetTheorems, WellFoundedInduction, TLAPS

LEMMA NoneIsNoVersion == None \notin Version
<1> SUFFICES ASSUME None \in Version PROVE FALSE
  OBVIOUS
<1>1. DOMAIN None = {}
  BY DEF None
<1>2. 1 \in DOMAIN None
  BY DEF Version
<1> QED BY <1>1, <1>2

LEMMA NoneIsNoPair == ASSUME NEW S, NEW T PROVE None \notin S \X T
<1> SUFFICES ASSUME None \in S \X T PROVE FALSE
  OBVIOUS
<1>1. DOMAIN None = {}
  BY DEF None
<1>2. 1 \in DOMAIN None
  OBVIOUS
<1> QED BY <1>1, <1>2

LEMMA ReleaseType == ASSUME NEW v \in Version PROVE Release(v) \in Nat \X Nat
BY DEF Release, Version

\* The order of versions is one, so finitely many of them have a latest.
LEMMA VersionOrder ==
    ASSUME NEW u \in Version, NEW v \in Version, NEW w \in Version
    PROVE  ~LT(u, u) /\ (LT(u, v) /\ LT(v, w) => LT(u, w))
<1>1. /\ u[1] \in Int /\ u[2] \in Int /\ u[3] \in Int /\ u[4] \in Int
      /\ v[1] \in Int /\ v[2] \in Int /\ v[3] \in Int /\ v[4] \in Int
      /\ w[1] \in Int /\ w[2] \in Int /\ w[3] \in Int /\ w[4] \in Int
  BY DEF Version, Final
<1> QED BY <1>1 DEF LT

\* A nonempty set of subsets of a finite set has a member from which nothing can be taken.
LEMMA Minimal ==
  ASSUME NEW S, IsFiniteSet(S), NEW B \in SUBSET SUBSET S, B # {}
  PROVE  \E T \in B : \A x \in T : T \ {x} \notin B
<1> DEFINE R == StrictSubsetOrdering(S)
           F == FiniteSubsetsOf(S)
<1>1. IsWellFoundedOn(R, F)
  BY FS_StrictSubsetOrderingWellFounded
<1>2. B \subseteq F
  BY FS_Subset DEF FiniteSubsetsOf
<1>3. \A T, U \in SUBSET S : U \subseteq T /\ U # T => <<U, T>> \in R
  BY DEF StrictSubsetOrdering
<1>4. \E T \in B : \A U \in B : ~ (<<U, T>> \in R)
  <2> HIDE DEF R, F
  <2> QED
    BY <1>1, <1>2, WFMin
<1> HIDE DEF R, F
<1>5. PICK T \in B : \A U \in B : ~ (<<U, T>> \in R)
  BY <1>4
<1>6. ASSUME NEW x \in T, T \ {x} \in B PROVE FALSE
  <2>1. T \ {x} \subseteq T /\ T \ {x} # T
    OBVIOUS
  <2> QED
    BY <2>1, <1>3, <1>5, <1>6
<1> QED
  BY <1>6

LEMMA LatestExists ==
    ASSUME NEW S \in SUBSET Version, IsFiniteSet(S), S # {}
    PROVE  \E v \in S : \A w \in S : ~LT(v, w)
<1> DEFINE Late(T) == \E v \in T : \A w \in T : ~LT(v, w)
           Bad == {T \in SUBSET S : T # {} /\ ~Late(T)}
<1>1. SUFFICES ASSUME Bad # {} PROVE FALSE
  OBVIOUS
<1>2. PICK T \in Bad : \A x \in T : T \ {x} \notin Bad
  BY <1>1, Minimal
<1>3. T \subseteq Version /\ T \subseteq S /\ ~Late(T)
  OBVIOUS
<1>4. PICK x \in T : TRUE
  OBVIOUS
<1>5. \A u, v, w \in T : ~LT(u, u) /\ (LT(u, v) /\ LT(v, w) => LT(u, w))
  BY <1>3, VersionOrder
<1>6. CASE T \ {x} = {}
  BY <1>3, <1>5, <1>6
<1>7. CASE T \ {x} # {}
  <2>1. PICK m \in T \ {x} : \A w \in T \ {x} : ~LT(m, w)
    BY <1>2, <1>3, <1>7
  <2>2. CASE ~LT(m, x)
    BY <2>1, <2>2, <1>3
  <2>3. CASE LT(m, x)
    <3>1. \A w \in T : ~LT(x, w)
      BY <2>1, <2>3, <1>5
    <3> QED BY <3>1, <1>3
  <2> QED BY <2>2, <2>3
<1> QED BY <1>6, <1>7

\* A version that is asked for, alone or with its release, is that version or
\* is not supported; anything else a build finds is a supported version.
LEMMA RationalizeType ==
    ASSUME NEW b \in Builds, NEW r \in {None} \union (Nat \X Nat),
           NEW v \in {None} \union Version
    PROVE  LET w == RationalizeReleaseAndVersion(b, r, v) IN
           /\ w \in {None} \union Version
           /\ w # None => w \in b.supported
           /\ v # None /\ w # None => w = v
           /\ v \in b.supported /\ r = Release(v) => w = v
           /\ v \in b.supported /\ r = None => w = v
<1> DEFINE w == RationalizeReleaseAndVersion(b, r, v)
<1>1. None \notin b.supported /\ b.supported \subseteq Version /\ b.default \in b.supported
  BY BuildsAssumption, NoneIsNoVersion
<1>2. CASE v # None
  <2>1. w = IF v \in b.supported /\ r \in {None, Release(v)} THEN v ELSE None
    BY <1>2 DEF RationalizeReleaseAndVersion
  <2> QED BY <2>1, <1>1, <1>2
<1>3. CASE v = None /\ r = None
  <2>1. w = b.default
    BY <1>3 DEF RationalizeReleaseAndVersion
  <2> QED BY <2>1, <1>1, <1>3
<1>4. CASE v = None /\ r # None
  <2> DEFINE candidates == {u \in b.supported : Release(u) = r}
  <2>1. w = GetLatestPatchVersion(r, b.supported)
    BY <1>4 DEF RationalizeReleaseAndVersion
  <2>2. CASE candidates = {}
    BY <2>1, <2>2, <1>1, <1>4 DEF GetLatestPatchVersion
  <2>3. CASE candidates # {}
    <3>1. candidates \subseteq Version /\ IsFiniteSet(candidates)
      BY <1>1, FiniteAssumption, FS_Subset
    <3>2. \E u \in candidates : \A x \in candidates : ~LT(u, x)
      BY <2>3, <3>1, LatestExists
    <3>3. w = CHOOSE u \in candidates : \A x \in candidates : ~LT(u, x)
      BY <2>1, <2>3 DEF GetLatestPatchVersion
    <3> QED BY <3>2, <3>3, <1>1, <1>4
  <2> QED BY <2>2, <2>3
<1> QED BY <1>2, <1>3, <1>4

LEMMA ToOrchestrator ==
    ASSUME NEW b \in Builds, NEW o \in OrchestratorProfile
    PROVE  LET c == ConvertVLabsOrchestratorProfile(b, o) IN
           /\ c \in OrchestratorProfile
           /\ c.version = RationalizeReleaseAndVersion(b, o.release, o.version)
           /\ c.linux = o.linux /\ c.windows = o.windows /\ c.release = None
BY RationalizeType DEF ConvertVLabsOrchestratorProfile, OrchestratorProfile

LEMMA ManagedType == ASSUME NEW s \in STRING PROVE OrManaged(s) \in STRING
BY LiteralsAssumption DEF OrManaged

LEMMA ToMaster ==
    ASSUME NEW m \in MasterProfile
    PROVE  LET c == ConvertVLabsMasterProfile(m) IN
           /\ c \in MasterProfile
           /\ c.count = m.count /\ c.firstIP = m.firstIP
BY ManagedType DEF ConvertVLabsMasterProfile, MasterProfile

LEMMA ToPool ==
    ASSUME NEW p \in AgentPoolProfile
    PROVE  LET c == ConvertVLabsAgentPoolProfile(p) IN c \in AgentPoolProfile
BY ManagedType DEF ConvertVLabsAgentPoolProfile, AgentPoolProfile

\* Pools that are replaced one by one are a sequence of pools.
LEMMA PoolwiseType ==
    ASSUME NEW pools \in Seq(AgentPoolProfile), NEW f,
           f = [i \in DOMAIN pools |-> f[i]],
           \A i \in DOMAIN pools : f[i] \in AgentPoolProfile
    PROVE  f \in Seq(AgentPoolProfile)
<1>1. DOMAIN pools = 1..Len(pools) /\ Len(pools) \in Nat
  OBVIOUS
<1>2. f \in [1..Len(pools) -> AgentPoolProfile]
  BY <1>1, Zenon
<1> QED BY <1>1, <1>2, SeqDef

LEMMA ContainerFields ==
    ASSUME NEW d \in ContainerService
    PROVE  /\ d.orchestrator \in OrchestratorProfile
           /\ d.master \in MasterProfile
           /\ d.pools \in Seq(AgentPoolProfile)
BY DEF ContainerService

LEMMA PortsOfPool ==
    ASSUME NEW p \in AgentPoolProfile, NEW ports \in Seq(Nat)
    PROVE  [p EXCEPT !.ports = ports] \in AgentPoolProfile
BY DEF AgentPoolProfile

LEMMA EitherOf ==
    ASSUME NEW c, NEW x, NEW y
    PROVE  (IF c THEN x ELSE y) \in {x, y}
OBVIOUS

LEMMA PortsType ==
    ASSUME NEW d \in ContainerService
    PROVE  LET c == WithPorts(d) IN
           /\ c \in ContainerService
           /\ c.orchestrator = d.orchestrator
           /\ c.master = d.master
<1> DEFINE F(i) == IF i \in Visited(d.pools) /\ d.pools[i].dns # "" /\ d.pools[i].ports = <<>>
                   THEN [d.pools[i] EXCEPT !.ports = DefaultPorts]
                   ELSE d.pools[i]
           f == [i \in DOMAIN d.pools |-> F(i)]
<1>1. ASSUME NEW i \in DOMAIN d.pools PROVE F(i) \in AgentPoolProfile
  <2>1. d.pools[i] \in AgentPoolProfile
    BY ContainerFields
  <2>2. DefaultPorts \in Seq(Nat)
    BY DEF DefaultPorts
  <2>3. [d.pools[i] EXCEPT !.ports = DefaultPorts] \in AgentPoolProfile
    BY <2>1, <2>2, PortsOfPool, Zenon
  <2>4. F(i) \in {d.pools[i], [d.pools[i] EXCEPT !.ports = DefaultPorts]}
    BY EitherOf, Zenon
  <2> HIDE DEF F
  <2> QED BY <2>1, <2>3, <2>4
<1> HIDE DEF F
<1>2. f \in Seq(AgentPoolProfile)
  BY <1>1, ContainerFields, PoolwiseType
<1>3. WithPorts(d) = [d EXCEPT !.pools = f]
  BY DEF WithPorts, F
<1> HIDE DEF f
<1> QED BY <1>2, <1>3 DEF ContainerService

LEMMA ToContainer ==
    ASSUME NEW b \in Builds, NEW d \in ContainerService
    PROVE  LET c == ConvertVLabsContainerService(b, d) IN
           /\ c \in ContainerService
           /\ c.orchestrator = ConvertVLabsOrchestratorProfile(b, d.orchestrator)
           /\ c.master = ConvertVLabsMasterProfile(d.master)
<1> DEFINE f == [i \in DOMAIN d.pools |-> ConvertVLabsAgentPoolProfile(d.pools[i])]
<1>1. f \in Seq(AgentPoolProfile)
  <2>1. \A i \in DOMAIN d.pools : d.pools[i] \in AgentPoolProfile
    BY ContainerFields
  <2> QED BY <2>1, ToPool, ContainerFields, PoolwiseType
<1>2. ConvertVLabsContainerService(b, d) =
        [d EXCEPT !.orchestrator = ConvertVLabsOrchestratorProfile(b, d.orchestrator),
                  !.master = ConvertVLabsMasterProfile(d.master),
                  !.pools = f]
  BY DEF ConvertVLabsContainerService
<1> HIDE DEF f
<1>3. /\ ConvertVLabsOrchestratorProfile(b, d.orchestrator) \in OrchestratorProfile
      /\ ConvertVLabsMasterProfile(d.master) \in MasterProfile
  BY ContainerFields, ToOrchestrator, ToMaster
<1> QED BY <1>1, <1>2, <1>3 DEF ContainerService

\* What loading a document keeps of it.
LEMMA LoadFacts ==
    ASSUME NEW b \in Builds, NEW d \in ContainerService
    PROVE  LET c == LoadContainerService(b, d)
               o == d.orchestrator IN
           /\ c \in ContainerService
           /\ c.orchestrator.version = RationalizeReleaseAndVersion(b, o.release, o.version)
           /\ c.orchestrator.linux = o.linux /\ c.orchestrator.windows = o.windows
           /\ c.master.count = d.master.count /\ c.master.firstIP = d.master.firstIP
<1> DEFINE e == WithPorts(d)
<1>1. e \in ContainerService /\ e.orchestrator = d.orchestrator /\ e.master = d.master
  BY PortsType
<1>2. LoadContainerService(b, d) = ConvertVLabsContainerService(b, e)
  BY DEF LoadContainerService
<1> HIDE DEF e
<1> QED BY <1>1, <1>2, ToContainer, ToOrchestrator, ToMaster, ContainerFields

LEMMA PatchType ==
    ASSUME NEW b \in Builds, NEW v \in {None} \union Version
    PROVE  LET w == GetValidPatchVersion(b, v) IN
           /\ w \in {None} \union Version
           /\ v \in b.supported => w = v
<1> DEFINE x == RationalizeReleaseAndVersion(b, None, v)
           y == RationalizeReleaseAndVersion(b, Release(v), None)
<1>1. x \in {None} \union Version /\ (v \in b.supported => x = v)
  BY RationalizeType, Zenon
<1>2. v # None => y \in {None} \union Version
  BY RationalizeType, ReleaseType
<1>3. v \in b.supported => v # None
  BY BuildsAssumption, NoneIsNoVersion
<1>4. GetValidPatchVersion(b, v) = IF v # None /\ x = None THEN y ELSE x
  BY DEF GetValidPatchVersion
<1> HIDE DEF x, y
<1> QED BY <1>1, <1>2, <1>3, <1>4

LEMMA OrchestratorDefaults ==
    ASSUME NEW b \in Builds, NEW cs \in ContainerService
    PROVE  LET c == SetOrchestratorDefaults(b, cs)
               o == cs.orchestrator IN
           /\ c \in ContainerService
           /\ c.orchestrator.version = GetValidPatchVersion(b, o.version)
           /\ c.master = cs.master
           /\ c.pools = cs.pools
<1> DEFINE Sized(boot) == [boot EXCEPT !.given = TRUE,
                                       !.size = IF @ = "" THEN "default" ELSE @]
           o == cs.orchestrator
           p == [o EXCEPT !.version = GetValidPatchVersion(b, @),
                          !.linux = Sized(@), !.windows = Sized(@)]
<1>1. ASSUME NEW boot \in BootstrapProfile PROVE Sized(boot) \in BootstrapProfile
  BY LiteralsAssumption DEF BootstrapProfile
<1>2. o \in OrchestratorProfile
  BY ContainerFields
<1>3. GetValidPatchVersion(b, o.version) \in {None} \union Version
  BY <1>2, PatchType DEF OrchestratorProfile
<1>4. SetOrchestratorDefaults(b, cs) = [cs EXCEPT !.orchestrator = p]
  BY DEF SetOrchestratorDefaults, ContainerService
<1> HIDE DEF Sized
<1>5. p \in OrchestratorProfile /\ p.version = GetValidPatchVersion(b, o.version)
  BY <1>1, <1>2, <1>3 DEF OrchestratorProfile
<1> HIDE DEF p
<1> QED BY <1>4, <1>5 DEF ContainerService

\* The addresses of bootstrap nodes and the first master, reset.
LEMMA OwnAddresses ==
    ASSUME NEW cs \in ContainerService, NEW x \in Address, NEW y \in Address,
           NEW z \in Address
    PROVE  LET c == InOwnNetwork(cs, x, y, z) IN
           /\ c \in ContainerService
           /\ c.orchestrator.version = cs.orchestrator.version
           /\ c.pools = cs.pools
           /\ c.master.count = cs.master.count
           /\ c.master.vnet = cs.master.vnet
           /\ c.master.subnet = DefaultMasterNet
           /\ c.master.firstIP = x
           /\ c.orchestrator.linux.ip = y
           /\ c.orchestrator.windows.ip = z
<1> DEFINE l == [cs.orchestrator.linux EXCEPT !.ip = y]
           w == [cs.orchestrator.windows EXCEPT !.ip = z]
           o == [cs.orchestrator EXCEPT !.linux = l, !.windows = w]
           m == [cs.master EXCEPT !.subnet = DefaultMasterNet, !.firstIP = x]
<1>1. cs.orchestrator \in OrchestratorProfile /\ cs.master \in MasterProfile
  BY ContainerFields
<1>2. l \in BootstrapProfile /\ l.ip = y
  BY <1>1 DEF OrchestratorProfile, BootstrapProfile
<1>3. w \in BootstrapProfile /\ w.ip = z
  BY <1>1 DEF OrchestratorProfile, BootstrapProfile
<1> HIDE DEF l, w
<1>4. /\ o \in OrchestratorProfile /\ o.version = cs.orchestrator.version
      /\ o.linux = l /\ o.windows = w
  BY <1>1, <1>2, <1>3 DEF OrchestratorProfile
<1>5. /\ m \in MasterProfile /\ m.subnet = DefaultMasterNet /\ m.firstIP = x
      /\ m.count = cs.master.count /\ m.vnet = cs.master.vnet
  BY <1>1, LiteralsAssumption DEF MasterProfile, DefaultMasterNet
<1>6. InOwnNetwork(cs, x, y, z) = [cs EXCEPT !.master = m, !.orchestrator = o]
  BY <1>1 DEF InOwnNetwork, o, m, l, w, ContainerService, MasterProfile, OrchestratorProfile
<1> HIDE DEF o, m
<1> DEFINE c == [cs EXCEPT !.master = m, !.orchestrator = o]
<1>7. /\ c \in ContainerService
      /\ c.master = m /\ c.orchestrator = o /\ c.pools = cs.pools
  BY <1>4, <1>5 DEF ContainerService
<1> HIDE DEF c
<1> QED BY <1>2, <1>3, <1>4, <1>5, <1>6, <1>7 DEF c

LEMMA DistroDefaults ==
    ASSUME NEW cs \in ContainerService
    PROVE  LET c == [cs EXCEPT !.master.distro = IF @ = "" THEN "ubuntu" ELSE @,
                               !.master.httpSource = IF @ = "" THEN "*" ELSE @] IN
           /\ c \in ContainerService
           /\ c.orchestrator = cs.orchestrator
           /\ c.pools = cs.pools
           /\ c.master.count = cs.master.count
           /\ c.master.vnet = cs.master.vnet
           /\ c.master.subnet = cs.master.subnet
           /\ c.master.firstIP = cs.master.firstIP
<1> DEFINE m == [cs.master EXCEPT !.distro = IF @ = "" THEN "ubuntu" ELSE @,
                                  !.httpSource = IF @ = "" THEN "*" ELSE @]
<1>1. cs.master \in MasterProfile
  BY ContainerFields
<1>2. /\ m \in MasterProfile /\ m.count = cs.master.count /\ m.vnet = cs.master.vnet
      /\ m.subnet = cs.master.subnet /\ m.firstIP = cs.master.firstIP
  BY <1>1, LiteralsAssumption DEF MasterProfile
<1>3. [cs EXCEPT !.master.distro = IF @ = "" THEN "ubuntu" ELSE @,
                 !.master.httpSource = IF @ = "" THEN "*" ELSE @] = [cs EXCEPT !.master = m]
  BY <1>1 DEF m, ContainerService, MasterProfile
<1> HIDE DEF m
<1> QED BY <1>2, <1>3 DEF ContainerService

LEMMA MasterNetworkDefaults ==
    ASSUME NEW cs \in ContainerService
    PROVE  LET c == SetMasterNetworkDefaults(cs, FALSE) IN
           /\ c \in ContainerService
           /\ c.orchestrator.version = cs.orchestrator.version
           /\ c.pools = cs.pools
           /\ c.master.count = cs.master.count
           /\ c.master.vnet = cs.master.vnet
           /\ ~IsCustomVNET(cs.master) =>
                /\ c.master.subnet = DefaultMasterNet
                /\ c.master.firstIP = <<DefaultMasterNet, 5>>
                /\ c.orchestrator.linux.ip = <<DefaultMasterNet, 240>>
                /\ c.orchestrator.windows.ip = <<DefaultMasterNet, 241>>
<1> DEFINE x == <<DefaultMasterNet, 5>>
           y == <<DefaultMasterNet, 240>>
           z == <<DefaultMasterNet, 241>>
           moved == WithAddresses(cs, FALSE)
           own == IF IsCustomVNET(cs.master) THEN cs ELSE moved
           c == [own EXCEPT !.master.distro = IF @ = "" THEN "ubuntu" ELSE @,
                            !.master.httpSource = IF @ = "" THEN "*" ELSE @]
<1>1. DefaultMasterNet \in STRING
  BY LiteralsAssumption DEF DefaultMasterNet
<1>2. \A byte \in Nat : <<DefaultMasterNet, byte>> \in Address
  BY <1>1 DEF Address
<1>3. x \in Address /\ y \in Address /\ z \in Address
  BY <1>2
<1>4. SetMasterNetworkDefaults(cs, FALSE) = c
  BY DEF SetMasterNetworkDefaults
<1>5. moved = InOwnNetwork(cs, x, y, z)
  BY DEF WithAddresses
<1> HIDE DEF x, y, z, moved, own, c
<1>6. /\ moved \in ContainerService
      /\ moved.orchestrator.version = cs.orchestrator.version
      /\ moved.pools = cs.pools
      /\ moved.master.count = cs.master.count
      /\ moved.master.vnet = cs.master.vnet
      /\ moved.master.subnet = DefaultMasterNet
      /\ moved.master.firstIP = x
      /\ moved.orchestrator.linux.ip = y
      /\ moved.orchestrator.windows.ip = z
  <2>1. /\ InOwnNetwork(cs, x, y, z) \in ContainerService
        /\ InOwnNetwork(cs, x, y, z).orchestrator.version = cs.orchestrator.version
        /\ InOwnNetwork(cs, x, y, z).pools = cs.pools
        /\ InOwnNetwork(cs, x, y, z).master.count = cs.master.count
        /\ InOwnNetwork(cs, x, y, z).master.vnet = cs.master.vnet
        /\ InOwnNetwork(cs, x, y, z).master.subnet = DefaultMasterNet
        /\ InOwnNetwork(cs, x, y, z).master.firstIP = x
        /\ InOwnNetwork(cs, x, y, z).orchestrator.linux.ip = y
        /\ InOwnNetwork(cs, x, y, z).orchestrator.windows.ip = z
    BY <1>3, OwnAddresses
  <2> QED BY <2>1, <1>5, Zenon
<1>7. own \in ContainerService
  BY <1>6 DEF own
<1>8. /\ c \in ContainerService
      /\ c.orchestrator = own.orchestrator
      /\ c.pools = own.pools
      /\ c.master.count = own.master.count
      /\ c.master.vnet = own.master.vnet
      /\ c.master.subnet = own.master.subnet
      /\ c.master.firstIP = own.master.firstIP
  BY <1>7, DistroDefaults DEF c
<1>9. CASE IsCustomVNET(cs.master)
  <2>1. own = cs
    BY <1>9 DEF own
  <2> QED BY <1>4, <1>8, <1>9, <2>1
<1>10. CASE ~IsCustomVNET(cs.master)
  <2>1. own = moved
    BY <1>10 DEF own
  <2>2. /\ c.master.firstIP = x
        /\ c.orchestrator.linux.ip = y /\ c.orchestrator.windows.ip = z
    BY <1>6, <1>8, <2>1
  <2> QED BY <1>4, <1>6, <1>8, <2>1, <2>2 DEF x, y, z
<1> QED BY <1>9, <1>10

LEMMA AgentNetworkDefaults ==
    ASSUME NEW cs \in ContainerService
    PROVE  LET c == SetAgentNetworkDefaults(cs) IN
           /\ c \in ContainerService
           /\ c.orchestrator = cs.orchestrator
           /\ c.master = cs.master
           /\ \A i \in DOMAIN c.pools : c.pools[i].os # ""
           /\ ~IsCustomVNET(cs.master) =>
                \A i \in DOMAIN c.pools : c.pools[i].subnet = <<"10", i - 1>>
<1> DEFINE net(i) == <<"10", i - 1>>
           F(i) == [cs.pools[i] EXCEPT
                      !.subnet = IF IsCustomVNET(cs.master) THEN @ ELSE net(i),
                      !.os = IF @ = "" THEN "Linux" ELSE @,
                      !.distro = IF @ = "" THEN "ubuntu" ELSE @]
           f == [i \in DOMAIN cs.pools |-> F(i)]
<1>1. ASSUME NEW i \in DOMAIN cs.pools PROVE net(i) \in Address
  <2>1. i \in Nat /\ i >= 1
    BY ContainerFields
  <2>2. i - 1 \in Nat
    BY <2>1
  <2>3. "10" \in STRING
    BY LiteralsAssumption
  <2> QED BY <2>2, <2>3 DEF Address
<1>2. SetAgentNetworkDefaults(cs) = [cs EXCEPT !.pools = f]
  BY DEF SetAgentNetworkDefaults
<1> HIDE DEF net
<1>3. ASSUME NEW i \in DOMAIN cs.pools
      PROVE  /\ F(i) \in AgentPoolProfile
             /\ F(i).os # ""
             /\ ~IsCustomVNET(cs.master) => F(i).subnet = net(i)
  <2>1. cs.pools[i] \in AgentPoolProfile
    BY ContainerFields
  <2> QED BY <1>1, <2>1, LiteralsAssumption DEF AgentPoolProfile
<1> HIDE DEF F
<1>4. f \in Seq(AgentPoolProfile)
  BY <1>3, ContainerFields, PoolwiseType
<1>5. DOMAIN f = DOMAIN cs.pools /\ \A i \in DOMAIN cs.pools : f[i] = F(i)
  OBVIOUS
<1> HIDE DEF f
<1> DEFINE c == [cs EXCEPT !.pools = f]
<1>6. /\ c \in ContainerService
      /\ c.orchestrator = cs.orchestrator /\ c.master = cs.master /\ c.pools = f
  BY <1>4 DEF ContainerService
<1> HIDE DEF c
<1>7. \A i \in DOMAIN c.pools : c.pools[i].os # ""
  BY <1>3, <1>5, <1>6
<1>8. ~IsCustomVNET(cs.master) => \A i \in DOMAIN c.pools : c.pools[i].subnet = <<"10", i - 1>>
  BY <1>3, <1>5, <1>6 DEF net
<1>9. SetAgentNetworkDefaults(cs) = c
  BY <1>2 DEF c
<1> QED BY <1>6, <1>7, <1>8, <1>9

LEMMA StorageDefaults ==
    ASSUME NEW cs \in ContainerService
    PROVE  LET c == SetStorageDefaults(cs) IN
           /\ c \in ContainerService
           /\ c.orchestrator = cs.orchestrator
           /\ c.master.count = cs.master.count
           /\ c.master.vnet = cs.master.vnet
           /\ c.master.subnet = cs.master.subnet
           /\ c.master.firstIP = cs.master.firstIP
           /\ DOMAIN c.pools = DOMAIN cs.pools
           /\ \A i \in DOMAIN c.pools : /\ c.pools[i].avail # ""
                                        /\ c.pools[i].os = cs.pools[i].os
                                        /\ c.pools[i].subnet = cs.pools[i].subnet
<1> DEFINE m == [cs.master EXCEPT !.storage = IF @ = "" THEN "ManagedDisks" ELSE @]
           F(i) == [cs.pools[i] EXCEPT
                      !.storage = IF @ = "" THEN "StorageAccount" ELSE @,
                      !.avail = IF @ = "" THEN "VirtualMachineScaleSets" ELSE @,
                      !.eviction = IF @ = "" /\ cs.pools[i].priority = "Low"
                                   THEN "Delete" ELSE @]
           f == [i \in DOMAIN cs.pools |-> F(i)]
<1>1. /\ m \in MasterProfile /\ m.count = cs.master.count /\ m.vnet = cs.master.vnet
      /\ m.subnet = cs.master.subnet /\ m.firstIP = cs.master.firstIP
  BY ContainerFields, LiteralsAssumption DEF MasterProfile
<1>2. SetStorageDefaults(cs) = [cs EXCEPT !.master = m, !.pools = f]
  BY DEF SetStorageDefaults, ContainerService
<1>3. ASSUME NEW i \in DOMAIN cs.pools
      PROVE  /\ F(i) \in AgentPoolProfile
             /\ F(i).avail # ""
             /\ F(i).os = cs.pools[i].os
             /\ F(i).subnet = cs.pools[i].subnet
  <2>1. cs.pools[i] \in AgentPoolProfile
    BY ContainerFields
  <2> QED BY <2>1, LiteralsAssumption DEF AgentPoolProfile
<1> HIDE DEF F, m
<1>4. f \in Seq(AgentPoolProfile)
  BY <1>3, ContainerFields, PoolwiseType
<1>5. DOMAIN f = DOMAIN cs.pools /\ \A i \in DOMAIN cs.pools : f[i] = F(i)
  OBVIOUS
<1> HIDE DEF f
<1> DEFINE c == [cs EXCEPT !.master = m, !.pools = f]
<1>6. /\ c \in ContainerService
      /\ c.orchestrator = cs.orchestrator /\ c.master = m /\ c.pools = f
  BY <1>1, <1>4 DEF ContainerService
<1> HIDE DEF c
<1>7. \A i \in DOMAIN c.pools : /\ c.pools[i].avail # ""
                                /\ c.pools[i].os = cs.pools[i].os
                                /\ c.pools[i].subnet = cs.pools[i].subnet
  BY <1>3, <1>5, <1>6
<1>8. SetStorageDefaults(cs) = c
  BY <1>2 DEF c
<1> QED BY <1>1, <1>5, <1>6, <1>7, <1>8

\* What the model a template is rendered from has of the model it comes from.
LEMMA RenderedFacts ==
    ASSUME NEW b \in Builds, NEW cs \in ContainerService
    PROVE  LET c == Rendered(b, cs) IN
           /\ c \in ContainerService
           /\ c.orchestrator.version = GetValidPatchVersion(b, cs.orchestrator.version)
           /\ c.master.count = cs.master.count
           /\ c.master.vnet = cs.master.vnet
           /\ Filled(c)
           /\ ~IsCustomVNET(cs.master) =>
                /\ c.master.subnet = DefaultMasterNet
                /\ c.master.firstIP = <<DefaultMasterNet, 5>>
                /\ c.orchestrator.linux.ip = <<DefaultMasterNet, 240>>
                /\ c.orchestrator.windows.ip = <<DefaultMasterNet, 241>>
                /\ \A i \in DOMAIN c.pools : c.pools[i].subnet = <<"10", i - 1>>
<1> DEFINE c1 == SetOrchestratorDefaults(b, cs)
           c2 == SetMasterNetworkDefaults(c1, FALSE)
           c3 == SetAgentNetworkDefaults(c2)
           c4 == SetStorageDefaults(c3)
<1>1. Rendered(b, cs) = c4
  BY DEF Rendered, SetPropertiesDefaults
<1>2. /\ c1 \in ContainerService
      /\ c1.orchestrator.version = GetValidPatchVersion(b, cs.orchestrator.version)
      /\ c1.master = cs.master
  BY OrchestratorDefaults
<1> HIDE DEF c1
<1>3. /\ c2 \in ContainerService
      /\ c2.orchestrator.version = c1.orchestrator.version
      /\ c2.master.count = c1.master.count
      /\ c2.master.vnet = c1.master.vnet
  BY <1>2, MasterNetworkDefaults
<1>4. ~IsCustomVNET(c1.master) =>
        /\ c2.master.subnet = DefaultMasterNet
        /\ c2.master.firstIP = <<DefaultMasterNet, 5>>
        /\ c2.orchestrator.linux.ip = <<DefaultMasterNet, 240>>
        /\ c2.orchestrator.windows.ip = <<DefaultMasterNet, 241>>
  BY <1>2, MasterNetworkDefaults
<1> HIDE DEF c2
<1>5. /\ c3 \in ContainerService
      /\ c3.orchestrator = c2.orchestrator
      /\ c3.master = c2.master
      /\ \A i \in DOMAIN c3.pools : c3.pools[i].os # ""
      /\ ~IsCustomVNET(c2.master) =>
           \A i \in DOMAIN c3.pools : c3.pools[i].subnet = <<"10", i - 1>>
  BY <1>3, AgentNetworkDefaults
<1> HIDE DEF c3
<1>6. /\ c4 \in ContainerService
      /\ c4.orchestrator = c3.orchestrator
      /\ c4.master.count = c3.master.count
      /\ c4.master.vnet = c3.master.vnet
      /\ c4.master.subnet = c3.master.subnet
      /\ c4.master.firstIP = c3.master.firstIP
      /\ DOMAIN c4.pools = DOMAIN c3.pools
      /\ \A i \in DOMAIN c4.pools : /\ c4.pools[i].avail # ""
                                    /\ c4.pools[i].os = c3.pools[i].os
                                    /\ c4.pools[i].subnet = c3.pools[i].subnet
  BY <1>5, StorageDefaults
<1> HIDE DEF c4
<1>7. /\ c4.orchestrator.version = GetValidPatchVersion(b, cs.orchestrator.version)
      /\ c4.master.count = cs.master.count
      /\ c4.master.vnet = cs.master.vnet
      /\ Filled(c4)
  BY <1>2, <1>3, <1>5, <1>6 DEF Filled
<1>8. ~IsCustomVNET(cs.master) =>
        /\ c4.master.subnet = DefaultMasterNet
        /\ c4.master.firstIP = <<DefaultMasterNet, 5>>
        /\ c4.orchestrator.linux.ip = <<DefaultMasterNet, 240>>
        /\ c4.orchestrator.windows.ip = <<DefaultMasterNet, 241>>
        /\ \A i \in DOMAIN c4.pools : c4.pools[i].subnet = <<"10", i - 1>>
  <2>1. IsCustomVNET(c1.master) = IsCustomVNET(cs.master)
    BY <1>2
  <2>2. IsCustomVNET(c2.master) = IsCustomVNET(c1.master)
    BY <1>3 DEF IsCustomVNET
  <2>3. ~IsCustomVNET(cs.master) =>
          \A i \in DOMAIN c4.pools : c4.pools[i].subnet = <<"10", i - 1>>
    BY <2>1, <2>2, <1>5, <1>6
  <2>4. ~IsCustomVNET(cs.master) =>
          /\ c4.master.subnet = DefaultMasterNet
          /\ c4.master.firstIP = <<DefaultMasterNet, 5>>
          /\ c4.orchestrator.linux.ip = <<DefaultMasterNet, 240>>
          /\ c4.orchestrator.windows.ip = <<DefaultMasterNet, 241>>
    <3>1. /\ c4.orchestrator = c2.orchestrator
          /\ c4.master.subnet = c2.master.subnet
          /\ c4.master.firstIP = c2.master.firstIP
      BY <1>5, <1>6
    <3> QED BY <2>1, <1>4, <3>1
  <2> QED BY <2>3, <2>4
<1> QED BY <1>1, <1>6, <1>7, <1>8

\* What is saved of a model.
LEMMA SerializeFacts ==
    ASSUME NEW cs \in ContainerService
    PROVE  LET d == SerializeContainerService(cs)
               v == cs.orchestrator.version IN
           /\ d \in ContainerService
           /\ d.orchestrator.version = v
           /\ v # None => d.orchestrator.release = Release(v)
           /\ d.orchestrator.linux = cs.orchestrator.linux
           /\ d.orchestrator.windows = cs.orchestrator.windows
           /\ d.master.count = cs.master.count
           /\ d.master.firstIP = cs.master.firstIP
<1> DEFINE o == ConvertOrchestratorProfileToVLabs(cs.orchestrator)
           m == ConvertMasterProfileToVLabs(cs.master)
           f == [i \in DOMAIN cs.pools |-> ConvertAgentPoolProfileToVLabs(cs.pools[i])]
           d == [cs EXCEPT !.orchestrator = o, !.master = m, !.pools = f]
<1>1. SerializeContainerService(cs) = d
  BY DEF SerializeContainerService
<1>2. /\ o \in OrchestratorProfile
      /\ o.version = cs.orchestrator.version
      /\ cs.orchestrator.version # None => o.release = Release(cs.orchestrator.version)
      /\ o.linux = cs.orchestrator.linux /\ o.windows = cs.orchestrator.windows
  <2> DEFINE v == cs.orchestrator.version
             r == IF v = None THEN None ELSE Release(v)
  <2>1. o = [cs.orchestrator EXCEPT !.release = r]
    BY DEF ConvertOrchestratorProfileToVLabs
  <2>2. v \in {None} \union Version
    BY ContainerFields DEF OrchestratorProfile
  <2>3. r \in {None} \union (Nat \X Nat) /\ (v # None => r = Release(v))
    BY <2>2, ReleaseType
  <2> HIDE DEF r, o
  <2> QED BY <2>1, <2>3, ContainerFields DEF OrchestratorProfile
<1>3. m \in MasterProfile /\ m.count = cs.master.count /\ m.firstIP = cs.master.firstIP
  BY ContainerFields, LiteralsAssumption DEF ConvertMasterProfileToVLabs, MasterProfile
<1>4. f \in Seq(AgentPoolProfile)
  <2>1. ASSUME NEW p \in AgentPoolProfile
        PROVE  ConvertAgentPoolProfileToVLabs(p) \in AgentPoolProfile
    BY DEF ConvertAgentPoolProfileToVLabs, AgentPoolProfile, Address
  <2>2. \A i \in DOMAIN cs.pools : cs.pools[i] \in AgentPoolProfile
    BY ContainerFields
  <2> QED BY <2>1, <2>2, ContainerFields, PoolwiseType
<1> HIDE DEF o, m, f
<1>5. d \in ContainerService /\ d.orchestrator = o /\ d.master = m
  BY <1>2, <1>3, <1>4 DEF ContainerService
<1> HIDE DEF d
<1> QED BY <1>1, <1>2, <1>3, <1>5

LEMMA AfterGenerateFacts ==
    ASSUME NEW b \in Builds, NEW cs \in ContainerService
    PROVE  LET d == AfterGenerate(b, cs)
               c == Rendered(b, cs) IN
           /\ d \in ContainerService
           /\ d.orchestrator.version = cs.orchestrator.version
           /\ d.orchestrator.linux = c.orchestrator.linux
           /\ d.orchestrator.windows = c.orchestrator.windows
           /\ d.master = c.master
<1> DEFINE c == Rendered(b, cs)
           o == [c.orchestrator EXCEPT !.version = cs.orchestrator.version]
           d == [c EXCEPT !.orchestrator = o]
<1>1. c \in ContainerService
  BY RenderedFacts
<1>2. AfterGenerate(b, cs) = [c EXCEPT !.orchestrator.version = cs.orchestrator.version]
  BY DEF AfterGenerate
<1> HIDE DEF c
<1>3. AfterGenerate(b, cs) = d
  BY <1>1, <1>2 DEF ContainerService
<1>4. /\ o \in OrchestratorProfile /\ o.version = cs.orchestrator.version
      /\ o.linux = c.orchestrator.linux /\ o.windows = c.orchestrator.windows
  BY <1>1, ContainerFields DEF OrchestratorProfile
<1> HIDE DEF o
<1>5. d \in ContainerService /\ d.orchestrator = o /\ d.master = c.master
  BY <1>1, <1>4 DEF ContainerService
<1> HIDE DEF d
<1> QED BY <1>3, <1>4, <1>5 DEF c

----------------------------------------------------------------------------
(* The invariant *)

\* A saved document has the version and the addresses of the cluster it
\* describes.
Linked ==
    Saved => /\ cluster \in ContainerService
             /\ cluster.orchestrator.version \in Version
             /\ doc.orchestrator.version = cluster.orchestrator.version
             /\ doc.orchestrator.linux.ip = cluster.orchestrator.linux.ip
             /\ doc.orchestrator.windows.ip = cluster.orchestrator.windows.ip
             /\ doc.master.count = cluster.master.count
             /\ doc.master.firstIP = cluster.master.firstIP

\* A cluster in the tool's own network has the tool's addresses.
OwnNetwork ==
    Saved /\ ~IsCustomVNET(cluster.master) =>
        /\ cluster.master.count \in {1, 3, 5}
        /\ cluster.master.subnet = DefaultMasterNet
        /\ cluster.master.firstIP = <<DefaultMasterNet, 5>>
        /\ cluster.orchestrator.linux.ip = <<DefaultMasterNet, 240>>
        /\ cluster.orchestrator.windows.ip = <<DefaultMasterNet, 241>>
        /\ \A i \in DOMAIN cluster.pools : cluster.pools[i].subnet = <<"10", i - 1>>

IInv == TypeOK /\ Linked /\ OwnNetwork

LEMMA InitInv == Init => IInv
BY DocsAssumption DEF Init, IInv, TypeOK, Linked, OwnNetwork, Saved

\* The end of generate and deploy, from a model whose version is supported.
LEMMA ProduceInv ==
    ASSUME build \in Builds, NEW cs \in ContainerService, Produce(cs),
           cs.orchestrator.version \in build.supported,
           cs.master.count \in {1, 3, 5}
    PROVE  IInv'
<1> DEFINE v == cs.orchestrator.version
           c == Rendered(build, cs)
           a == AfterGenerate(build, cs)
           d == SerializeContainerService(a)
<1>1. cluster' = c /\ doc' = d /\ build' = build
  BY DEF Produce
<1>2. v \in Version
  BY BuildsAssumption
<1>3. GetValidPatchVersion(build, v) = v
  BY <1>2, PatchType
<1>4. /\ c \in ContainerService
      /\ c.orchestrator.version = v
      /\ c.master.count = cs.master.count
      /\ c.master.vnet = cs.master.vnet
      /\ Filled(c)
  <2>1. /\ c \in ContainerService
        /\ c.orchestrator.version = GetValidPatchVersion(build, v)
        /\ c.master.count = cs.master.count
        /\ c.master.vnet = cs.master.vnet
        /\ Filled(c)
    BY RenderedFacts
  <2> QED BY <2>1, <1>3
<1>5. ~IsCustomVNET(cs.master) =>
        /\ c.master.subnet = DefaultMasterNet
        /\ c.master.firstIP = <<DefaultMasterNet, 5>>
        /\ c.orchestrator.linux.ip = <<DefaultMasterNet, 240>>
        /\ c.orchestrator.windows.ip = <<DefaultMasterNet, 241>>
        /\ \A i \in DOMAIN c.pools : c.pools[i].subnet = <<"10", i - 1>>
  BY RenderedFacts
<1>6. /\ a \in ContainerService
      /\ a.orchestrator.version = v
      /\ a.orchestrator.linux = c.orchestrator.linux
      /\ a.orchestrator.windows = c.orchestrator.windows
      /\ a.master = c.master
  BY AfterGenerateFacts
<1> HIDE DEF a, c
<1>7. /\ d \in ContainerService
      /\ d.orchestrator.version = a.orchestrator.version
      /\ d.orchestrator.release = Release(v)
      /\ d.orchestrator.linux = a.orchestrator.linux
      /\ d.orchestrator.windows = a.orchestrator.windows
      /\ d.master.count = a.master.count
      /\ d.master.firstIP = a.master.firstIP
  BY <1>2, <1>6, NoneIsNoVersion, SerializeFacts
<1> HIDE DEF d
<1>8. TypeOK'
  BY <1>1, <1>2, <1>4, <1>6, <1>7, NoneIsNoVersion DEF TypeOK
<1>9. Linked'
  BY <1>1, <1>2, <1>4, <1>6, <1>7 DEF Linked
<1>10. OwnNetwork'
  <2>1. IsCustomVNET(c.master) = IsCustomVNET(cs.master)
    BY <1>4 DEF IsCustomVNET
  <2> QED BY <1>1, <1>4, <1>5, <2>1 DEF OwnNetwork
<1> HIDE DEF v
<1> QED BY <1>8, <1>9, <1>10 DEF IInv

\* Loading a valid document gives a model whose version is supported.
LEMMA LoadValid ==
    ASSUME NEW b \in Builds, NEW d \in ContainerService, Validate(b, d, FALSE)
    PROVE  LET c == LoadContainerService(b, d) IN
           /\ c \in ContainerService
           /\ c.orchestrator.version \in b.supported
           /\ c.master.count \in {1, 3, 5}
<1> DEFINE o == d.orchestrator
           w == RationalizeReleaseAndVersion(b, o.release, o.version)
           c == LoadContainerService(b, d)
<1>1. d.master.count \in {1, 3, 5}
  <2>1. ValidStruct(d)
    BY DEF Validate
  <2> QED BY <2>1 DEF ValidStruct
<1>2. w # None
  BY DEF Validate, ValidOrchestratorProfile
<1>3. o.release \in {None} \union (Nat \X Nat) /\ o.version \in {None} \union Version
  BY ContainerFields DEF OrchestratorProfile
<1>4. w \in b.supported
  BY <1>2, <1>3, RationalizeType
<1>5. c \in ContainerService /\ c.orchestrator.version = w /\ c.master.count = d.master.count
  BY LoadFacts
<1> HIDE DEF c, w
<1> QED BY <1>1, <1>4, <1>5 DEF c

LEMMA GenerateInv == ASSUME IInv, Generate PROVE IInv'
<1>1. build \in Builds /\ doc \in ContainerService
  BY DEF IInv, TypeOK
<1> QED BY <1>1, LoadValid, ProduceInv DEF Generate

LEMMA DeployInv ==
    ASSUME IInv, NEW flag \in DnsNames \union {""}, Deploy(flag)
    PROVE  IInv'
<1> DEFINE c == ConvertVLabsContainerService(build, doc)
           a == Autofill(c, flag)
           d == DeployedDocument(build, doc, flag)
<1>1. build \in Builds /\ doc \in ContainerService
  BY DEF IInv, TypeOK
<1>2. c \in ContainerService
  BY <1>1, ToContainer
<1>3. d = SerializeContainerService(a)
  BY DEF DeployedDocument
<1> HIDE DEF c, d
<1>4. a \in ContainerService
  <2> DEFINE m == [c.master EXCEPT !.dns = IF @ = "" THEN flag ELSE @]
  <2>1. flag \in STRING
    BY NamesAssumption, LiteralsAssumption
  <2>2. m \in MasterProfile
    BY <1>2, <2>1, ContainerFields DEF MasterProfile
  <2>3. a = [c EXCEPT !.master = m, !.sshKey = "given"]
    BY <1>2 DEF Autofill, ContainerService
  <2> HIDE DEF m
  <2> QED BY <1>2, <2>2, <2>3 DEF ContainerService
<1> HIDE DEF a
<1>5. d \in ContainerService
  BY <1>3, <1>4, SerializeFacts
<1>6. Validate(build, d, FALSE) /\ Produce(LoadContainerService(build, d))
  BY DEF Deploy, d
<1> QED BY <1>1, <1>5, <1>6, LoadValid, ProduceInv

LEMMA ScaleInv ==
    ASSUME IInv, NEW i \in DOMAIN doc.pools, NEW n \in Counts, Scale(i, n)
    PROVE  IInv'
<1> DEFINE p == [doc.pools[i] EXCEPT !.count = n]
           f == [doc.pools EXCEPT ![i] = p]
<1>1. doc \in ContainerService /\ build \in Builds /\ Saved
  BY DEF IInv, TypeOK, Scale
<1>2. p \in AgentPoolProfile
  <2>1. doc.pools[i] \in AgentPoolProfile
    BY <1>1, ContainerFields
  <2>2. n \in Nat
    BY CountsAssumption
  <2> QED BY <2>1, <2>2 DEF AgentPoolProfile
<1>3. doc' = [doc EXCEPT !.pools = f]
  BY <1>1 DEF Scale, ContainerService
<1> HIDE DEF p
<1>4. f \in Seq(AgentPoolProfile)
  BY <1>1, <1>2, ContainerFields
<1> HIDE DEF f
<1>5. /\ doc' \in ContainerService
      /\ doc'.orchestrator = doc.orchestrator /\ doc'.master = doc.master
  BY <1>1, <1>3, <1>4 DEF ContainerService
<1>6. build' = build /\ cluster' = cluster
  BY DEF Scale
<1>7. TypeOK' /\ Linked' /\ OwnNetwork'
  BY <1>1, <1>5, <1>6 DEF IInv, TypeOK, Linked, OwnNetwork, Saved
<1> QED BY <1>7 DEF IInv

\* What an upgrade changes of a model.
LEMMA UpgradedFacts ==
    ASSUME NEW cs \in ContainerService, NEW v \in Version
    PROVE  LET c == UpgradedModel(cs, v) IN
           /\ c \in ContainerService
           /\ c.orchestrator.version = v
           /\ c.orchestrator.linux.ip = cs.orchestrator.linux.ip
           /\ c.orchestrator.windows.ip = cs.orchestrator.windows.ip
           /\ c.master = cs.master
           /\ c.pools = cs.pools
<1> DEFINE l == [cs.orchestrator.linux EXCEPT !.url = v]
           w == [cs.orchestrator.windows EXCEPT !.url = v]
           o == [cs.orchestrator EXCEPT !.version = v, !.linux = l, !.windows = w]
           c == [cs EXCEPT !.orchestrator = o]
<1>1. cs.orchestrator \in OrchestratorProfile
  BY ContainerFields
<1>2. l \in BootstrapProfile /\ l.ip = cs.orchestrator.linux.ip
  BY <1>1 DEF OrchestratorProfile, BootstrapProfile
<1>3. w \in BootstrapProfile /\ w.ip = cs.orchestrator.windows.ip
  BY <1>1 DEF OrchestratorProfile, BootstrapProfile
<1>4. UpgradedModel(cs, v) = c
  BY <1>1 DEF UpgradedModel, ContainerService, OrchestratorProfile
<1> HIDE DEF l, w
<1>5. o \in OrchestratorProfile /\ o.version = v /\ o.linux = l /\ o.windows = w
  BY <1>1, <1>2, <1>3 DEF OrchestratorProfile
<1> HIDE DEF o
<1>6. /\ c \in ContainerService
      /\ c.orchestrator = o /\ c.master = cs.master /\ c.pools = cs.pools
  BY <1>5 DEF ContainerService
<1> HIDE DEF c
<1> QED BY <1>2, <1>3, <1>4, <1>5, <1>6

\* dcos-upgrade starts from the version of the cluster.
LEMMA UpgradeStarts ==
    ASSUME IInv, NEW v \in build.supported, Upgrade(v)
    PROVE  LET old == cluster.orchestrator.version IN
           /\ Saved
           /\ old \in Version
           /\ LoadContainerService(build, doc).orchestrator.version = old
           /\ ~LT(v, old)
           /\ v \in DcosUpgrades(build, old) \union {old}
<1> DEFINE cs == LoadContainerService(build, doc)
           old == cluster.orchestrator.version
           o == doc.orchestrator
<1>1. /\ build \in Builds /\ doc \in ContainerService /\ Saved
      /\ old \in Version /\ o.version = old
  BY DEF IInv, TypeOK, Linked, Upgrade
<1>2. /\ cs.orchestrator.version # None
      /\ ~LT(v, cs.orchestrator.version)
      /\ v \in DcosUpgrades(build, cs.orchestrator.version)
                 \union {cs.orchestrator.version}
  BY DEF Upgrade, Upgradeable
<1>3. cs.orchestrator.version = RationalizeReleaseAndVersion(build, o.release, old)
  BY <1>1, LoadFacts
<1>4. o.release \in {None} \union (Nat \X Nat)
  BY <1>1, ContainerFields DEF OrchestratorProfile
<1>5. old # None
  BY <1>1, NoneIsNoVersion
<1> HIDE DEF cs, old
<1>6. cs.orchestrator.version = old
  BY <1>1, <1>2, <1>3, <1>4, <1>5, RationalizeType
<1> QED BY <1>1, <1>2, <1>6 DEF cs, old

LEMMA UpgradeInv ==
    ASSUME IInv, NEW v \in build.supported, Upgrade(v)
    PROVE  IInv'
<1> DEFINE cs == LoadContainerService(build, doc)
           u == UpgradedModel(cs, v)
<1>1. build \in Builds /\ doc \in ContainerService /\ Saved /\ cluster \in ContainerService
  BY DEF IInv, TypeOK, Linked, Upgrade
<1>2. v \in Version /\ v # None
  BY <1>1, BuildsAssumption, NoneIsNoVersion
<1>3. /\ doc' = SerializeContainerService(u)
      /\ cluster' = UpgradedModel(cluster, v)
      /\ build' = build
  BY DEF Upgrade
<1>4. /\ cs \in ContainerService
      /\ cs.orchestrator.linux = doc.orchestrator.linux
      /\ cs.orchestrator.windows = doc.orchestrator.windows
      /\ cs.master.count = doc.master.count
      /\ cs.master.firstIP = doc.master.firstIP
  BY <1>1, LoadFacts
<1> HIDE DEF cs
<1>5. /\ u \in ContainerService
      /\ u.orchestrator.version = v
      /\ u.orchestrator.linux.ip = cs.orchestrator.linux.ip
      /\ u.orchestrator.windows.ip = cs.orchestrator.windows.ip
      /\ u.master = cs.master
  BY <1>2, <1>4, UpgradedFacts
<1> HIDE DEF u
<1>6. /\ doc' \in ContainerService
      /\ doc'.orchestrator.version = v
      /\ doc'.orchestrator.release = Release(v)
      /\ doc'.orchestrator.linux = u.orchestrator.linux
      /\ doc'.orchestrator.windows = u.orchestrator.windows
      /\ doc'.master.count = u.master.count
      /\ doc'.master.firstIP = u.master.firstIP
  BY <1>2, <1>3, <1>5, SerializeFacts
<1>7. /\ cluster' \in ContainerService
      /\ cluster'.orchestrator.version = v
      /\ cluster'.orchestrator.linux.ip = cluster.orchestrator.linux.ip
      /\ cluster'.orchestrator.windows.ip = cluster.orchestrator.windows.ip
      /\ cluster'.master = cluster.master
      /\ cluster'.pools = cluster.pools
  BY <1>1, <1>2, <1>3, UpgradedFacts
<1>8. TypeOK'
  <2>1. Filled(cluster)'
    BY <1>1, <1>7 DEF IInv, TypeOK, Filled
  <2> QED BY <1>1, <1>2, <1>3, <1>6, <1>7, <2>1 DEF IInv, TypeOK
<1>9. Linked'
  BY <1>1, <1>2, <1>4, <1>5, <1>6, <1>7 DEF IInv, Linked
<1>10. OwnNetwork'
  BY <1>1, <1>7 DEF IInv, OwnNetwork
<1> QED BY <1>8, <1>9, <1>10 DEF IInv

LEMMA NextInv == IInv /\ [Next]_vars => IInv'
<1> SUFFICES ASSUME IInv, [Next]_vars PROVE IInv'
  OBVIOUS
<1>1. CASE Generate
  BY <1>1, GenerateInv
<1>2. CASE \E flag \in DnsNames \union {""} : Deploy(flag)
  BY <1>2, DeployInv
<1>3. CASE \E v \in build.supported : Upgrade(v)
  BY <1>3, UpgradeInv
<1>4. CASE \E i \in DOMAIN doc.pools, n \in Counts : Scale(i, n)
  BY <1>4, ScaleInv
<1>5. CASE \E b \in Builds : Install(b)
  <2>1. PICK b \in Builds : build' = b /\ doc' = doc /\ cluster' = cluster
    BY <1>5 DEF Install
  <2>2. Saved' = Saved
    BY <2>1 DEF Saved
  <2> QED BY <2>1, <2>2 DEF IInv, TypeOK, Linked, OwnNetwork
<1>6. CASE UNCHANGED vars
  BY <1>6 DEF vars, IInv, TypeOK, Linked, OwnNetwork, Saved
<1> QED BY <1>1, <1>2, <1>3, <1>4, <1>5, <1>6 DEF Next

LEMMA AlwaysInv == Spec => []IInv
BY InitInv, NextInv, PTL DEF Spec

----------------------------------------------------------------------------
(* What loading, rendering and saving make of a document *)

\* A pool of the model that is loaded from document d.
LoadedPool(d, i) ==
    [d.pools[i] EXCEPT
        !.ports = IF i \in Visited(d.pools) /\ d.pools[i].dns # "" /\ d.pools[i].ports = <<>>
                  THEN DefaultPorts ELSE @,
        !.storage = OrManaged(@)]

LEMMA LoadForm ==
    ASSUME NEW b \in Builds, NEW d \in ContainerService
    PROVE  LET c == LoadContainerService(b, d) IN
           /\ c.orchestrator = ConvertVLabsOrchestratorProfile(b, d.orchestrator)
           /\ c.master = ConvertVLabsMasterProfile(d.master)
           /\ c.pools = [i \in DOMAIN d.pools |-> LoadedPool(d, i)]
           /\ c.windowsProfile = d.windowsProfile /\ c.sshKey = d.sshKey
<1> DEFINE F(i) == IF i \in Visited(d.pools) /\ d.pools[i].dns # "" /\ d.pools[i].ports = <<>>
                   THEN [d.pools[i] EXCEPT !.ports = DefaultPorts]
                   ELSE d.pools[i]
           f == [i \in DOMAIN d.pools |-> F(i)]
           e == [d EXCEPT !.pools = f]
           g == [i \in DOMAIN d.pools |-> ConvertVLabsAgentPoolProfile(f[i])]
           h == [i \in DOMAIN d.pools |-> LoadedPool(d, i)]
           c == [d EXCEPT !.orchestrator = ConvertVLabsOrchestratorProfile(b, d.orchestrator),
                          !.master = ConvertVLabsMasterProfile(d.master),
                          !.pools = g]
<1>1. WithPorts(d) = e
  BY DEF WithPorts
<1>2. ASSUME NEW i \in DOMAIN d.pools
      PROVE  ConvertVLabsAgentPoolProfile(f[i]) = LoadedPool(d, i)
  <2>1. d.pools[i] \in AgentPoolProfile
    BY ContainerFields
  <2>2. f[i] = F(i)
    OBVIOUS
  <2>3. ConvertVLabsAgentPoolProfile(F(i)) = LoadedPool(d, i)
    BY <2>1 DEF ConvertVLabsAgentPoolProfile, LoadedPool, AgentPoolProfile
  <2> QED BY <2>2, <2>3
<1>3. DOMAIN f = DOMAIN d.pools
  OBVIOUS
<1>4. g = h
  BY <1>2
<1> HIDE DEF f, g, h
<1>5. /\ e.orchestrator = d.orchestrator /\ e.master = d.master /\ e.pools = f
      /\ e.windowsProfile = d.windowsProfile /\ e.sshKey = d.sshKey
  BY DEF ContainerService
<1>6. LoadContainerService(b, d) = c
  <2>1. LoadContainerService(b, d) = ConvertVLabsContainerService(b, e)
    BY <1>1 DEF LoadContainerService
  <2>2. [i \in DOMAIN e.pools |-> ConvertVLabsAgentPoolProfile(e.pools[i])] = g
    BY <1>3, <1>5 DEF g
  <2>3. ConvertVLabsContainerService(b, e) =
          [e EXCEPT !.orchestrator = ConvertVLabsOrchestratorProfile(b, d.orchestrator),
                    !.master = ConvertVLabsMasterProfile(d.master),
                    !.pools = g]
    BY <1>5, <2>2 DEF ConvertVLabsContainerService
  <2> HIDE DEF g
  <2> QED BY <2>1, <2>3 DEF ContainerService
<1>7. /\ c.orchestrator = ConvertVLabsOrchestratorProfile(b, d.orchestrator)
      /\ c.master = ConvertVLabsMasterProfile(d.master)
      /\ c.pools = g
      /\ c.windowsProfile = d.windowsProfile /\ c.sshKey = d.sshKey
  BY DEF ContainerService
<1> QED BY <1>4, <1>6, <1>7 DEF h

\* The bootstrap profiles, masters and pools of the model a template is
\* rendered from.
RenderedBoot(cs, boot, byte) ==
    [boot EXCEPT !.given = TRUE,
                 !.size = IF @ = "" THEN "default" ELSE @,
                 !.ip = IF IsCustomVNET(cs.master) THEN @ ELSE <<DefaultMasterNet, byte>>]

RenderedOrchestrator(b, cs) ==
    [cs.orchestrator EXCEPT !.version = GetValidPatchVersion(b, @),
                            !.linux = RenderedBoot(cs, @, 240),
                            !.windows = RenderedBoot(cs, @, 241)]

RenderedMaster(cs) ==
    [cs.master EXCEPT
        !.subnet = IF IsCustomVNET(cs.master) THEN @ ELSE DefaultMasterNet,
        !.firstIP = IF IsCustomVNET(cs.master) THEN @ ELSE <<DefaultMasterNet, 5>>,
        !.distro = IF @ = "" THEN "ubuntu" ELSE @,
        !.httpSource = IF @ = "" THEN "*" ELSE @,
        !.storage = IF @ = "" THEN "ManagedDisks" ELSE @]

RenderedPool(cs, i) ==
    [cs.pools[i] EXCEPT
        !.subnet = IF IsCustomVNET(cs.master) THEN @ ELSE <<"10", i - 1>>,
        !.os = IF @ = "" THEN "Linux" ELSE @,
        !.distro = IF @ = "" THEN "ubuntu" ELSE @,
        !.storage = IF @ = "" THEN "StorageAccount" ELSE @,
        !.avail = IF @ = "" THEN "VirtualMachineScaleSets" ELSE @,
        !.eviction = IF @ = "" /\ cs.pools[i].priority = "Low" THEN "Delete" ELSE @]

\* The model a template is rendered from.
LEMMA RenderedForm ==
    ASSUME NEW b \in Builds, NEW cs \in ContainerService
    PROVE  LET c == Rendered(b, cs) IN
           /\ c.orchestrator = RenderedOrchestrator(b, cs)
           /\ c.master = RenderedMaster(cs)
           /\ c.pools = [i \in DOMAIN cs.pools |-> RenderedPool(cs, i)]
           /\ c.windowsProfile = cs.windowsProfile /\ c.sshKey = cs.sshKey
<1> DEFINE Sized(boot) == [boot EXCEPT !.given = TRUE,
                                       !.size = IF @ = "" THEN "default" ELSE @]
           v == GetValidPatchVersion(b, cs.orchestrator.version)
           o == cs.orchestrator
           m == cs.master
           custom == IsCustomVNET(m)
           o1 == [o EXCEPT !.version = v, !.linux = Sized(o.linux), !.windows = Sized(o.windows)]
           c1 == [cs EXCEPT !.orchestrator = o1]
           o2 == RenderedOrchestrator(b, cs)
           m2 == [m EXCEPT
                    !.subnet = IF custom THEN @ ELSE DefaultMasterNet,
                    !.firstIP = IF custom THEN @ ELSE <<DefaultMasterNet, 5>>,
                    !.distro = IF @ = "" THEN "ubuntu" ELSE @,
                    !.httpSource = IF @ = "" THEN "*" ELSE @]
           c2 == [cs EXCEPT !.orchestrator = o2, !.master = m2]
           F(i) == [cs.pools[i] EXCEPT
                      !.subnet = IF custom THEN @ ELSE <<"10", i - 1>>,
                      !.os = IF @ = "" THEN "Linux" ELSE @,
                      !.distro = IF @ = "" THEN "ubuntu" ELSE @]
           f == [i \in DOMAIN cs.pools |-> F(i)]
           c3 == [cs EXCEPT !.orchestrator = o2, !.master = m2, !.pools = f]
           m4 == RenderedMaster(cs)
           g == [i \in DOMAIN cs.pools |-> RenderedPool(cs, i)]
           c4 == [cs EXCEPT !.orchestrator = o2, !.master = m4, !.pools = g]
<1>0. /\ o \in OrchestratorProfile /\ m \in MasterProfile
      /\ o.linux \in BootstrapProfile /\ o.windows \in BootstrapProfile
      /\ \A i \in DOMAIN cs.pools : cs.pools[i] \in AgentPoolProfile
  BY ContainerFields DEF OrchestratorProfile
<1>1. SetOrchestratorDefaults(b, cs) = c1
  BY DEF SetOrchestratorDefaults, ContainerService, OrchestratorProfile
<1>2. SetMasterNetworkDefaults(c1, FALSE) = c2
  <2>1. /\ c1 \in ContainerService
        /\ c1.master = m /\ c1.orchestrator = o1 /\ c1.pools = cs.pools
    <3>1. c1 \in ContainerService
      BY <1>1, OrchestratorDefaults
    <3> HIDE DEF o1
    <3> QED BY <3>1 DEF ContainerService
  <2>2. CASE custom
    <3>1. RenderedBoot(cs, o.linux, 240) = Sized(o.linux)
      BY <1>0, <2>2 DEF RenderedBoot, BootstrapProfile
    <3>2. RenderedBoot(cs, o.windows, 241) = Sized(o.windows)
      BY <1>0, <2>2 DEF RenderedBoot, BootstrapProfile
    <3>3. o2 = o1
      BY <3>1, <3>2 DEF RenderedOrchestrator
    <3>4. m2 = [m EXCEPT !.distro = IF @ = "" THEN "ubuntu" ELSE @,
                         !.httpSource = IF @ = "" THEN "*" ELSE @]
      BY <1>0, <2>2 DEF MasterProfile
    <3>5. SetMasterNetworkDefaults(c1, FALSE) =
            [c1 EXCEPT !.master.distro = IF @ = "" THEN "ubuntu" ELSE @,
                       !.master.httpSource = IF @ = "" THEN "*" ELSE @]
      BY <2>1, <2>2 DEF SetMasterNetworkDefaults
    <3> HIDE DEF o1, o2, m2, custom
    <3>6. [c1 EXCEPT !.master.distro = IF @ = "" THEN "ubuntu" ELSE @,
                     !.master.httpSource = IF @ = "" THEN "*" ELSE @] =
            [c1 EXCEPT !.master = m2]
      <4> HIDE DEF c1
      <4> QED BY <1>0, <2>1, <3>4 DEF ContainerService, MasterProfile
    <3> QED BY <3>3, <3>5, <3>6 DEF ContainerService
  <2>3. CASE ~custom
    <3> DEFINE x == <<DefaultMasterNet, 5>>
               y == <<DefaultMasterNet, 240>>
               z == <<DefaultMasterNet, 241>>
               own == InOwnNetwork(c1, x, y, z)
               mo == [m EXCEPT !.subnet = DefaultMasterNet, !.firstIP = x]
               lo == [Sized(o.linux) EXCEPT !.ip = y]
               wo == [Sized(o.windows) EXCEPT !.ip = z]
    <3>1. /\ RenderedBoot(cs, o.linux, 240) = lo
          /\ RenderedBoot(cs, o.windows, 241) = wo
      BY <1>0, <2>3 DEF RenderedBoot, BootstrapProfile
    <3>2. SetMasterNetworkDefaults(c1, FALSE) =
            [own EXCEPT !.master.distro = IF @ = "" THEN "ubuntu" ELSE @,
                        !.master.httpSource = IF @ = "" THEN "*" ELSE @]
      BY <2>1, <2>3 DEF SetMasterNetworkDefaults, WithAddresses
    <3>3. m2 = [mo EXCEPT !.distro = IF @ = "" THEN "ubuntu" ELSE @,
                          !.httpSource = IF @ = "" THEN "*" ELSE @]
      BY <1>0, <2>3 DEF MasterProfile
    <3>4. o2 = [o1 EXCEPT !.linux = [o1.linux EXCEPT !.ip = y],
                          !.windows = [o1.windows EXCEPT !.ip = z]]
      <4>1. o2 = [o EXCEPT !.version = v, !.linux = lo, !.windows = wo]
        <5> HIDE DEF lo, wo, v
        <5> QED BY <3>1 DEF RenderedOrchestrator, v
      <4> HIDE DEF o2, lo, wo, Sized
      <4>2. o1.linux = Sized(o.linux) /\ o1.windows = Sized(o.windows)
        BY <1>0 DEF OrchestratorProfile
      <4>3. lo = [o1.linux EXCEPT !.ip = y] /\ wo = [o1.windows EXCEPT !.ip = z]
        BY <4>2 DEF lo, wo
      <4>4. o2 = [o1 EXCEPT !.linux = lo, !.windows = wo]
        BY <1>0, <4>1 DEF OrchestratorProfile
      <4> HIDE DEF o1
      <4> QED BY <4>3, <4>4
    <3> HIDE DEF x, y, z, lo, wo
    <3>5. own = [cs EXCEPT !.orchestrator = o2, !.master = mo]
      <4> HIDE DEF o1, o2
      <4>1. own = [c1 EXCEPT !.master = mo, !.orchestrator = o2]
        <5>1. own = [c1 EXCEPT
                       !.master = [c1.master EXCEPT !.subnet = DefaultMasterNet, !.firstIP = x],
                       !.orchestrator =
                         [c1.orchestrator EXCEPT
                            !.linux = [c1.orchestrator.linux EXCEPT !.ip = y],
                            !.windows = [c1.orchestrator.windows EXCEPT !.ip = z]]]
          <6> HIDE DEF c1
          <6> QED BY <2>1 DEF InOwnNetwork, ContainerService, MasterProfile, OrchestratorProfile
        <5> HIDE DEF own
        <5> QED BY <5>1, <2>1, <3>4
      <4> HIDE DEF own, mo
      <4> QED BY <4>1, <2>1 DEF ContainerService
    <3>6. own.master = mo
      <4> HIDE DEF own, o2, mo
      <4> QED BY <3>5 DEF ContainerService
    <3>7. m2 = [own.master EXCEPT !.distro = IF @ = "" THEN "ubuntu" ELSE @,
                                  !.httpSource = IF @ = "" THEN "*" ELSE @]
      <4> HIDE DEF own, m2, mo
      <4> QED BY <3>3, <3>6
    <3> HIDE DEF o1, o2, m2, mo, custom, own
    <3>8. [own EXCEPT !.master.distro = IF @ = "" THEN "ubuntu" ELSE @,
                      !.master.httpSource = IF @ = "" THEN "*" ELSE @] =
            [own EXCEPT !.master = m2]
      <4>1. own.master = [m EXCEPT !.subnet = DefaultMasterNet, !.firstIP = x]
        BY <3>6 DEF mo
      <4> QED BY <1>0, <3>5, <3>7, <4>1 DEF ContainerService, MasterProfile
    <3> QED BY <3>2, <3>5, <3>8 DEF ContainerService
  <2> HIDE DEF o1, o2, c1, c2, custom
  <2> QED BY <2>2, <2>3
<1> HIDE DEF o1, c1, o2
<1>3. SetAgentNetworkDefaults(c2) = c3
  <2>1. m2.vnet = m.vnet
    BY <1>0 DEF MasterProfile
  <2> HIDE DEF m2
  <2>2. c2.pools = cs.pools /\ c2.master = m2
    BY DEF ContainerService
  <2>3. IsCustomVNET(c2.master) = custom
    BY <2>1, <2>2 DEF IsCustomVNET
  <2> HIDE DEF custom, c2
  <2>4. SetAgentNetworkDefaults(c2) = [c2 EXCEPT !.pools = f]
    BY <2>2, <2>3 DEF SetAgentNetworkDefaults
  <2> HIDE DEF f
  <2> QED BY <2>4 DEF ContainerService, c2
<1> HIDE DEF c2
<1>4. SetStorageDefaults(c3) = c4
  <2>1. [m2 EXCEPT !.storage = IF @ = "" THEN "ManagedDisks" ELSE @] = m4
    BY <1>0 DEF RenderedMaster, MasterProfile
  <2> HIDE DEF m2, m4
  <2> DEFINE G(p) == [p EXCEPT
                        !.storage = IF @ = "" THEN "StorageAccount" ELSE @,
                        !.avail = IF @ = "" THEN "VirtualMachineScaleSets" ELSE @,
                        !.eviction = IF @ = "" /\ p.priority = "Low" THEN "Delete" ELSE @]
             h == [i \in DOMAIN cs.pools |-> G(f[i])]
  <2>2. ASSUME NEW i \in DOMAIN cs.pools PROVE G(F(i)) = RenderedPool(cs, i)
    BY <1>0 DEF RenderedPool, AgentPoolProfile
  <2> HIDE DEF F, G
  <2>3. DOMAIN f = DOMAIN cs.pools /\ \A i \in DOMAIN cs.pools : f[i] = F(i)
    OBVIOUS
  <2>4. h = g
    BY <2>2, <2>3
  <2> HIDE DEF f, g
  <2>5. c3.pools = f /\ c3.master = m2
    BY DEF ContainerService
  <2> HIDE DEF c3
  <2>6. SetStorageDefaults(c3) =
          [c3 EXCEPT !.master.storage = IF @ = "" THEN "ManagedDisks" ELSE @, !.pools = h]
    BY <2>3, <2>5 DEF SetStorageDefaults, G
  <2> HIDE DEF h
  <2>7. [c3 EXCEPT !.master.storage = IF @ = "" THEN "ManagedDisks" ELSE @, !.pools = h] =
          [c3 EXCEPT !.master = m4, !.pools = h]
    BY <2>1, <2>5
  <2> QED BY <2>4, <2>6, <2>7 DEF ContainerService, c3
<1> HIDE DEF c3, c4, o2, m4, g
<1>5. Rendered(b, cs) = c4
  BY <1>1, <1>2, <1>3, <1>4 DEF Rendered, SetPropertiesDefaults
<1>6. /\ c4.orchestrator = o2 /\ c4.master = m4 /\ c4.pools = g
      /\ c4.windowsProfile = cs.windowsProfile /\ c4.sshKey = cs.sshKey
  BY DEF ContainerService, c4
<1> QED BY <1>5, <1>6 DEF o2, m4, g

\* What decoding a document leaves unset.
Decoded(d) ==
    /\ d.master.subnet = ""
    /\ \A i \in DOMAIN d.pools : d.pools[i].subnet = None
    /\ \A boot \in {d.orchestrator.linux, d.orchestrator.windows} :
         boot.given \/ boot.ip = None

\* Pools are visited in the same way if they have the same images.
LEMMA SameVisited ==
    ASSUME NEW f, NEW g, DOMAIN g = DOMAIN f, NEW n \in Nat, DOMAIN f = 1..n,
           \A i \in DOMAIN f : g[i].image = f[i].image
    PROVE  Visited(g) = Visited(f)
BY DEF Visited

\* A pool of the document that is saved, as it was in document d.
SavedPool(d, i) ==
    LET p == d.pools[i] IN
    [p EXCEPT
        !.ports = IF i \in Visited(d.pools) /\ p.dns # "" /\ p.ports = <<>>
                  THEN DefaultPorts ELSE @,
        !.os = IF @ = "" THEN "Linux" ELSE @,
        !.distro = IF @ = "" THEN "ubuntu" ELSE @,
        !.storage = OrManaged(@),
        !.avail = IF @ = "" THEN "VirtualMachineScaleSets" ELSE @,
        !.eviction = IF @ = "" /\ p.priority = "Low" THEN "Delete" ELSE @,
        !.subnet = None]

SavedMaster(d) ==
    [d.master EXCEPT
        !.firstIP = IF IsCustomVNET(d.master) THEN @ ELSE <<DefaultMasterNet, 5>>,
        !.distro = IF @ = "" THEN "ubuntu" ELSE @,
        !.storage = OrManaged(@),
        !.httpSource = "",
        !.subnet = ""]

\* The document that is saved after generating from document d.
LEMMA SavedForm ==
    ASSUME NEW b \in Builds, NEW d \in ContainerService, Decoded(d)
    PROVE  LET cs == LoadContainerService(b, d)
               s == SerializeContainerService(AfterGenerate(b, cs))
               c == Rendered(b, cs) IN
           /\ s.orchestrator.linux = RenderedBoot(d, d.orchestrator.linux, 240)
           /\ s.orchestrator.windows = RenderedBoot(d, d.orchestrator.windows, 241)
           /\ s.master = SavedMaster(d)
           /\ s.master = ConvertMasterProfileToVLabs(c.master)
           /\ s.pools = [i \in DOMAIN d.pools |-> SavedPool(d, i)]
           /\ s.windowsProfile = d.windowsProfile /\ s.sshKey = d.sshKey
           /\ c.orchestrator.release = None
           /\ c.orchestrator.linux = s.orchestrator.linux
           /\ c.orchestrator.windows = s.orchestrator.windows
           /\ c.master.vnet = d.master.vnet
           /\ IsCustomVNET(c.master) => c.master.subnet = ""
           /\ DOMAIN c.pools = DOMAIN d.pools
           /\ \A i \in DOMAIN d.pools :
                /\ ConvertAgentPoolProfileToVLabs(c.pools[i]) = SavedPool(d, i)
                /\ IsCustomVNET(c.master) => c.pools[i].subnet = None
           /\ c.windowsProfile = d.windowsProfile /\ c.sshKey = d.sshKey
<1> DEFINE cs == LoadContainerService(b, d)
           a == AfterGenerate(b, cs)
           s == SerializeContainerService(a)
           c == Rendered(b, cs)
<1>1. /\ cs \in ContainerService
      /\ cs.orchestrator = ConvertVLabsOrchestratorProfile(b, d.orchestrator)
      /\ cs.master = ConvertVLabsMasterProfile(d.master)
      /\ cs.pools = [i \in DOMAIN d.pools |-> LoadedPool(d, i)]
      /\ cs.windowsProfile = d.windowsProfile /\ cs.sshKey = d.sshKey
  BY LoadFacts, LoadForm
<1> HIDE DEF cs
<1>2. /\ d.orchestrator \in OrchestratorProfile /\ d.master \in MasterProfile
      /\ cs.orchestrator \in OrchestratorProfile
      /\ d.orchestrator.linux \in BootstrapProfile
      /\ d.orchestrator.windows \in BootstrapProfile
      /\ \A i \in DOMAIN d.pools : d.pools[i] \in AgentPoolProfile
  BY <1>1, ContainerFields DEF OrchestratorProfile
<1>3. /\ cs.orchestrator.release = None
      /\ cs.orchestrator.linux = d.orchestrator.linux
      /\ cs.orchestrator.windows = d.orchestrator.windows
      /\ cs.master.vnet = d.master.vnet
      /\ cs.master.subnet = ""
  <2>1. cs.master.vnet = d.master.vnet /\ cs.master.subnet = ""
    BY <1>1, <1>2 DEF ConvertVLabsMasterProfile, MasterProfile, Decoded
  <2>2. LET o == ConvertVLabsOrchestratorProfile(b, d.orchestrator) IN
        /\ o.linux = d.orchestrator.linux /\ o.windows = d.orchestrator.windows
        /\ o.release = None
    BY <1>2, ToOrchestrator
  <2> QED BY <1>1, <2>1, <2>2
<1>4. /\ c \in ContainerService
      /\ c.orchestrator = RenderedOrchestrator(b, cs)
      /\ c.master = RenderedMaster(cs)
      /\ c.pools = [i \in DOMAIN cs.pools |-> RenderedPool(cs, i)]
      /\ c.windowsProfile = cs.windowsProfile /\ c.sshKey = cs.sshKey
  <2>1. c \in ContainerService
    BY <1>1, RenderedFacts
  <2> QED BY <1>1, <2>1, RenderedForm
<1>5. /\ RenderedBoot(cs, cs.orchestrator.linux, 240) = RenderedBoot(d, d.orchestrator.linux, 240)
      /\ RenderedBoot(cs, cs.orchestrator.windows, 241) = RenderedBoot(d, d.orchestrator.windows, 241)
  BY <1>3 DEF RenderedBoot, IsCustomVNET
<1>6. /\ c.orchestrator.release = None
      /\ c.orchestrator.linux = RenderedBoot(d, d.orchestrator.linux, 240)
      /\ c.orchestrator.windows = RenderedBoot(d, d.orchestrator.windows, 241)
  <2>1. /\ c.orchestrator.release = cs.orchestrator.release
        /\ c.orchestrator.linux = RenderedBoot(cs, cs.orchestrator.linux, 240)
        /\ c.orchestrator.windows = RenderedBoot(cs, cs.orchestrator.windows, 241)
    BY <1>2, <1>4 DEF OrchestratorProfile, RenderedOrchestrator
  <2> HIDE DEF c
  <2>2. c.orchestrator.release = None
    BY <1>3, <2>1
  <2>3. /\ c.orchestrator.linux = RenderedBoot(d, d.orchestrator.linux, 240)
        /\ c.orchestrator.windows = RenderedBoot(d, d.orchestrator.windows, 241)
    BY <1>5, <2>1
  <2> QED BY <2>2, <2>3
<1>7. /\ c.master.vnet = d.master.vnet
      /\ IsCustomVNET(c.master) => c.master.subnet = ""
  <2>1. cs.master \in MasterProfile
    BY <1>1, ContainerFields
  <2>2. c.master.vnet = d.master.vnet
    BY <1>3, <1>4, <2>1 DEF RenderedMaster, MasterProfile
  <2>3. IsCustomVNET(c.master) = IsCustomVNET(cs.master)
    BY <1>3, <2>2 DEF IsCustomVNET
  <2>4. c.master.subnet = IF IsCustomVNET(cs.master) THEN cs.master.subnet ELSE DefaultMasterNet
    BY <1>4, <2>1 DEF RenderedMaster, MasterProfile
  <2> QED BY <1>3, <2>2, <2>3, <2>4
<1>8. ASSUME NEW i \in DOMAIN d.pools
      PROVE  /\ [c.pools[i] EXCEPT !.subnet = None] = SavedPool(d, i)
             /\ IsCustomVNET(c.master) => c.pools[i].subnet = None
  <2> DEFINE p == d.pools[i]
             ports == IF i \in Visited(d.pools) /\ p.dns # "" /\ p.ports = <<>>
                      THEN DefaultPorts ELSE p.ports
             custom == IsCustomVNET(cs.master)
  <2>1. cs.pools[i] = [p EXCEPT !.ports = ports, !.storage = OrManaged(@)]
    BY <1>1 DEF LoadedPool
  <2>2. SavedPool(d, i) =
          [p EXCEPT !.ports = ports,
                    !.os = IF @ = "" THEN "Linux" ELSE @,
                    !.distro = IF @ = "" THEN "ubuntu" ELSE @,
                    !.storage = OrManaged(@),
                    !.avail = IF @ = "" THEN "VirtualMachineScaleSets" ELSE @,
                    !.eviction = IF @ = "" /\ p.priority = "Low" THEN "Delete" ELSE @,
                    !.subnet = None]
    BY DEF SavedPool
  <2>3. c.pools[i] = RenderedPool(cs, i)
    BY <1>1, <1>4
  <2>4. p \in AgentPoolProfile /\ p.subnet = None
    BY <1>2 DEF Decoded
  <2>5. OrManaged(p.storage) # ""
    BY DEF OrManaged
  <2>6. IsCustomVNET(c.master) = custom
    BY <1>3, <1>7 DEF IsCustomVNET
  <2> DEFINE q == [p EXCEPT !.ports = ports, !.storage = OrManaged(p.storage)]
             net == IF custom THEN q.subnet ELSE <<"10", i - 1>>
             os == IF p.os = "" THEN "Linux" ELSE p.os
             distro == IF p.distro = "" THEN "ubuntu" ELSE p.distro
             avail == IF p.avail = "" THEN "VirtualMachineScaleSets" ELSE p.avail
             eviction == IF p.eviction = "" /\ p.priority = "Low" THEN "Delete"
                         ELSE p.eviction
             storage == OrManaged(p.storage)
  <2> HIDE DEF p, ports, custom, c
  <2>7. [c.pools[i] EXCEPT !.subnet = None] = SavedPool(d, i)
    <3>1. /\ q.os = p.os /\ q.distro = p.distro /\ q.avail = p.avail
          /\ q.eviction = p.eviction /\ q.priority = p.priority
          /\ q.storage = storage
      BY <2>4 DEF AgentPoolProfile
    <3>2. cs.pools[i] = q
      BY <2>1
    <3> HIDE DEF q
    <3>3. c.pools[i] = [q EXCEPT !.subnet = net, !.os = os, !.distro = distro,
                                 !.storage = storage, !.avail = avail,
                                 !.eviction = eviction]
      <4>1. (IF q.storage = "" THEN "StorageAccount" ELSE q.storage) = storage
        BY <2>5, <3>1
      <4>2. (IF q.eviction = "" /\ q.priority = "Low" THEN "Delete" ELSE q.eviction) = eviction
        BY <3>1
      <4>3. /\ (IF q.os = "" THEN "Linux" ELSE q.os) = os
            /\ (IF q.distro = "" THEN "ubuntu" ELSE q.distro) = distro
            /\ (IF q.avail = "" THEN "VirtualMachineScaleSets" ELSE q.avail) = avail
        BY <3>1
      <4>4. RenderedPool(cs, i) =
              [q EXCEPT !.subnet = net,
                        !.os = IF q.os = "" THEN "Linux" ELSE q.os,
                        !.distro = IF q.distro = "" THEN "ubuntu" ELSE q.distro,
                        !.storage = IF q.storage = "" THEN "StorageAccount" ELSE q.storage,
                        !.avail = IF q.avail = "" THEN "VirtualMachineScaleSets" ELSE q.avail,
                        !.eviction = IF q.eviction = "" /\ q.priority = "Low"
                                     THEN "Delete" ELSE q.eviction]
        BY <3>2 DEF RenderedPool, custom
      <4> HIDE DEF os, distro, avail, eviction, storage, net
      <4> QED BY <2>3, <4>1, <4>2, <4>3, <4>4
    <3>4. SavedPool(d, i) = [p EXCEPT !.ports = ports, !.os = os, !.distro = distro,
                                      !.storage = storage, !.avail = avail,
                                      !.eviction = eviction, !.subnet = None]
      BY <2>2
    <3> HIDE DEF net, os, distro, avail, eviction, storage
    <3>5. q = [p EXCEPT !.ports = ports, !.storage = OrManaged(p.storage)]
      BY DEF q
    <3> QED BY <3>3, <3>4, <3>5
  <2>8. custom => c.pools[i].subnet = None
    BY <2>1, <2>3, <2>4 DEF RenderedPool, AgentPoolProfile, custom
  <2> QED BY <2>6, <2>7, <2>8
<1>9. DOMAIN c.pools = DOMAIN d.pools
  BY <1>1, <1>4
<1>10. /\ c.windowsProfile = d.windowsProfile /\ c.sshKey = d.sshKey
  BY <1>1, <1>4
<1>11. /\ a.orchestrator.linux = c.orchestrator.linux
       /\ a.orchestrator.windows = c.orchestrator.windows
       /\ a.orchestrator \in OrchestratorProfile
       /\ a.master = c.master /\ a.pools = c.pools
       /\ a.windowsProfile = c.windowsProfile /\ a.sshKey = c.sshKey
       /\ a \in ContainerService
  <2>1. /\ a \in ContainerService
        /\ a.orchestrator.linux = c.orchestrator.linux
        /\ a.orchestrator.windows = c.orchestrator.windows
        /\ a.master = c.master
    BY <1>1, AfterGenerateFacts
  <2>2. a = [c EXCEPT !.orchestrator.version = cs.orchestrator.version]
    BY DEF AfterGenerate
  <2> HIDE DEF a, c
  <2>3. /\ a.pools = c.pools /\ a.windowsProfile = c.windowsProfile /\ a.sshKey = c.sshKey
    BY <1>4, <2>2 DEF ContainerService
  <2> QED BY <2>1, <2>3, ContainerFields
<1> HIDE DEF c, a
<1>12. /\ s.orchestrator.linux = a.orchestrator.linux
       /\ s.orchestrator.windows = a.orchestrator.windows
       /\ s.master = [a.master EXCEPT !.httpSource = "", !.subnet = ""]
       /\ s.pools = [i \in DOMAIN a.pools |-> [a.pools[i] EXCEPT !.subnet = None]]
       /\ s.windowsProfile = a.windowsProfile /\ s.sshKey = a.sshKey
  BY <1>11 DEF SerializeContainerService, ConvertOrchestratorProfileToVLabs,
               ConvertMasterProfileToVLabs, ConvertAgentPoolProfileToVLabs,
               ContainerService, OrchestratorProfile
<1>13. [i \in DOMAIN a.pools |-> [a.pools[i] EXCEPT !.subnet = None]]
         = [i \in DOMAIN d.pools |-> SavedPool(d, i)]
  BY <1>8, <1>9, <1>11
<1> HIDE DEF s
<1>14. /\ s.orchestrator.linux = c.orchestrator.linux
       /\ s.orchestrator.windows = c.orchestrator.windows
       /\ s.master = ConvertMasterProfileToVLabs(c.master)
       /\ s.pools = [i \in DOMAIN d.pools |-> SavedPool(d, i)]
       /\ s.windowsProfile = d.windowsProfile /\ s.sshKey = d.sshKey
  BY <1>10, <1>11, <1>12, <1>13 DEF ConvertMasterProfileToVLabs
<1>17. s.master = SavedMaster(d)
  <2> DEFINE m == d.master
  <2>1. m \in MasterProfile /\ OrManaged(m.storage) # ""
    BY <1>2 DEF OrManaged
  <2>2. c.master = RenderedMaster(cs)
    BY <1>4 DEF c
  <2>3. cs.master = [m EXCEPT !.storage = OrManaged(m.storage)]
    BY <1>1 DEF ConvertVLabsMasterProfile
  <2>4. IsCustomVNET(cs.master) = IsCustomVNET(m)
    BY <1>3 DEF IsCustomVNET
  <2> HIDE DEF m
  <2>5. [c.master EXCEPT !.httpSource = "", !.subnet = ""] =
          [m EXCEPT !.firstIP = IF IsCustomVNET(m) THEN @ ELSE <<DefaultMasterNet, 5>>,
                    !.distro = IF @ = "" THEN "ubuntu" ELSE @,
                    !.storage = OrManaged(@),
                    !.httpSource = "",
                    !.subnet = ""]
    <3> DEFINE st == OrManaged(m.storage)
               n == [m EXCEPT !.storage = st]
               distro == IF m.distro = "" THEN "ubuntu" ELSE m.distro
               source == IF n.httpSource = "" THEN "*" ELSE n.httpSource
               net == IF IsCustomVNET(m) THEN n.subnet ELSE DefaultMasterNet
               ip == IF IsCustomVNET(m) THEN m.firstIP ELSE <<DefaultMasterNet, 5>>
    <3>1. n.firstIP = m.firstIP /\ n.distro = m.distro /\ n.storage = st
      BY <2>1 DEF MasterProfile
    <3>2. cs.master = n
      BY <2>3
    <3>3. st # ""
      BY <2>1
    <3> HIDE DEF st, n
    <3>4. c.master = [n EXCEPT !.subnet = net, !.firstIP = ip, !.distro = distro,
                               !.httpSource = source, !.storage = st]
      BY <2>2, <2>4, <3>1, <3>2, <3>3 DEF RenderedMaster
    <3>5. n = [m EXCEPT !.storage = st]
      BY DEF n
    <3> HIDE DEF distro, source, net, ip
    <3>6. [c.master EXCEPT !.httpSource = "", !.subnet = ""] =
            [m EXCEPT !.firstIP = ip, !.distro = distro, !.storage = st,
                      !.httpSource = "", !.subnet = ""]
      BY <3>4, <3>5
    <3> QED BY <3>6 DEF ip, distro, st
  <2> QED BY <1>14, <2>5 DEF SavedMaster, ConvertMasterProfileToVLabs, m
<1>15. /\ s.orchestrator.linux = RenderedBoot(d, d.orchestrator.linux, 240)
       /\ s.orchestrator.windows = RenderedBoot(d, d.orchestrator.windows, 241)
       /\ c.orchestrator.linux = s.orchestrator.linux
       /\ c.orchestrator.windows = s.orchestrator.windows
  BY <1>6, <1>14
<1>16. \A i \in DOMAIN d.pools :
         /\ ConvertAgentPoolProfileToVLabs(c.pools[i]) = SavedPool(d, i)
         /\ IsCustomVNET(c.master) => c.pools[i].subnet = None
  BY <1>8 DEF ConvertAgentPoolProfileToVLabs
<1> QED BY <1>6, <1>7, <1>9, <1>10, <1>14, <1>15, <1>16, <1>17, Zenon DEF s, a, c, cs

\* A document that loading, defaults and saving leave as it is.
Normal(d) ==
    /\ Decoded(d)
    /\ \A boot \in {d.orchestrator.linux, d.orchestrator.windows} :
         boot.given /\ boot.size # ""
    /\ d.master.storage # "" /\ d.master.distro # "" /\ d.master.httpSource = ""
    /\ \A i \in DOMAIN d.pools :
         LET p == d.pools[i] IN
         /\ p.os # "" /\ p.distro # "" /\ p.storage # "" /\ p.avail # ""
         /\ p.priority = "Low" => p.eviction # ""
         /\ i \in Visited(d.pools) /\ p.dns # "" => p.ports # <<>>

\* A document that is valid in all but its version.
Ready(d) ==
    /\ ValidStruct(d)
    /\ \A boot \in {d.orchestrator.linux, d.orchestrator.windows} :
         boot.ip # None => IsIP(boot.ip)
    /\ ValidMasterProfile(d)
    /\ ValidAgentPoolProfiles(d)
    /\ ValidLinuxProfile(d)
    /\ ValidExtensions(d)
    /\ ValidVNET(d)
    /\ ValidateDistro(d)

Unsized(p) == [p EXCEPT !.count = 0]

\* Document d shows all of a cluster's model c but what generating from it
\* fills in again, and the sizes of the pools.
Mirrors(d, c) ==
    /\ c.orchestrator.release = None
    /\ c.orchestrator.linux = d.orchestrator.linux
    /\ c.orchestrator.windows = d.orchestrator.windows
    /\ d.master = ConvertMasterProfileToVLabs(c.master)
    /\ IsCustomVNET(c.master) => c.master.subnet = ""
    /\ DOMAIN d.pools = DOMAIN c.pools
    /\ \A i \in DOMAIN c.pools :
         /\ Unsized(d.pools[i]) = Unsized(ConvertAgentPoolProfileToVLabs(c.pools[i]))
         /\ IsCustomVNET(c.master) => c.pools[i].subnet = None
    /\ d.windowsProfile = c.windowsProfile /\ d.sshKey = c.sshKey

LEMMA SavedVisited ==
    ASSUME NEW d \in ContainerService
    PROVE  Visited([i \in DOMAIN d.pools |-> SavedPool(d, i)]) = Visited(d.pools)
<1> DEFINE g == [i \in DOMAIN d.pools |-> SavedPool(d, i)]
<1>1. DOMAIN d.pools = 1..Len(d.pools) /\ Len(d.pools) \in Nat
  BY ContainerFields
<1>2. ASSUME NEW i \in DOMAIN d.pools PROVE g[i].image = d.pools[i].image
  <2>1. d.pools[i] \in AgentPoolProfile
    BY ContainerFields
  <2>2. SavedPool(d, i).image = d.pools[i].image
    BY <2>1 DEF SavedPool, AgentPoolProfile
  <2> QED BY <2>2
<1>3. DOMAIN g = DOMAIN d.pools
  OBVIOUS
<1> HIDE DEF g
<1>4. Visited(g) = Visited(d.pools)
  BY <1>1, <1>2, <1>3, SameVisited
<1> QED BY <1>4 DEF g

\* The fields of a pool that is saved.
LEMMA SavedPoolFacts ==
    ASSUME NEW d \in ContainerService, NEW i \in DOMAIN d.pools
    PROVE  LET p == d.pools[i]
               q == SavedPool(d, i) IN
           /\ q.name = p.name /\ q.count = p.count /\ q.dns = p.dns
           /\ q.priority = p.priority /\ q.disks = p.disks /\ q.vnet = p.vnet
           /\ q.image = p.image /\ q.role = p.role /\ q.extensions = p.extensions
           /\ q.ports = IF i \in Visited(d.pools) /\ p.dns # "" /\ p.ports = <<>>
                        THEN DefaultPorts ELSE p.ports
           /\ q.os = IF p.os = "" THEN "Linux" ELSE p.os
           /\ q.distro # ""
           /\ q.storage = OrManaged(p.storage)
           /\ q.avail = IF p.avail = "" THEN "VirtualMachineScaleSets" ELSE p.avail
           /\ q.eviction = IF p.eviction = "" /\ p.priority = "Low" THEN "Delete"
                           ELSE p.eviction
           /\ q.subnet = None
<1>1. d.pools[i] \in AgentPoolProfile
  BY ContainerFields
<1> QED BY <1>1 DEF SavedPool, AgentPoolProfile

LEMMA SavedMasterFacts ==
    ASSUME NEW d \in ContainerService
    PROVE  LET m == d.master
               s == SavedMaster(d) IN
           /\ s.count = m.count /\ s.dns = m.dns /\ s.vnet = m.vnet
           /\ s.cidr = m.cidr /\ s.image = m.image
           /\ IsCustomVNET(m) => s.firstIP = m.firstIP
           /\ s.distro # "" /\ s.storage = OrManaged(m.storage)
           /\ s.httpSource = "" /\ s.subnet = ""
<1>1. d.master \in MasterProfile
  BY ContainerFields
<1> QED BY <1>1 DEF SavedMaster, MasterProfile

LEMMA SavedBootFacts ==
    ASSUME NEW d \in ContainerService, NEW boot \in BootstrapProfile, NEW byte
    PROVE  LET r == RenderedBoot(d, boot, byte) IN
           /\ r.given /\ r.size # ""
           /\ r.ip = boot.ip \/ r.ip = <<DefaultMasterNet, byte>>
           /\ IsCustomVNET(d.master) => r.ip = boot.ip
           /\ ~IsCustomVNET(d.master) => r.ip = <<DefaultMasterNet, byte>>
BY DEF RenderedBoot, BootstrapProfile

LEMMA SavedNormal ==
    ASSUME NEW b \in Builds, NEW d \in ContainerService, Decoded(d)
    PROVE  Normal(SerializeContainerService(AfterGenerate(b, LoadContainerService(b, d))))
<1> DEFINE s == SerializeContainerService(AfterGenerate(b, LoadContainerService(b, d)))
<1>1. /\ s.orchestrator.linux = RenderedBoot(d, d.orchestrator.linux, 240)
      /\ s.orchestrator.windows = RenderedBoot(d, d.orchestrator.windows, 241)
  BY SavedForm
<1>10. s.master = SavedMaster(d)
  BY SavedForm
<1>11. s.pools = [i \in DOMAIN d.pools |-> SavedPool(d, i)]
  BY SavedForm
<1>2. d.orchestrator.linux \in BootstrapProfile /\ d.orchestrator.windows \in BootstrapProfile
  BY ContainerFields DEF OrchestratorProfile
<1> HIDE DEF s
<1>3. \A boot \in {s.orchestrator.linux, s.orchestrator.windows} : boot.given /\ boot.size # ""
  <2>1. /\ RenderedBoot(d, d.orchestrator.linux, 240).given
        /\ RenderedBoot(d, d.orchestrator.linux, 240).size # ""
    BY <1>2, SavedBootFacts
  <2>2. /\ RenderedBoot(d, d.orchestrator.windows, 241).given
        /\ RenderedBoot(d, d.orchestrator.windows, 241).size # ""
    BY <1>2, SavedBootFacts
  <2> DEFINE l == s.orchestrator.linux
             w == s.orchestrator.windows
  <2>3. l.given /\ l.size # ""
    <3>1. l = RenderedBoot(d, d.orchestrator.linux, 240)
      BY <1>1
    <3> HIDE DEF l
    <3> QED BY <2>1, <3>1
  <2>4. w.given /\ w.size # ""
    <3>1. w = RenderedBoot(d, d.orchestrator.windows, 241)
      BY <1>1
    <3> HIDE DEF w
    <3> QED BY <2>2, <3>1
  <2> HIDE DEF l, w
  <2>5. \A boot \in {l, w} : boot.given /\ boot.size # ""
    BY <2>3, <2>4
  <2> QED BY <2>5 DEF l, w
<1>5. /\ s.master.storage # "" /\ s.master.distro # ""
      /\ s.master.httpSource = "" /\ s.master.subnet = ""
  <2>1. /\ SavedMaster(d).storage = OrManaged(d.master.storage)
        /\ SavedMaster(d).distro # ""
        /\ SavedMaster(d).httpSource = "" /\ SavedMaster(d).subnet = ""
    BY SavedMasterFacts
  <2> QED BY <1>10, <2>1 DEF OrManaged
<1>6. Visited(s.pools) = Visited(d.pools)
  BY <1>11, SavedVisited
<1>7. ASSUME NEW i \in DOMAIN s.pools
      PROVE  LET p == s.pools[i] IN
             /\ p.os # "" /\ p.distro # "" /\ p.storage # "" /\ p.avail # ""
             /\ p.priority = "Low" => p.eviction # ""
             /\ i \in Visited(s.pools) /\ p.dns # "" => p.ports # <<>>
             /\ p.subnet = None
  <2>1. i \in DOMAIN d.pools /\ s.pools[i] = SavedPool(d, i)
    BY <1>11
  <2>2. DefaultPorts # <<>>
    BY DEF DefaultPorts
  <2> DEFINE p == d.pools[i]
             q == SavedPool(d, i)
  <2>3. /\ q.dns = p.dns /\ q.priority = p.priority
        /\ q.ports = IF i \in Visited(d.pools) /\ p.dns # "" /\ p.ports = <<>>
                     THEN DefaultPorts ELSE p.ports
        /\ q.os = IF p.os = "" THEN "Linux" ELSE p.os
        /\ q.distro # ""
        /\ q.storage = OrManaged(p.storage)
        /\ q.avail = IF p.avail = "" THEN "VirtualMachineScaleSets" ELSE p.avail
        /\ q.eviction = IF p.eviction = "" /\ p.priority = "Low" THEN "Delete"
                        ELSE p.eviction
        /\ q.subnet = None
    BY <2>1, SavedPoolFacts
  <2> HIDE DEF p, q
  <2>4. q.storage # ""
    BY <2>3 DEF OrManaged
  <2>5. s.pools[i] = q
    BY <2>1 DEF q
  <2> QED BY <2>2, <2>3, <2>4, <2>5, <1>6
<1>8. Decoded(s)
  BY <1>3, <1>5, <1>7 DEF Decoded
<1> QED BY <1>3, <1>5, <1>7, <1>8 DEF Normal, s

LegalPort(n) == n \in 1..65535

LegalPorts(ports) == \A k \in DOMAIN ports : LegalPort(ports[k])

LEMMA PoolStructParts ==
    ASSUME NEW p
    PROVE  ValidPoolStruct(p) <=>
             /\ p.name # "" /\ p.count \in 1..100
             /\ LegalPorts(p.ports)
             /\ p.priority \in {"Regular", "Low", ""}
             /\ p.eviction \in {"Delete", "Deallocate", ""}
             /\ p.storage \in {"StorageAccount", "ManagedDisks", ""}
             /\ p.disks <= 4
BY SMT DEF ValidPoolStruct, LegalPorts, LegalPort

LEMMA DefaultPortsLegal ==
    /\ DefaultPorts # <<>>
    /\ LegalPorts(DefaultPorts)
    /\ \A j, k \in DOMAIN DefaultPorts : DefaultPorts[j] = DefaultPorts[k] => j = k
<1>1. /\ DOMAIN DefaultPorts = {1, 2, 3}
      /\ DefaultPorts[1] = 80 /\ DefaultPorts[2] = 443 /\ DefaultPorts[3] = 8080
  BY DEF DefaultPorts
<1>2. LegalPorts(DefaultPorts)
  <2> DEFINE Ports == {80, 443, 8080}
  <2>1. \A n \in Ports : LegalPort(n)
    BY SMT DEF LegalPort
  <2>2. \A k \in DOMAIN DefaultPorts : DefaultPorts[k] \in Ports
    BY <1>1, SMT
  <2> HIDE DEF Ports
  <2> QED BY <2>1, <2>2, Zenon DEF LegalPorts
<1>3. \A j, k \in DOMAIN DefaultPorts : DefaultPorts[j] = DefaultPorts[k] => j = k
  BY <1>1, SMT
<1>4. DefaultPorts # <<>>
  BY <1>1, SMT
<1> QED BY <1>2, <1>3, <1>4

\* A valid pool is saved as a valid one.
LEMMA SavedPoolValid ==
    ASSUME NEW d \in ContainerService, NEW i \in DOMAIN d.pools
    PROVE  LET p == d.pools[i]
               q == SavedPool(d, i) IN
           /\ ValidPoolStruct(p) => ValidPoolStruct(q)
           /\ ValidDisks(p) => ValidDisks(q)
           /\ i \in Visited(d.pools) /\ ValidPorts(p) => ValidPorts(q)
<1> DEFINE p == d.pools[i]
           q == SavedPool(d, i)
<1>1. /\ q.name = p.name /\ q.count = p.count /\ q.dns = p.dns
      /\ q.priority = p.priority /\ q.disks = p.disks
  BY SavedPoolFacts
<1>2. /\ q.storage = OrManaged(p.storage)
      /\ q.avail = IF p.avail = "" THEN "VirtualMachineScaleSets" ELSE p.avail
      /\ q.eviction = IF p.eviction = "" /\ p.priority = "Low" THEN "Delete"
                      ELSE p.eviction
  BY SavedPoolFacts
<1>3. q.ports = IF i \in Visited(d.pools) /\ p.dns # "" /\ p.ports = <<>>
                THEN DefaultPorts ELSE p.ports
  BY SavedPoolFacts
<1> HIDE DEF p, q
<1>5. ASSUME ValidPoolStruct(p) PROVE ValidPoolStruct(q)
  <2>1. /\ p.name # "" /\ p.count \in 1..100
        /\ LegalPorts(p.ports)
        /\ p.priority \in {"Regular", "Low", ""}
        /\ p.eviction \in {"Delete", "Deallocate", ""}
        /\ p.storage \in {"StorageAccount", "ManagedDisks", ""}
        /\ p.disks <= 4
    BY <1>5, PoolStructParts
  <2>2. /\ q.name # "" /\ q.count \in 1..100 /\ q.disks <= 4
        /\ q.priority \in {"Regular", "Low", ""}
    BY <1>1, <2>1
  <2>3. q.ports = DefaultPorts \/ q.ports = p.ports
    BY <1>3
  <2>4. LegalPorts(q.ports)
    BY <2>1, <2>3, DefaultPortsLegal
  <2>5. q.eviction \in {"Delete", "Deallocate", ""}
    BY <1>2, <2>1
  <2>6. q.storage \in {"StorageAccount", "ManagedDisks", ""}
    BY <1>2, <2>1 DEF OrManaged
  <2> QED BY <2>2, <2>4, <2>5, <2>6, PoolStructParts
<1>6. ASSUME ValidDisks(p) PROVE ValidDisks(q)
  BY <1>1, <1>2, <1>6 DEF ValidDisks, OrManaged
<1>7. ASSUME i \in Visited(d.pools), ValidPorts(p) PROVE ValidPorts(q)
  <2>1. CASE p.dns = ""
    BY <1>1, <1>3, <1>7, <2>1, Zenon DEF ValidPorts
  <2>2. CASE p.dns # "" /\ p.ports = <<>>
    <3>1. q.ports = DefaultPorts
      BY <1>3, <1>7, <2>2, Zenon
    <3> QED BY <1>1, <1>7, <2>2, <3>1, DefaultPortsLegal, Zenon DEF ValidPorts
  <2>3. CASE p.dns # "" /\ p.ports # <<>>
    <3>1. q.ports = p.ports
      BY <1>3, <2>3, Zenon
    <3> QED BY <1>1, <1>7, <2>3, <3>1, Zenon DEF ValidPorts
  <2> QED BY <2>1, <2>2, <2>3, Zenon
<1> QED BY <1>5, <1>6, <1>7 DEF p, q

\* What is generated from a valid document is saved as one.
LEMMA SavedReady ==
    ASSUME NEW b \in Builds, NEW d \in ContainerService, Decoded(d),
           Validate(b, d, FALSE),
           ValidateDistro(Rendered(b, LoadContainerService(b, d)))
    PROVE  Ready(SerializeContainerService(AfterGenerate(b, LoadContainerService(b, d))))
<1> DEFINE cs == LoadContainerService(b, d)
           c == Rendered(b, cs)
           s == SerializeContainerService(AfterGenerate(b, cs))
<1>1. /\ s.orchestrator.linux = RenderedBoot(d, d.orchestrator.linux, 240)
      /\ s.orchestrator.windows = RenderedBoot(d, d.orchestrator.windows, 241)
  BY SavedForm
<1>2. s.master = SavedMaster(d) /\ s.master = ConvertMasterProfileToVLabs(c.master)
  BY SavedForm
<1>3. s.pools = [i \in DOMAIN d.pools |-> SavedPool(d, i)]
  BY SavedForm
<1>4. s.windowsProfile = d.windowsProfile /\ s.sshKey = d.sshKey
  BY SavedForm
<1>5. /\ DOMAIN c.pools = DOMAIN d.pools
      /\ \A i \in DOMAIN d.pools : ConvertAgentPoolProfileToVLabs(c.pools[i]) = SavedPool(d, i)
  BY SavedForm
<1>6. c \in ContainerService
  <2>1. cs \in ContainerService
    BY LoadFacts
  <2> QED BY <2>1, RenderedFacts
<1>7. ValidateDistro(c)
  OBVIOUS
<1> HIDE DEF s, c, cs
<1>8. /\ ValidStruct(d)
      /\ ValidMasterProfile(d) /\ ValidAgentPoolProfiles(d) /\ ValidLinuxProfile(d)
      /\ ValidExtensions(d) /\ ValidVNET(d)
  BY DEF Validate
<1>9. /\ s.master.count = d.master.count /\ s.master.dns = d.master.dns
      /\ s.master.vnet = d.master.vnet /\ s.master.cidr = d.master.cidr
      /\ s.master.image = d.master.image
      /\ IsCustomVNET(d.master) => s.master.firstIP = d.master.firstIP
      /\ s.master.storage = OrManaged(d.master.storage)
  BY <1>2, SavedMasterFacts
<1>10. /\ DOMAIN s.pools = DOMAIN d.pools
       /\ \A i \in DOMAIN d.pools : s.pools[i] = SavedPool(d, i)
  BY <1>3
<1>11. \A i \in DOMAIN d.pools :
         /\ s.pools[i].name = d.pools[i].name /\ s.pools[i].vnet = d.pools[i].vnet
         /\ s.pools[i].image = d.pools[i].image /\ s.pools[i].role = d.pools[i].role
         /\ s.pools[i].extensions = d.pools[i].extensions
         /\ s.pools[i].os = IF d.pools[i].os = "" THEN "Linux" ELSE d.pools[i].os
         /\ s.pools[i].avail = IF d.pools[i].avail = "" THEN "VirtualMachineScaleSets"
                               ELSE d.pools[i].avail
  <2> SUFFICES ASSUME NEW i \in DOMAIN d.pools
               PROVE  LET p == d.pools[i]
                          q == s.pools[i] IN
                      /\ q.name = p.name /\ q.vnet = p.vnet /\ q.image = p.image
                      /\ q.role = p.role /\ q.extensions = p.extensions
                      /\ q.os = IF p.os = "" THEN "Linux" ELSE p.os
                      /\ q.avail = IF p.avail = "" THEN "VirtualMachineScaleSets" ELSE p.avail
    OBVIOUS
  <2> DEFINE p == d.pools[i]
             q == SavedPool(d, i)
  <2>1. /\ q.name = p.name /\ q.vnet = p.vnet /\ q.image = p.image
        /\ q.role = p.role /\ q.extensions = p.extensions
        /\ q.os = IF p.os = "" THEN "Linux" ELSE p.os
        /\ q.avail = IF p.avail = "" THEN "VirtualMachineScaleSets" ELSE p.avail
    BY SavedPoolFacts
  <2>2. s.pools[i] = q
    BY <1>10
  <2> HIDE DEF q
  <2> QED BY <2>1, <2>2
<1>12. \A i \in DOMAIN d.pools :
         /\ ValidPoolStruct(d.pools[i]) => ValidPoolStruct(s.pools[i])
         /\ ValidDisks(d.pools[i]) => ValidDisks(s.pools[i])
         /\ i \in Visited(d.pools) /\ ValidPorts(d.pools[i]) => ValidPorts(s.pools[i])
  BY <1>10, SavedPoolValid
<1>13. Visited(s.pools) = Visited(d.pools)
  BY <1>3, SavedVisited
<1>14. ValidStruct(s)
  <2>1. s.master.storage \in {"StorageAccount", "ManagedDisks", ""}
    BY <1>8, <1>9 DEF ValidStruct, OrManaged
  <2>2. \A i \in DOMAIN s.pools : ValidPoolStruct(s.pools[i])
    BY <1>8, <1>10, <1>12 DEF ValidStruct
  <2> QED BY <1>4, <1>8, <1>9, <2>1, <2>2 DEF ValidStruct
<1>15. \A boot \in {s.orchestrator.linux, s.orchestrator.windows} :
         boot.ip # None => IsIP(boot.ip)
  <2> DEFINE l == d.orchestrator.linux
             w == d.orchestrator.windows
  <2>1. l \in BootstrapProfile /\ w \in BootstrapProfile
    BY ContainerFields DEF OrchestratorProfile
  <2>2. /\ l.given /\ l.ip # None => IsIP(l.ip)
        /\ w.given /\ w.ip # None => IsIP(w.ip)
    BY DEF Validate, ValidOrchestratorProfile
  <2>3. (l.given \/ l.ip = None) /\ (w.given \/ w.ip = None)
    BY DEF Decoded
  <2> HIDE DEF l, w
  <2> DEFINE first == 240
             second == 241
  <2>4. IsIP(<<DefaultMasterNet, first>>) /\ IsIP(<<DefaultMasterNet, second>>)
    BY DEF IsIP, None
  <2> HIDE DEF first, second
  <2>5. RenderedBoot(d, l, first).ip \in {l.ip, <<DefaultMasterNet, first>>}
    BY <2>1, SavedBootFacts, Zenon
  <2>10. RenderedBoot(d, w, second).ip \in {w.ip, <<DefaultMasterNet, second>>}
    BY <2>1, SavedBootFacts, Zenon
  <2>6. s.orchestrator.linux = RenderedBoot(d, l, first)
    BY <1>1 DEF l, first
  <2>7. s.orchestrator.windows = RenderedBoot(d, w, second)
    BY <1>1 DEF w, second
  <2>8. s.orchestrator.linux.ip # None => IsIP(s.orchestrator.linux.ip)
    BY <2>2, <2>3, <2>4, <2>5, <2>6, Zenon
  <2>9. s.orchestrator.windows.ip # None => IsIP(s.orchestrator.windows.ip)
    BY <2>2, <2>3, <2>4, <2>10, <2>7, Zenon
  <2> QED BY <2>8, <2>9
<1>16. ValidMasterProfile(s)
  BY <1>8, <1>9 DEF ValidMasterProfile
<1>17. ValidAgentPoolProfiles(s)
  <2> SUFFICES ASSUME NEW i \in Visited(s.pools)
               PROVE  LET p == s.pools[i] IN
                      /\ p.name \in PoolNames
                      /\ \A j \in 1..(i - 1) : s.pools[j].name # p.name
                      /\ p.os \in {"Linux", "Windows", ""}
                      /\ ValidPorts(p)
                      /\ ValidDisks(p)
                      /\ p.image # "half"
                      /\ p.image = "none" =>
                           /\ p.avail \in {"AvailabilitySet", "VirtualMachineScaleSets", ""}
                           /\ p.role = ""
                           /\ p.os = "Windows" => s.windowsProfile = "complete"
    BY DEF ValidAgentPoolProfiles
  <2> DEFINE q == d.pools[i]
             p == s.pools[i]
  <2>1. i \in DOMAIN d.pools /\ i \in Visited(d.pools)
    BY <1>13 DEF Visited
  <2>2. DOMAIN d.pools = 1..Len(d.pools) /\ Len(d.pools) \in Nat
    BY ContainerFields
  <2>3. \A j \in 1..(i - 1) : j \in DOMAIN d.pools
    BY <2>1, <2>2
  <2>4. /\ q.name \in PoolNames
        /\ \A j \in 1..(i - 1) : d.pools[j].name # q.name
        /\ q.os \in {"Linux", "Windows", ""}
        /\ ValidPorts(q) /\ ValidDisks(q)
        /\ q.image # "half"
        /\ q.image = "none" =>
             /\ q.avail \in {"AvailabilitySet", "VirtualMachineScaleSets", ""}
             /\ q.role = ""
             /\ q.os = "Windows" => d.windowsProfile = "complete"
    BY <1>8, <2>1 DEF ValidAgentPoolProfiles
  <2>5. /\ p.name = q.name /\ p.image = q.image /\ p.role = q.role
        /\ p.os = IF q.os = "" THEN "Linux" ELSE q.os
        /\ p.avail = IF q.avail = "" THEN "VirtualMachineScaleSets" ELSE q.avail
    BY <1>11, <2>1
  <2>6. ValidPorts(p) /\ ValidDisks(p)
    BY <1>12, <2>1, <2>4
  <2>7. \A j \in 1..(i - 1) : s.pools[j].name # p.name
    BY <1>11, <2>3, <2>4, <2>5
  <2> HIDE DEF p, q
  <2>8. /\ p.name \in PoolNames /\ p.os \in {"Linux", "Windows", ""} /\ p.image # "half"
        /\ p.image = "none" =>
             /\ p.avail \in {"AvailabilitySet", "VirtualMachineScaleSets", ""}
             /\ p.role = ""
             /\ p.os = "Windows" => s.windowsProfile = "complete"
    BY <1>4, <2>4, <2>5
  <2> QED BY <2>6, <2>7, <2>8 DEF p
<1>18. ValidLinuxProfile(s)
  BY <1>4, <1>8 DEF ValidLinuxProfile
<1>19. ValidExtensions(s)
  BY <1>8, <1>10, <1>11 DEF ValidExtensions
<1>20. ValidVNET(s)
  <2>1. IsCustomVNET(s.master) = IsCustomVNET(d.master)
    BY <1>9 DEF IsCustomVNET
  <2>2. \A i \in DOMAIN d.pools : IsCustomVNET(s.pools[i]) = IsCustomVNET(d.pools[i])
    BY <1>11 DEF IsCustomVNET
  <2>3. \A i \in DOMAIN d.pools : s.pools[i].vnet = d.pools[i].vnet
    BY <1>11
  <2>4. /\ s.master.vnet = d.master.vnet /\ s.master.cidr = d.master.cidr
        /\ IsCustomVNET(d.master) => s.master.firstIP = d.master.firstIP
    BY <1>9
  <2>5. /\ \A i \in DOMAIN d.pools : IsCustomVNET(d.pools[i]) = IsCustomVNET(d.master)
        /\ IsCustomVNET(d.master) =>
             /\ Len(d.master.vnet) = 2
             /\ \A i \in DOMAIN d.pools : /\ Len(d.pools[i].vnet) = 2
                                          /\ d.pools[i].vnet[1] = d.master.vnet[1]
             /\ IsIP(d.master.firstIP)
             /\ d.master.cidr # "bad"
    BY <1>8, Zenon DEF ValidVNET
  <2>6. \A i \in DOMAIN s.pools : IsCustomVNET(s.pools[i]) = IsCustomVNET(s.master)
    BY <1>10, <2>1, <2>2, <2>5, Zenon
  <2>7. ASSUME IsCustomVNET(s.master)
        PROVE  /\ Len(s.master.vnet) = 2
               /\ \A i \in DOMAIN s.pools : /\ Len(s.pools[i].vnet) = 2
                                            /\ s.pools[i].vnet[1] = s.master.vnet[1]
               /\ IsIP(s.master.firstIP)
               /\ s.master.cidr # "bad"
    <3>1. IsCustomVNET(d.master)
      BY <2>1, <2>7, Zenon
    <3>2. s.master.firstIP = d.master.firstIP
      BY <2>4, <3>1, Zenon
    <3>3. /\ Len(s.master.vnet) = 2 /\ IsIP(s.master.firstIP) /\ s.master.cidr # "bad"
      BY <2>4, <2>5, <3>1, <3>2, Zenon
    <3>4. ASSUME NEW i \in DOMAIN s.pools
          PROVE  Len(s.pools[i].vnet) = 2 /\ s.pools[i].vnet[1] = s.master.vnet[1]
      <4>1. i \in DOMAIN d.pools
        BY <1>10, Zenon
      <4>2. s.pools[i].vnet = d.pools[i].vnet /\ s.master.vnet = d.master.vnet
        BY <2>3, <2>4, <4>1, Zenon
      <4>3. Len(d.pools[i].vnet) = 2 /\ d.pools[i].vnet[1] = d.master.vnet[1]
        BY <2>5, <3>1, <4>1, Zenon
      <4> QED BY <4>2, <4>3, Zenon
    <3> QED BY <3>3, <3>4, Zenon
  <2> QED BY <2>6, <2>7, Zenon DEF ValidVNET
<1>21. ValidateDistro(s)
  <2>1. s.master.distro = c.master.distro
    <3>1. c.master \in MasterProfile
      BY <1>6, ContainerFields
    <3> QED BY <1>2, <3>1 DEF ConvertMasterProfileToVLabs, MasterProfile
  <2>2. \A i \in DOMAIN s.pools : s.pools[i].distro = c.pools[i].distro
    <3>1. \A i \in DOMAIN c.pools : c.pools[i] \in AgentPoolProfile
      BY <1>6, ContainerFields
    <3>2. \A p \in AgentPoolProfile : ConvertAgentPoolProfileToVLabs(p).distro = p.distro
      BY DEF ConvertAgentPoolProfileToVLabs, AgentPoolProfile
    <3> QED BY <1>5, <1>10, <3>1, <3>2
  <2> QED BY <1>5, <1>7, <1>10, <2>1, <2>2 DEF ValidateDistro
<1> QED BY <1>14, <1>15, <1>16, <1>17, <1>18, <1>19, <1>20, <1>21 DEF Ready, s, cs

LEMMA SavedMirrors ==
    ASSUME NEW b \in Builds, NEW d \in ContainerService, Decoded(d)
    PROVE  LET c == Rendered(b, LoadContainerService(b, d)) IN
           Mirrors(SerializeContainerService(AfterGenerate(b, LoadContainerService(b, d))), c)
<1> DEFINE cs == LoadContainerService(b, d)
           c == Rendered(b, cs)
           s == SerializeContainerService(AfterGenerate(b, cs))
<1>1. /\ c.orchestrator.release = None
      /\ c.orchestrator.linux = s.orchestrator.linux
      /\ c.orchestrator.windows = s.orchestrator.windows
  BY SavedForm, Zenon
<1>2. s.master = ConvertMasterProfileToVLabs(c.master)
  BY SavedForm, Zenon
<1>3. IsCustomVNET(c.master) => c.master.subnet = ""
  BY SavedForm, Zenon
<1>4. s.pools = [i \in DOMAIN d.pools |-> SavedPool(d, i)]
  BY SavedForm, Zenon
<1>5. /\ DOMAIN c.pools = DOMAIN d.pools
      /\ \A i \in DOMAIN d.pools :
           /\ ConvertAgentPoolProfileToVLabs(c.pools[i]) = SavedPool(d, i)
           /\ IsCustomVNET(c.master) => c.pools[i].subnet = None
  BY SavedForm, Zenon
<1>6. s.windowsProfile = c.windowsProfile /\ s.sshKey = c.sshKey
  <2>1. s.windowsProfile = d.windowsProfile /\ s.sshKey = d.sshKey
    BY SavedForm, Zenon
  <2>2. c.windowsProfile = d.windowsProfile /\ c.sshKey = d.sshKey
    BY SavedForm, Zenon
  <2> QED BY <2>1, <2>2, Zenon
<1> HIDE DEF s, c
<1>7. /\ DOMAIN s.pools = DOMAIN c.pools
      /\ \A i \in DOMAIN c.pools :
           /\ Unsized(s.pools[i]) = Unsized(ConvertAgentPoolProfileToVLabs(c.pools[i]))
           /\ IsCustomVNET(c.master) => c.pools[i].subnet = None
  <2>1. /\ DOMAIN s.pools = DOMAIN d.pools
        /\ \A i \in DOMAIN d.pools : s.pools[i] = SavedPool(d, i)
    BY <1>4
  <2> QED BY <1>5, <2>1, Zenon
<1> QED BY <1>1, <1>2, <1>3, <1>6, <1>7, Zenon DEF Mirrors, s, c, cs

LEMMA SameManaged == ASSUME NEW st, st # "" PROVE OrManaged(st) = st
BY DEF OrManaged

\* Loading a saved document changes nothing but the way it names its version.
LEMMA NormalLoad ==
    ASSUME NEW b \in Builds, NEW d \in ContainerService, Normal(d)
    PROVE  LET c == LoadContainerService(b, d) IN
           /\ c.orchestrator = ConvertVLabsOrchestratorProfile(b, d.orchestrator)
           /\ c.master = d.master
           /\ c.pools = d.pools
           /\ c.windowsProfile = d.windowsProfile /\ c.sshKey = d.sshKey
<1> DEFINE c == LoadContainerService(b, d)
<1>1. /\ c.orchestrator = ConvertVLabsOrchestratorProfile(b, d.orchestrator)
      /\ c.master = ConvertVLabsMasterProfile(d.master)
      /\ c.windowsProfile = d.windowsProfile /\ c.sshKey = d.sshKey
  BY LoadForm, Zenon
<1>2. c.pools = [i \in DOMAIN d.pools |-> LoadedPool(d, i)]
  BY LoadForm, Zenon
<1> HIDE DEF c
<1>3. d.master.storage # ""
  BY DEF Normal
<1>4. ConvertVLabsMasterProfile(d.master) = d.master
  <2>1. d.master \in MasterProfile /\ OrManaged(d.master.storage) = d.master.storage
    BY <1>3, ContainerFields, SameManaged
  <2> QED BY <2>1 DEF ConvertVLabsMasterProfile, MasterProfile
<1>5. ASSUME NEW i \in DOMAIN d.pools PROVE LoadedPool(d, i) = d.pools[i]
  <2> DEFINE p == d.pools[i]
  <2>1. p \in AgentPoolProfile
    BY ContainerFields
  <2>2. p.storage # "" /\ (i \in Visited(d.pools) /\ p.dns # "" => p.ports # <<>>)
    BY Zenon DEF Normal
  <2>3. OrManaged(p.storage) = p.storage
    BY <2>2, SameManaged
  <2>4. LoadedPool(d, i) = [p EXCEPT !.ports = p.ports, !.storage = p.storage]
    BY <2>2, <2>3 DEF LoadedPool
  <2> HIDE DEF p
  <2>5. [p EXCEPT !.ports = p.ports, !.storage = p.storage] = p
    BY <2>1 DEF AgentPoolProfile
  <2> QED BY <2>4, <2>5 DEF p
<1>6. c.pools = d.pools
  <2>1. d.pools = [i \in DOMAIN d.pools |-> d.pools[i]]
    BY ContainerFields
  <2> QED BY <1>2, <1>5, <2>1
<1> QED BY <1>1, <1>4, <1>6, Zenon DEF c

\* Documents that differ in nothing that is validated but the version.
LEMMA ReadySame ==
    ASSUME NEW d, NEW e, Ready(d),
           e.orchestrator.linux.ip = d.orchestrator.linux.ip,
           e.orchestrator.windows.ip = d.orchestrator.windows.ip,
           e.master = d.master, e.pools = d.pools,
           e.windowsProfile = d.windowsProfile, e.sshKey = d.sshKey
    PROVE  Ready(e)
<1>1. /\ ValidStruct(d) /\ ValidMasterProfile(d) /\ ValidAgentPoolProfiles(d)
      /\ ValidLinuxProfile(d) /\ ValidExtensions(d) /\ ValidVNET(d) /\ ValidateDistro(d)
  BY Zenon DEF Ready
<1>2. ValidStruct(e) /\ ValidMasterProfile(e) /\ ValidLinuxProfile(e)
  BY <1>1, Zenon DEF ValidStruct, ValidMasterProfile, ValidLinuxProfile
<1>3. ValidAgentPoolProfiles(e)
  BY <1>1, Zenon DEF ValidAgentPoolProfiles
<1>4. ValidExtensions(e) /\ ValidateDistro(e)
  BY <1>1, Zenon DEF ValidExtensions, ValidateDistro
<1>5. ValidVNET(e)
  BY <1>1, Zenon DEF ValidVNET
<1>6. \A boot \in {e.orchestrator.linux, e.orchestrator.windows} :
        boot.ip # None => IsIP(boot.ip)
  BY Zenon DEF Ready
<1> QED BY <1>2, <1>3, <1>4, <1>5, <1>6, Zenon DEF Ready

LEMMA NormalSame ==
    ASSUME NEW d, NEW e, Normal(d),
           e.orchestrator.linux.given, e.orchestrator.windows.given,
           e.orchestrator.linux.size = d.orchestrator.linux.size,
           e.orchestrator.windows.size = d.orchestrator.windows.size,
           e.master = d.master, e.pools = d.pools
    PROVE  Normal(e)
<1>1. /\ d.orchestrator.linux.size # "" /\ d.orchestrator.windows.size # ""
      /\ d.master.storage # "" /\ d.master.distro # "" /\ d.master.httpSource = ""
      /\ d.master.subnet = ""
  BY Zenon DEF Normal, Decoded
<1>2. \A i \in DOMAIN d.pools : d.pools[i].subnet = None
  BY Zenon DEF Normal, Decoded
<1>3. \A i \in DOMAIN d.pools :
        LET p == d.pools[i] IN
        /\ p.os # "" /\ p.distro # "" /\ p.storage # "" /\ p.avail # ""
        /\ p.priority = "Low" => p.eviction # ""
        /\ i \in Visited(d.pools) /\ p.dns # "" => p.ports # <<>>
  BY Zenon DEF Normal
<1>4. Decoded(e)
  BY <1>1, <1>2, Zenon DEF Decoded
<1> QED BY <1>1, <1>3, <1>4, Zenon DEF Normal

----------------------------------------------------------------------------
(* The second invariant: saved documents are usable and show their cluster *)

Kept ==
    /\ Decoded(doc)
    /\ Saved => Normal(doc) /\ Ready(doc) /\ Mirrors(doc, cluster)

LEMMA InitKept == Init => Kept
BY DocsAssumption DEF Init, Kept, Decoded, Saved

LEMMA NormalIsDecoded == ASSUME NEW d, Normal(d) PROVE Decoded(d)
BY DEF Normal

\* generate, and the end of deploy, whose document d is.
LEMMA ProduceKept ==
    ASSUME build \in Builds, NEW d \in ContainerService, Decoded(d),
           Validate(build, d, FALSE), Produce(LoadContainerService(build, d))
    PROVE  Kept'
<1> DEFINE cs == LoadContainerService(build, d)
           c == Rendered(build, cs)
           s == SerializeContainerService(AfterGenerate(build, cs))
<1>1. ValidateDistro(c) /\ cluster' = c /\ doc' = s
  BY DEF Produce
<1>2. Normal(s)
  BY SavedNormal
<1>3. Ready(s)
  BY <1>1, SavedReady
<1>4. Mirrors(s, c)
  BY SavedMirrors
<1>5. Decoded(s)
  BY <1>2, NormalIsDecoded
<1> HIDE DEF s, c
<1> QED BY <1>1, <1>2, <1>3, <1>4, <1>5 DEF Kept

LEMMA GenerateKept == ASSUME IInv, Kept, Generate PROVE Kept'
<1>1. build \in Builds /\ doc \in ContainerService /\ Decoded(doc)
  BY DEF IInv, TypeOK, Kept
<1> QED BY <1>1, ProduceKept DEF Generate

\* What is saved of a model.
LEMMA SerializeForm ==
    ASSUME NEW cs \in ContainerService
    PROVE  LET s == SerializeContainerService(cs) IN
           /\ s.orchestrator.linux = cs.orchestrator.linux
           /\ s.orchestrator.windows = cs.orchestrator.windows
           /\ s.master = ConvertMasterProfileToVLabs(cs.master)
           /\ s.pools = [i \in DOMAIN cs.pools |-> ConvertAgentPoolProfileToVLabs(cs.pools[i])]
           /\ s.windowsProfile = cs.windowsProfile /\ s.sshKey = cs.sshKey
<1>1. cs.orchestrator \in OrchestratorProfile
  BY ContainerFields
<1> DEFINE o == ConvertOrchestratorProfileToVLabs(cs.orchestrator)
           m == ConvertMasterProfileToVLabs(cs.master)
           f == [i \in DOMAIN cs.pools |-> ConvertAgentPoolProfileToVLabs(cs.pools[i])]
<1>2. o.linux = cs.orchestrator.linux /\ o.windows = cs.orchestrator.windows
  BY <1>1 DEF ConvertOrchestratorProfileToVLabs, OrchestratorProfile
<1>3. SerializeContainerService(cs) = [cs EXCEPT !.orchestrator = o, !.master = m, !.pools = f]
  BY DEF SerializeContainerService
<1> DEFINE s == [cs EXCEPT !.orchestrator = o, !.master = m, !.pools = f]
<1> HIDE DEF o, m, f
<1>4. /\ s.orchestrator = o /\ s.master = m /\ s.pools = f
      /\ s.windowsProfile = cs.windowsProfile /\ s.sshKey = cs.sshKey
  BY DEF ContainerService
<1> HIDE DEF s
<1>5. SerializeContainerService(cs) = s
  BY <1>3 DEF s
<1> QED BY <1>2, <1>4, <1>5, Zenon DEF m, f

\* What is saved is decoded without unexported fields.
LEMMA SerializeDecoded ==
    ASSUME NEW cs \in ContainerService,
           cs.orchestrator.linux.given \/ cs.orchestrator.linux.ip = None,
           cs.orchestrator.windows.given \/ cs.orchestrator.windows.ip = None
    PROVE  Decoded(SerializeContainerService(cs))
<1> DEFINE s == SerializeContainerService(cs)
<1>1. /\ s.orchestrator.linux = cs.orchestrator.linux
      /\ s.orchestrator.windows = cs.orchestrator.windows
      /\ s.master = ConvertMasterProfileToVLabs(cs.master)
  BY SerializeForm, Zenon
<1>2. s.pools = [i \in DOMAIN cs.pools |-> ConvertAgentPoolProfileToVLabs(cs.pools[i])]
  BY SerializeForm, Zenon
<1> HIDE DEF s
<1>3. s.master.subnet = ""
  <2>1. cs.master \in MasterProfile
    BY ContainerFields
  <2>2. ConvertMasterProfileToVLabs(cs.master).subnet = ""
    BY <2>1 DEF ConvertMasterProfileToVLabs, MasterProfile
  <2> QED BY <1>1, <2>2
<1>4. ASSUME NEW i \in DOMAIN s.pools PROVE s.pools[i].subnet = None
  <2>1. i \in DOMAIN cs.pools /\ s.pools[i] = ConvertAgentPoolProfileToVLabs(cs.pools[i])
    BY <1>2
  <2>2. cs.pools[i] \in AgentPoolProfile
    BY <2>1, ContainerFields
  <2>3. ConvertAgentPoolProfileToVLabs(cs.pools[i]).subnet = None
    BY <2>2 DEF ConvertAgentPoolProfileToVLabs, AgentPoolProfile
  <2> QED BY <2>1, <2>3
<1> QED BY <1>1, <1>3, <1>4, Zenon DEF Decoded, s

\* The document deploy validates, before its defaults are filled in.
LEMMA DeployedFacts ==
    ASSUME NEW b \in Builds, NEW d \in ContainerService, Decoded(d),
           NEW flag \in DnsNames \union {""}
    PROVE  /\ DeployedDocument(b, d, flag) \in ContainerService
           /\ Decoded(DeployedDocument(b, d, flag))
<1> DEFINE c == ConvertVLabsContainerService(b, d)
           m == [c.master EXCEPT !.dns = IF @ = "" THEN flag ELSE @]
           a == [c EXCEPT !.master = m, !.sshKey = "given"]
<1>1. c \in ContainerService /\ c.orchestrator = ConvertVLabsOrchestratorProfile(b, d.orchestrator)
  BY ToContainer
<1> HIDE DEF c
<1>2. Autofill(c, flag) = a
  BY <1>1 DEF Autofill, ContainerService
<1>3. m \in MasterProfile
  <2>1. flag \in STRING
    BY NamesAssumption, LiteralsAssumption
  <2> QED BY <1>1, <2>1, ContainerFields DEF MasterProfile
<1> HIDE DEF m
<1>4. a \in ContainerService /\ a.orchestrator = c.orchestrator
  BY <1>1, <1>3 DEF ContainerService
<1>5. DeployedDocument(b, d, flag) = SerializeContainerService(a)
  BY <1>2 DEF DeployedDocument, c
<1>6. a.orchestrator.linux = d.orchestrator.linux /\ a.orchestrator.windows = d.orchestrator.windows
  <2>1. d.orchestrator \in OrchestratorProfile
    BY ContainerFields
  <2>2. LET o == ConvertVLabsOrchestratorProfile(b, d.orchestrator) IN
        o.linux = d.orchestrator.linux /\ o.windows = d.orchestrator.windows
    BY <2>1, ToOrchestrator
  <2> HIDE DEF a
  <2> QED BY <1>1, <1>4, <2>2, Zenon
<1> HIDE DEF a
<1>7. /\ a.orchestrator.linux.given \/ a.orchestrator.linux.ip = None
      /\ a.orchestrator.windows.given \/ a.orchestrator.windows.ip = None
  BY <1>6, Zenon DEF Decoded
<1>8. SerializeContainerService(a) \in ContainerService
  BY <1>4, SerializeFacts
<1>9. Decoded(SerializeContainerService(a))
  BY <1>4, <1>7, SerializeDecoded, Zenon
<1> QED BY <1>5, <1>8, <1>9, Zenon

LEMMA DeployKept ==
    ASSUME IInv, Kept, NEW flag \in DnsNames \union {""}, Deploy(flag)
    PROVE  Kept'
<1> DEFINE d == DeployedDocument(build, doc, flag)
<1>1. build \in Builds /\ doc \in ContainerService /\ Decoded(doc)
  BY DEF IInv, TypeOK, Kept
<1>2. d \in ContainerService /\ Decoded(d)
  BY <1>1, DeployedFacts, Zenon
<1>3. Validate(build, d, FALSE) /\ Produce(LoadContainerService(build, d))
  BY DEF Deploy
<1> HIDE DEF d
<1> QED BY <1>1, <1>2, <1>3, ProduceKept, Zenon

\* An upgrade changes the version and where the bootstrap nodes download it.
LEMMA UpgradedForm ==
    ASSUME NEW cs \in ContainerService, NEW v \in Version
    PROVE  LET c == UpgradedModel(cs, v) IN
           /\ c \in ContainerService
           /\ c.orchestrator.release = cs.orchestrator.release
           /\ c.orchestrator.linux = [cs.orchestrator.linux EXCEPT !.url = v]
           /\ c.orchestrator.windows = [cs.orchestrator.windows EXCEPT !.url = v]
           /\ c.master = cs.master /\ c.pools = cs.pools
           /\ c.windowsProfile = cs.windowsProfile /\ c.sshKey = cs.sshKey
<1> DEFINE l == [cs.orchestrator.linux EXCEPT !.url = v]
           w == [cs.orchestrator.windows EXCEPT !.url = v]
           o == [cs.orchestrator EXCEPT !.version = v, !.linux = l, !.windows = w]
           c == [cs EXCEPT !.orchestrator = o]
<1>1. cs.orchestrator \in OrchestratorProfile
  BY ContainerFields
<1>2. UpgradedModel(cs, v) = c
  BY <1>1 DEF UpgradedModel, ContainerService, OrchestratorProfile
<1>3. c \in ContainerService
  BY <1>2, UpgradedFacts
<1> HIDE DEF l, w
<1>4. o.release = cs.orchestrator.release /\ o.linux = l /\ o.windows = w
  BY <1>1 DEF OrchestratorProfile
<1> HIDE DEF o
<1>5. /\ c.orchestrator = o /\ c.master = cs.master /\ c.pools = cs.pools
      /\ c.windowsProfile = cs.windowsProfile /\ c.sshKey = cs.sshKey
  BY DEF ContainerService
<1> HIDE DEF c
<1> QED BY <1>2, <1>3, <1>4, <1>5, Zenon DEF l, w

LEMMA WithURLFacts ==
    ASSUME NEW boot \in BootstrapProfile, NEW v
    PROVE  LET r == [boot EXCEPT !.url = v] IN
           r.given = boot.given /\ r.ip = boot.ip /\ r.size = boot.size
BY DEF BootstrapProfile

LEMMA UpgradeKept ==
    ASSUME IInv, Kept, NEW v \in build.supported, Upgrade(v)
    PROVE  Kept'
<1> DEFINE cs == LoadContainerService(build, doc)
           u == UpgradedModel(cs, v)
           s == SerializeContainerService(u)
           c == UpgradedModel(cluster, v)
           l == doc.orchestrator.linux
           w == doc.orchestrator.windows
<1>1. /\ build \in Builds /\ doc \in ContainerService /\ cluster \in ContainerService
      /\ Saved /\ Normal(doc) /\ Ready(doc) /\ Mirrors(doc, cluster)
  BY DEF IInv, TypeOK, Linked, Upgrade, Kept
<1>2. v \in Version
  BY <1>1, BuildsAssumption
<1>3. doc' = s /\ cluster' = c
  BY DEF Upgrade
<1>4. /\ cs.orchestrator = ConvertVLabsOrchestratorProfile(build, doc.orchestrator)
      /\ cs.master = doc.master /\ cs.pools = doc.pools
      /\ cs.windowsProfile = doc.windowsProfile /\ cs.sshKey = doc.sshKey
  BY <1>1, NormalLoad, Zenon
<1>5. cs \in ContainerService /\ cs.orchestrator.linux = l /\ cs.orchestrator.windows = w
  BY <1>1, LoadFacts, Zenon
<1> HIDE DEF cs
<1>6. /\ u \in ContainerService
      /\ u.orchestrator.linux = [cs.orchestrator.linux EXCEPT !.url = v]
      /\ u.orchestrator.windows = [cs.orchestrator.windows EXCEPT !.url = v]
      /\ u.master = cs.master /\ u.pools = cs.pools
      /\ u.windowsProfile = cs.windowsProfile /\ u.sshKey = cs.sshKey
  BY <1>2, <1>5, UpgradedForm, Zenon
<1> HIDE DEF u
<1>7. /\ s.orchestrator.linux = u.orchestrator.linux
      /\ s.orchestrator.windows = u.orchestrator.windows
      /\ s.master = ConvertMasterProfileToVLabs(u.master)
      /\ s.windowsProfile = u.windowsProfile /\ s.sshKey = u.sshKey
  BY <1>6, SerializeForm, Zenon
<1>8. s.pools = [i \in DOMAIN u.pools |-> ConvertAgentPoolProfileToVLabs(u.pools[i])]
  BY <1>6, SerializeForm, Zenon
<1> HIDE DEF s
<1>9. s.master = doc.master
  <2>1. /\ doc.master \in MasterProfile
        /\ doc.master.httpSource = "" /\ doc.master.subnet = ""
    BY <1>1, ContainerFields DEF Normal, Decoded
  <2>2. ConvertMasterProfileToVLabs(doc.master) = doc.master
    BY <2>1 DEF ConvertMasterProfileToVLabs, MasterProfile
  <2> QED BY <1>4, <1>6, <1>7, <2>2, Zenon
<1>10. s.pools = doc.pools
  <2>1. ASSUME NEW i \in DOMAIN doc.pools
        PROVE  ConvertAgentPoolProfileToVLabs(doc.pools[i]) = doc.pools[i]
    <3>1. doc.pools[i] \in AgentPoolProfile
      BY <1>1, ContainerFields
    <3>2. doc.pools[i].subnet = None
      BY <1>1 DEF Normal, Decoded
    <3> QED BY <3>1, <3>2 DEF ConvertAgentPoolProfileToVLabs, AgentPoolProfile
  <2>2. u.pools = doc.pools
    BY <1>4, <1>6, Zenon
  <2>3. doc.pools = [i \in DOMAIN doc.pools |-> doc.pools[i]]
    BY <1>1, ContainerFields
  <2> QED BY <1>8, <2>1, <2>2, <2>3
<1>11. /\ s.orchestrator.linux = [l EXCEPT !.url = v]
       /\ s.orchestrator.windows = [w EXCEPT !.url = v]
       /\ s.windowsProfile = doc.windowsProfile /\ s.sshKey = doc.sshKey
  BY <1>4, <1>5, <1>6, <1>7, Zenon
<1>12. l \in BootstrapProfile /\ w \in BootstrapProfile
  BY <1>1, ContainerFields DEF OrchestratorProfile
<1>13. l.given /\ w.given
  BY <1>1, Zenon DEF Normal
<1>14. /\ s.orchestrator.linux.given /\ s.orchestrator.windows.given
       /\ s.orchestrator.linux.ip = l.ip /\ s.orchestrator.windows.ip = w.ip
       /\ s.orchestrator.linux.size = l.size /\ s.orchestrator.windows.size = w.size
  <2>1. /\ [l EXCEPT !.url = v].given = l.given /\ [l EXCEPT !.url = v].ip = l.ip
        /\ [l EXCEPT !.url = v].size = l.size
    BY <1>12, WithURLFacts, Zenon
  <2>2. /\ [w EXCEPT !.url = v].given = w.given /\ [w EXCEPT !.url = v].ip = w.ip
        /\ [w EXCEPT !.url = v].size = w.size
    BY <1>12, WithURLFacts, Zenon
  <2> QED BY <1>11, <1>13, <2>1, <2>2, Zenon
<1>15. Normal(s)
  BY <1>1, <1>9, <1>10, <1>14, NormalSame, Zenon
<1>16. Ready(s)
  BY <1>1, <1>9, <1>10, <1>11, <1>14, ReadySame, Zenon
<1>17. /\ c.orchestrator.release = cluster.orchestrator.release
       /\ c.orchestrator.linux = [cluster.orchestrator.linux EXCEPT !.url = v]
       /\ c.orchestrator.windows = [cluster.orchestrator.windows EXCEPT !.url = v]
       /\ c.master = cluster.master /\ c.pools = cluster.pools
       /\ c.windowsProfile = cluster.windowsProfile /\ c.sshKey = cluster.sshKey
  BY <1>1, <1>2, UpgradedForm, Zenon
<1> HIDE DEF c
<1>18. Mirrors(s, c)
  <2>1. c.orchestrator.release = None
    BY <1>1, <1>17, Zenon DEF Mirrors
  <2>2. /\ cluster.orchestrator.linux = l /\ cluster.orchestrator.windows = w
    BY <1>1, Zenon DEF Mirrors
  <2>3. /\ c.orchestrator.linux = s.orchestrator.linux
        /\ c.orchestrator.windows = s.orchestrator.windows
    BY <1>11, <1>17, <2>2, Zenon
  <2> QED BY <1>1, <1>9, <1>10, <1>11, <1>17, <2>1, <2>3, Zenon DEF Mirrors
<1>19. Decoded(s)
  BY <1>15, NormalIsDecoded
<1> QED BY <1>3, <1>15, <1>16, <1>18, <1>19 DEF Kept

\* A pool of another legal size.
Resized(p, n) == [p EXCEPT !.count = n]

LEMMA ResizedFacts ==
    ASSUME NEW p \in AgentPoolProfile, NEW n \in 1..100
    PROVE  LET q == Resized(p, n) IN
           /\ q.name = p.name /\ q.dns = p.dns /\ q.os = p.os /\ q.ports = p.ports
           /\ q.avail = p.avail /\ q.priority = p.priority /\ q.eviction = p.eviction
           /\ q.storage = p.storage /\ q.disks = p.disks /\ q.vnet = p.vnet
           /\ q.distro = p.distro /\ q.image = p.image /\ q.role = p.role
           /\ q.extensions = p.extensions /\ q.subnet = p.subnet
           /\ q.count = n
BY DEF Resized, AgentPoolProfile

LEMMA ResizedValid ==
    ASSUME NEW p \in AgentPoolProfile, NEW q, NEW n \in 1..100, q = Resized(p, n)
    PROVE  /\ ValidPoolStruct(p) => ValidPoolStruct(q)
           /\ ValidPorts(p) => ValidPorts(q)
           /\ ValidDisks(p) => ValidDisks(q)
           /\ IsCustomVNET(q) = IsCustomVNET(p)
           /\ Unsized(q) = Unsized(p)
<1>1. /\ q.name = p.name /\ q.dns = p.dns /\ q.ports = p.ports
      /\ q.avail = p.avail /\ q.priority = p.priority /\ q.eviction = p.eviction
      /\ q.storage = p.storage /\ q.disks = p.disks /\ q.vnet = p.vnet
      /\ q.count = n
  BY ResizedFacts
<1>2. Unsized(q) = Unsized(p)
  BY DEF Unsized, Resized, AgentPoolProfile
<1>3. ASSUME ValidPoolStruct(p) PROVE ValidPoolStruct(q)
  <2>1. /\ p.name # "" /\ LegalPorts(p.ports)
        /\ p.priority \in {"Regular", "Low", ""}
        /\ p.eviction \in {"Delete", "Deallocate", ""}
        /\ p.storage \in {"StorageAccount", "ManagedDisks", ""}
        /\ p.disks <= 4
    BY <1>3, PoolStructParts, Zenon
  <2> DEFINE sizes == 1..100
  <2>2. n \in sizes
    OBVIOUS
  <2> HIDE DEF sizes
  <2>3. /\ q.name # "" /\ LegalPorts(q.ports)
        /\ q.priority \in {"Regular", "Low", ""}
        /\ q.eviction \in {"Delete", "Deallocate", ""}
        /\ q.storage \in {"StorageAccount", "ManagedDisks", ""}
        /\ q.disks <= 4
        /\ q.count \in sizes
    BY <1>1, <2>1, <2>2, Zenon
  <2> QED BY <2>3, PoolStructParts, Zenon DEF sizes
<1>4. ValidPorts(p) => ValidPorts(q)
  <2>1. q.dns = p.dns /\ q.ports = p.ports
    BY <1>1
  <2>2. CASE p.dns = ""
    <3>1. ValidPorts(p) = (p.ports = <<>>)
      BY <2>2, Zenon DEF ValidPorts
    <3>2. ValidPorts(q) = (q.ports = <<>>)
      BY <2>1, <2>2, Zenon DEF ValidPorts
    <3> QED BY <2>1, <3>1, <3>2, Zenon
  <2>3. CASE p.dns # ""
    <3> SUFFICES ASSUME ValidPorts(p) PROVE ValidPorts(q)
      OBVIOUS
    <3>1. p.dns \in DnsNames
      BY <2>3, Zenon DEF ValidPorts
    <3>2. \A j, k \in DOMAIN p.ports : p.ports[j] = p.ports[k] => j = k
      BY <2>3, Zenon DEF ValidPorts
    <3>3. \A j, k \in DOMAIN q.ports : q.ports[j] = q.ports[k] => j = k
      BY <2>1, <3>2, Zenon
    <3>4. q.dns # "" /\ q.dns \in DnsNames
      BY <2>1, <2>3, <3>1, Zenon
    <3> QED BY <3>3, <3>4, Zenon DEF ValidPorts
  <2> QED BY <2>2, <2>3, Zenon
<1>5. ValidDisks(p) => ValidDisks(q)
  BY <1>1, Zenon DEF ValidDisks
<1>6. IsCustomVNET(q) = IsCustomVNET(p)
  BY <1>1, Zenon DEF IsCustomVNET
<1> QED BY <1>2, <1>3, <1>4, <1>5, <1>6, Zenon

LEMMA ScaleKept ==
    ASSUME IInv, Kept, NEW i \in DOMAIN doc.pools, NEW n \in Counts, Scale(i, n)
    PROVE  Kept'
<1> DEFINE f == [doc.pools EXCEPT ![i] = Resized(doc.pools[i], n)]
           d == [doc EXCEPT !.pools = f]
<1>1. /\ doc \in ContainerService /\ Saved /\ Normal(doc) /\ Ready(doc)
      /\ Mirrors(doc, cluster)
  BY DEF IInv, TypeOK, Scale, Kept
<1>2. n \in 1..100
  BY CountsAssumption
<1>3. doc' = d /\ cluster' = cluster
  BY <1>1 DEF Scale, Resized, ContainerService
<1>4. /\ DOMAIN f = DOMAIN doc.pools
      /\ f[i] = Resized(doc.pools[i], n)
      /\ \A k \in DOMAIN doc.pools : k # i => f[k] = doc.pools[k]
  BY <1>1, ContainerFields
<1>5. \A k \in DOMAIN doc.pools : doc.pools[k] \in AgentPoolProfile
  BY <1>1, ContainerFields
<1> HIDE DEF f
<1>6. /\ d.orchestrator = doc.orchestrator /\ d.master = doc.master /\ d.pools = f
      /\ d.windowsProfile = doc.windowsProfile /\ d.sshKey = doc.sshKey
  BY <1>1 DEF ContainerService
<1> HIDE DEF d
<1>7. \A k \in DOMAIN doc.pools :
        /\ f[k].name = doc.pools[k].name /\ f[k].dns = doc.pools[k].dns
        /\ f[k].os = doc.pools[k].os /\ f[k].ports = doc.pools[k].ports
        /\ f[k].avail = doc.pools[k].avail /\ f[k].priority = doc.pools[k].priority
        /\ f[k].eviction = doc.pools[k].eviction /\ f[k].storage = doc.pools[k].storage
        /\ f[k].vnet = doc.pools[k].vnet /\ f[k].distro = doc.pools[k].distro
        /\ f[k].image = doc.pools[k].image /\ f[k].role = doc.pools[k].role
        /\ f[k].extensions = doc.pools[k].extensions
        /\ f[k].subnet = doc.pools[k].subnet
  <2> SUFFICES ASSUME NEW k \in DOMAIN doc.pools
               PROVE  LET p == doc.pools[k]
                          q == f[k]
                      IN  /\ q.name = p.name /\ q.dns = p.dns /\ q.os = p.os
                          /\ q.ports = p.ports /\ q.avail = p.avail
                          /\ q.priority = p.priority /\ q.eviction = p.eviction
                          /\ q.storage = p.storage /\ q.vnet = p.vnet
                          /\ q.distro = p.distro /\ q.image = p.image
                          /\ q.role = p.role /\ q.extensions = p.extensions
                          /\ q.subnet = p.subnet
    BY Zenon
  <2>1. CASE k = i
    <3> DEFINE p == doc.pools[k]
               r == Resized(p, n)
    <3>1. f[k] = r /\ p \in AgentPoolProfile
      BY <1>4, <1>5, <2>1
    <3> HIDE DEF p
    <3>2. /\ r.name = p.name /\ r.dns = p.dns /\ r.os = p.os /\ r.ports = p.ports
          /\ r.avail = p.avail /\ r.priority = p.priority /\ r.eviction = p.eviction
          /\ r.storage = p.storage /\ r.vnet = p.vnet /\ r.distro = p.distro
          /\ r.image = p.image /\ r.role = p.role /\ r.subnet = p.subnet
      BY <1>2, <3>1, ResizedFacts
    <3>3. r.extensions = p.extensions
      BY <1>2, <3>1, ResizedFacts, Zenon
    <3> HIDE DEF r
    <3> QED BY <3>1, <3>2, <3>3, Zenon DEF p
  <2>2. CASE k # i
    <3>1. f[k] = doc.pools[k]
      BY <1>4, <2>2
    <3> QED BY <3>1, Zenon
  <2> QED BY <2>1, <2>2, Zenon
<1>8. \A k \in DOMAIN doc.pools :
        /\ ValidPoolStruct(doc.pools[k]) => ValidPoolStruct(f[k])
        /\ ValidPorts(doc.pools[k]) => ValidPorts(f[k])
        /\ ValidDisks(doc.pools[k]) => ValidDisks(f[k])
        /\ IsCustomVNET(f[k]) = IsCustomVNET(doc.pools[k])
        /\ Unsized(f[k]) = Unsized(doc.pools[k])
  <2> SUFFICES ASSUME NEW k \in DOMAIN doc.pools
               PROVE  /\ ValidPoolStruct(doc.pools[k]) => ValidPoolStruct(f[k])
                      /\ ValidPorts(doc.pools[k]) => ValidPorts(f[k])
                      /\ ValidDisks(doc.pools[k]) => ValidDisks(f[k])
                      /\ IsCustomVNET(f[k]) = IsCustomVNET(doc.pools[k])
                      /\ Unsized(f[k]) = Unsized(doc.pools[k])
    OBVIOUS
  <2>1. CASE k = i
    <3>1. f[k] = Resized(doc.pools[k], n)
      BY <1>4, <2>1
    <3> QED BY <1>2, <1>5, <3>1, ResizedValid, Zenon
  <2>2. CASE k # i
    <3>1. f[k] = doc.pools[k]
      BY <1>4, <2>2
    <3> QED BY <3>1, Zenon
  <2> QED BY <2>1, <2>2, Zenon
<1>9. DOMAIN doc.pools = 1..Len(doc.pools) /\ Len(doc.pools) \in Nat
  BY <1>1, ContainerFields
<1>10. Visited(f) = Visited(doc.pools)
  BY <1>4, <1>7, <1>9, SameVisited, Zenon
<1>11. Normal(d)
  <2>1. Decoded(d)
    <3>1. /\ doc.master.subnet = ""
          /\ doc.orchestrator.linux.given /\ doc.orchestrator.windows.given
      BY <1>1, Zenon DEF Normal, Decoded
    <3>2. \A k \in DOMAIN doc.pools : doc.pools[k].subnet = None
      BY <1>1, Zenon DEF Normal, Decoded
    <3>3. \A k \in DOMAIN doc.pools : f[k].subnet = None
      BY <1>7, <3>2, Zenon
    <3>4. /\ d.master.subnet = ""
          /\ d.orchestrator.linux.given /\ d.orchestrator.windows.given
          /\ \A k \in DOMAIN d.pools : d.pools[k].subnet = None
      BY <1>4, <1>6, <3>1, <3>3, Zenon
    <3> QED BY <3>4, Zenon DEF Decoded
  <2>2. \A k \in DOMAIN d.pools :
          LET p == d.pools[k] IN
          /\ p.os # "" /\ p.distro # "" /\ p.storage # "" /\ p.avail # ""
          /\ p.priority = "Low" => p.eviction # ""
          /\ k \in Visited(d.pools) /\ p.dns # "" => p.ports # <<>>
    <3> SUFFICES ASSUME NEW k \in DOMAIN doc.pools
                 PROVE  LET p == f[k] IN
                        /\ p.os # "" /\ p.distro # "" /\ p.storage # "" /\ p.avail # ""
                        /\ p.priority = "Low" => p.eviction # ""
                        /\ k \in Visited(f) /\ p.dns # "" => p.ports # <<>>
      BY <1>4, <1>6, Zenon
    <3> DEFINE p == doc.pools[k]
    <3>1. /\ p.os # "" /\ p.distro # "" /\ p.storage # "" /\ p.avail # ""
          /\ p.priority = "Low" => p.eviction # ""
          /\ k \in Visited(doc.pools) /\ p.dns # "" => p.ports # <<>>
      BY <1>1, Zenon DEF Normal
    <3>2. /\ f[k].os = p.os /\ f[k].distro = p.distro /\ f[k].storage = p.storage
          /\ f[k].avail = p.avail /\ f[k].priority = p.priority
          /\ f[k].eviction = p.eviction /\ f[k].dns = p.dns /\ f[k].ports = p.ports
      BY <1>7, Zenon
    <3> HIDE DEF p
    <3> QED BY <1>10, <3>1, <3>2, Zenon
  <2>3. /\ \A boot \in {d.orchestrator.linux, d.orchestrator.windows} :
             boot.given /\ boot.size # ""
        /\ d.master.storage # "" /\ d.master.distro # "" /\ d.master.httpSource = ""
    BY <1>1, <1>6, Zenon DEF Normal
  <2> QED BY <2>1, <2>2, <2>3, Zenon DEF Normal
<1>12. Ready(d)
  <2>1. /\ ValidStruct(doc) /\ ValidMasterProfile(doc) /\ ValidAgentPoolProfiles(doc)
        /\ ValidLinuxProfile(doc) /\ ValidExtensions(doc) /\ ValidVNET(doc)
        /\ ValidateDistro(doc)
    BY <1>1, Zenon DEF Ready
  <2>2. ValidStruct(d)
    BY <1>4, <1>6, <1>8, <2>1, Zenon DEF ValidStruct
  <2>3. ValidAgentPoolProfiles(d)
    <3> SUFFICES ASSUME NEW k \in Visited(f)
                 PROVE  LET p == f[k] IN
                        /\ p.name \in PoolNames
                        /\ \A j \in 1..(k - 1) : f[j].name # p.name
                        /\ p.os \in {"Linux", "Windows", ""}
                        /\ ValidPorts(p)
                        /\ ValidDisks(p)
                        /\ p.image # "half"
                        /\ p.image = "none" =>
                             /\ p.avail \in {"AvailabilitySet", "VirtualMachineScaleSets", ""}
                             /\ p.role = ""
                             /\ p.os = "Windows" => doc.windowsProfile = "complete"
      BY <1>6, Zenon DEF ValidAgentPoolProfiles
    <3> DEFINE q == doc.pools[k]
    <3>1. k \in Visited(doc.pools) /\ k \in DOMAIN doc.pools
      BY <1>10 DEF Visited
    <3>2. /\ q.name \in PoolNames
          /\ \A j \in 1..(k - 1) : doc.pools[j].name # q.name
          /\ q.os \in {"Linux", "Windows", ""}
          /\ ValidPorts(q) /\ ValidDisks(q)
          /\ q.image # "half"
          /\ q.image = "none" =>
               /\ q.avail \in {"AvailabilitySet", "VirtualMachineScaleSets", ""}
               /\ q.role = ""
               /\ q.os = "Windows" => doc.windowsProfile = "complete"
      BY <2>1, <3>1, Zenon DEF ValidAgentPoolProfiles
    <3>3. \A j \in 1..(k - 1) : j \in DOMAIN doc.pools
      BY <1>9, <3>1
    <3>4. /\ f[k].name = q.name /\ f[k].os = q.os /\ f[k].image = q.image
          /\ f[k].avail = q.avail /\ f[k].role = q.role
      BY <1>7, <3>1, Zenon
    <3>5. ValidPorts(f[k]) /\ ValidDisks(f[k])
      BY <1>8, <3>1, <3>2, Zenon
    <3>6. \A j \in 1..(k - 1) : f[j].name # f[k].name
      <4> SUFFICES ASSUME NEW j \in 1..(k - 1) PROVE f[j].name # f[k].name
        OBVIOUS
      <4>1. doc.pools[j].name # q.name /\ j \in DOMAIN doc.pools
        BY <3>2, <3>3, Zenon
      <4>2. f[j].name = doc.pools[j].name
        BY <1>7, <4>1, Zenon
      <4> QED BY <3>4, <4>1, <4>2, Zenon
    <3> HIDE DEF q
    <3> QED BY <3>2, <3>4, <3>5, <3>6, Zenon
  <2>4. ValidExtensions(d)
    <3>1. \A k \in DOMAIN doc.pools :
            doc.pools[k].extensions =>
              doc.pools[k].avail \notin {"", "VirtualMachineScaleSets"}
      BY <2>1, Zenon DEF ValidExtensions
    <3>2. \A k \in DOMAIN doc.pools :
            f[k].extensions = doc.pools[k].extensions /\ f[k].avail = doc.pools[k].avail
      BY <1>7, Zenon
    <3>3. \A k \in DOMAIN f :
            f[k].extensions => f[k].avail \notin {"", "VirtualMachineScaleSets"}
      BY <1>4, <3>1, <3>2, Zenon
    <3> QED BY <1>6, <3>3, Zenon DEF ValidExtensions
  <2>5. ValidVNET(d)
    <3>1. \A k \in DOMAIN doc.pools :
             /\ f[k].vnet = doc.pools[k].vnet
             /\ IsCustomVNET(f[k]) = IsCustomVNET(doc.pools[k])
      BY <1>7, <1>8, Zenon
    <3>2. /\ \A k \in DOMAIN doc.pools :
               IsCustomVNET(doc.pools[k]) = IsCustomVNET(doc.master)
          /\ IsCustomVNET(doc.master) =>
               /\ Len(doc.master.vnet) = 2
               /\ \A k \in DOMAIN doc.pools :
                    Len(doc.pools[k].vnet) = 2 /\ doc.pools[k].vnet[1] = doc.master.vnet[1]
               /\ IsIP(doc.master.firstIP)
               /\ doc.master.cidr # "bad"
      BY <2>1, Zenon DEF ValidVNET
    <3>3. ASSUME NEW k \in DOMAIN f
          PROVE  IsCustomVNET(f[k]) = IsCustomVNET(doc.master)
      <4>1. IsCustomVNET(f[k]) = IsCustomVNET(doc.pools[k])
        BY <1>4, <3>1, Zenon
      <4>2. IsCustomVNET(doc.pools[k]) = IsCustomVNET(doc.master)
        BY <1>4, <3>2, Zenon
      <4> QED BY <4>1, <4>2
    <3>4. IsCustomVNET(doc.master) =>
            \A k \in DOMAIN f : Len(f[k].vnet) = 2 /\ f[k].vnet[1] = doc.master.vnet[1]
      BY <1>4, <3>1, <3>2, Zenon
    <3> QED BY <1>6, <3>2, <3>3, <3>4, Zenon DEF ValidVNET
  <2>6. ValidMasterProfile(d) /\ ValidLinuxProfile(d)
    BY <1>6, <2>1, Zenon DEF ValidMasterProfile, ValidLinuxProfile
  <2>7. ValidateDistro(d)
    BY <1>4, <1>6, <1>7, <2>1, Zenon DEF ValidateDistro
  <2>8. \A boot \in {d.orchestrator.linux, d.orchestrator.windows} :
          boot.ip # None => IsIP(boot.ip)
    BY <1>1, <1>6, Zenon DEF Ready
  <2> QED BY <2>2, <2>3, <2>4, <2>5, <2>6, <2>7, <2>8, Zenon DEF Ready
<1>13. Mirrors(d, cluster)
  <2>1. /\ DOMAIN d.pools = DOMAIN cluster.pools
        /\ \A k \in DOMAIN cluster.pools :
             /\ Unsized(d.pools[k]) = Unsized(ConvertAgentPoolProfileToVLabs(cluster.pools[k]))
             /\ IsCustomVNET(cluster.master) => cluster.pools[k].subnet = None
    BY <1>1, <1>4, <1>6, <1>8, Zenon DEF Mirrors
  <2> QED BY <1>1, <1>6, <2>1, Zenon DEF Mirrors
<1>14. Decoded(d)
  BY <1>11, NormalIsDecoded
<1> QED BY <1>3, <1>11, <1>12, <1>13, <1>14 DEF Kept

LEMMA NextKept == IInv /\ Kept /\ [Next]_vars => Kept'
<1> SUFFICES ASSUME IInv, Kept, [Next]_vars PROVE Kept'
  OBVIOUS
<1>1. CASE Generate
  BY <1>1, GenerateKept
<1>2. CASE \E flag \in DnsNames \union {""} : Deploy(flag)
  BY <1>2, DeployKept
<1>3. CASE \E v \in build.supported : Upgrade(v)
  BY <1>3, UpgradeKept
<1>4. CASE \E i \in DOMAIN doc.pools, n \in Counts : Scale(i, n)
  BY <1>4, ScaleKept
<1>5. CASE \E b \in Builds : Install(b)
  <2>1. doc' = doc /\ cluster' = cluster
    BY <1>5 DEF Install
  <2> QED BY <2>1 DEF Kept, Saved
<1>6. CASE UNCHANGED vars
  BY <1>6 DEF vars, Kept, Saved
<1> QED BY <1>1, <1>2, <1>3, <1>4, <1>5, <1>6 DEF Next

LEMMA AlwaysKept == Spec => [](IInv /\ Kept)
<1>1. Init => IInv /\ Kept
  BY InitInv, InitKept
<1>2. IInv /\ Kept /\ [Next]_vars => (IInv /\ Kept)'
  BY NextInv, NextKept
<1> QED BY <1>1, <1>2, PTL DEF Spec

----------------------------------------------------------------------------
(* What follows from both invariants *)

\* The version of a saved document that is supported is the one it is loaded
\* with, and its own valid patch version.
LEMMA SavedVersion ==
    ASSUME IInv, Saved, Supported
    PROVE  LET o == doc.orchestrator IN
           /\ o.version # None /\ o.release = Release(o.version)
           /\ RationalizeReleaseAndVersion(build, o.release, o.version) = o.version
           /\ GetValidPatchVersion(build, o.version) = o.version
<1> DEFINE o == doc.orchestrator
<1>1. /\ build \in Builds /\ doc \in ContainerService
      /\ o.version # None /\ o.release = Release(o.version)
  BY DEF IInv, TypeOK
<1>2. o \in OrchestratorProfile /\ o.version \in build.supported
  BY <1>1, ContainerFields DEF Supported
<1>3. /\ o.release \in {None} \union (Nat \X Nat)
      /\ o.version \in {None} \union Version
  BY <1>2 DEF OrchestratorProfile
<1> HIDE DEF o
<1>4. RationalizeReleaseAndVersion(build, o.release, o.version) = o.version
  BY <1>1, <1>2, <1>3, RationalizeType, Zenon
<1>5. GetValidPatchVersion(build, o.version) = o.version
  BY <1>1, <1>2, <1>3, PatchType, Zenon
<1> QED BY <1>1, <1>4, <1>5, Zenon DEF o

LEMMA KeptLoads == IInv /\ Kept => SavedLoads
<1> SUFFICES ASSUME IInv, Kept, Saved, Supported
             PROVE  /\ Validate(build, doc, FALSE)
                    /\ Validate(build, doc, TRUE)
                    /\ doc.orchestrator.linux.given /\ doc.orchestrator.windows.given
                    /\ ValidateDistro(LoadContainerService(build, doc))
  BY Zenon DEF SavedLoads
<1>1. build \in Builds /\ doc \in ContainerService /\ Normal(doc) /\ Ready(doc)
  BY DEF IInv, TypeOK, Kept
<1>2. RationalizeReleaseAndVersion(build, doc.orchestrator.release,
                                   doc.orchestrator.version) # None
  BY SavedVersion, Zenon
<1>3. /\ \A boot \in {doc.orchestrator.linux, doc.orchestrator.windows} :
           boot.ip # None => IsIP(boot.ip)
      /\ ValidStruct(doc) /\ ValidMasterProfile(doc) /\ ValidAgentPoolProfiles(doc)
      /\ ValidLinuxProfile(doc) /\ ValidExtensions(doc) /\ ValidVNET(doc)
      /\ ValidateDistro(doc)
  BY <1>1, Zenon DEF Ready
<1>4. /\ ValidOrchestratorProfile(build, doc, FALSE)
      /\ ValidOrchestratorProfile(build, doc, TRUE)
  BY <1>2, <1>3, Zenon DEF ValidOrchestratorProfile
<1>5. Validate(build, doc, FALSE) /\ Validate(build, doc, TRUE)
  BY <1>3, <1>4, Zenon DEF Validate
<1>6. doc.orchestrator.linux.given /\ doc.orchestrator.windows.given
  BY <1>1, Zenon DEF Normal
<1>7. ValidateDistro(LoadContainerService(build, doc))
  <2>1. /\ LoadContainerService(build, doc).master = doc.master
        /\ LoadContainerService(build, doc).pools = doc.pools
    BY <1>1, NormalLoad, Zenon
  <2> QED BY <1>3, <2>1, Zenon DEF ValidateDistro
<1> QED BY <1>5, <1>6, <1>7, Zenon

\* The parts of what the template shows.
ShownOrchestrator(o) ==
    [o EXCEPT !.linux = [o.linux EXCEPT !.url = BootstrapURL(o.linux, o.version)],
              !.windows = [o.windows EXCEPT !.url = BootstrapURL(o.windows, o.version)],
              !.release = None]

ShownMaster(m) == [m EXCEPT !.httpSource = ""]

ShownPools(pools) == [i \in DOMAIN pools |-> Unsized(pools[i])]

LEMMA VisibleForm ==
    ASSUME NEW x \in ContainerService
    PROVE  Visible(x) = [x EXCEPT !.orchestrator = ShownOrchestrator(x.orchestrator),
                                  !.master = ShownMaster(x.master),
                                  !.pools = ShownPools(x.pools)]
<1> DEFINE l == BootstrapURL(x.orchestrator.linux, x.orchestrator.version)
           w == BootstrapURL(x.orchestrator.windows, x.orchestrator.version)
           p == ShownPools(x.pools)
           o == [x.orchestrator EXCEPT !.linux.url = l, !.windows.url = w, !.release = None]
           m == ShownMaster(x.master)
<1>1. Visible(x) = [x EXCEPT !.orchestrator.linux.url = l, !.orchestrator.windows.url = w,
                             !.orchestrator.release = None, !.master.httpSource = "",
                             !.pools = p]
  BY DEF Visible, ShownPools, Unsized
<1>2. ShownOrchestrator(x.orchestrator) = o
  <2>1. x.orchestrator \in OrchestratorProfile
    BY ContainerFields
  <2> HIDE DEF l, w
  <2>2. ShownOrchestrator(x.orchestrator) =
          [x.orchestrator EXCEPT !.linux = [x.orchestrator.linux EXCEPT !.url = l],
                                 !.windows = [x.orchestrator.windows EXCEPT !.url = w],
                                 !.release = None]
    BY DEF ShownOrchestrator, l, w
  <2> QED BY <2>1, <2>2 DEF OrchestratorProfile
<1> HIDE DEF p, l, w
<1>3. Visible(x) = [x EXCEPT !.orchestrator = o, !.master = m, !.pools = p]
  BY <1>1 DEF ContainerService, ShownMaster
<1> QED BY <1>2, <1>3 DEF p

\* What of a model the template shows is all there is to compare.
LEMMA VisibleEqual ==
    ASSUME NEW c \in ContainerService, NEW e \in ContainerService,
           e.orchestrator.version = c.orchestrator.version,
           e.orchestrator.linux = c.orchestrator.linux,
           e.orchestrator.windows = c.orchestrator.windows,
           [e.master EXCEPT !.httpSource = ""] = [c.master EXCEPT !.httpSource = ""],
           DOMAIN e.pools = DOMAIN c.pools,
           \A i \in DOMAIN c.pools : Unsized(e.pools[i]) = Unsized(c.pools[i]),
           e.windowsProfile = c.windowsProfile, e.sshKey = c.sshKey
    PROVE  Visible(e) = Visible(c)
<1> DEFINE V(x) == [x EXCEPT !.orchestrator = ShownOrchestrator(x.orchestrator),
                             !.master = ShownMaster(x.master), !.pools = ShownPools(x.pools)]
<1>1. Visible(e) = V(e) /\ Visible(c) = V(c)
  BY VisibleForm
<1>2. ShownOrchestrator(e.orchestrator) = ShownOrchestrator(c.orchestrator)
  <2>1. e.orchestrator \in OrchestratorProfile /\ c.orchestrator \in OrchestratorProfile
    BY ContainerFields
  <2> QED BY <2>1 DEF OrchestratorProfile, ShownOrchestrator
<1>3. ShownPools(e.pools) = ShownPools(c.pools)
  BY DEF ShownPools
<1>4. ShownMaster(e.master) = ShownMaster(c.master)
  BY DEF ShownMaster
<1>5. V(e) = V(c)
  BY <1>2, <1>3, <1>4 DEF ContainerService
<1> HIDE DEF V
<1> QED BY <1>1, <1>5

\* The same without the version and the URLs.
LEMMA RestEqual ==
    ASSUME NEW c \in ContainerService, NEW e \in ContainerService,
           [e.orchestrator.linux EXCEPT !.url = None] = [c.orchestrator.linux EXCEPT !.url = None],
           [e.orchestrator.windows EXCEPT !.url = None]
             = [c.orchestrator.windows EXCEPT !.url = None],
           [e.master EXCEPT !.httpSource = ""] = [c.master EXCEPT !.httpSource = ""],
           DOMAIN e.pools = DOMAIN c.pools,
           \A i \in DOMAIN c.pools : Unsized(e.pools[i]) = Unsized(c.pools[i]),
           e.windowsProfile = c.windowsProfile, e.sshKey = c.sshKey
    PROVE  Rest(e) = Rest(c)
<1> DEFINE Bare(o) == [o EXCEPT !.version = None, !.linux = [o.linux EXCEPT !.url = None],
                                !.windows = [o.windows EXCEPT !.url = None], !.release = None]
           V(x) == [x EXCEPT !.orchestrator = Bare(x.orchestrator),
                             !.master = ShownMaster(x.master), !.pools = ShownPools(x.pools)]
<1>1. ASSUME NEW x \in ContainerService PROVE Rest(x) = V(x)
  <2> DEFINE o == ShownOrchestrator(x.orchestrator)
             m == ShownMaster(x.master)
             p == ShownPools(x.pools)
             y == [x EXCEPT !.orchestrator = o, !.master = m, !.pools = p]
             q == [o EXCEPT !.version = None, !.linux.url = None, !.windows.url = None]
  <2>1. Rest(x) = [y EXCEPT !.orchestrator.version = None, !.orchestrator.linux.url = None,
                            !.orchestrator.windows.url = None]
    BY VisibleForm DEF Rest
  <2>2. x.orchestrator \in OrchestratorProfile
    BY ContainerFields
  <2>3. o \in OrchestratorProfile
    <3> DEFINE l == BootstrapURL(x.orchestrator.linux, x.orchestrator.version)
               w == BootstrapURL(x.orchestrator.windows, x.orchestrator.version)
    <3>1. l \in {None} \union Version /\ w \in {None} \union Version
      BY <2>2 DEF BootstrapURL, OrchestratorProfile, BootstrapProfile
    <3> HIDE DEF l, w
    <3>2. /\ [x.orchestrator.linux EXCEPT !.url = l] \in BootstrapProfile
          /\ [x.orchestrator.windows EXCEPT !.url = w] \in BootstrapProfile
      BY <2>2, <3>1 DEF OrchestratorProfile, BootstrapProfile
    <3> QED BY <2>2, <3>2 DEF ShownOrchestrator, OrchestratorProfile, l, w
  <2>4. Bare(o) = Bare(x.orchestrator)
    <3> DEFINE l == BootstrapURL(x.orchestrator.linux, x.orchestrator.version)
               w == BootstrapURL(x.orchestrator.windows, x.orchestrator.version)
               k == [x.orchestrator.linux EXCEPT !.url = l]
               n == [x.orchestrator.windows EXCEPT !.url = w]
    <3>1. o = [x.orchestrator EXCEPT !.linux = k, !.windows = n, !.release = None]
      BY DEF ShownOrchestrator
    <3>2. /\ [k EXCEPT !.url = None] = [x.orchestrator.linux EXCEPT !.url = None]
          /\ [n EXCEPT !.url = None] = [x.orchestrator.windows EXCEPT !.url = None]
      BY <2>2 DEF OrchestratorProfile, BootstrapProfile
    <3> HIDE DEF k, n, o
    <3>3. o.linux = k /\ o.windows = n
      BY <2>2, <3>1 DEF OrchestratorProfile
    <3> DEFINE k0 == [k EXCEPT !.url = None]
               n0 == [n EXCEPT !.url = None]
    <3>4. Bare(o) = [o EXCEPT !.version = None, !.linux = k0, !.windows = n0, !.release = None]
      BY <3>3
    <3>5. Bare(x.orchestrator) = [x.orchestrator EXCEPT !.version = None, !.linux = k0,
                                                        !.windows = n0, !.release = None]
      BY <3>2
    <3> HIDE DEF k0, n0, Bare
    <3> QED BY <2>2, <3>1, <3>4, <3>5 DEF OrchestratorProfile
  <2>5. q = Bare(o)
    <3>1. o.release = None
      BY <2>2 DEF ShownOrchestrator, OrchestratorProfile
    <3> HIDE DEF o
    <3> QED BY <2>3, <3>1 DEF OrchestratorProfile
  <2> HIDE DEF m, p, o
  <2>6. y \in [orchestrator : {o}, master : {m}, pools : {p},
               windowsProfile : {x.windowsProfile}, sshKey : {x.sshKey}]
    BY DEF ContainerService
  <2>7. [y EXCEPT !.orchestrator.version = None, !.orchestrator.linux.url = None,
                  !.orchestrator.windows.url = None] = [y EXCEPT !.orchestrator = q]
    <3> HIDE DEF y
    <3> QED BY <2>3, <2>6 DEF OrchestratorProfile
  <2> HIDE DEF q, Bare
  <2>8. [y EXCEPT !.orchestrator = q] = [x EXCEPT !.orchestrator = q, !.master = m, !.pools = p]
    BY DEF ContainerService
  <2> QED BY <2>1, <2>4, <2>5, <2>7, <2>8 DEF m, p
<1>2. Bare(e.orchestrator) = Bare(c.orchestrator)
  <2>1. e.orchestrator \in OrchestratorProfile /\ c.orchestrator \in OrchestratorProfile
    BY ContainerFields
  <2> QED BY <2>1 DEF OrchestratorProfile
<1>3. ShownPools(e.pools) = ShownPools(c.pools)
  BY DEF ShownPools
<1>4. ShownMaster(e.master) = ShownMaster(c.master)
  BY DEF ShownMaster
<1> HIDE DEF Bare
<1>5. V(e) = V(c)
  BY <1>2, <1>3, <1>4 DEF ContainerService
<1> HIDE DEF V
<1> QED BY <1>1, <1>5

LEMMA RenderedBootKept ==
    ASSUME NEW cs, NEW boot \in BootstrapProfile, NEW byte,
           boot.given, boot.size # "",
           ~IsCustomVNET(cs.master) => boot.ip = <<DefaultMasterNet, byte>>
    PROVE  RenderedBoot(cs, boot, byte) = boot
<1> DEFINE ip == IF IsCustomVNET(cs.master) THEN boot.ip ELSE <<DefaultMasterNet, byte>>
<1>1. ip = boot.ip
  OBVIOUS
<1>2. RenderedBoot(cs, boot, byte) = [boot EXCEPT !.given = TRUE, !.size = boot.size, !.ip = ip]
  BY DEF RenderedBoot
<1> HIDE DEF ip
<1>3. boot.given = TRUE
  BY DEF BootstrapProfile
<1>4. [boot EXCEPT !.given = TRUE, !.size = boot.size, !.ip = boot.ip] = boot
  BY <1>3 DEF BootstrapProfile
<1> QED BY <1>1, <1>2, <1>4, Zenon

LEMMA RenderedMasterSame ==
    ASSUME NEW cs \in ContainerService, NEW m \in MasterProfile,
           cs.master = ConvertMasterProfileToVLabs(m),
           cs.master.distro # "", cs.master.storage # "",
           IsCustomVNET(m) => m.subnet = "",
           ~IsCustomVNET(m) => /\ m.subnet = DefaultMasterNet
                               /\ m.firstIP = <<DefaultMasterNet, 5>>
    PROVE  /\ IsCustomVNET(cs.master) = IsCustomVNET(m)
           /\ [RenderedMaster(cs) EXCEPT !.httpSource = ""] = [m EXCEPT !.httpSource = ""]
<1>1. cs.master = [m EXCEPT !.httpSource = "", !.subnet = ""]
  BY DEF ConvertMasterProfileToVLabs
<1> DEFINE n == [m EXCEPT !.httpSource = "", !.subnet = ""]
<1>2. /\ n.vnet = m.vnet /\ n.subnet = "" /\ n.firstIP = m.firstIP
      /\ n.distro = m.distro /\ n.storage = m.storage
  BY DEF MasterProfile
<1>3. IsCustomVNET(cs.master) = IsCustomVNET(m)
  BY <1>1, <1>2 DEF IsCustomVNET
<1> DEFINE sub == IF IsCustomVNET(cs.master) THEN cs.master.subnet ELSE DefaultMasterNet
           first == IF IsCustomVNET(cs.master) THEN cs.master.firstIP
                    ELSE <<DefaultMasterNet, 5>>
           src == IF cs.master.httpSource = "" THEN "*" ELSE cs.master.httpSource
<1>4. sub = m.subnet /\ first = m.firstIP
  BY <1>1, <1>2, <1>3
<1>5. RenderedMaster(cs) =
        [cs.master EXCEPT !.subnet = sub, !.firstIP = first, !.distro = cs.master.distro,
                          !.httpSource = src, !.storage = cs.master.storage]
  BY DEF RenderedMaster
<1> HIDE DEF sub, first, src
<1> HIDE DEF n
<1>6. RenderedMaster(cs) =
        [n EXCEPT !.subnet = m.subnet, !.firstIP = m.firstIP, !.distro = m.distro,
                  !.httpSource = src, !.storage = m.storage]
  <2>1. cs.master = n
    BY <1>1 DEF n
  <2>2. cs.master.distro = m.distro /\ cs.master.storage = m.storage
    BY <1>2, <2>1, Zenon
  <2> QED BY <1>4, <1>5, <2>1, <2>2, Zenon
<1>7. RenderedMaster(cs) = [m EXCEPT !.httpSource = src]
  BY <1>6 DEF n, MasterProfile
<1>8. [RenderedMaster(cs) EXCEPT !.httpSource = ""] = [m EXCEPT !.httpSource = ""]
  BY <1>7 DEF MasterProfile
<1> QED BY <1>3, <1>8

PoolWith(p, subnet, os, distro, storage, avail, eviction) ==
    [p EXCEPT !.subnet = subnet, !.os = os, !.distro = distro, !.storage = storage,
              !.avail = avail, !.eviction = eviction]

FilledPool(p, subnet) ==
    PoolWith(p, subnet,
             IF p.os = "" THEN "Linux" ELSE p.os,
             IF p.distro = "" THEN "ubuntu" ELSE p.distro,
             IF p.storage = "" THEN "StorageAccount" ELSE p.storage,
             IF p.avail = "" THEN "VirtualMachineScaleSets" ELSE p.avail,
             IF p.eviction = "" /\ p.priority = "Low" THEN "Delete" ELSE p.eviction)

LEMMA RenderedPoolForm ==
    ASSUME NEW cs, NEW i
    PROVE  RenderedPool(cs, i) =
             FilledPool(cs.pools[i], IF IsCustomVNET(cs.master) THEN cs.pools[i].subnet
                                     ELSE <<"10", i - 1>>)
BY DEF RenderedPool, FilledPool, PoolWith

LEMMA RenderedPoolParts ==
    ASSUME NEW cs, NEW i, NEW sub,
           IsCustomVNET(cs.master) => sub = cs.pools[i].subnet,
           ~IsCustomVNET(cs.master) => sub = <<"10", i - 1>>,
           cs.pools[i].os # "", cs.pools[i].distro # "", cs.pools[i].storage # "",
           cs.pools[i].avail # "",
           cs.pools[i].priority = "Low" => cs.pools[i].eviction # ""
    PROVE  LET p == cs.pools[i] IN
           RenderedPool(cs, i) = PoolWith(p, sub, p.os, p.distro, p.storage, p.avail, p.eviction)
<1> DEFINE p == cs.pools[i]
           sn == IF IsCustomVNET(cs.master) THEN p.subnet ELSE <<"10", i - 1>>
<1>1. sn = sub
  OBVIOUS
<1>2. RenderedPool(cs, i) =
        PoolWith(p, sn,
                 IF p.os = "" THEN "Linux" ELSE p.os,
                 IF p.distro = "" THEN "ubuntu" ELSE p.distro,
                 IF p.storage = "" THEN "StorageAccount" ELSE p.storage,
                 IF p.avail = "" THEN "VirtualMachineScaleSets" ELSE p.avail,
                 IF p.eviction = "" /\ p.priority = "Low" THEN "Delete" ELSE p.eviction)
  BY RenderedPoolForm DEF FilledPool
<1>3. /\ (IF p.os = "" THEN "Linux" ELSE p.os) = p.os
      /\ (IF p.distro = "" THEN "ubuntu" ELSE p.distro) = p.distro
      /\ (IF p.storage = "" THEN "StorageAccount" ELSE p.storage) = p.storage
      /\ (IF p.avail = "" THEN "VirtualMachineScaleSets" ELSE p.avail) = p.avail
      /\ (IF p.eviction = "" /\ p.priority = "Low" THEN "Delete" ELSE p.eviction) = p.eviction
  OBVIOUS
<1> HIDE DEF sn
<1> QED BY <1>1, <1>2, <1>3, Zenon

LEMMA PoolSame ==
    ASSUME NEW p \in AgentPoolProfile, NEW q \in AgentPoolProfile,
           Unsized(p) = Unsized(ConvertAgentPoolProfileToVLabs(q))
    PROVE  Unsized(PoolWith(p, q.subnet, p.os, p.distro, p.storage, p.avail, p.eviction))
             = Unsized(q)
<1>1. PoolWith(p, q.subnet, p.os, p.distro, p.storage, p.avail, p.eviction)
        = [p EXCEPT !.subnet = q.subnet]
  BY DEF PoolWith, AgentPoolProfile
<1>2. Unsized([p EXCEPT !.subnet = q.subnet]) = [Unsized(p) EXCEPT !.subnet = q.subnet]
  BY DEF Unsized, AgentPoolProfile
<1>3. Unsized(ConvertAgentPoolProfileToVLabs(q)) = [q EXCEPT !.count = 0, !.subnet = None]
  BY DEF Unsized, ConvertAgentPoolProfileToVLabs, AgentPoolProfile
<1>4. [[q EXCEPT !.count = 0, !.subnet = None] EXCEPT !.subnet = q.subnet] = Unsized(q)
  BY DEF Unsized, AgentPoolProfile
<1> QED BY <1>1, <1>2, <1>3, <1>4

\* Models that show the same but for their versions.
Alike(c, e) ==
    /\ c \in ContainerService /\ e \in ContainerService
    /\ c.orchestrator.linux = e.orchestrator.linux
    /\ c.orchestrator.windows = e.orchestrator.windows
    /\ [c.master EXCEPT !.httpSource = ""] = [e.master EXCEPT !.httpSource = ""]
    /\ DOMAIN c.pools = DOMAIN e.pools
    /\ \A i \in DOMAIN e.pools : Unsized(c.pools[i]) = Unsized(e.pools[i])
    /\ c.windowsProfile = e.windowsProfile /\ c.sshKey = e.sshKey

LEMMA AlikeVisible ==
    ASSUME NEW c, NEW e, Alike(c, e), c.orchestrator.version = e.orchestrator.version
    PROVE  Visible(c) = Visible(e)
<1>1. /\ c \in ContainerService /\ e \in ContainerService
      /\ c.orchestrator.linux = e.orchestrator.linux
      /\ c.orchestrator.windows = e.orchestrator.windows
      /\ [c.master EXCEPT !.httpSource = ""] = [e.master EXCEPT !.httpSource = ""]
      /\ DOMAIN c.pools = DOMAIN e.pools
      /\ c.windowsProfile = e.windowsProfile /\ c.sshKey = e.sshKey
  BY Zenon DEF Alike
<1>2. \A i \in DOMAIN e.pools : Unsized(c.pools[i]) = Unsized(e.pools[i])
  BY Zenon DEF Alike
<1> QED BY <1>1, <1>2, VisibleEqual, Zenon

\* What is rendered from a saved document is like its cluster, even by a build that
\* does not support its version.
LEMMA KeptAlike ==
    ASSUME IInv, Kept, Saved
    PROVE  LET cs == LoadContainerService(build, doc)
               r == Rendered(build, cs)
           IN  /\ Alike(r, cluster)
               /\ r.orchestrator.version = GetValidPatchVersion(build, cs.orchestrator.version)
<1> DEFINE o == doc.orchestrator
           cs == LoadContainerService(build, doc)
           r == Rendered(build, cs)
<1>1. /\ build \in Builds /\ doc \in ContainerService /\ cluster \in ContainerService
      /\ o.version = cluster.orchestrator.version
  BY DEF IInv, TypeOK, Linked
<1>2. Normal(doc) /\ Mirrors(doc, cluster)
  BY DEF Kept
<1>3. /\ cs \in ContainerService
      /\ cs.orchestrator.linux = o.linux /\ cs.orchestrator.windows = o.windows
  BY <1>1, LoadFacts
<1>4. /\ cs.master = doc.master /\ cs.pools = doc.pools
      /\ cs.windowsProfile = doc.windowsProfile /\ cs.sshKey = doc.sshKey
  BY <1>1, <1>2, NormalLoad, Zenon
<1> HIDE DEF cs
<1>5. /\ r.orchestrator = RenderedOrchestrator(build, cs)
      /\ r.master = RenderedMaster(cs)
      /\ r.windowsProfile = cs.windowsProfile /\ r.sshKey = cs.sshKey
  BY <1>1, <1>3, RenderedForm, Zenon
<1>6. r.pools = [i \in DOMAIN cs.pools |-> RenderedPool(cs, i)]
  BY <1>1, <1>3, RenderedForm, Zenon
<1>7. r \in ContainerService
  BY <1>1, <1>3, RenderedFacts, Zenon
<1> HIDE DEF r
<1>8. /\ doc.master = ConvertMasterProfileToVLabs(cluster.master)
      /\ IsCustomVNET(cluster.master) => cluster.master.subnet = ""
      /\ cluster.orchestrator.linux = o.linux /\ cluster.orchestrator.windows = o.windows
      /\ DOMAIN doc.pools = DOMAIN cluster.pools
      /\ cluster.windowsProfile = doc.windowsProfile /\ cluster.sshKey = doc.sshKey
  BY <1>2, Zenon DEF Mirrors
<1>9. \A i \in DOMAIN cluster.pools :
        /\ Unsized(doc.pools[i]) = Unsized(ConvertAgentPoolProfileToVLabs(cluster.pools[i]))
        /\ IsCustomVNET(cluster.master) => cluster.pools[i].subnet = None
  BY <1>2, Zenon DEF Mirrors
<1>10. ~IsCustomVNET(cluster.master) =>
        /\ cluster.master.subnet = DefaultMasterNet
        /\ cluster.master.firstIP = <<DefaultMasterNet, 5>>
        /\ cluster.orchestrator.linux.ip = <<DefaultMasterNet, 240>>
        /\ cluster.orchestrator.windows.ip = <<DefaultMasterNet, 241>>
        /\ \A i \in DOMAIN cluster.pools : cluster.pools[i].subnet = <<"10", i - 1>>
  BY Zenon DEF IInv, OwnNetwork
<1>11. /\ IsCustomVNET(cs.master) = IsCustomVNET(cluster.master)
       /\ [r.master EXCEPT !.httpSource = ""] = [cluster.master EXCEPT !.httpSource = ""]
  <2>1. doc.master.distro # "" /\ doc.master.storage # ""
    BY <1>2, Zenon DEF Normal
  <2>2. cluster.master \in MasterProfile
    BY <1>1, ContainerFields
  <2>3. /\ IsCustomVNET(cluster.master) => cluster.master.subnet = ""
        /\ ~IsCustomVNET(cluster.master) =>
             /\ cluster.master.subnet = DefaultMasterNet
             /\ cluster.master.firstIP = <<DefaultMasterNet, 5>>
    BY <1>8, <1>10, Zenon
  <2>4. /\ cs.master = ConvertMasterProfileToVLabs(cluster.master)
        /\ cs.master.distro # "" /\ cs.master.storage # ""
    BY <1>4, <1>8, <2>1, Zenon
  <2>5. /\ IsCustomVNET(cs.master) = IsCustomVNET(cluster.master)
        /\ [RenderedMaster(cs) EXCEPT !.httpSource = ""] = [cluster.master EXCEPT !.httpSource = ""]
    BY <1>3, <2>2, <2>3, <2>4, RenderedMasterSame
  <2> QED BY <1>5, <2>5
<1>12. RenderedBoot(cs, o.linux, 240) = o.linux /\ RenderedBoot(cs, o.windows, 241) = o.windows
  <2> DEFINE lip == <<DefaultMasterNet, 240>>
             wip == <<DefaultMasterNet, 241>>
  <2>1. o.linux \in BootstrapProfile /\ o.windows \in BootstrapProfile
    BY <1>1, ContainerFields DEF OrchestratorProfile
  <2>2. ~IsCustomVNET(cluster.master) => /\ cluster.orchestrator.linux.ip = lip
                                         /\ cluster.orchestrator.windows.ip = wip
    BY Zenon DEF IInv, OwnNetwork
  <2> HIDE DEF lip, wip
  <2>3. /\ o.linux.given /\ o.linux.size # "" /\ o.windows.given /\ o.windows.size # ""
    BY <1>2, Zenon DEF Normal
  <2>4. ~IsCustomVNET(cs.master) => ~IsCustomVNET(cluster.master)
    BY <1>11, Zenon
  <2>5. cluster.orchestrator.linux = o.linux /\ cluster.orchestrator.windows = o.windows
    BY <1>8, Zenon
  <2> HIDE DEF o
  <2>6. ~IsCustomVNET(cs.master) => o.linux.ip = lip /\ o.windows.ip = wip
    BY <2>2, <2>4, <2>5, Zenon
  <2>7. RenderedBoot(cs, o.linux, 240) = o.linux
    <3>1. ~IsCustomVNET(cs.master) => o.linux.ip = <<DefaultMasterNet, 240>>
      BY <2>6 DEF lip
    <3> QED BY <2>1, <2>3, <3>1, RenderedBootKept, Zenon
  <2>8. RenderedBoot(cs, o.windows, 241) = o.windows
    <3>1. ~IsCustomVNET(cs.master) => o.windows.ip = <<DefaultMasterNet, 241>>
      BY <2>6 DEF wip
    <3> QED BY <2>1, <2>3, <3>1, RenderedBootKept, Zenon
  <2> QED BY <2>7, <2>8
<1>13. /\ r.orchestrator.version = GetValidPatchVersion(build, cs.orchestrator.version)
       /\ r.orchestrator.linux = o.linux /\ r.orchestrator.windows = o.windows
  <2>1. cs.orchestrator \in OrchestratorProfile
    BY <1>3, ContainerFields
  <2>2. /\ r.orchestrator.version = GetValidPatchVersion(build, cs.orchestrator.version)
        /\ r.orchestrator.linux = RenderedBoot(cs, cs.orchestrator.linux, 240)
        /\ r.orchestrator.windows = RenderedBoot(cs, cs.orchestrator.windows, 241)
    BY <1>5, <2>1 DEF RenderedOrchestrator, OrchestratorProfile
  <2> HIDE DEF o
  <2> QED BY <1>3, <1>12, <2>2, Zenon
<1>14. ASSUME NEW i \in DOMAIN cluster.pools
       PROVE  Unsized(r.pools[i]) = Unsized(cluster.pools[i])
  <2>1. i \in DOMAIN cs.pools /\ r.pools[i] = RenderedPool(cs, i)
    BY <1>4, <1>6, <1>8
  <2>2. cluster.pools[i] \in AgentPoolProfile
    BY <1>1, ContainerFields
  <2>3. /\ cs.pools[i].os # "" /\ cs.pools[i].distro # "" /\ cs.pools[i].storage # ""
        /\ cs.pools[i].avail # ""
        /\ cs.pools[i].priority = "Low" => cs.pools[i].eviction # ""
    BY <1>2, <1>4, <2>1, Zenon DEF Normal
  <2>4. cs.pools[i].subnet = None
    BY <1>2, <1>4, <2>1, Zenon DEF Normal, Decoded
  <2>5. Unsized(cs.pools[i]) = Unsized(ConvertAgentPoolProfileToVLabs(cluster.pools[i]))
    BY <1>4, <1>9, Zenon
  <2>6. /\ IsCustomVNET(cs.master) => cluster.pools[i].subnet = None
        /\ ~IsCustomVNET(cs.master) => cluster.pools[i].subnet = <<"10", i - 1>>
    BY <1>9, <1>10, <1>11
  <2> DEFINE p == cs.pools[i]
             q == cluster.pools[i]
  <2>7. p \in AgentPoolProfile
    BY <1>3, <2>1, ContainerFields
  <2>8. RenderedPool(cs, i) =
          PoolWith(p, q.subnet, p.os, p.distro, p.storage, p.avail, p.eviction)
    <3>1. IsCustomVNET(cs.master) => q.subnet = p.subnet
      BY <2>4, <2>6, Zenon
    <3>2. ~IsCustomVNET(cs.master) => q.subnet = <<"10", i - 1>>
      BY <2>6, Zenon
    <3> HIDE DEF q
    <3> QED BY <2>3, <3>1, <3>2, RenderedPoolParts, Zenon
  <2>9. Unsized(p) = Unsized(ConvertAgentPoolProfileToVLabs(q))
    BY <2>5
  <2> HIDE DEF p, q
  <2>10. Unsized(RenderedPool(cs, i)) = Unsized(q)
    <3>1. q \in AgentPoolProfile
      BY <2>2 DEF q
    <3> QED BY <2>7, <2>8, <2>9, <3>1, PoolSame, Zenon
  <2> QED BY <2>1, <2>10, Zenon DEF q
<1>15. DOMAIN r.pools = DOMAIN cluster.pools
  BY <1>4, <1>6, <1>8
<1>16. /\ r.orchestrator.linux = cluster.orchestrator.linux
       /\ r.orchestrator.windows = cluster.orchestrator.windows
       /\ r.windowsProfile = cluster.windowsProfile /\ r.sshKey = cluster.sshKey
  BY <1>1, <1>4, <1>5, <1>8, <1>13, Zenon
<1>17. Alike(r, cluster)
  BY <1>1, <1>7, <1>11, <1>14, <1>15, <1>16, Zenon DEF Alike
<1> QED BY <1>13, <1>17, Zenon DEF r, cs

LEMMA KeptSame == IInv /\ Kept => SameAgain
<1> DEFINE cs == LoadContainerService(build, doc)
           r == Rendered(build, cs)
<1> SUFFICES ASSUME IInv, Kept, Saved, Supported
             PROVE  Visible(r) = Visible(cluster)
  BY Zenon DEF SameAgain
<1>1. /\ build \in Builds /\ doc \in ContainerService
      /\ doc.orchestrator.version = cluster.orchestrator.version
  BY DEF IInv, TypeOK, Linked
<1>2. Alike(r, cluster)
  BY KeptAlike, Zenon
<1>3. r.orchestrator.version = GetValidPatchVersion(build, cs.orchestrator.version)
  BY KeptAlike, Zenon
<1>4. cs.orchestrator.version = doc.orchestrator.version
  BY <1>1, LoadFacts, SavedVersion
<1>5. GetValidPatchVersion(build, doc.orchestrator.version) = doc.orchestrator.version
  BY SavedVersion, Zenon
<1> HIDE DEF cs, r
<1>6. r.orchestrator.version = cluster.orchestrator.version
  BY <1>1, <1>3, <1>4, <1>5, Zenon
<1> QED BY <1>2, <1>6, AlikeVisible, Zenon

LEMMA SameButSource ==
    ASSUME NEW m \in MasterProfile, NEW n \in MasterProfile,
           [n EXCEPT !.httpSource = ""] = [m EXCEPT !.httpSource = ""]
    PROVE  /\ n.count = m.count /\ n.dns = m.dns /\ n.vnet = m.vnet /\ n.cidr = m.cidr
           /\ n.firstIP = m.firstIP /\ n.storage = m.storage /\ n.distro = m.distro
           /\ n.image = m.image /\ n.subnet = m.subnet
BY DEF MasterProfile

MasterWith(m, subnet, first, distro, storage) ==
    [m EXCEPT !.httpSource = "", !.subnet = subnet, !.firstIP = first,
              !.distro = distro, !.storage = storage]

LEMMA RenderedMasterParts ==
    ASSUME NEW cs, cs.master \in MasterProfile
    PROVE  [RenderedMaster(cs) EXCEPT !.httpSource = ""] =
             MasterWith([cs.master EXCEPT !.httpSource = ""],
                        IF IsCustomVNET(cs.master) THEN cs.master.subnet ELSE DefaultMasterNet,
                        IF IsCustomVNET(cs.master) THEN cs.master.firstIP
                        ELSE <<DefaultMasterNet, 5>>,
                        IF cs.master.distro = "" THEN "ubuntu" ELSE cs.master.distro,
                        IF cs.master.storage = "" THEN "ManagedDisks" ELSE cs.master.storage)
BY DEF RenderedMaster, MasterWith, MasterProfile

\* The source prefix of HTTP traffic shows in nothing else.
LEMMA RenderedAlike ==
    ASSUME NEW b \in Builds, NEW cs \in ContainerService, NEW e \in ContainerService,
           e.orchestrator.linux = cs.orchestrator.linux,
           e.orchestrator.windows = cs.orchestrator.windows, e.pools = cs.pools,
           [e.master EXCEPT !.httpSource = ""] = [cs.master EXCEPT !.httpSource = ""],
           e.windowsProfile = cs.windowsProfile, e.sshKey = cs.sshKey
    PROVE  /\ Alike(Rendered(b, e), Rendered(b, cs))
           /\ Rendered(b, e).orchestrator.version =
                GetValidPatchVersion(b, e.orchestrator.version)
           /\ Rendered(b, cs).orchestrator.version =
                GetValidPatchVersion(b, cs.orchestrator.version)
<1> DEFINE r == Rendered(b, cs)
           q == Rendered(b, e)
<1>1. /\ r.orchestrator = RenderedOrchestrator(b, cs) /\ r.master = RenderedMaster(cs)
      /\ r.windowsProfile = cs.windowsProfile /\ r.sshKey = cs.sshKey
  BY RenderedForm, Zenon
<1>2. r.pools = [i \in DOMAIN cs.pools |-> RenderedPool(cs, i)]
  BY RenderedForm, Zenon
<1>3. /\ q.orchestrator = RenderedOrchestrator(b, e) /\ q.master = RenderedMaster(e)
      /\ q.windowsProfile = e.windowsProfile /\ q.sshKey = e.sshKey
  BY RenderedForm, Zenon
<1>4. q.pools = [i \in DOMAIN e.pools |-> RenderedPool(e, i)]
  BY RenderedForm, Zenon
<1>5. q \in ContainerService /\ r \in ContainerService
  BY RenderedFacts, Zenon
<1> HIDE DEF q, r
<1>6. cs.master \in MasterProfile /\ e.master \in MasterProfile
  BY ContainerFields
<1>7. /\ e.master.vnet = cs.master.vnet /\ e.master.subnet = cs.master.subnet
      /\ e.master.firstIP = cs.master.firstIP /\ e.master.distro = cs.master.distro
      /\ e.master.storage = cs.master.storage
  BY <1>6, SameButSource
<1>8. IsCustomVNET(e.master) = IsCustomVNET(cs.master)
  BY <1>7 DEF IsCustomVNET
<1>9. /\ q.orchestrator.linux = r.orchestrator.linux
      /\ q.orchestrator.windows = r.orchestrator.windows
      /\ q.orchestrator.version = GetValidPatchVersion(b, e.orchestrator.version)
      /\ r.orchestrator.version = GetValidPatchVersion(b, cs.orchestrator.version)
  <2> DEFINE L(x) == RenderedBoot(x, x.orchestrator.linux, 240)
             W(x) == RenderedBoot(x, x.orchestrator.windows, 241)
  <2>1. L(e) = L(cs) /\ W(e) = W(cs)
    BY <1>8 DEF RenderedBoot
  <2>2. ASSUME NEW x \in ContainerService
        PROVE  /\ RenderedOrchestrator(b, x).linux = L(x)
               /\ RenderedOrchestrator(b, x).windows = W(x)
               /\ RenderedOrchestrator(b, x).version =
                    GetValidPatchVersion(b, x.orchestrator.version)
    <3>1. x.orchestrator \in OrchestratorProfile
      BY ContainerFields
    <3> QED BY <3>1 DEF RenderedOrchestrator, OrchestratorProfile
  <2> HIDE DEF L, W
  <2>3. /\ q.orchestrator.linux = L(e) /\ q.orchestrator.windows = W(e)
        /\ q.orchestrator.version = GetValidPatchVersion(b, e.orchestrator.version)
    BY <1>3, <2>2
  <2>4. /\ r.orchestrator.linux = L(cs) /\ r.orchestrator.windows = W(cs)
        /\ r.orchestrator.version = GetValidPatchVersion(b, cs.orchestrator.version)
    BY <1>1, <2>2
  <2> QED BY <2>1, <2>3, <2>4
<1>10. [q.master EXCEPT !.httpSource = ""] = [r.master EXCEPT !.httpSource = ""]
  <2> DEFINE M(x) == [x.master EXCEPT !.httpSource = ""]
             S(x) == IF IsCustomVNET(x.master) THEN x.master.subnet ELSE DefaultMasterNet
             F(x) == IF IsCustomVNET(x.master) THEN x.master.firstIP
                     ELSE <<DefaultMasterNet, 5>>
             D(x) == IF x.master.distro = "" THEN "ubuntu" ELSE x.master.distro
             G(x) == IF x.master.storage = "" THEN "ManagedDisks" ELSE x.master.storage
  <2>1. S(e) = S(cs) /\ F(e) = F(cs) /\ D(e) = D(cs) /\ G(e) = G(cs)
    BY <1>7, <1>8
  <2>2. M(e) = M(cs)
    OBVIOUS
  <2>3. [RenderedMaster(e) EXCEPT !.httpSource = ""] = MasterWith(M(e), S(e), F(e), D(e), G(e))
    BY <1>6, RenderedMasterParts
  <2>4. [RenderedMaster(cs) EXCEPT !.httpSource = ""]
          = MasterWith(M(cs), S(cs), F(cs), D(cs), G(cs))
    BY <1>6, RenderedMasterParts
  <2> HIDE DEF M, S, F, D, G
  <2> QED BY <1>1, <1>3, <2>1, <2>2, <2>3, <2>4, Zenon
<1>11. ASSUME NEW i \in DOMAIN r.pools PROVE Unsized(q.pools[i]) = Unsized(r.pools[i])
  <2>1. RenderedPool(e, i) = RenderedPool(cs, i)
    <3> DEFINE S(x) == IF IsCustomVNET(x.master) THEN x.pools[i].subnet ELSE <<"10", i - 1>>
    <3>1. S(e) = S(cs)
      BY <1>8
    <3>2. e.pools[i] = cs.pools[i]
      OBVIOUS
    <3>3. /\ RenderedPool(e, i) = FilledPool(e.pools[i], S(e))
          /\ RenderedPool(cs, i) = FilledPool(cs.pools[i], S(cs))
      BY RenderedPoolForm
    <3> HIDE DEF S
    <3> QED BY <3>1, <3>2, <3>3, Zenon
  <2>2. q.pools[i] = RenderedPool(e, i) /\ r.pools[i] = RenderedPool(cs, i)
    BY <1>2, <1>4
  <2> QED BY <2>1, <2>2, Zenon
<1>12. DOMAIN q.pools = DOMAIN r.pools
  BY <1>2, <1>4
<1>13. q.windowsProfile = r.windowsProfile /\ q.sshKey = r.sshKey
  BY <1>1, <1>3, Zenon
<1>14. Alike(q, r)
  BY <1>5, <1>9, <1>10, <1>11, <1>12, <1>13, Zenon DEF Alike
<1> QED BY <1>9, <1>14 DEF q, r

LEMMA RenderedSame ==
    ASSUME NEW b \in Builds, NEW cs \in ContainerService, NEW e \in ContainerService,
           e.orchestrator = cs.orchestrator, e.pools = cs.pools,
           [e.master EXCEPT !.httpSource = ""] = [cs.master EXCEPT !.httpSource = ""],
           e.windowsProfile = cs.windowsProfile, e.sshKey = cs.sshKey
    PROVE  Visible(Rendered(b, e)) = Visible(Rendered(b, cs))
<1> DEFINE r == Rendered(b, cs)
           q == Rendered(b, e)
<1>1. /\ Alike(q, r)
      /\ q.orchestrator.version = GetValidPatchVersion(b, e.orchestrator.version)
      /\ r.orchestrator.version = GetValidPatchVersion(b, cs.orchestrator.version)
  <2>1. /\ e.orchestrator.linux = cs.orchestrator.linux
        /\ e.orchestrator.windows = cs.orchestrator.windows
    OBVIOUS
  <2> QED BY <2>1, RenderedAlike, Zenon
<1> HIDE DEF q, r
<1>2. q.orchestrator.version = r.orchestrator.version
  BY <1>1
<1> QED BY <1>1, <1>2, AlikeVisible, Zenon DEF q, r

\* What deploy makes of a valid document before it validates it.
LEMMA DeployedForm ==
    ASSUME NEW b \in Builds, NEW d \in ContainerService, d.sshKey = "given"
    PROVE  LET e == DeployedDocument(b, d, "")
               o == ConvertVLabsOrchestratorProfile(b, d.orchestrator) IN
           /\ e.orchestrator = ConvertOrchestratorProfileToVLabs(o)
           /\ e.master = ConvertMasterProfileToVLabs(ConvertVLabsMasterProfile(d.master))
           /\ e.pools = [i \in DOMAIN d.pools |->
                ConvertAgentPoolProfileToVLabs(ConvertVLabsAgentPoolProfile(d.pools[i]))]
           /\ e.windowsProfile = d.windowsProfile /\ e.sshKey = d.sshKey
<1> DEFINE o == ConvertVLabsOrchestratorProfile(b, d.orchestrator)
           m == ConvertVLabsMasterProfile(d.master)
           f == [i \in DOMAIN d.pools |-> ConvertVLabsAgentPoolProfile(d.pools[i])]
           g == [i \in DOMAIN d.pools |->
                   ConvertAgentPoolProfileToVLabs(ConvertVLabsAgentPoolProfile(d.pools[i]))]
           c == [d EXCEPT !.orchestrator = o, !.master = m, !.pools = f]
           o2 == ConvertOrchestratorProfileToVLabs(o)
           m2 == ConvertMasterProfileToVLabs(m)
<1>1. ConvertVLabsContainerService(b, d) = c
  BY DEF ConvertVLabsContainerService
<1>2. m \in MasterProfile
  BY ContainerFields, ToMaster
<1>3. [i \in DOMAIN f |-> ConvertAgentPoolProfileToVLabs(f[i])] = g
  OBVIOUS
<1> HIDE DEF o, m, f, g, o2, m2
<1>4. /\ c.orchestrator = o /\ c.master = m /\ c.pools = f
      /\ c.windowsProfile = d.windowsProfile /\ c.sshKey = "given"
  BY DEF ContainerService
<1>5. Autofill(c, "") = c
  <2>1. Autofill(c, "") = [c EXCEPT !.master.dns = m.dns, !.sshKey = "given"]
    BY <1>4 DEF Autofill
  <2> HIDE DEF c
  <2>2. c \in ContainerService
    BY <1>1, ToContainer
  <2>3. [c EXCEPT !.master.dns = m.dns, !.sshKey = "given"]
          = [c EXCEPT !.master = [c.master EXCEPT !.dns = m.dns], !.sshKey = "given"]
    BY <2>2 DEF ContainerService
  <2>4. [c.master EXCEPT !.dns = m.dns] = c.master
    BY <1>2, <1>4 DEF MasterProfile
  <2>5. [c EXCEPT !.master = c.master, !.sshKey = "given"] = c
    BY <1>4, <2>2 DEF ContainerService
  <2> QED BY <2>1, <2>3, <2>4, <2>5
<1> DEFINE e == [c EXCEPT !.orchestrator = o2, !.master = m2, !.pools = g]
<1>6. DeployedDocument(b, d, "") = e
  <2>1. DeployedDocument(b, d, "") = SerializeContainerService(c)
    BY <1>1, <1>5, Zenon DEF DeployedDocument
  <2>2. SerializeContainerService(c) =
          [c EXCEPT !.orchestrator = ConvertOrchestratorProfileToVLabs(c.orchestrator),
                    !.master = ConvertMasterProfileToVLabs(c.master),
                    !.pools = [i \in DOMAIN c.pools |->
                                 ConvertAgentPoolProfileToVLabs(c.pools[i])]]
    BY DEF SerializeContainerService
  <2> HIDE DEF c
  <2> QED BY <1>3, <1>4, <2>1, <2>2 DEF o2, m2
<1>7. /\ e.orchestrator = o2 /\ e.master = m2 /\ e.pools = g
      /\ e.windowsProfile = d.windowsProfile /\ e.sshKey = d.sshKey
  BY DEF ContainerService
<1> HIDE DEF e
<1> QED BY <1>6, <1>7, Zenon DEF o, m, g, o2, m2

LEMMA ManagedOnce == ASSUME NEW s PROVE OrManaged(OrManaged(s)) = OrManaged(s)
BY DEF OrManaged

LEMMA MasterBackAndForth ==
    ASSUME NEW m \in MasterProfile, m.subnet = ""
    PROVE  LET n == ConvertVLabsMasterProfile(
                      ConvertMasterProfileToVLabs(ConvertVLabsMasterProfile(m))) IN
           [n EXCEPT !.httpSource = ""] = [ConvertVLabsMasterProfile(m) EXCEPT !.httpSource = ""]
<1> DEFINE s == OrManaged(m.storage)
           a == [m EXCEPT !.storage = s]
           c == [a EXCEPT !.httpSource = "", !.subnet = ""]
           n == [c EXCEPT !.storage = OrManaged(c.storage)]
<1>1. OrManaged(s) = s
  BY ManagedOnce
<1>2. ConvertVLabsMasterProfile(m) = a
  BY DEF ConvertVLabsMasterProfile
<1>3. ConvertVLabsMasterProfile(ConvertMasterProfileToVLabs(a)) = n
  BY DEF ConvertVLabsMasterProfile, ConvertMasterProfileToVLabs
<1> HIDE DEF s
<1>4. c.storage = s
  BY DEF MasterProfile
<1>5. [n EXCEPT !.httpSource = ""] = [a EXCEPT !.httpSource = ""]
  BY <1>1, <1>4 DEF MasterProfile
<1> HIDE DEF a, n
<1> QED BY <1>2, <1>3, <1>5

LEMMA PoolBackAndForth ==
    ASSUME NEW p \in AgentPoolProfile, p.subnet = None
    PROVE  LET q == ConvertAgentPoolProfileToVLabs(ConvertVLabsAgentPoolProfile(p)) IN
           /\ q = [p EXCEPT !.storage = OrManaged(p.storage)]
           /\ q.image = p.image /\ q.dns = p.dns /\ q.ports = p.ports
<1> DEFINE s == OrManaged(p.storage)
           a == [p EXCEPT !.storage = s]
           q == [a EXCEPT !.subnet = None]
<1>1. ConvertAgentPoolProfileToVLabs(ConvertVLabsAgentPoolProfile(p)) = q
  BY DEF ConvertVLabsAgentPoolProfile, ConvertAgentPoolProfileToVLabs
<1> HIDE DEF s
<1>2. q = a
  BY DEF AgentPoolProfile
<1>3. a.image = p.image /\ a.dns = p.dns /\ a.ports = p.ports
  BY DEF AgentPoolProfile
<1> HIDE DEF q
<1> QED BY <1>1, <1>2, <1>3 DEF s

\* A document that generate accepts has a key, and a version the build supports.
LEMMA ValidHasVersion ==
    ASSUME NEW b, NEW d, Validate(b, d, FALSE)
    PROVE  /\ d.sshKey = "given"
           /\ RationalizeReleaseAndVersion(b, d.orchestrator.release,
                                           d.orchestrator.version) # None
<1>1. /\ d.sshKey \in {"empty", "given"} /\ d.sshKey # "empty"
      /\ ValidOrchestratorProfile(b, d, FALSE)
  BY Zenon DEF Validate, ValidStruct, ValidLinuxProfile
<1>2. RationalizeReleaseAndVersion(b, d.orchestrator.release, d.orchestrator.version) # None
  BY <1>1, Zenon DEF ValidOrchestratorProfile
<1>3. d.sshKey = "given"
  BY <1>1
<1> QED BY <1>2, <1>3, Zenon

\* What deploy renders from a document, and what generate renders from it.
LEMMA DeployedAlike ==
    ASSUME IInv, Kept, doc.sshKey = "given"
    PROVE  LET d == DeployedDocument(build, doc, "")
               cs == LoadContainerService(build, doc)
               e == LoadContainerService(build, d)
               v == cs.orchestrator.version
           IN  /\ Alike(Rendered(build, e), Rendered(build, cs))
               /\ d \in ContainerService
               /\ v = None => d.orchestrator.release = None /\ d.orchestrator.version = None
               /\ v # None => /\ e.orchestrator.version = v
                              /\ Rendered(build, e).orchestrator.version
                                   = Rendered(build, cs).orchestrator.version
<1> DEFINE d == DeployedDocument(build, doc, "")
           cs == LoadContainerService(build, doc)
           e == LoadContainerService(build, d)
           o == ConvertVLabsOrchestratorProfile(build, doc.orchestrator)
           f == [i \in DOMAIN doc.pools |->
                   ConvertAgentPoolProfileToVLabs(ConvertVLabsAgentPoolProfile(doc.pools[i]))]
<1>1. build \in Builds /\ doc \in ContainerService /\ Decoded(doc)
  BY DEF IInv, TypeOK, Kept
<1>3. /\ d.orchestrator = ConvertOrchestratorProfileToVLabs(o)
      /\ d.master = ConvertMasterProfileToVLabs(ConvertVLabsMasterProfile(doc.master))
      /\ d.windowsProfile = doc.windowsProfile /\ d.sshKey = doc.sshKey
  BY <1>1, DeployedForm, Zenon
<1>4. d.pools = f
  BY <1>1, DeployedForm, Zenon
<1>5. d \in ContainerService
  BY <1>1, DeployedFacts, Zenon
<1> HIDE DEF d
<1>6. /\ cs.orchestrator = o
      /\ cs.master = ConvertVLabsMasterProfile(doc.master)
      /\ cs.windowsProfile = doc.windowsProfile /\ cs.sshKey = doc.sshKey
  BY <1>1, LoadForm, Zenon
<1>7. cs.pools = [i \in DOMAIN doc.pools |-> LoadedPool(doc, i)]
  BY <1>1, LoadForm, Zenon
<1>8. /\ e.orchestrator = ConvertVLabsOrchestratorProfile(build, d.orchestrator)
      /\ e.master = ConvertVLabsMasterProfile(d.master)
      /\ e.windowsProfile = d.windowsProfile /\ e.sshKey = d.sshKey
  BY <1>1, <1>5, LoadForm, Zenon
<1>9. e.pools = [i \in DOMAIN d.pools |-> LoadedPool(d, i)]
  BY <1>1, <1>5, LoadForm, Zenon
<1>10. cs \in ContainerService /\ e \in ContainerService
  BY <1>1, <1>5, LoadFacts, Zenon
<1> HIDE DEF cs, e
<1>2. /\ o \in OrchestratorProfile /\ o.release = None
      /\ o.version = RationalizeReleaseAndVersion(build, doc.orchestrator.release,
                                                  doc.orchestrator.version)
      /\ o.linux = doc.orchestrator.linux /\ o.windows = doc.orchestrator.windows
  <2>1. doc.orchestrator \in OrchestratorProfile
    BY <1>1, ContainerFields
  <2> QED BY <1>1, <2>1, ToOrchestrator
<1>11. /\ d.orchestrator.linux = cs.orchestrator.linux
       /\ d.orchestrator.windows = cs.orchestrator.windows
       /\ d.orchestrator.version = cs.orchestrator.version
       /\ d.orchestrator.release = IF o.version = None THEN None ELSE Release(o.version)
  <2> HIDE DEF o
  <2> QED BY <1>2, <1>3, <1>6 DEF ConvertOrchestratorProfileToVLabs, OrchestratorProfile
<1>20. /\ e.orchestrator.linux = cs.orchestrator.linux
       /\ e.orchestrator.windows = cs.orchestrator.windows
       /\ cs.orchestrator.version # None => e.orchestrator.version = cs.orchestrator.version
  <2> DEFINE w == o.version
             r == d.orchestrator
  <2>1. r \in OrchestratorProfile
    BY <1>5, ContainerFields
  <2>2. /\ e.orchestrator.linux = r.linux /\ e.orchestrator.windows = r.windows
        /\ e.orchestrator.version = RationalizeReleaseAndVersion(build, r.release, r.version)
    <3> HIDE DEF r
    <3>1. e.orchestrator = ConvertVLabsOrchestratorProfile(build, r)
      BY <1>8 DEF r
    <3> QED BY <1>1, <2>1, <3>1, ToOrchestrator
  <2>3. ASSUME w # None PROVE RationalizeReleaseAndVersion(build, Release(w), w) = w
    <3> DEFINE t == doc.orchestrator
    <3>1. t \in OrchestratorProfile
      BY <1>1, ContainerFields
    <3>2. t.release \in {None} \union (Nat \X Nat) /\ t.version \in {None} \union Version
      BY <3>1 DEF OrchestratorProfile
    <3>3. w = RationalizeReleaseAndVersion(build, t.release, t.version)
      BY <1>2
    <3> HIDE DEF w, t
    <3>4. w \in build.supported
      BY <1>1, <2>3, <3>2, <3>3, RationalizeType, Zenon
    <3>5. w \in Version
      BY <1>1, <3>4, BuildsAssumption
    <3>6. Release(w) \in Nat \X Nat
      BY <3>5, ReleaseType, Zenon
    <3> QED BY <1>1, <3>4, <3>5, <3>6, RationalizeType
  <2>4. cs.orchestrator.version = w
    BY <1>6
  <2>5. ASSUME w # None PROVE r.version = w /\ r.release = Release(w)
    <3> HIDE DEF o
    <3> QED BY <1>11, <2>4, <2>5
  <2> HIDE DEF w, r
  <2>6. r.linux = cs.orchestrator.linux /\ r.windows = cs.orchestrator.windows
    BY <1>11 DEF r
  <2> QED BY <2>2, <2>3, <2>4, <2>5, <2>6, Zenon
<1>12. [e.master EXCEPT !.httpSource = ""] = [cs.master EXCEPT !.httpSource = ""]
  <2>1. doc.master \in MasterProfile /\ doc.master.subnet = ""
    BY <1>1, ContainerFields DEF Decoded
  <2> DEFINE m == doc.master
             a == ConvertVLabsMasterProfile(m)
             n == ConvertVLabsMasterProfile(ConvertMasterProfileToVLabs(a))
  <2>2. e.master = n /\ cs.master = a
    BY <1>3, <1>6, <1>8, Zenon
  <2>3. [n EXCEPT !.httpSource = ""] = [a EXCEPT !.httpSource = ""]
    BY <2>1, MasterBackAndForth, Zenon
  <2> HIDE DEF n, a
  <2> QED BY <2>2, <2>3, Zenon
<1>13. ASSUME NEW i \in DOMAIN doc.pools
       PROVE  /\ d.pools[i] = [doc.pools[i] EXCEPT !.storage = OrManaged(doc.pools[i].storage)]
              /\ d.pools[i].image = doc.pools[i].image
              /\ d.pools[i].dns = doc.pools[i].dns
              /\ d.pools[i].ports = doc.pools[i].ports
  <2> DEFINE p == doc.pools[i]
  <2>1. p \in AgentPoolProfile
    BY <1>1, ContainerFields
  <2>2. p.subnet = None
    BY <1>1, Zenon DEF Decoded
  <2>3. d.pools[i] = ConvertAgentPoolProfileToVLabs(ConvertVLabsAgentPoolProfile(p))
    BY <1>4
  <2> HIDE DEF p
  <2>4. /\ d.pools[i] = [p EXCEPT !.storage = OrManaged(p.storage)]
        /\ d.pools[i].image = p.image /\ d.pools[i].dns = p.dns /\ d.pools[i].ports = p.ports
    BY <2>1, <2>2, <2>3, PoolBackAndForth, Zenon
  <2> QED BY <2>4, Zenon DEF p
<1>14. DOMAIN d.pools = DOMAIN doc.pools
  BY <1>4
<1>15. Visited(d.pools) = Visited(doc.pools)
  <2>1. DOMAIN doc.pools = 1..Len(doc.pools) /\ Len(doc.pools) \in Nat
    BY <1>1, ContainerFields
  <2>2. \A i \in DOMAIN doc.pools : d.pools[i].image = doc.pools[i].image
    BY <1>13, Zenon
  <2> QED BY <1>14, <2>1, <2>2, SameVisited, Zenon
<1>16. ASSUME NEW i \in DOMAIN doc.pools PROVE LoadedPool(d, i) = LoadedPool(doc, i)
  <2> DEFINE p == doc.pools[i]
             q == d.pools[i]
             X(x) == IF i \in Visited(x.pools) /\ x.pools[i].dns # "" /\ x.pools[i].ports = <<>>
                     THEN DefaultPorts ELSE x.pools[i].ports
  <2>1. p \in AgentPoolProfile
    BY <1>1, ContainerFields
  <2>2. q = [p EXCEPT !.storage = OrManaged(p.storage)]
    BY <1>13
  <2>3. X(d) = X(doc)
    <3>1. q.dns = p.dns /\ q.ports = p.ports
      BY <1>13
    <3> QED BY <1>15, <3>1
  <2>4. LoadedPool(d, i) = [q EXCEPT !.ports = X(d), !.storage = OrManaged(q.storage)]
    BY DEF LoadedPool
  <2>5. LoadedPool(doc, i) = [p EXCEPT !.ports = X(doc), !.storage = OrManaged(p.storage)]
    BY DEF LoadedPool
  <2> HIDE DEF p, q, X
  <2>6. OrManaged(q.storage) = OrManaged(p.storage)
    <3>1. q.storage = OrManaged(p.storage)
      BY <2>1, <2>2 DEF AgentPoolProfile
    <3> QED BY <3>1, ManagedOnce
  <2> DEFINE st == OrManaged(p.storage)
             x == X(doc)
  <2>7. LoadedPool(d, i) = [q EXCEPT !.ports = x, !.storage = st]
    BY <2>3, <2>4, <2>6, Zenon
  <2>8. LoadedPool(doc, i) = [p EXCEPT !.ports = x, !.storage = st] /\ q = [p EXCEPT !.storage = st]
    BY <2>2, <2>5, Zenon
  <2> HIDE DEF st, x
  <2>9. [[p EXCEPT !.storage = st] EXCEPT !.ports = x, !.storage = st]
          = [p EXCEPT !.ports = x, !.storage = st]
    BY <2>1 DEF AgentPoolProfile
  <2> QED BY <2>7, <2>8, <2>9, Zenon
<1>17. e.pools = cs.pools
  BY <1>7, <1>9, <1>14, <1>16
<1>18. e.windowsProfile = cs.windowsProfile /\ e.sshKey = cs.sshKey
  BY <1>3, <1>6, <1>8, Zenon
<1> HIDE DEF o, f
<1>19. /\ Alike(Rendered(build, e), Rendered(build, cs))
       /\ Rendered(build, e).orchestrator.version =
            GetValidPatchVersion(build, e.orchestrator.version)
       /\ Rendered(build, cs).orchestrator.version =
            GetValidPatchVersion(build, cs.orchestrator.version)
  BY <1>1, <1>10, <1>12, <1>17, <1>18, <1>20, RenderedAlike, Zenon
<1>21. /\ cs.orchestrator.version = None =>
            d.orchestrator.release = None /\ d.orchestrator.version = None
       /\ cs.orchestrator.version # None =>
            Rendered(build, e).orchestrator.version = Rendered(build, cs).orchestrator.version
  <2>1. o.version = cs.orchestrator.version
    BY <1>6
  <2> QED BY <1>11, <1>19, <1>20, <2>1, Zenon
<1> QED BY <1>5, <1>19, <1>20, <1>21, Zenon DEF d, cs, e

LEMMA KeptDeploys == IInv /\ Kept => DeployIsGenerate
<1> DEFINE d == DeployedDocument(build, doc, "")
           cs == LoadContainerService(build, doc)
           e == LoadContainerService(build, d)
<1> SUFFICES ASSUME IInv, Kept, Validate(build, doc, FALSE)
             PROVE  Visible(Rendered(build, cs)) = Visible(Rendered(build, e))
  BY Zenon DEF DeployIsGenerate
<1>1. build \in Builds /\ doc \in ContainerService
  BY DEF IInv, TypeOK
<1>2. /\ doc.sshKey = "given"
      /\ RationalizeReleaseAndVersion(build, doc.orchestrator.release,
                                      doc.orchestrator.version) # None
  BY ValidHasVersion, Zenon
<1>3. cs.orchestrator.version # None
  BY <1>1, <1>2, LoadFacts, Zenon
<1>4. /\ Alike(Rendered(build, e), Rendered(build, cs))
      /\ Rendered(build, e).orchestrator.version = Rendered(build, cs).orchestrator.version
  BY <1>2, <1>3, DeployedAlike, Zenon
<1> HIDE DEF d, cs, e
<1> QED BY <1>4, AlikeVisible, Zenon

----------------------------------------------------------------------------
(* The life of a cluster *)

LEMMA AlikeTrans ==
    ASSUME NEW c, NEW d, NEW e, Alike(c, d), Alike(d, e) PROVE Alike(c, e)
<1>1. /\ c \in ContainerService /\ e \in ContainerService
      /\ c.orchestrator.linux = e.orchestrator.linux
      /\ c.orchestrator.windows = e.orchestrator.windows
      /\ [c.master EXCEPT !.httpSource = ""] = [e.master EXCEPT !.httpSource = ""]
      /\ DOMAIN c.pools = DOMAIN e.pools
      /\ c.windowsProfile = e.windowsProfile /\ c.sshKey = e.sshKey
  BY Zenon DEF Alike
<1>2. \A i \in DOMAIN e.pools : Unsized(c.pools[i]) = Unsized(e.pools[i])
  BY Zenon DEF Alike
<1> QED BY <1>1, <1>2, Zenon DEF Alike

\* Models that are alike are shown alike.
LEMMA AlikeRest ==
    ASSUME NEW c, NEW e, Alike(c, e)
    PROVE  /\ Rest(c) = Rest(e)
           /\ c.orchestrator.version = e.orchestrator.version => URLs(c) = URLs(e)
<1>1. /\ c \in ContainerService /\ e \in ContainerService
      /\ c.orchestrator.linux = e.orchestrator.linux
      /\ c.orchestrator.windows = e.orchestrator.windows
      /\ [c.master EXCEPT !.httpSource = ""] = [e.master EXCEPT !.httpSource = ""]
      /\ DOMAIN c.pools = DOMAIN e.pools
      /\ c.windowsProfile = e.windowsProfile /\ c.sshKey = e.sshKey
  BY Zenon DEF Alike
<1>2. \A i \in DOMAIN e.pools : Unsized(c.pools[i]) = Unsized(e.pools[i])
  BY Zenon DEF Alike
<1>3. /\ [c.orchestrator.linux EXCEPT !.url = None] = [e.orchestrator.linux EXCEPT !.url = None]
      /\ [c.orchestrator.windows EXCEPT !.url = None]
           = [e.orchestrator.windows EXCEPT !.url = None]
  BY <1>1
<1>4. Rest(c) = Rest(e)
  BY <1>1, <1>2, <1>3, RestEqual, Zenon
<1>5. c.orchestrator.version = e.orchestrator.version => URLs(c) = URLs(e)
  BY <1>1 DEF URLs
<1> QED BY <1>4, <1>5

\* An upgrade shows in the version and the URLs alone.
LEMMA UpgradedShown ==
    ASSUME NEW c \in ContainerService, NEW v \in Version
    PROVE  /\ UpgradedModel(c, v).orchestrator.version = v
           /\ URLs(UpgradedModel(c, v)) = <<v, v>>
           /\ Rest(UpgradedModel(c, v)) = Rest(c)
<1> DEFINE u == UpgradedModel(c, v)
           l == c.orchestrator.linux
           w == c.orchestrator.windows
<1>1. /\ u \in ContainerService /\ u.orchestrator.version = v
      /\ u.orchestrator.linux = [l EXCEPT !.url = v]
      /\ u.orchestrator.windows = [w EXCEPT !.url = v]
      /\ u.master = c.master /\ u.pools = c.pools
      /\ u.windowsProfile = c.windowsProfile /\ u.sshKey = c.sshKey
  BY UpgradedForm, UpgradedFacts, Zenon
<1> HIDE DEF u
<1>2. l \in BootstrapProfile /\ w \in BootstrapProfile
  BY ContainerFields DEF OrchestratorProfile
<1> HIDE DEF l, w
<1>3. /\ [u.orchestrator.linux EXCEPT !.url = None] = [l EXCEPT !.url = None]
      /\ [u.orchestrator.windows EXCEPT !.url = None] = [w EXCEPT !.url = None]
  BY <1>1, <1>2 DEF BootstrapProfile
<1>4. u.orchestrator.linux.url = v /\ u.orchestrator.windows.url = v
  BY <1>1, <1>2 DEF BootstrapProfile
<1>5. v # None
  BY NoneIsNoVersion
<1>6. /\ BootstrapURL(u.orchestrator.linux, u.orchestrator.version) = v
      /\ BootstrapURL(u.orchestrator.windows, u.orchestrator.version) = v
  BY <1>1, <1>4, <1>5 DEF BootstrapURL
<1>7. URLs(u) = <<v, v>>
  BY <1>6 DEF URLs
<1>8. Rest(u) = Rest(c)
  <2>1. /\ [u.master EXCEPT !.httpSource = ""] = [c.master EXCEPT !.httpSource = ""]
        /\ DOMAIN u.pools = DOMAIN c.pools
        /\ \A i \in DOMAIN c.pools : Unsized(u.pools[i]) = Unsized(c.pools[i])
    BY <1>1
  <2> QED BY <1>1, <1>3, <2>1, RestEqual, Zenon DEF l, w
<1> QED BY <1>1, <1>7, <1>8 DEF u

\* A cluster is something, seen from outside too.
LEMMA SomethingShown ==
    ASSUME Saved
    PROVE  /\ shown # NoCluster
           /\ shown.version = cluster.orchestrator.version
           /\ shown.urls = URLs(cluster) /\ shown.rest = Rest(cluster)
<1> DEFINE x == cluster.orchestrator.version
           y == URLs(cluster)
           z == Rest(cluster)
<1>1. shown = [version |-> x, urls |-> y, rest |-> z]
  BY DEF shown
<1> HIDE DEF x, y, z
<1>2. shown.version = x /\ shown.urls = y /\ shown.rest = z
  BY <1>1
<1>3. shown # NoCluster
  <2>1. DOMAIN shown = {"version", "urls", "rest"} /\ DOMAIN NoCluster = {"none"}
    BY <1>1 DEF NoCluster
  <2> QED BY <2>1
<1> QED BY <1>2, <1>3 DEF x, y, z

LEMMA SomethingShownThen ==
    ASSUME Saved'
    PROVE  /\ shown' # NoCluster
           /\ shown'.version = cluster'.orchestrator.version /\ shown'.rest = Rest(cluster')
<1> DEFINE x == cluster'.orchestrator.version
           y == URLs(cluster')
           z == Rest(cluster')
<1>1. shown' = [version |-> x, urls |-> y, rest |-> z]
  BY DEF shown
<1> HIDE DEF x, y, z
<1>2. shown'.version = x /\ shown'.rest = z
  BY <1>1
<1>3. shown' # NoCluster
  <2>1. DOMAIN shown' = {"version", "urls", "rest"} /\ DOMAIN NoCluster = {"none"}
    BY <1>1 DEF NoCluster
  <2> QED BY <2>1
<1> QED BY <1>2, <1>3 DEF x, z

LEMMA NoContainer == NoCluster \notin ContainerService
<1> SUFFICES ASSUME NoCluster \in ContainerService PROVE FALSE
  OBVIOUS
<1>1. "sshKey" \in DOMAIN NoCluster
  BY DEF ContainerService
<1> QED BY <1>1 DEF NoCluster

\* What is rendered from a document that is valid has the version the document
\* stands for, which the build supports.
LEMMA ProducedVersion ==
    ASSUME NEW b \in Builds, NEW d \in ContainerService, Validate(b, d, FALSE)
    PROVE  LET r == Rendered(b, LoadContainerService(b, d))
               v == RationalizeReleaseAndVersion(b, d.orchestrator.release,
                                                 d.orchestrator.version)
           IN  /\ r \in ContainerService
               /\ r.orchestrator.version = v /\ v \in b.supported
<1> DEFINE o == d.orchestrator
           v == RationalizeReleaseAndVersion(b, o.release, o.version)
           cs == LoadContainerService(b, d)
           r == Rendered(b, cs)
<1>1. o.release \in {None} \union (Nat \X Nat) /\ o.version \in {None} \union Version
  BY ContainerFields DEF OrchestratorProfile
<1>2. v # None
  BY ValidHasVersion, Zenon
<1>3. v \in b.supported /\ v \in {None} \union Version
  BY <1>1, <1>2, RationalizeType, Zenon
<1>4. cs \in ContainerService /\ cs.orchestrator.version = v
  BY LoadFacts, Zenon
<1> HIDE DEF cs, v
<1>5. r \in ContainerService /\ r.orchestrator.version = GetValidPatchVersion(b, v)
  BY <1>4, RenderedFacts, Zenon
<1>6. GetValidPatchVersion(b, v) = v
  BY <1>3, PatchType, Zenon
<1> QED BY <1>3, <1>5, <1>6, Zenon DEF cs, v

\* The first cluster.
LEMMA ProduceCreates ==
    ASSUME build \in Builds, ~Saved, NEW d \in ContainerService, Validate(build, d, FALSE),
           Produce(LoadContainerService(build, d))
    PROVE  Life!Create
<1>1. /\ cluster' = Rendered(build, LoadContainerService(build, d))
      /\ build' = build
  BY Zenon DEF Produce
<1>2. cluster' \in ContainerService /\ cluster'.orchestrator.version \in build.supported
  BY <1>1, ProducedVersion, Zenon
<1>3. Saved'
  BY <1>2, NoContainer DEF Saved
<1>4. shown' # NoCluster /\ shown'.version = cluster'.orchestrator.version
  BY <1>3, SomethingShownThen, Zenon
<1>5. shown = NoCluster
  BY DEF shown
<1> QED BY <1>1, <1>2, <1>4, <1>5, Zenon DEF Life!Create

\* What is shown of a cluster that stays one.
LEMMA ShownThen ==
    ASSUME Saved, Saved'
    PROVE  /\ shown # NoCluster /\ shown' # NoCluster
           /\ shown = [version |-> cluster.orchestrator.version, urls |-> URLs(cluster),
                       rest |-> Rest(cluster)]
           /\ shown' = [version |-> cluster'.orchestrator.version, urls |-> URLs(cluster'),
                        rest |-> Rest(cluster')]
<1> DEFINE Look(c) == [version |-> c.orchestrator.version, urls |-> URLs(c), rest |-> Rest(c)]
<1>1. shown = Look(cluster) /\ shown' = Look(cluster')
  BY DEF shown
<1>2. ASSUME NEW c PROVE Look(c) # NoCluster
  <2>1. DOMAIN Look(c) = {"version", "urls", "rest"} /\ DOMAIN NoCluster = {"none"}
    BY DEF NoCluster
  <2> QED BY <2>1
<1> HIDE DEF Look
<1>3. shown # NoCluster /\ shown' # NoCluster
  BY <1>1, <1>2
<1> QED BY <1>1, <1>3 DEF Look

\* A cluster that stays alike and keeps its version.
LEMMA AlikeUnchanged ==
    ASSUME Saved, Alike(cluster', cluster), build' = build,
           cluster'.orchestrator.version = cluster.orchestrator.version
    PROVE  UNCHANGED Life!vars
<1>1. Saved'
  BY NoContainer DEF Saved, Alike
<1>2. Rest(cluster') = Rest(cluster) /\ URLs(cluster') = URLs(cluster)
  BY AlikeRest, Zenon
<1>3. shown' = shown
  BY <1>1, <1>2, ShownThen
<1> QED BY <1>3 DEF Life!vars

\* The version that a saved document stands for, if any, is that of its cluster.
LEMMA SavedStandsFor ==
    ASSUME IInv, Saved
    PROVE  LET o == doc.orchestrator
               v == RationalizeReleaseAndVersion(build, o.release, o.version)
           IN  /\ build \in Builds /\ doc \in ContainerService
               /\ v # None => v = cluster.orchestrator.version
               /\ v = None => cluster.orchestrator.version \notin build.supported
<1> DEFINE o == doc.orchestrator
           v == RationalizeReleaseAndVersion(build, o.release, o.version)
<1>1. /\ build \in Builds /\ doc \in ContainerService
      /\ o.version # None /\ o.release = Release(o.version)
      /\ o.version = cluster.orchestrator.version
  BY DEF IInv, TypeOK, Linked
<1>2. o.release \in {None} \union (Nat \X Nat) /\ o.version \in {None} \union Version
  BY <1>1, ContainerFields DEF OrchestratorProfile
<1> HIDE DEF o
<1>3. v # None => v = o.version
  <2>1. o.version # None /\ v # None => v = o.version
    BY <1>1, <1>2, RationalizeType
  <2> QED BY <1>1, <2>1, Zenon
<1>4. v = None => o.version \notin build.supported
  BY <1>1, <1>2, RationalizeType, Zenon
<1> QED BY <1>1, <1>3, <1>4, Zenon DEF o

LEMMA GenerateLives ==
    ASSUME IInv, Kept, Generate PROVE Life!Create \/ UNCHANGED Life!vars
<1> DEFINE r == Rendered(build, LoadContainerService(build, doc))
<1>1. /\ build \in Builds /\ doc \in ContainerService
      /\ Validate(build, doc, FALSE) /\ Produce(LoadContainerService(build, doc))
  BY DEF IInv, TypeOK, Generate
<1>2. CASE ~Saved
  BY <1>1, <1>2, ProduceCreates, Zenon
<1>3. CASE Saved
  <2>1. cluster' = r /\ build' = build
    BY <1>1, Zenon DEF Produce
  <2>2. r.orchestrator.version =
          RationalizeReleaseAndVersion(build, doc.orchestrator.release, doc.orchestrator.version)
    BY <1>1, ProducedVersion, Zenon
  <2>3. r.orchestrator.version = cluster.orchestrator.version
    BY <1>1, <1>3, <2>2, ValidHasVersion, SavedStandsFor, Zenon
  <2>4. Alike(r, cluster)
    BY <1>3, KeptAlike, Zenon
  <2> HIDE DEF r
  <2> QED BY <1>3, <2>1, <2>3, <2>4, AlikeUnchanged, Zenon
<1> QED BY <1>2, <1>3

LEMMA DeployLives ==
    ASSUME IInv, Kept, NEW flag \in DnsNames \union {""}, Deploy(flag)
    PROVE  Life!Create \/ Life!Replace \/ UNCHANGED Life!vars
<1> DEFINE d == DeployedDocument(build, doc, flag)
<1>1. build \in Builds /\ doc \in ContainerService /\ Decoded(doc)
  BY DEF IInv, TypeOK, Kept
<1>2. d \in ContainerService
  BY <1>1, DeployedFacts, Zenon
<1>3. /\ (doc.master.dns = "") = (flag # "")
      /\ Validate(build, d, FALSE) /\ Produce(LoadContainerService(build, d))
  BY DEF Deploy
<1>4. CASE ~Saved
  <2> HIDE DEF d
  <2> QED BY <1>1, <1>2, <1>3, <1>4, ProduceCreates, Zenon
<1>5. CASE Saved
  <2> DEFINE cs == LoadContainerService(build, doc)
             e == LoadContainerService(build, d)
             v == cs.orchestrator.version
             r == Rendered(build, e)
  <2>1. doc.sshKey = "given" /\ flag = ""
    <3>1. ValidStruct(doc) /\ ValidLinuxProfile(doc)
      BY <1>5, Zenon DEF Kept, Ready
    <3>2. doc.sshKey \in {"empty", "given"} /\ doc.sshKey # "empty" /\ doc.master.dns # ""
      BY <3>1, Zenon DEF ValidStruct, ValidLinuxProfile
    <3> QED BY <1>3, <3>2
  <2>2. /\ Alike(r, Rendered(build, cs))
        /\ v = None => d.orchestrator.release = None /\ d.orchestrator.version = None
        /\ v # None => e.orchestrator.version = v
    BY <2>1, DeployedAlike, Zenon
  <2>3. Alike(Rendered(build, cs), cluster)
    BY <1>5, KeptAlike, Zenon
  <2>4. Alike(r, cluster)
    <3> HIDE DEF r, cs
    <3> QED BY <2>2, <2>3, AlikeTrans
  <2>5. /\ v # None => v = cluster.orchestrator.version
        /\ v = None => cluster.orchestrator.version \notin build.supported
    BY <1>1, <1>5, LoadFacts, SavedStandsFor, Zenon
  <2>6. /\ r.orchestrator.version = e.orchestrator.version
        /\ e.orchestrator.version =
             RationalizeReleaseAndVersion(build, d.orchestrator.release, d.orchestrator.version)
    <3> HIDE DEF d, cs
    <3>1. e.orchestrator.version =
            RationalizeReleaseAndVersion(build, d.orchestrator.release, d.orchestrator.version)
      BY <1>1, <1>2, LoadFacts, Zenon
    <3>2. r.orchestrator.version =
            RationalizeReleaseAndVersion(build, d.orchestrator.release, d.orchestrator.version)
      BY <1>1, <1>2, <1>3, ProducedVersion, Zenon
    <3> HIDE DEF e, r
    <3> QED BY <3>1, <3>2
  <2>7. cluster' = r /\ build' = build
    BY <1>3, Zenon DEF Produce
  <2> HIDE DEF r, e, cs, d
  <2>8. CASE v # None
    <3>1. cluster'.orchestrator.version = cluster.orchestrator.version
      BY <2>2, <2>5, <2>6, <2>7, <2>8, Zenon
    <3> QED BY <1>5, <2>4, <2>7, <3>1, AlikeUnchanged, Zenon
  <2>9. CASE v = None
    <3>1. cluster'.orchestrator.version = build.default
      BY <2>2, <2>6, <2>7, <2>9 DEF RationalizeReleaseAndVersion
    <3>2. Saved'
      BY <2>4, <2>7, NoContainer DEF Saved, Alike
    <3>3. Rest(cluster') = Rest(cluster)
      BY <2>4, <2>7, AlikeRest, Zenon
    <3>4. /\ shown # NoCluster /\ shown' # NoCluster
          /\ shown.version = cluster.orchestrator.version /\ shown.rest = Rest(cluster)
          /\ shown'.version = cluster'.orchestrator.version /\ shown'.rest = Rest(cluster')
      BY <1>5, <3>2, SomethingShown, SomethingShownThen, Zenon
    <3>5. Life!Replace
      BY <2>5, <2>7, <2>9, <3>1, <3>3, <3>4 DEF Life!Replace
    <3> QED BY <3>5
  <2> QED BY <2>8, <2>9
<1> QED BY <1>4, <1>5

LEMMA UpgradeLives ==
    ASSUME IInv, NEW v \in build.supported, Upgrade(v) PROVE Life!Upgrade(v)
<1> DEFINE old == cluster.orchestrator.version
<1>1. Saved /\ v \in DcosUpgrades(build, old) \union {old}
  BY UpgradeStarts, Zenon
<1>2. cluster \in ContainerService /\ v \in Version
  BY <1>1, BuildsAssumption DEF IInv, TypeOK
<1>3. cluster' = UpgradedModel(cluster, v) /\ build' = build
  BY Zenon DEF Upgrade
<1>4. /\ cluster'.orchestrator.version = v
      /\ URLs(cluster') = <<v, v>> /\ Rest(cluster') = Rest(cluster)
  BY <1>2, <1>3, UpgradedShown, Zenon
<1>5. Saved'
  <2>1. cluster' \in ContainerService
    BY <1>2, <1>3, UpgradedForm, Zenon
  <2> QED BY <2>1, NoContainer DEF Saved
<1>6. /\ shown # NoCluster /\ shown.version = old /\ shown.rest = Rest(cluster)
      /\ shown' = [version |-> v, urls |-> <<v, v>>, rest |-> shown.rest]
  <2> HIDE DEF old
  <2>1. /\ shown # NoCluster
        /\ shown = [version |-> old, urls |-> URLs(cluster), rest |-> Rest(cluster)]
        /\ shown' = [version |-> v, urls |-> <<v, v>>, rest |-> Rest(cluster)]
    BY <1>1, <1>4, <1>5, ShownThen, Zenon DEF old
  <2> QED BY <2>1
<1>7. v \in Life!DcosUpgrades(build, old) \union {old}
  BY <1>1 DEF DcosUpgrades, GetVersionsBetween, GetVersionsGt, GetVersionsLt, LT, IsPreRelease,
     Final, Life!DcosUpgrades, Life!GetVersionsBetween, Life!GetVersionsGt,
     Life!GetVersionsLt, Life!LT, Life!IsPreRelease, Life!Final
<1> HIDE DEF old
<1> QED BY <1>3, <1>6, <1>7, Zenon DEF Life!Upgrade

LEMMA NextLives == IInv /\ Kept /\ [Next]_vars => [Life!Next]_(Life!vars)
<1> SUFFICES ASSUME IInv, Kept, [Next]_vars PROVE [Life!Next]_(Life!vars)
  OBVIOUS
<1>1. CASE Generate
  BY <1>1, GenerateLives DEF Life!Next
<1>2. CASE \E flag \in DnsNames \union {""} : Deploy(flag)
  BY <1>2, DeployLives DEF Life!Next
<1>3. CASE \E v \in build.supported : Upgrade(v)
  BY <1>3, UpgradeLives DEF Life!Next
<1>4. CASE \E i \in DOMAIN doc.pools, n \in Counts : Scale(i, n)
  <2>1. build' = build /\ cluster' = cluster
    BY <1>4 DEF Scale
  <2>2. shown' = shown
    BY <2>1 DEF shown, Saved
  <2> QED BY <2>1, <2>2 DEF Life!vars
<1>5. CASE \E b \in Builds : Install(b)
  <2>1. build' \in Builds /\ cluster' = cluster
    BY <1>5 DEF Install
  <2>2. shown' = shown
    BY <2>1 DEF shown, Saved
  <2> QED BY <2>1, <2>2 DEF Life!Next, Life!Install
<1>6. CASE UNCHANGED vars
  <2>1. shown' = shown /\ build' = build
    BY <1>6 DEF vars, shown, Saved
  <2> QED BY <2>1 DEF Life!vars
<1> QED BY <1>1, <1>2, <1>3, <1>4, <1>5, <1>6 DEF Next

----------------------------------------------------------------------------
(* The theorems *)

\* The variables have their types, what has a default is filled in in a cluster's
\* model, and a saved document names its version (SetPropertiesDefaults,
\* GenerateTemplate, the converters).
THEOREM TypeCorrect == Spec => []TypeOK
<1>1. IInv => TypeOK
  BY DEF IInv
<1> QED BY <1>1, AlwaysInv, PTL

\* A saved document leads an upgrade to the addresses the cluster has
\* (GetDCOSBootstrapConfig).
THEOREM DocumentsKeepAddresses == Spec => []AddressesKept
<1>1. IInv => AddressesKept
  BY DEF IInv, Linked, AddressesKept, Masters
<1> QED BY <1>1, AlwaysInv, PTL

\* The masters and bootstrap nodes of the tool's own network have different
\* addresses, and its pools different subnets (generateIPList, defaults.go).
THEOREM AddressesDiffer == Spec => []NoAddressTwice
<1>1. IInv => NoAddressTwice
  <2> SUFFICES ASSUME Linked, OwnNetwork, Saved, ~IsCustomVNET(cluster.master)
               PROVE  LET m == Masters(cluster)
                          boots == <<cluster.orchestrator.linux.ip,
                                     cluster.orchestrator.windows.ip>>
                          all == m \o boots
                      IN  /\ \A i, j \in DOMAIN all : all[i] = all[j] => i = j
                          /\ \A i \in DOMAIN all : all[i][1] = cluster.master.subnet
                          /\ \A i, j \in DOMAIN cluster.pools :
                               cluster.pools[i].subnet = cluster.pools[j].subnet => i = j
    BY DEF IInv, NoAddressTwice
  <2> DEFINE n == cluster.master.count
             all == Masters(cluster) \o <<cluster.orchestrator.linux.ip,
                                          cluster.orchestrator.windows.ip>>
             byte(i) == IF i <= n THEN 4 + i ELSE 239 + i - n
  <2>1. /\ n \in {1, 3, 5}
        /\ cluster.master.subnet = DefaultMasterNet
        /\ cluster.master.firstIP = <<DefaultMasterNet, 5>>
        /\ cluster.orchestrator.linux.ip = <<DefaultMasterNet, 240>>
        /\ cluster.orchestrator.windows.ip = <<DefaultMasterNet, 241>>
        /\ \A i \in DOMAIN cluster.pools : cluster.pools[i].subnet = <<"10", i - 1>>
    BY DEF OwnNetwork
  <2>2. Masters(cluster) = [i \in 1..n |-> <<DefaultMasterNet, (5 + i - 1) % 256>>]
    BY <2>1 DEF Masters, GenerateIPList
  <2>3. /\ DOMAIN all = 1..(n + 2)
        /\ \A i \in DOMAIN all : all[i] = <<DefaultMasterNet, byte(i)>>
    <3> DEFINE m == Masters(cluster)
               boots == <<cluster.orchestrator.linux.ip, cluster.orchestrator.windows.ip>>
    <3>1. n \in Nat /\ DefaultMasterNet \in STRING
      <4>1. DefaultMasterNet \in STRING
        BY LiteralsAssumption DEF DefaultMasterNet
      <4> QED BY <2>1, <4>1
    <3>2. m \in Seq(STRING \X Nat) /\ Len(m) = n
      <4>1. \A i \in 1..n : <<DefaultMasterNet, (5 + i - 1) % 256>> \in STRING \X Nat
        BY <3>1
      <4>2. m \in [1..n -> STRING \X Nat]
        BY <4>1, <2>2
      <4> QED BY <3>1, <4>2, SeqDef
    <3>3. ASSUME NEW i \in 1..n PROVE all[i] = <<DefaultMasterNet, 4 + i>>
      <4>1. all[i] = m[i]
        BY <3>1, <3>2
      <4>2. (5 + i - 1) % 256 = 4 + i
        BY <2>1
      <4> QED BY <4>1, <4>2, <2>2
    <3>4. boots \in Seq(STRING \X Nat) /\ Len(boots) = 2
      BY <2>1, <3>1
    <3>5. /\ boots[1] = <<DefaultMasterNet, 240>>
          /\ boots[2] = <<DefaultMasterNet, 241>>
      BY <2>1
    <3>6. all[n + 1] = <<DefaultMasterNet, 240>> /\ all[n + 2] = <<DefaultMasterNet, 241>>
      <4> HIDE DEF m, boots
      <4>1. /\ (m \o boots)[n + 1] = boots[1]
            /\ (m \o boots)[n + 2] = boots[2]
        <5>1. /\ n + 1 \in 1..(Len(m) + Len(boots)) /\ n + 1 > Len(m)
              /\ n + 2 \in 1..(Len(m) + Len(boots)) /\ n + 2 > Len(m)
              /\ (n + 1) - Len(m) = 1 /\ (n + 2) - Len(m) = 2
          BY <3>1, <3>2, <3>4
        <5>2. \A i \in 1..(Len(m) + Len(boots)) :
                (m \o boots)[i] = IF i <= Len(m) THEN m[i] ELSE boots[i - Len(m)]
          BY <3>2, <3>4, ConcatProperties
        <5>3. ~(n + 1 <= Len(m)) /\ ~(n + 2 <= Len(m))
          BY <3>1, <3>2
        <5>4. (m \o boots)[n + 1] = boots[(n + 1) - Len(m)]
          BY <5>1, <5>2, <5>3, Zenon
        <5>5. (m \o boots)[n + 2] = boots[(n + 2) - Len(m)]
          BY <5>1, <5>2, <5>3, Zenon
        <5> QED BY <5>1, <5>4, <5>5
      <4>2. all = m \o boots
        BY DEF m, boots
      <4> HIDE DEF all
      <4>3. all[n + 1] = boots[1] /\ all[n + 2] = boots[2]
        BY <4>1, <4>2, Zenon
      <4> QED BY <3>5, <4>3
    <3>7. DOMAIN all = 1..(n + 2)
      BY <3>2, <2>1
    <3>8. ASSUME NEW i \in 1..(n + 2) PROVE all[i] = <<DefaultMasterNet, byte(i)>>
      <4> HIDE DEF all
      <4>1. CASE i \in 1..n
        <5>1. byte(i) = 4 + i
          BY <3>1, <4>1
        <5> QED BY <3>3, <4>1, <5>1
      <4>2. CASE i = n + 1
        <5>1. byte(i) = 240
          BY <2>1, <4>2
        <5> QED BY <3>6, <4>2, <5>1
      <4>3. CASE i = n + 2
        <5>1. byte(i) = 241
          BY <2>1, <4>3
        <5> QED BY <3>6, <4>3, <5>1
      <4> QED BY <3>1, <4>1, <4>2, <4>3
    <3> QED BY <3>7, <3>8
  <2>4. \A i, j \in 1..(n + 2) : byte(i) = byte(j) => i = j
    BY <2>1
  <2> HIDE DEF all, byte
  <2>5. \A i, j \in DOMAIN all : all[i] = all[j] => i = j
    BY <2>3, <2>4
  <2>6. \A i \in DOMAIN all : all[i][1] = cluster.master.subnet
    BY <2>1, <2>3
  <2>7. \A i, j \in DOMAIN cluster.pools :
           cluster.pools[i].subnet = cluster.pools[j].subnet => i = j
    <3>1. DOMAIN cluster.pools \subseteq Int
      BY ContainerFields DEF Linked
    <3> QED BY <2>1, <3>1
  <2> QED BY <2>5, <2>6, <2>7 DEF all
<1> QED BY <1>1, AlwaysInv, PTL

\* A cluster's version never goes back, and an upgrade from a release goes at
\* most to the next minor version and to no pre-release (dcosUpgrades).
THEOREM UpgradesStayInRange == Spec => UpgradeRange
<1>1. ASSUME IInv, NEW v \in build.supported, Upgrade(v)
      PROVE  LET old == cluster.orchestrator.version
                 new == cluster'.orchestrator.version
             IN  /\ ~LT(new, old)
                 /\ new[1] = old[1]
                 /\ ~IsPreRelease(old) => /\ new[2] <= old[2] + 1
                                          /\ ~IsPreRelease(new)
  <2> DEFINE old == cluster.orchestrator.version
  <2>1. /\ cluster \in ContainerService
        /\ old \in Version
        /\ ~LT(v, old)
        /\ v \in DcosUpgrades(build, old) \union {old}
    BY <1>1, UpgradeStarts DEF IInv, TypeOK
  <2>2. v \in Version
    BY <1>1, BuildsAssumption DEF IInv, TypeOK
  <2>3. cluster'.orchestrator.version = v
    BY <1>1, <2>1, <2>2, UpgradedFacts DEF Upgrade
  <2> HIDE DEF old
  <2>4. v = old \/ (LT(old, v) /\ LT(v, <<old[1], old[2] + 2, 0, Final>>)
                     /\ (~IsPreRelease(old) => ~IsPreRelease(v)))
    BY <2>1 DEF DcosUpgrades, GetVersionsBetween, GetVersionsGt, GetVersionsLt
  <2>5. /\ v[1] = old[1]
        /\ ~IsPreRelease(old) => v[2] <= old[2] + 1 /\ ~IsPreRelease(v)
    BY <2>1, <2>2, <2>4 DEF LT, IsPreRelease, Version, Final
  <2> QED BY <2>1, <2>3, <2>5 DEF old
<1>2. IInv => [\A v \in build.supported :
                Upgrade(v) =>
                  LET old == cluster.orchestrator.version
                      new == cluster'.orchestrator.version
                  IN  /\ ~LT(new, old)
                      /\ new[1] = old[1]
                      /\ ~IsPreRelease(old) => /\ new[2] <= old[2] + 1
                                               /\ ~IsPreRelease(new)]_vars
  BY <1>1, Zenon
<1> QED BY <1>2, AlwaysInv, PTL DEF UpgradeRange, Spec

\* A document the tool saved can be given to every later command of a build
\* that supports its version (deploy.go:164, dcos-upgrade.go:205-206).
THEOREM SavedDocumentsLoad == Spec => []SavedLoads
BY AlwaysKept, KeptLoads, PTL

\* Generating again from the document that is kept beside a cluster gives the
\* cluster that runs, after any commands, upgrades, edits of the pools' sizes
\* and changes of the build (template_generator.go:47-53).
THEOREM SavedDocumentsGiveTheirCluster == Spec => []SameAgain
BY AlwaysKept, KeptSame, PTL

\* generate and deploy make the same cluster of a document that both accept
\* (deploy.go:301-314).
THEOREM DeployAgreesWithGenerate == Spec => []DeployIsGenerate
BY AlwaysKept, KeptDeploys, PTL

\* A cluster lives as ClusterLife says: what is kept beside it makes it again, by
\* either command, as it is, through any upgrades, edits of the pools' sizes and
\* changes of the build; upgrades change its version and the sources of both
\* bootstrap nodes and nothing else; and a deploy by a build that does not support
\* its version changes nothing else either (deploy.go:164, dcos-upgrade.go:205-238).
THEOREM ClusterLives == Spec => ImplementsLife
<1>1. Init => Life!Init
  BY DEF Init, Life!Init, shown, Saved
<1>2. IInv /\ Kept /\ [Next]_vars => [Life!Next]_(Life!vars)
  BY NextLives
<1> QED BY <1>1, <1>2, AlwaysKept, PTL DEF Spec, ImplementsLife, Life!Spec
=============================================================================
