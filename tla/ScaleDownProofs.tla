-------------------------- MODULE ScaleDownProofs --------------------------
(***************************************************************************)
(* The safety properties of ScaleDown for every list of names, all         *)
(* machines, and any number of calls that fail, and that it is a Removal.  *)
(***************************************************************************)
EXTENDS ScaleDown, FiniteSetTheorems, TLAPS

ParameterAssumptions == CallsAssumption /\ MachineAssumption /\ FaultsAssumption

THEOREM Assumptions == ParameterAssumptions
BY CallsAssumption, MachineAssumption, FaultsAssumption DEF ParameterAssumptions

USE DEF At, Fault, Succeed, Fail, Call, caller, goroutines, azure

\* TypeOK without the number of results received, and what is there to delete.
Typed ==
  /\ main \in {"spawn", "receive", "returned"}
  /\ asked \subseteq Calls /\ failed \subseteq Calls
  /\ received \in Nat
  /\ pc \in [Calls -> PCs] /\ err \in [Calls -> BOOLEAN]
  /\ listed \in [Calls -> SUBSET Roles]
  /\ closed \in BOOLEAN
  /\ vms \subseteq VMs /\ nics \subseteq VMs /\ disks \subseteq VMs
  /\ assigned \in [VMs -> SUBSET Roles]
  /\ faults \in 0 .. MaxFaults

Belongings ==
  /\ \A v \in nics : Machine[v].nic
  /\ \A v \in disks : Machine[v].disk # "unknown"
  /\ \A v \in VMs : ~Machine[v].identity => assigned[v] = {}

LEMMA InitTyped == Init => Typed /\ Belongings
<1> SUFFICES ASSUME Init PROVE Typed /\ Belongings
  OBVIOUS
<1>1. \A v \in VMs : Machine[v].roles \subseteq Roles
  BY Assumptions DEF ParameterAssumptions, MachineAssumption
<1>2. assigned \in [VMs -> SUBSET Roles]
  BY <1>1 DEF Init
<1>3. \A v \in VMs : ~Machine[v].identity => assigned[v] = {}
  BY DEF Init
<1>4. pc \in [Calls -> PCs] /\ err \in [Calls -> BOOLEAN] /\ listed \in [Calls -> SUBSET Roles]
  BY DEF Init, PCs
<1>5. faults \in 0 .. MaxFaults
  BY Assumptions DEF ParameterAssumptions, FaultsAssumption, Init
<1>6. nics \subseteq VMs /\ disks \subseteq VMs /\ (\A v \in nics : Machine[v].nic)
      /\ (\A v \in disks : Machine[v].disk # "unknown")
  BY DEF Init
<1> QED
  BY <1>2, <1>3, <1>4, <1>5, <1>6 DEF Init, Typed, Belongings

LEMMA StepTyped == Typed /\ [Next]_vars => Typed'
<1> SUFFICES ASSUME Typed, [Next]_vars PROVE Typed'
  OBVIOUS
<1> USE Assumptions DEF ParameterAssumptions, FaultsAssumption, CallsAssumption, Typed, PCs
<1>1. ASSUME NEW c \in Calls, Spawn(c) \/ Send(c) PROVE Typed'
  <2>1. pc' \in [Calls -> PCs]
    BY <1>1 DEF Spawn, Send
  <2>2. UNCHANGED <<caller, err, listed, closed, azure, faults>>
    BY <1>1 DEF Spawn, Send
  <2> QED
    BY <2>1, <2>2
<1>2. ASSUME Retry PROVE Typed'
  <2>1. pc' \in [Calls -> PCs] /\ err' \in [Calls -> BOOLEAN]
    BY <1>2 DEF Retry
  <2> QED
    BY <1>2, <2>1 DEF Retry
<1>3. ASSUME NEW c \in Calls,
             GetVM(c) \/ DeleteVM(c) \/ DeleteNIC(c) \/ DeleteDisk(c) \/ CallFails(c)
      PROVE  Typed'
  <2>1. \E next \in PCs : pc' = [pc EXCEPT ![c] = next]
    BY <1>3 DEF GetVM, DeleteVM, DeleteNIC, DeleteDisk, CallFails, AfterVM, AfterNIC
  <2>2. pc' \in [Calls -> PCs]
    BY <2>1
  <2>3. err' \in [Calls -> BOOLEAN]
    BY <1>3 DEF GetVM, DeleteVM, DeleteNIC, DeleteDisk, CallFails
  <2>4. faults' \in 0 .. MaxFaults
    BY <1>3 DEF GetVM, DeleteVM, DeleteNIC, DeleteDisk, CallFails
  <2>5. vms' \subseteq vms /\ nics' \subseteq nics /\ disks' \subseteq disks
        /\ UNCHANGED <<main, asked, received, failed, listed, closed, assigned>>
    BY <1>3 DEF GetVM, DeleteVM, DeleteNIC, DeleteDisk, CallFails
  <2> QED
    BY <2>2, <2>3, <2>4, <2>5
<1>4. ASSUME NEW c \in Calls, ListRoleAssignments(c) \/ DeleteRoleAssignment(c) PROVE Typed'
  <2>1. \E next \in PCs : pc' = [pc EXCEPT ![c] = next]
    BY <1>4 DEF ListRoleAssignments, DeleteRoleAssignment
  <2>2. pc' \in [Calls -> PCs]
    BY <2>1
  <2>3. err' \in [Calls -> BOOLEAN]
    BY <1>4 DEF ListRoleAssignments, DeleteRoleAssignment
  <2>4. faults' \in 0 .. MaxFaults
    BY <1>4 DEF ListRoleAssignments, DeleteRoleAssignment
  <2>5. listed' \in [Calls -> SUBSET Roles] /\ assigned' \in [VMs -> SUBSET Roles]
    <3>1. CASE ListRoleAssignments(c)
      <4>1. assigned[Name[c]] \in SUBSET Roles
        BY <1>4
      <4> QED
        BY <3>1, <4>1 DEF ListRoleAssignments
    <3>2. ASSUME NEW r, listed' = [listed EXCEPT ![c] = @ \ {r}],
                 assigned' = [assigned EXCEPT ![Name[c]] = @ \ {r}]
          PROVE  listed' \in [Calls -> SUBSET Roles] /\ assigned' \in [VMs -> SUBSET Roles]
      BY <3>2
    <3>3. CASE DeleteRoleAssignment(c)
      BY <3>2, <3>3 DEF DeleteRoleAssignment
    <3> QED
      BY <1>4, <3>1, <3>3
  <2>6. UNCHANGED <<main, asked, received, failed, closed, vms, nics, disks>>
    BY <1>4 DEF ListRoleAssignments, DeleteRoleAssignment
  <2> QED
    BY <2>2, <2>3, <2>4, <2>5, <2>6
<1>5. CASE UNCHANGED vars
  BY <1>5 DEF vars
<1>6. ASSUME NEW c \in Calls, Receive(c) PROVE Typed'
  <2>1. failed' \subseteq Calls /\ received' \in Nat
    BY <1>6 DEF Receive
  <2> QED
    BY <1>6, <2>1 DEF Receive
<1>7. ASSUME AllSpawned \/ Return PROVE Typed'
  BY <1>7 DEF AllSpawned, Return
<1> QED
  BY <1>1, <1>2, <1>3, <1>4, <1>5, <1>6, <1>7 DEF Next, Caller, CleanDelete

\* In Azure things only disappear.
LEMMA OnlyDeletes ==
  ASSUME Typed, [Next]_vars
  PROVE  /\ vms' \subseteq vms /\ nics' \subseteq nics /\ disks' \subseteq disks
         /\ \A v \in VMs : assigned'[v] \subseteq assigned[v]
<1>1. ASSUME NEW c \in Calls, DeleteRoleAssignment(c)
      PROVE  \A v \in VMs : assigned'[v] \subseteq assigned[v]
  BY <1>1 DEF DeleteRoleAssignment, Typed
<1>2. ASSUME NEW c \in Calls, DeleteRoleAssignment(c)
      PROVE  UNCHANGED <<vms, nics, disks>>
  BY <1>2 DEF DeleteRoleAssignment
<1>3. ASSUME NEW c \in Calls,
             \/ Spawn(c) \/ Receive(c) \/ AllSpawned \/ Return \/ Retry
             \/ GetVM(c) \/ DeleteVM(c) \/ DeleteNIC(c) \/ DeleteDisk(c)
             \/ ListRoleAssignments(c) \/ CallFails(c) \/ Send(c)
      PROVE  /\ vms' \subseteq vms /\ nics' \subseteq nics /\ disks' \subseteq disks
             /\ UNCHANGED assigned
  BY <1>3 DEF Spawn, Receive, AllSpawned, Return, Retry, GetVM, DeleteVM, DeleteNIC,
              DeleteDisk, ListRoleAssignments, CallFails, Send
<1>4. ASSUME AllSpawned \/ Return \/ Retry
      PROVE  UNCHANGED azure
  BY <1>4 DEF AllSpawned, Return, Retry
<1>5. CASE UNCHANGED vars
  BY <1>5 DEF vars
<1> QED
  BY <1>1, <1>2, <1>3, <1>4, <1>5 DEF Next, Caller, CleanDelete

LEMMA StepBelongings == Typed /\ Belongings /\ [Next]_vars => Belongings'
BY OnlyDeletes DEF Belongings, Typed

(***************************************************************************)
(* What is gone when a goroutine has come so far.                          *)
(***************************************************************************)
Succeeded(c) == pc[c] \in {"send", "ended"} /\ ~err[c]

VMGone(c)    == pc[c] \in {"nic", "disk", "identity", "roles"} \/ Succeeded(c)
                  => Name[c] \notin vms
NICGone(c)   == pc[c] \in {"disk", "identity", "roles"} \/ Succeeded(c)
                  => Name[c] \notin nics
DiskGone(c)  == pc[c] \in {"identity", "roles"} \/ Succeeded(c)
                  => (Machine[Name[c]].disk # "unnamed" => Name[c] \notin disks)
RolesGone(c) == /\ pc[c] = "roles" => assigned[Name[c]] \subseteq listed[c]
                /\ Succeeded(c) => assigned[Name[c]] = {}

Gone(c) == VMGone(c) /\ NICGone(c) /\ DiskGone(c) /\ RolesGone(c)

\* A goroutine that does nothing keeps what it has established.
LEMMA GoneKept ==
  ASSUME Typed, [Next]_vars, NEW c \in Calls, Gone(c), pc'[c] = pc[c], err'[c] = err[c],
         listed'[c] = listed[c]
  PROVE  Gone(c)'
<1>1. Name[c] \in VMs
  BY Assumptions DEF ParameterAssumptions, CallsAssumption
<1> QED
  BY <1>1, OnlyDeletes DEF Gone, VMGone, NICGone, DiskGone, RolesGone, Succeeded

LEMMA StepGone ==
  ASSUME Typed, Belongings, \A c \in Calls : Gone(c), [Next]_vars
  PROVE  \A c \in Calls : Gone(c)'
<1> USE DEF Typed
<1>0. Name \in [Calls -> VMs]
  BY Assumptions DEF ParameterAssumptions, CallsAssumption
<1> DEFINE Others(c) == \A d \in Calls \ {c} :
                          pc'[d] = pc[d] /\ err'[d] = err[d] /\ listed'[d] = listed[d]
<1>1. ASSUME NEW c \in Calls, Others(c), Gone(c)' PROVE \A d \in Calls : Gone(d)'
  BY <1>1, GoneKept
<1>2. ASSUME \A c \in Calls : pc'[c] = pc[c] /\ err'[c] = err[c] /\ listed'[c] = listed[c]
      PROVE  \A c \in Calls : Gone(c)'
  BY <1>2, GoneKept
<1>3. ASSUME NEW c \in Calls,
             GetVM(c) \/ DeleteVM(c) \/ DeleteNIC(c) \/ DeleteDisk(c)
               \/ ListRoleAssignments(c) \/ DeleteRoleAssignment(c) \/ CallFails(c),
             pc'[c] = "send", err'[c]
      PROVE  \A d \in Calls : Gone(d)'
  <2>1. Others(c)
    BY <1>3 DEF GetVM, DeleteVM, DeleteNIC, DeleteDisk, ListRoleAssignments,
                DeleteRoleAssignment, CallFails
  <2>2. Gone(c)'
    BY <1>3 DEF Gone, VMGone, NICGone, DiskGone, RolesGone, Succeeded
  <2> QED
    BY <1>1, <2>1, <2>2
<1>4. ASSUME NEW c \in Calls, GetVM(c) PROVE \A d \in Calls : Gone(d)'
  <2>1. CASE Succeed(c, "vm")
    <3>1. Others(c) /\ pc'[c] = "vm"
      BY <1>4, <2>1 DEF GetVM
    <3>2. Gone(c)'
      BY <3>1 DEF Gone, VMGone, NICGone, DiskGone, RolesGone, Succeeded
    <3> QED
      BY <1>1, <3>1, <3>2
  <2>2. CASE Fail(c)
    BY <1>3, <1>4, <2>2
  <2> QED
    BY <1>4, <2>1, <2>2 DEF GetVM
<1>5. ASSUME NEW c \in Calls, DeleteVM(c) PROVE \A d \in Calls : Gone(d)'
  <2>1. CASE Succeed(c, AfterVM(Name[c]))
    <3>1. Others(c) /\ pc'[c] = AfterVM(Name[c]) /\ Name[c] \notin vms'
          /\ UNCHANGED <<nics, disks>>
      BY <1>5, <2>1 DEF DeleteVM
    <3>2. /\ pc'[c] \in {"nic", "disk", "identity"}
          /\ pc'[c] \in {"disk", "identity"} => Name[c] \notin nics
          /\ pc'[c] = "identity" => Machine[Name[c]].disk = "unnamed"
      BY <3>1 DEF AfterVM, AfterNIC, Belongings
    <3>3. Gone(c)'
      BY <3>1, <3>2 DEF Gone, VMGone, NICGone, DiskGone, RolesGone, Succeeded
    <3> QED
      BY <1>1, <3>1, <3>3
  <2>2. CASE Fail(c)
    BY <1>3, <1>5, <2>2
  <2> QED
    BY <1>5, <2>1, <2>2 DEF DeleteVM
<1>6. ASSUME NEW c \in Calls, DeleteNIC(c) PROVE \A d \in Calls : Gone(d)'
  <2>1. CASE Succeed(c, AfterNIC(Name[c]))
    <3>1. Others(c) /\ pc[c] = "nic" /\ pc'[c] = AfterNIC(Name[c])
          /\ Name[c] \notin nics' /\ UNCHANGED <<vms, disks>>
      BY <1>6, <2>1 DEF DeleteNIC
    <3>2. /\ pc'[c] \in {"disk", "identity"}
          /\ pc'[c] = "identity" => Machine[Name[c]].disk = "unnamed"
      BY <3>1 DEF AfterNIC
    <3>3. Name[c] \notin vms
      BY <3>1 DEF Gone, VMGone
    <3>4. Gone(c)'
      BY <3>1, <3>2, <3>3 DEF Gone, VMGone, NICGone, DiskGone, RolesGone, Succeeded
    <3> QED
      BY <1>1, <3>1, <3>4
  <2>2. CASE Fail(c)
    BY <1>3, <1>6, <2>2
  <2> QED
    BY <1>6, <2>1, <2>2 DEF DeleteNIC
<1>7. ASSUME NEW c \in Calls, DeleteDisk(c) PROVE \A d \in Calls : Gone(d)'
  <2>1. CASE Succeed(c, "identity")
    <3>1. Others(c) /\ pc[c] = "disk" /\ pc'[c] = "identity"
          /\ Name[c] \notin disks' /\ UNCHANGED <<vms, nics>>
      BY <1>7, <2>1 DEF DeleteDisk
    <3>2. Name[c] \notin vms /\ Name[c] \notin nics
      BY <3>1 DEF Gone, VMGone, NICGone
    <3>3. Gone(c)'
      BY <3>1, <3>2 DEF Gone, VMGone, NICGone, DiskGone, RolesGone, Succeeded
    <3> QED
      BY <1>1, <3>1, <3>3
  <2>2. CASE Fail(c)
    BY <1>3, <1>7, <2>2
  <2> QED
    BY <1>7, <2>1, <2>2 DEF DeleteDisk
<1>8. ASSUME NEW c \in Calls, ListRoleAssignments(c) PROVE \A d \in Calls : Gone(d)'
  <2>0. UNCHANGED <<vms, nics, disks, assigned>> /\ pc[c] = "identity"
    BY <1>8 DEF ListRoleAssignments
  <2>1. Name[c] \notin vms /\ Name[c] \notin nics
        /\ (Machine[Name[c]].disk # "unnamed" => Name[c] \notin disks)
    BY <2>0 DEF Gone, VMGone, NICGone, DiskGone
  <2>2. CASE Succeed(c, "roles") /\ listed' = [listed EXCEPT ![c] = assigned[Name[c]]]
    <3>1. Others(c) /\ pc'[c] = "roles" /\ listed'[c] = assigned[Name[c]]
      BY <2>2
    <3>2. Gone(c)'
      BY <2>0, <2>1, <3>1 DEF Gone, VMGone, NICGone, DiskGone, RolesGone, Succeeded
    <3> QED
      BY <1>1, <3>1, <3>2
  <2>3. CASE ~Machine[Name[c]].identity /\ Succeed(c, "send") /\ UNCHANGED listed
    <3>1. Others(c) /\ pc'[c] = "send"
      BY <2>3
    <3>2. assigned[Name[c]] = {}
      BY <1>0, <2>3 DEF Belongings
    <3>3. Gone(c)'
      BY <2>0, <2>1, <3>1, <3>2 DEF Gone, VMGone, NICGone, DiskGone, RolesGone, Succeeded
    <3> QED
      BY <1>1, <3>1, <3>3
  <2>4. CASE Fail(c)
    BY <1>3, <1>8, <2>4
  <2> QED
    BY <1>8, <2>2, <2>3, <2>4 DEF ListRoleAssignments
<1>9. ASSUME NEW c \in Calls, DeleteRoleAssignment(c) PROVE \A d \in Calls : Gone(d)'
  <2>0. UNCHANGED <<vms, nics, disks>> /\ pc[c] = "roles"
    BY <1>9 DEF DeleteRoleAssignment
  <2>1. /\ Name[c] \notin vms /\ Name[c] \notin nics
        /\ Machine[Name[c]].disk # "unnamed" => Name[c] \notin disks
        /\ assigned[Name[c]] \subseteq listed[c]
    BY <2>0 DEF Gone, VMGone, NICGone, DiskGone, RolesGone
  <2>2. ASSUME NEW r \in listed[c], Succeed(c, "roles"),
               listed' = [listed EXCEPT ![c] = @ \ {r}],
               assigned' = [assigned EXCEPT ![Name[c]] = @ \ {r}]
        PROVE  \A d \in Calls : Gone(d)'
    <3>1. Others(c) /\ pc'[c] = "roles"
      BY <2>2
    <3>2. assigned'[Name[c]] \subseteq listed'[c]
      BY <1>0, <2>1, <2>2
    <3>3. Gone(c)'
      BY <2>0, <2>1, <3>1, <3>2 DEF Gone, VMGone, NICGone, DiskGone, RolesGone, Succeeded
    <3> QED
      BY <1>1, <3>1, <3>3
  <2>3. CASE listed[c] = {} /\ Succeed(c, "send") /\ UNCHANGED <<listed, assigned>>
    <3>1. Others(c) /\ pc'[c] = "send"
      BY <2>3
    <3>2. Gone(c)'
      BY <2>0, <2>1, <2>3, <3>1 DEF Gone, VMGone, NICGone, DiskGone, RolesGone, Succeeded
    <3> QED
      BY <1>1, <3>1, <3>2
  <2>4. CASE Fail(c)
    BY <1>3, <1>9, <2>4
  <2> QED
    BY <1>9, <2>2, <2>3, <2>4 DEF DeleteRoleAssignment
<1>10. ASSUME NEW c \in Calls, CallFails(c) PROVE \A d \in Calls : Gone(d)'
  BY <1>3, <1>10 DEF CallFails
<1>11. ASSUME NEW c \in Calls, Send(c) PROVE \A d \in Calls : Gone(d)'
  <2>1. Others(c) /\ pc[c] = "send" /\ pc'[c] = "ended" /\ err'[c] = err[c]
        /\ UNCHANGED azure
    BY <1>11 DEF Send
  <2>2. Gone(c)'
    BY <2>1 DEF Gone, VMGone, NICGone, DiskGone, RolesGone, Succeeded
  <2> QED
    BY <1>1, <2>1, <2>2
<1>12. ASSUME NEW c \in Calls, Spawn(c) PROVE \A d \in Calls : Gone(d)'
  <2>1. Others(c) /\ pc'[c] = "get"
    BY <1>12 DEF Spawn
  <2>2. Gone(c)'
    BY <2>1 DEF Gone, VMGone, NICGone, DiskGone, RolesGone, Succeeded
  <2> QED
    BY <1>1, <2>1, <2>2
<1>13. ASSUME NEW c \in Calls, Receive(c) \/ AllSpawned \/ Return
       PROVE  \A d \in Calls : Gone(d)'
  BY <1>2, <1>13 DEF Receive, AllSpawned, Return
<1>14. ASSUME AllSpawned \/ Return PROVE \A d \in Calls : Gone(d)'
  BY <1>2, <1>14 DEF AllSpawned, Return
<1>15. ASSUME Retry PROVE \A d \in Calls : Gone(d)'
  <2>1. TAKE d \in Calls
  <2>2. CASE d \in failed
    <3>1. pc'[d] = "none"
      BY <1>15, <2>2 DEF Retry
    <3> QED
      BY <3>1 DEF Gone, VMGone, NICGone, DiskGone, RolesGone, Succeeded
  <2>3. CASE d \notin failed
    <3>1. pc'[d] = pc[d] /\ err'[d] = err[d] /\ listed'[d] = listed[d]
      BY <1>15, <2>3 DEF Retry
    <3> QED
      BY <3>1, GoneKept
  <2> QED
    BY <2>2, <2>3
<1>16. CASE UNCHANGED vars
  BY <1>2, <1>16 DEF vars
<1> QED
  BY <1>4, <1>5, <1>6, <1>7, <1>8, <1>9, <1>10, <1>11, <1>12, <1>13, <1>14, <1>15, <1>16
     DEF Next, Caller, CleanDelete

DInv == Typed /\ Belongings /\ \A c \in Calls : Gone(c)

LEMMA DeletionInvariant == Spec => []DInv
<1>1. Init => DInv
  <2>1. Init => \A c \in Calls : Gone(c)
    BY DEF Init, Gone, VMGone, NICGone, DiskGone, RolesGone, Succeeded
  <2> QED
    BY <2>1, InitTyped DEF DInv
<1>2. DInv /\ [Next]_vars => DInv'
  BY StepTyped, StepBelongings, StepGone DEF DInv
<1> QED
  BY <1>1, <1>2, PTL DEF Spec

\* When a deletion succeeds, the machine, its first NIC, its OS disk, if that has a name, and
\* its role assignments are gone (deletevm.go 17-120), whatever other goroutines do to the
\* same machine.
THEOREM SuccessIsAlwaysClean == Spec => []SuccessIsClean
<1>1. DInv => SuccessIsClean
  BY DEF DInv, Gone, VMGone, NICGone, DiskGone, RolesGone, Succeeded, SuccessIsClean
<1> QED
  BY <1>1, DeletionInvariant, PTL

(***************************************************************************)
(* What a machine has is deleted after the machine.                        *)
(***************************************************************************)
LEMMA StepIntact == DInv /\ LiveVMsIntact /\ [Next]_vars => LiveVMsIntact'
<1> SUFFICES ASSUME DInv, LiveVMsIntact, [Next]_vars PROVE LiveVMsIntact'
  OBVIOUS
<1> USE DEF DInv, Typed
<1>0. Name \in [Calls -> VMs]
  BY Assumptions DEF ParameterAssumptions, CallsAssumption
<1>1. vms' \subseteq vms
  BY OnlyDeletes
<1>2. ASSUME UNCHANGED <<nics, disks, assigned>> PROVE LiveVMsIntact'
  BY <1>1, <1>2 DEF LiveVMsIntact
<1>3. ASSUME NEW c \in Calls, DeleteNIC(c) \/ DeleteDisk(c) \/ DeleteRoleAssignment(c)
      PROVE  LiveVMsIntact'
  <2>1. pc[c] \in {"nic", "disk", "roles"}
    BY <1>3 DEF DeleteNIC, DeleteDisk, DeleteRoleAssignment
  <2>2. Name[c] \notin vms
    BY <2>1 DEF Gone, VMGone
  <2>3. \A v \in VMs \ {Name[c]} : /\ v \in nics' <=> v \in nics
                                   /\ v \in disks' <=> v \in disks
                                   /\ assigned'[v] = assigned[v]
    BY <1>3 DEF DeleteNIC, DeleteDisk, DeleteRoleAssignment
  <2> QED
    BY <1>1, <2>2, <2>3 DEF LiveVMsIntact
<1>4. ASSUME NEW c \in Calls,
             \/ Spawn(c) \/ Receive(c) \/ GetVM(c) \/ DeleteVM(c)
             \/ ListRoleAssignments(c) \/ CallFails(c) \/ Send(c)
      PROVE  LiveVMsIntact'
  BY <1>2, <1>4 DEF Spawn, Receive, GetVM, DeleteVM, ListRoleAssignments, CallFails, Send
<1>5. ASSUME AllSpawned \/ Return \/ Retry PROVE LiveVMsIntact'
  BY <1>2, <1>5 DEF AllSpawned, Return, Retry
<1>6. CASE UNCHANGED vars
  BY <1>2, <1>6 DEF vars
<1> QED
  BY <1>3, <1>4, <1>5, <1>6 DEF Next, Caller, CleanDelete

\* A machine that exists keeps its NIC, its disk and its roles (deletevm.go 46-113).
THEOREM LiveVMsStayIntact == Spec => []LiveVMsIntact
<1>1. Init => LiveVMsIntact
  BY DEF Init, LiveVMsIntact
<1> QED
  BY <1>1, DeletionInvariant, StepIntact, PTL DEF Spec

(***************************************************************************)
(* The report.  The results received are those of the goroutines that have *)
(* ended and are not in the channel, and received is their number.         *)
(***************************************************************************)
Got == {c \in asked : pc[c] = "ended" /\ c \notin channel}

Counting ==
  /\ channel \subseteq asked
  /\ \A c \in channel : pc[c] = "ended"
  /\ \A c \in Calls \ asked : pc[c] = "ended"
  /\ received = Cardinality(Got)
  /\ failed = {c \in Got : err[c]}

RInv == Typed /\ Counting /\ ReportExact

LEMMA Finite ==
  ASSUME Typed
  PROVE  IsFiniteSet(asked) /\ IsFiniteSet(Got) /\ Cardinality(Got) \in 0 .. Cardinality(asked)
<1>1. IsFiniteSet(asked)
  BY Assumptions, FS_Subset DEF ParameterAssumptions, CallsAssumption, Typed
<1>2. Got \subseteq asked
  BY DEF Got
<1>3. IsFiniteSet(Got) /\ Cardinality(Got) <= Cardinality(asked)
  BY <1>1, <1>2, FS_Subset
<1> QED
  BY <1>1, <1>3, FS_CardinalityType

LEMMA InitReport == Init => Counting /\ ReportExact
<1> SUFFICES ASSUME Init PROVE Counting /\ ReportExact
  OBVIOUS
<1>1. Got = {}
  BY DEF Init, Got
<1>2. Cardinality(Got) = 0
  BY <1>1, FS_EmptySet
<1> QED
  BY <1>1, <1>2 DEF Init, Counting, ReportExact

\* A goroutine that has not ended is not among the results, before or after its step.
LEMMA GoroutineReport ==
  ASSUME RInv, NEW c \in Calls, CleanDelete(c) PROVE Counting' /\ ReportExact'
<1> USE DEF RInv, Typed
<1>1. /\ pc[c] # "ended" /\ UNCHANGED <<caller, closed>>
      /\ \A d \in Calls \ {c} : pc'[d] = pc[d] /\ err'[d] = err[d]
  BY DEF CleanDelete, GetVM, DeleteVM, DeleteNIC, DeleteDisk, ListRoleAssignments,
         DeleteRoleAssignment, CallFails, Send
<1>2. channel' = IF pc'[c] = "ended" THEN channel \cup {c} ELSE channel
  <2>1. CASE Send(c)
    BY <2>1 DEF Send
  <2>2. ASSUME \/ GetVM(c) \/ DeleteVM(c) \/ DeleteNIC(c) \/ DeleteDisk(c) \/ CallFails(c)
               \/ ListRoleAssignments(c) \/ DeleteRoleAssignment(c)
        PROVE  channel' = channel /\ pc'[c] # "ended"
    BY <2>2 DEF GetVM, DeleteVM, DeleteNIC, DeleteDisk, ListRoleAssignments,
                DeleteRoleAssignment, CallFails, AfterVM, AfterNIC
  <2> QED
    BY <2>1, <2>2 DEF CleanDelete
<1>3. c \in asked /\ c \notin channel /\ c \notin Got /\ main # "returned"
  BY <1>1 DEF Counting, Got, ReportExact
<1>4. Got' = Got
  BY <1>1, <1>2, <1>3 DEF Got
<1>5. failed' = {d \in Got' : err'[d]}
  BY <1>1, <1>3, <1>4 DEF Counting, Got
<1>6. /\ channel' \subseteq asked' /\ (\A d \in channel' : pc'[d] = "ended")
      /\ \A d \in Calls \ asked' : pc'[d] = "ended"
  BY <1>1, <1>2, <1>3 DEF Counting
<1> QED
  BY <1>1, <1>3, <1>4, <1>5, <1>6 DEF Counting, ReportExact

LEMMA CallerReport == ASSUME RInv, Caller PROVE Counting' /\ ReportExact'
<1> USE DEF RInv, Typed
<1>1. ASSUME NEW c \in Calls, Spawn(c) PROVE Counting' /\ ReportExact'
  <2>1. /\ pc[c] = "none" /\ pc'[c] = "get" /\ main' = "spawn" /\ c \in asked
        /\ UNCHANGED <<caller, err, channel>> /\ \A d \in Calls \ {c} : pc'[d] = pc[d]
    BY <1>1 DEF Spawn
  <2>2. Got' = Got
    BY <2>1 DEF Got
  <2> QED
    BY <2>1, <2>2 DEF Counting, ReportExact
<1>2. ASSUME NEW c \in Calls, Receive(c) PROVE Counting' /\ ReportExact'
  <2>1. /\ main' = "receive" /\ c \in channel /\ channel' = channel \ {c}
        /\ received' = received + 1 /\ UNCHANGED <<asked, pc, err>>
        /\ failed' = IF err[c] THEN failed \cup {c} ELSE failed
    BY <1>2 DEF Receive
  <2>2. Got' = Got \cup {c} /\ c \notin Got
    BY <2>1 DEF Got, Counting
  <2>3. received' = Cardinality(Got')
    BY <2>1, <2>2, Finite, FS_AddElement DEF Counting
  <2>4. failed' = {d \in Got' : err'[d]}
    BY <2>1, <2>2 DEF Counting
  <2> QED
    BY <2>1, <2>3, <2>4 DEF Counting, ReportExact
<1>3. CASE AllSpawned
  <2>1. Got' = Got
    BY <1>3 DEF AllSpawned, Got
  <2> QED
    BY <1>3, <2>1 DEF AllSpawned, Counting, ReportExact
<1>4. CASE Return
  <2>1. UNCHANGED <<asked, received, failed, pc, err, channel>> /\ closed'
        /\ received = Cardinality(asked)
    BY <1>4 DEF Return
  <2>2. Got' = Got
    BY <2>1 DEF Got
  <2>3. Counting'
    BY <2>1, <2>2 DEF Counting
  <2>4. Got \subseteq asked /\ Cardinality(Got) = Cardinality(asked)
    BY <2>1 DEF Got, Counting
  <2>5. Got = asked
    BY <2>4, Finite, FS_Subset
  <2>6. channel = {} /\ (\A c \in Calls : pc[c] = "ended") /\ failed = {c \in asked : err[c]}
    BY <2>5 DEF Got, Counting
  <2> QED
    BY <2>1, <2>3, <2>6 DEF ReportExact
<1>5. CASE Retry
  <2>1. /\ main' = "spawn" /\ asked' = failed /\ received' = 0 /\ failed' = {}
        /\ channel' = channel /\ channel = {}
        /\ \A c \in failed : pc'[c] = "none"
        /\ \A c \in Calls \ failed : pc'[c] = "ended"
    BY <1>5 DEF Retry, ReportExact
  <2>2. Got' = {}
    BY <2>1 DEF Got
  <2>3. Cardinality(Got') = 0
    BY <2>2, FS_EmptySet
  <2> QED
    BY <2>1, <2>2, <2>3 DEF Counting, ReportExact
<1> QED
  BY <1>1, <1>2, <1>3, <1>4, <1>5 DEF Caller

LEMMA ReportInvariant == Spec => []RInv
<1>1. Init => RInv
  BY InitTyped, InitReport DEF RInv
<1>2. RInv /\ [Next]_vars => RInv'
  <2> SUFFICES ASSUME RInv, [Next]_vars PROVE Counting' /\ ReportExact'
    BY StepTyped DEF RInv
  <2>1. CASE UNCHANGED vars
    BY <2>1 DEF vars, RInv, Counting, ReportExact, Got
  <2> QED
    BY <2>1, CallerReport, GoroutineReport DEF Next
<1> QED
  BY <1>1, <1>2, PTL DEF Spec

\* ScaleDownVMs reports exactly the deletions that failed, once every goroutine
\* has ended (scaledownagentpool.go 20-43), whatever fails and in whatever order.
THEOREM ReportIsExact == Spec => []ReportExact
<1>1. RInv => ReportExact
  BY DEF RInv
<1> QED
  BY <1>1, ReportInvariant, PTL

\* Every variable keeps its type; of the results no more are received than asked for.
THEOREM TypeCorrect == Spec => []TypeOK
<1>1. RInv => TypeOK
  <2> SUFFICES ASSUME RInv PROVE TypeOK
    OBVIOUS
  <2>1. failed \subseteq asked
    BY DEF RInv, Counting, Got
  <2>2. received \in 0 .. Cardinality(asked)
    BY Finite DEF RInv, Counting
  <2> QED
    BY <2>1, <2>2 DEF RInv, Typed, Counting, TypeOK
<1> QED
  BY <1>1, ReportInvariant, PTL

(***************************************************************************)
(* ScaleDown implements Removal.                                           *)
(***************************************************************************)
PInv == DInv /\ RInv

LEMMA BothInvariants == Spec => []PInv
BY DeletionInvariant, ReportInvariant, PTL DEF PInv

LEMMA PromiseInit == Init => Promise!Init
<1> SUFFICES ASSUME Init PROVE Promise!Init
  OBVIOUS
<1>1. open = Calls /\ bad = {} /\ phase = "on" /\ report = {}
  BY DEF Init, open, bad, phase, report
<1>2. left = VMs
  BY DEF Init, left
<1> QED
  BY <1>1, <1>2 DEF Promise!Init, Init

\* What a step of the goroutine of c deletes belongs to its machine.
LEMMA OnlyItsMachine ==
  ASSUME PInv, NEW c \in Calls, CleanDelete(c)
  PROVE  /\ vms' \in {vms, vms \ {Name[c]}}
         /\ left' \in {left, left \ {Name[c]}}
         /\ vms' = vms \ {Name[c]} \/ left' = left \/ Name[c] \notin vms
<1> USE DEF PInv, DInv, Typed
<1>0. Name[c] \in VMs
  BY Assumptions DEF ParameterAssumptions, CallsAssumption
<1>1. \A v \in VMs \ {Name[c]} : v \in left' <=> v \in left
  <2>1. \A v \in VMs \ {Name[c]} :
          /\ v \in vms' <=> v \in vms
          /\ v \in nics' <=> v \in nics
          /\ v \in disks' <=> v \in disks
          /\ assigned'[v] = assigned[v]
    BY DEF CleanDelete, GetVM, DeleteVM, DeleteNIC, DeleteDisk, ListRoleAssignments,
           DeleteRoleAssignment, CallFails, Send
  <2> QED
    BY <2>1 DEF left
<1>2. left' \subseteq left /\ left \subseteq VMs
  BY OnlyDeletes DEF left, Next
<1>3. left' \in {left, left \ {Name[c]}}
  BY <1>1, <1>2
<1>4. \/ vms' = vms \ {Name[c]}
      \/ vms' = vms /\ UNCHANGED azure
      \/ vms' = vms /\ pc[c] \in {"nic", "disk", "roles"}
  BY DEF CleanDelete, GetVM, DeleteVM, DeleteNIC, DeleteDisk, ListRoleAssignments,
         DeleteRoleAssignment, CallFails, Send
<1>5. pc[c] \in {"nic", "disk", "roles"} => Name[c] \notin vms
  BY DEF Gone, VMGone
<1>6. UNCHANGED azure => left' = left
  BY DEF left
<1> QED
  BY <1>3, <1>4, <1>5, <1>6

LEMMA GoroutineStep ==
  ASSUME PInv, NEW c \in Calls, CleanDelete(c)
  PROVE  [Promise!Next]_(Promise!vars)
<1> USE DEF PInv, DInv, Typed
<1>1. /\ pc[c] # "ended" /\ UNCHANGED caller
      /\ \A d \in Calls \ {c} : pc'[d] = pc[d] /\ err'[d] = err[d]
  BY DEF CleanDelete, GetVM, DeleteVM, DeleteNIC, DeleteDisk, ListRoleAssignments,
         DeleteRoleAssignment, CallFails, Send
<1>2. c \in asked /\ main # "returned"
  BY <1>1 DEF RInv, Counting, ReportExact
<1>3. phase = "on" /\ phase' = "on" /\ report' = report /\ c \in open
  BY <1>1, <1>2 DEF phase, report, open
<1>4. CASE Send(c)
  <2>1. pc[c] = "send" /\ pc'[c] = "ended" /\ err'[c] = err[c] /\ UNCHANGED azure
    BY <1>4 DEF Send
  <2>2. open' = open \ {c} /\ vms' = vms /\ left' = left
    BY <1>1, <2>1 DEF open, left
  <2>3. CASE err[c]
    <3>1. bad' = bad \cup {c}
      BY <1>1, <1>2, <2>1, <2>3 DEF bad
    <3> QED
      BY <1>3, <2>2, <3>1 DEF Promise!End, Promise!Next
  <2>4. CASE ~ err[c]
    <3>1. bad' = bad
      BY <1>1, <1>2, <2>1, <2>4 DEF bad
    <3>2. Name[c] \notin left
      BY <2>1, <2>4 DEF Gone, VMGone, NICGone, DiskGone, RolesGone, Succeeded, left
    <3> QED
      BY <1>3, <2>2, <3>1, <3>2 DEF Promise!End, Promise!Next
  <2> QED
    BY <2>3, <2>4
<1>5. CASE ~ Send(c)
  <2>1. pc'[c] # "ended"
    BY <1>5 DEF CleanDelete, GetVM, DeleteVM, DeleteNIC, DeleteDisk, ListRoleAssignments,
                DeleteRoleAssignment, CallFails, AfterVM, AfterNIC
  <2>2. open' = open /\ bad' = bad
    BY <1>1, <2>1 DEF open, bad
  <2>3. CASE vms' = vms /\ left' = left
    BY <1>3, <2>2, <2>3 DEF Promise!vars
  <2>4. CASE ~ (vms' = vms /\ left' = left)
    <3>1. vms' = vms \ {Name[c]} /\ left' \in {left, left \ {Name[c]}}
      BY <2>4, OnlyItsMachine
    <3>2. Promise!Remove(c)
      BY <1>3, <2>2, <3>1 DEF Promise!Remove
    <3> QED
      BY <3>2 DEF Promise!Next
  <2> QED
    BY <2>3, <2>4
<1> QED
  BY <1>4, <1>5

LEMMA CallerStep ==
  ASSUME PInv, Caller
  PROVE  [Promise!Next]_(Promise!vars)
<1> USE DEF PInv, DInv, Typed
<1>1. vms' = vms /\ left' = left
  BY DEF Caller, Spawn, Receive, AllSpawned, Return, Retry, left
<1>2. ASSUME NEW c \in Calls, Spawn(c) PROVE UNCHANGED Promise!vars
  <2>1. /\ pc[c] = "none" /\ pc'[c] = "get" /\ UNCHANGED <<caller, err>>
        /\ \A d \in Calls \ {c} : pc'[d] = pc[d]
    BY <1>2 DEF Spawn
  <2>2. open' = open /\ bad' = bad /\ phase' = phase /\ report' = report
    BY <2>1 DEF open, bad, phase, report
  <2> QED
    BY <1>1, <2>2 DEF Promise!vars
<1>3. ASSUME NEW c \in Calls, Receive(c) PROVE UNCHANGED Promise!vars
  <2>1. main = "receive" /\ main' = main /\ UNCHANGED <<asked, pc, err>>
    BY <1>3 DEF Receive
  <2>2. open' = open /\ bad' = bad /\ phase' = phase /\ report' = report
    BY <2>1 DEF open, bad, phase, report
  <2> QED
    BY <1>1, <2>2 DEF Promise!vars
<1>4. CASE AllSpawned
  <2>1. main = "spawn" /\ main' = "receive" /\ UNCHANGED <<asked, pc, err>>
    BY <1>4 DEF AllSpawned
  <2>2. open' = open /\ bad' = bad /\ phase' = phase /\ report' = report
    BY <2>1 DEF open, bad, phase, report
  <2> QED
    BY <1>1, <2>2 DEF Promise!vars
<1>5. CASE Return
  <2>1. main = "receive" /\ main' = "returned" /\ UNCHANGED <<asked, failed, pc, err>>
    BY <1>5 DEF Return
  <2>2. /\ \A c \in Calls : pc'[c] = "ended"
        /\ failed' = {c \in asked' : err'[c]}
    BY <1>5, <2>1, CallerReport DEF ReportExact
  <2>3. phase = "on" /\ phase' = "off" /\ open = {} /\ open' = open /\ bad' = bad
    BY <2>1, <2>2 DEF phase, open, bad
  <2>4. report' = bad
    BY <2>1, <2>2 DEF report, bad
  <2> QED
    BY <1>1, <2>3, <2>4 DEF Promise!Return, Promise!Next
<1>6. CASE Retry
  <2>1. /\ main = "returned" /\ failed # {} /\ main' = "spawn" /\ asked' = failed
        /\ \A c \in failed : pc'[c] = "none"
    BY <1>6 DEF Retry
  <2>2. phase = "off" /\ phase' = "on" /\ report = failed /\ report' = {}
    BY <2>1 DEF phase, report
  <2>3. open' = failed /\ bad' = {}
    BY <2>1 DEF open, bad
  <2> QED
    BY <1>1, <2>1, <2>2, <2>3 DEF Promise!Again, Promise!Next
<1> QED
  BY <1>2, <1>3, <1>4, <1>5, <1>6 DEF Caller

\* Scaling down is a Removal, for every list of names, all machines and any failures:
\* each job ends once, a success leaves nothing, and the call returns after all of them
\* with those that failed (scaledownagentpool.go 17-44, deletevm.go 17-120).
THEOREM ScaleDownRemoves == Spec => ImplementsRemoval
<1> SUFFICES Spec => Promise!Spec
  BY DEF ImplementsRemoval
<1>1. PInv /\ [Next]_vars => [Promise!Next]_(Promise!vars)
  <2> SUFFICES ASSUME PInv, [Next]_vars PROVE [Promise!Next]_(Promise!vars)
    OBVIOUS
  <2>1. CASE UNCHANGED vars
    BY <2>1 DEF vars, Promise!vars, phase, open, bad, report, left
  <2> QED
    BY <2>1, CallerStep, GoroutineStep DEF Next
<1> QED
  BY <1>1, PromiseInit, BothInvariants, PTL DEF Spec, Promise!Spec

(***************************************************************************)
(* What every Removal guarantees: a job that is neither open nor bad has   *)
(* nothing left.                                                           *)
(***************************************************************************)
Accounted ==
  /\ open \subseteq Calls /\ bad \subseteq Calls
  /\ \A c \in Calls \ (open \cup bad) : Name[c] \notin left
  /\ phase = "off" => open = {} /\ report = bad

LEMMA AccountedInit == Promise!Init => Accounted
BY DEF Promise!Init, Accounted

LEMMA AccountedStep == Accounted /\ [Promise!Next]_(Promise!vars) => Accounted'
<1> SUFFICES ASSUME Accounted, [Promise!Next]_(Promise!vars) PROVE Accounted'
  OBVIOUS
<1> HIDE DEF phase, open, bad, report, left
<1>1. CASE Promise!Return
  BY <1>1 DEF Promise!Return, Accounted
<1>2. CASE Promise!Again
  BY <1>2 DEF Promise!Again, Accounted
<1>3. ASSUME NEW c \in Calls, Promise!Remove(c) PROVE Accounted'
  BY <1>3 DEF Promise!Remove, Accounted
<1>4. ASSUME NEW c \in Calls, Promise!End(c) PROVE Accounted'
  BY <1>4 DEF Promise!End, Accounted
<1>5. CASE UNCHANGED Promise!vars
  BY <1>5 DEF Promise!vars, Accounted
<1> QED
  BY <1>1, <1>2, <1>3, <1>4, <1>5 DEF Promise!Next

\* What was asked for and is not in the last report is gone, however many calls it took
\* and whatever failed in between (scaledownagentpool.go 32-44).
THEOREM UnreportedIsGone == Spec => []UnreportedAreGone
<1>1. Accounted => UnreportedAreGone
  BY DEF Accounted, UnreportedAreGone, Promise!Settled
<1> QED
  BY <1>1, AccountedInit, AccountedStep, ScaleDownRemoves, PTL
     DEF ImplementsRemoval, Promise!Spec
=============================================================================
