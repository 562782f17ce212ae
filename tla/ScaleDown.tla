----------------------------- MODULE ScaleDown -----------------------------
(***************************************************************************)
(* Scaling down by deleting machines: ScaleDownVMs of pkg/operations       *)
(* starts one goroutine per name, each runs CleanDeleteVirtualMachine      *)
(* (deletevm.go) and sends its result on a buffered channel; the caller's  *)
(* goroutine receives as many results as there are names and closes the    *)
(* channel.  Every call to Azure can fail, before or after it took effect, *)
(* and the caller can try again with the names that failed.                *)
(*                                                                         *)
(* What belongs to a machine here is what deletevm.go deletes after it:    *)
(* its first NIC (36), its OS disk (25-33) and the role assignments of its *)
(* identity.  Its data disks and other NICs are never looked at and stay.  *)
(***************************************************************************)
EXTENDS Integers, FiniteSets

CONSTANTS
  Calls,      \* the positions of vmNames
  VMs,
  Name,       \* Name[c]: the machine at position c; a name can occur twice
  Machine,    \* Machine[v]: what GetVirtualMachine says of v
  Roles,      \* role assignments
  MaxFaults   \* bound: how many calls to Azure fail

DiskKinds == {"vhd",      \* a blob in a storage account
              "managed",  \* a managed disk with a name
              "unnamed",  \* a managed disk whose name is not set
              "unknown"}  \* neither a VHD nor a managed disk

ASSUME CallsAssumption ==
  /\ IsFiniteSet(Calls)
  /\ Name \in [Calls -> VMs]
ASSUME MachineAssumption ==
  Machine \in [VMs -> [nic : BOOLEAN, disk : DiskKinds, identity : BOOLEAN,
                       roles : SUBSET Roles]]
ASSUME FaultsAssumption == MaxFaults \in Nat

VARIABLES
  \* The caller's goroutine.
  main,      \* "spawn", "receive" or "returned"
  asked,     \* the positions this call of ScaleDownVMs was given
  received,  \* the loop variable of the receiving loop
  failed,    \* failedVMDeletions
  \* The goroutines and the channel.
  pc,        \* where the goroutine of a position is
  err,       \* its result is an error
  listed,    \* the role assignments it still has to delete
  channel,   \* the positions whose results are in errChan
  closed,    \* errChan is closed
  \* Azure.
  vms, nics, disks,  \* the machines that exist, and those whose NIC or disk does
  assigned,          \* the role assignments a machine's identity still has
  faults             \* the number of calls that failed so far

caller     == <<main, asked, received, failed>>
goroutines == <<pc, err, listed, channel, closed>>
azure      == <<vms, nics, disks, assigned>>
vars       == <<caller, goroutines, azure, faults>>

Init ==
  /\ main = "spawn"
  /\ asked = Calls
  /\ received = 0
  /\ failed = {}
  /\ pc = [c \in Calls |-> "none"]
  /\ err = [c \in Calls |-> FALSE]
  /\ listed = [c \in Calls |-> {}]
  /\ channel = {}
  /\ closed = FALSE
  /\ vms = VMs
  /\ nics = {v \in VMs : Machine[v].nic}
  /\ disks = {v \in VMs : Machine[v].disk # "unknown"}
  /\ assigned = [v \in VMs |-> IF Machine[v].identity THEN Machine[v].roles ELSE {}]
  /\ faults = 0

(***************************************************************************)
(* ScaleDownVMs.                                                           *)
(***************************************************************************)
Spawn(c) ==
  /\ main = "spawn"
  /\ c \in asked
  /\ pc[c] = "none"
  /\ pc' = [pc EXCEPT ![c] = "get"]
  /\ UNCHANGED <<caller, err, listed, channel, closed, azure, faults>>

AllSpawned ==
  /\ main = "spawn"
  /\ \A c \in asked : pc[c] # "none"
  /\ main' = "receive"
  /\ UNCHANGED <<asked, received, failed, goroutines, azure, faults>>

\* Mutant: the list holds the last failure only.
Receive_Last(c) ==
  /\ main = "receive"
  /\ received < Cardinality(asked)
  /\ c \in channel
  /\ channel' = channel \ {c}
  /\ failed' = IF err[c] THEN {c} ELSE failed
  /\ received' = received + 1
  /\ UNCHANGED <<main, asked, pc, err, listed, closed, azure, faults>>

Receive(c) ==
  /\ main = "receive"
  /\ received < Cardinality(asked)
  /\ c \in channel
  /\ channel' = channel \ {c}
  /\ failed' = IF err[c] THEN failed \cup {c} ELSE failed
  /\ received' = received + 1
  /\ UNCHANGED <<main, asked, pc, err, listed, closed, azure, faults>>

Return_Early ==
  /\ main = "receive"
  /\ \A c \in asked : pc[c] \in {"send", "ended"}
  /\ main' = "returned" /\ closed' = TRUE
  /\ UNCHANGED <<asked, received, failed, pc, err, listed, channel, azure, faults>>

Return ==
  /\ main = "receive"
  /\ received = Cardinality(asked)
  /\ main' = "returned"
  /\ closed' = TRUE
  /\ UNCHANGED <<asked, received, failed, pc, err, listed, channel, azure, faults>>

(***************************************************************************)
(* CleanDeleteVirtualMachine, for the goroutine at position c.             *)
(***************************************************************************)
At(c, here) == pc[c] = here

Fault ==
  /\ faults < MaxFaults
  /\ faults' = faults + 1

Succeed(c, next) ==
  /\ pc' = [pc EXCEPT ![c] = next]
  /\ UNCHANGED <<err, faults>>

Fail(c) ==
  /\ pc' = [pc EXCEPT ![c] = "send"]
  /\ err' = [err EXCEPT ![c] = TRUE]

\* A call to Azure that succeeds, or whose answer is an error all the same.
Call(c, here, next) ==
  /\ At(c, here)
  /\ \/ Succeed(c, next)
     \/ Fail(c) /\ Fault

AfterNIC(v)  == IF Machine[v].disk = "unnamed" THEN "identity" ELSE "disk"
AfterVM(v)   == IF Machine[v].nic THEN "nic" ELSE AfterNIC(v)

\* Mutant: a machine that is not found has been deleted already.
GetVM_GoneIsDone(c) ==
  /\ IF Name[c] \in vms THEN Call(c, "get", "vm") ELSE At(c, "get") /\ Succeed(c, "send")
  /\ UNCHANGED <<caller, listed, channel, closed, azure>>

GetVM(c) ==
  /\ \/ /\ Name[c] \in vms
        /\ Machine[Name[c]].disk # "unknown"
        /\ Call(c, "get", "vm")
     \/ /\ Name[c] \notin vms \/ Machine[Name[c]].disk = "unknown"
        /\ At(c, "get")
        /\ Fail(c)
        /\ UNCHANGED faults
  /\ UNCHANGED <<caller, listed, channel, closed, azure>>

DeleteVM_AfterTheRest(c) ==
  /\ Call(c, "vm", AfterVM(Name[c]))
  /\ vms' = IF pc'[c] \in {"nic", "disk", "identity"} THEN vms ELSE vms \ {Name[c]}
  /\ UNCHANGED <<caller, listed, channel, closed, nics, disks, assigned>>

\* To delete what is gone already is a success.
DeleteVM(c) ==
  /\ Call(c, "vm", AfterVM(Name[c]))
  /\ vms' = vms \ {Name[c]}
  /\ UNCHANGED <<caller, listed, channel, closed, nics, disks, assigned>>

DeleteNIC(c) ==
  /\ Call(c, "nic", AfterNIC(Name[c]))
  /\ nics' = nics \ {Name[c]}
  /\ UNCHANGED <<caller, listed, channel, closed, vms, disks, assigned>>

\* But a blob that is gone is an error.
DeleteDisk(c) ==
  /\ \/ /\ Name[c] \in disks \/ Machine[Name[c]].disk = "managed"
        /\ Call(c, "disk", "identity")
     \/ /\ Name[c] \notin disks /\ Machine[Name[c]].disk = "vhd"
        /\ At(c, "disk")
        /\ Fail(c)
        /\ UNCHANGED faults
  /\ disks' = disks \ {Name[c]}
  /\ UNCHANGED <<caller, listed, channel, closed, vms, nics, assigned>>

ListRoleAssignments(c) ==
  /\ IF Machine[Name[c]].identity
     THEN /\ Call(c, "identity", "roles")
          /\ listed' = [listed EXCEPT ![c] = assigned[Name[c]]]
     ELSE /\ At(c, "identity")
          /\ Succeed(c, "send")
          /\ UNCHANGED listed
  /\ UNCHANGED <<caller, channel, closed, azure>>

DeleteRoleAssignment_First(c) ==
  /\ At(c, "roles")
  /\ Succeed(c, "send")
  /\ listed' = [listed EXCEPT ![c] = {}]
  /\ assigned' = [assigned EXCEPT ![Name[c]] = @ \ {CHOOSE r \in Roles : TRUE}]
  /\ UNCHANGED <<caller, channel, closed, vms, nics, disks>>

DeleteRoleAssignment(c) ==
  /\ \/ \E r \in listed[c] :
          /\ Call(c, "roles", "roles")
          /\ listed' = [listed EXCEPT ![c] = @ \ {r}]
          /\ assigned' = [assigned EXCEPT ![Name[c]] = @ \ {r}]
     \/ /\ listed[c] = {}
        /\ At(c, "roles")
        /\ Succeed(c, "send")
        /\ UNCHANGED <<listed, assigned>>
  /\ UNCHANGED <<caller, channel, closed, vms, nics, disks>>

\* A call fails without an effect.
CallFails(c) ==
  /\ \/ pc[c] \in {"get", "vm", "nic", "disk"}
     \/ pc[c] = "identity" /\ Machine[Name[c]].identity
     \/ pc[c] = "roles" /\ listed[c] # {}
  /\ Fail(c)
  /\ Fault
  /\ UNCHANGED <<caller, listed, channel, closed, azure>>

Send_NotOnError(c) ==
  /\ At(c, "send")
  /\ channel' = IF err[c] THEN channel ELSE channel \cup {c}
  /\ pc' = [pc EXCEPT ![c] = "ended"]
  /\ UNCHANGED <<caller, err, listed, closed, azure, faults>>

\* The channel has room for every result, so the goroutine does not wait.
Send(c) ==
  /\ At(c, "send")
  /\ channel' = channel \cup {c}
  /\ pc' = [pc EXCEPT ![c] = "ended"]
  /\ UNCHANGED <<caller, err, listed, closed, azure, faults>>

\* The caller asks again for what failed, on a channel of its own.
Retry ==
  /\ main = "returned"
  /\ failed # {}
  /\ main' = "spawn"
  /\ asked' = failed
  /\ received' = 0
  /\ failed' = {}
  /\ pc' = [c \in Calls |-> IF c \in failed THEN "none" ELSE pc[c]]
  /\ err' = [c \in Calls |-> IF c \in failed THEN FALSE ELSE err[c]]
  /\ closed' = FALSE
  /\ UNCHANGED <<listed, channel, azure, faults>>

Caller ==
  \/ \E c \in Calls : Spawn(c) \/ Receive(c)
  \/ AllSpawned \/ Return \/ Retry

CleanDelete(c) ==
  \/ GetVM(c) \/ DeleteVM(c) \/ DeleteNIC(c) \/ DeleteDisk(c)
  \/ ListRoleAssignments(c) \/ DeleteRoleAssignment(c)
  \/ CallFails(c) \/ Send(c)

Next == Caller \/ \E c \in Calls : CleanDelete(c)

Spec == Init /\ [][Next]_vars

\* The Go scheduler runs every goroutine, and Azure answers every call.
FairSpec == Spec /\ WF_vars(Caller) /\ \A c \in Calls : WF_vars(CleanDelete(c))
PCs == {"none", "get", "vm", "nic", "disk", "identity", "roles", "send", "ended"}

TypeOK ==
  /\ main \in {"spawn", "receive", "returned"}
  /\ asked \subseteq Calls /\ failed \subseteq asked /\ channel \subseteq asked
  /\ received \in 0 .. Cardinality(asked)
  /\ pc \in [Calls -> PCs] /\ err \in [Calls -> BOOLEAN]
  /\ listed \in [Calls -> SUBSET Roles]
  /\ closed \in BOOLEAN
  /\ vms \subseteq VMs /\ nics \subseteq VMs /\ disks \subseteq VMs
  /\ assigned \in [VMs -> SUBSET Roles]
  /\ faults \in 0 .. MaxFaults

(***************************************************************************)
(* Safety.                                                                 *)
(***************************************************************************)

\* A machine that still exists keeps its NIC, its disk and its role assignments,
\* whatever failed (deletevm.go:46-113: they go after the machine).
LiveVMsIntact ==
  \A v \in vms :
    /\ Machine[v].nic => v \in nics
    /\ Machine[v].disk # "unknown" => v \in disks
    /\ Machine[v].identity => assigned[v] = Machine[v].roles

\* When the deletion of a machine succeeds, the machine, its first NIC, its OS disk and
\* its role assignments are gone, even if its name occurs twice or an earlier attempt
\* failed.  A managed disk without a name stays: the code warns and goes on (82-83).
SuccessIsClean ==
  \A c \in Calls : pc[c] = "ended" /\ ~err[c] =>
    /\ Name[c] \notin vms \cup nics
    /\ Machine[Name[c]].disk # "unnamed" => Name[c] \notin disks
    /\ assigned[Name[c]] = {}

\* When ScaleDownVMs returns, every goroutine has ended and the list it returns
\* names exactly the deletions that failed; so nothing is ever sent on the channel
\* it closed (scaledownagentpool.go:20-43).
ReportExact ==
  main = "returned" =>
    /\ closed
    /\ \A c \in Calls : pc[c] = "ended"
    /\ failed = {c \in asked : err[c]}
    /\ channel = {}

(***************************************************************************)
(* What scaling down promises (Removal).  A goroutine's job has ended when *)
(* its result is on the channel.                                           *)
(***************************************************************************)
phase  == IF main = "returned" THEN "off" ELSE "on"
open   == {c \in asked : pc[c] # "ended"}
bad    == {c \in asked : pc[c] = "ended" /\ err[c]}
report == IF main = "returned" THEN failed ELSE {}

\* The machines with something left that the tool would delete: not a disk without a name.
left == vms \cup nics \cup {v \in disks : Machine[v].disk # "unnamed"}
            \cup {v \in VMs : assigned[v] # {}}

Promise == INSTANCE Removal WITH Jobs <- Calls, Machines <- VMs, Target <- Name, whole <- vms

\* Goroutines, channel and failures included, scaling down is a Removal: each deletion
\* ends once, a success leaves no machine, first NIC, named OS disk or role assignment, and
\* ScaleDownVMs returns after all of them with those that failed
\* (scaledownagentpool.go:17-44, deletevm.go:17-120).
ImplementsRemoval == Promise!Spec

\* However often the caller tries again with what was reported, the machines not in the
\* last report are gone, and what the tool deletes after a machine with them.
UnreportedAreGone == Promise!Settled

(***************************************************************************)
(* Liveness.                                                               *)
(***************************************************************************)

\* ScaleDownVMs returns, whatever fails: each goroutine sends one result, and the
\* caller waits for no more (scaledownagentpool.go:23-35).
AlwaysReturns == []<>(main = "returned")
=============================================================================
