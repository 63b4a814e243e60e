----------------------------- MODULE FwuService -----------------------------
(***************************************************************************)
(* The firmware update service (tfm_fwu_req_mngr.c) on the MCUboot shim    *)
(* (bootloader/mcuboot/tfm_mcuboot_fwu.c), with a swap strategy and        *)
(* support of the TRIAL state.                                             *)
(*                                                                         *)
(* The state of an update is in RAM; what survives a reboot is what the    *)
(* shim wrote to the flash: the image in the secondary slot, its boot      *)
(* magic (the request to swap) and the image_ok flag of the primary slot.  *)
(* An access to the flash that fails may have had its effect or not, and   *)
(* an erase that fails may have erased a part.                             *)
(* The service handles one request at a time.  Requests that write to the  *)
(* flash several times (install, accept, reject) take several steps, and a *)
(* reboot may come between any two.                                        *)
(***************************************************************************)
EXTENDS Naturals, FiniteSets, FiniteSetsExt

CONSTANTS
    NumComps,   \* FWU_COMPONENT_NUMBER
    NumBlocks,  \* blocks of a slot: the first has the header of an image,
                \* the last one its TLVs, the dependencies among them
    Needs,      \* Needs[c]: the new image of c depends on those of Needs[c]
    MaxErrors,  \* bound on failing accesses to the flash
    MaxReboots  \* bound on reboots

Comps == 0 .. NumComps - 1
Blocks == 0 .. NumBlocks - 1

ASSUME FwuAssumption ==
    /\ NumComps \in Nat \ {0}
    /\ NumBlocks \in Nat \ {0}
    /\ Needs \in [Comps -> SUBSET Comps]
    /\ MaxErrors \in Nat /\ MaxReboots \in Nat

VARIABLES
    state,    \* fwu_ctx[].component_state
    inUse,    \* fwu_ctx[].in_use, as a set
    fap,      \* components whose mcuboot_ctx[].fap is set
    primary,  \* the running image of each component and its image_ok flag
    copied,   \* components whose running image was swapped in (copy_done)
    second,   \* the secondary slot: its image, the blocks written, boot magic
    job,      \* the request in progress and the components left to do
    errors, reboots

vars == <<state, inUse, fap, primary, copied, second, job, errors, reboots>>
ram == <<state, inUse, fap>>
running == <<primary, copied>>
flash == <<primary, copied, second>>
bounds == <<errors, reboots>>

Erased == [image |-> "none", blocks |-> {}, magic |-> FALSE]
Idle == [op |-> "none", todo |-> {}, all |-> {}]

(* A flash access that fails.                                              *)
Fail == errors < MaxErrors /\ errors' = errors + 1 /\ UNCHANGED reboots

(* fwu_bootloader_get_image_info with query_state.                         *)
BootState(c) == IF primary[c].ok THEN "READY" ELSE "TRIAL"

(* What tfm_fwu_query returns.                                             *)
Reported(c) == IF c \in inUse THEN state[c] ELSE BootState(c)

SetState(comps, s) == [c \in Comps |-> IF c \in comps THEN s ELSE state[c]]

-----------------------------------------------------------------------------
(* Preparation of an image.                                                *)

(* Mutant: the running image is not asked for.                             *)
MayStartAlways(c) == c \notin inUse

(* A component that is in use is never READY.                              *)
MayStart(c) == c \notin inUse /\ BootState(c) = "READY"

(* An erase of a secondary slot that fails.                                *)
PartlyErased(c) ==
    /\ \E kept \in SUBSET second[c].blocks, magic \in {second[c].magic, FALSE} :
           second' = [second EXCEPT ![c] =
               [image |-> second[c].image, blocks |-> kept, magic |-> magic]]
    /\ Fail

(* tfm_fwu_start and fwu_bootloader_staging_area_init.                     *)
Start(c) ==
    /\ job = Idle
    /\ MayStart(c)
    /\ \/ /\ second' = [second EXCEPT ![c] = Erased]
          /\ fap' = fap \cup {c}
          /\ inUse' = inUse \cup {c}
          /\ state' = [state EXCEPT ![c] = "WRITING"]
          /\ UNCHANGED bounds
       \/ PartlyErased(c) /\ UNCHANGED ram
    /\ UNCHANGED <<running, job>>

(* Mutant: one block too many is accepted.                                 *)
FitsOneMore(b) == b <= NumBlocks

(* The check of flash_area_write (is_range_valid).                         *)
Fits(b) == b < NumBlocks

(* tfm_fwu_write of a block of the new image at any offset that the client *)
(* names.  A write that fails leaves the state alone.                      *)
Write(c, b) ==
    /\ job = Idle
    /\ c \in inUse /\ state[c] = "WRITING"
    /\ c \in fap
    /\ Fits(b)
    /\ LET written == [second EXCEPT ![c] =
                [image |-> "new", blocks |-> second[c].blocks \cup {b},
                 magic |-> second[c].magic]]
       IN  \/ second' = written /\ UNCHANGED bounds
           \/ second' \in {second, written} /\ Fail
    /\ UNCHANGED <<ram, running, job>>

(* tfm_fwu_finish does not ask whether the image is complete.              *)
Finish(c) ==
    /\ job = Idle
    /\ c \in inUse /\ state[c] = "WRITING"
    /\ state' = [state EXCEPT ![c] = "CANDIDATE"]
    /\ UNCHANGED <<inUse, fap, flash, job, bounds>>

(* tfm_fwu_cancel.                                                         *)
Cancel(c) ==
    /\ job = Idle
    /\ c \in inUse /\ state[c] \in {"WRITING", "CANDIDATE"}
    /\ state' = [state EXCEPT ![c] = "FAILED"]
    /\ UNCHANGED <<inUse, fap, flash, job, bounds>>

(* tfm_fwu_clean and fwu_bootloader_clean_component.                       *)
Clean(c) ==
    /\ job = Idle
    /\ c \in inUse /\ state[c] \in {"FAILED", "UPDATED"}
    /\ c \in fap
    /\ \/ /\ second' = [second EXCEPT ![c] = Erased]
          /\ fap' = fap \ {c}
          /\ state' = [state EXCEPT ![c] = "READY"]
          /\ inUse' = inUse \ {c}
          /\ UNCHANGED bounds
       \/ PartlyErased(c) /\ UNCHANGED ram
    /\ UNCHANGED <<running, job>>

-----------------------------------------------------------------------------
(* Installation.                                                           *)

Candidates == {c \in inUse : state[c] = "CANDIDATE"}

(* Mutant: only components in use are asked.                               *)
ForbiddenInUse == \E c \in inUse : state[c] \in {"STAGED", "REJECTED"}

(* The states that forbid an installation: a component in use is not asked *)
(* for TRIAL.                                                              *)
InstallForbidden ==
    \/ \E c \in inUse : state[c] \in {"STAGED", "REJECTED"}
    \/ \E c \in Comps \ inUse : BootState(c) = "TRIAL"

(* ih_magic, and bootutil_tlv_iter_begin, which reads behind the image.    *)
HeaderIsGood(c) == 0 \in second[c].blocks
TlvsAreThere(c) == NumBlocks - 1 \in second[c].blocks

(* Mutant: the secondary slot of a component that is no candidate counts.  *)
NeedsMetBySlot(c) ==
    \A d \in Needs[c] : primary[d].image = "new" \/ HeaderIsGood(d)

(* The dependencies of a candidate: the running image or that of another   *)
(* candidate is new enough.                                                *)
NeedsMet(c) ==
    \A d \in Needs[c] :
        primary[d].image = "new" \/ (d \in Candidates /\ HeaderIsGood(d))

Readable(c) == HeaderIsGood(c) /\ TlvsAreThere(c)

(* Candidates that stop fwu_bootloader_install_image, which checks nothing *)
(* if there is only one image.                                             *)
Unfit == {c \in Candidates : NumComps > 1 /\ ~(Readable(c) /\ NeedsMet(c))}

FailCandidates ==
    /\ state' = SetState(Candidates, "FAILED")
    /\ UNCHANGED <<inUse, fap, flash, job>>

(* tfm_fwu_install up to the first write: a missing dependency changes     *)
(* nothing, an image without header or TLVs or a read that fails ends the  *)
(* update of all candidates.                                               *)
Install ==
    /\ job = Idle
    /\ ~InstallForbidden
    /\ Candidates # {}
    /\ \/ /\ Unfit = {}
          /\ job' = [op |-> "install", todo |-> Candidates, all |-> Candidates]
          /\ UNCHANGED <<ram, flash, bounds>>
       \/ /\ Unfit # {}
          /\ ~Readable(Min(Unfit))
          /\ FailCandidates
          /\ UNCHANGED bounds
       \/ FailCandidates /\ Fail

(* boot_set_pending_multi of one candidate writes its boot magic.          *)
MagicSet(c) == [second EXCEPT ![c].magic = TRUE]

(* If it fails, the candidates before it are rejected; its own magic may   *)
(* have been written.                                                      *)
SetPending ==
    /\ job.op = "install"
    /\ job.todo # {}
    /\ LET c == Min(job.todo)
       IN  \/ /\ second' = MagicSet(c)
              /\ job' = [job EXCEPT !.todo = @ \ {c}]
              /\ UNCHANGED bounds
           \/ /\ job' = [job EXCEPT !.op = "undo", !.todo = {d \in job.all : d < c}]
              /\ second' \in {second, MagicSet(c)}
              /\ Fail
    /\ UNCHANGED <<ram, running>>

InstallDone ==
    /\ job.op = "install"
    /\ job.todo = {}
    /\ state' = SetState(job.all, "STAGED")
    /\ job' = Idle
    /\ UNCHANGED <<inUse, fap, flash, bounds>>

(* Mutant: the boot magic of a staged image is left in the flash.          *)
MagicKept(c) == second

(* erase_boot_magic.                                                       *)
MagicErased(c) == [second EXCEPT ![c].magic = FALSE]

UndoPending ==
    /\ job.op = "undo"
    /\ job.todo # {}
    /\ LET c == Min(job.todo)
       IN  \/ /\ second' = MagicErased(c)
              /\ job' = [job EXCEPT !.todo = @ \ {c}]
              /\ UNCHANGED bounds
           \/ /\ job' = [job EXCEPT !.todo = {}]
              /\ second' \in {second, MagicErased(c)}
              /\ Fail
    /\ UNCHANGED <<ram, running>>

UndoDone ==
    /\ job.op = "undo"
    /\ job.todo = {}
    /\ state' = SetState(job.all, "FAILED")
    /\ job' = Idle
    /\ UNCHANGED <<inUse, fap, flash, bounds>>

-----------------------------------------------------------------------------
(* Trial of the running images.                                            *)

InTrial(c) == Reported(c) = "TRIAL"
Trials == {c \in Comps : InTrial(c)}

(* Mutant: the secondary slots are not opened.                             *)
OpenedNone == fap

(* fwu_bootloader_mark_image_accepted opens the secondary slots.           *)
Opened == fap \cup Trials

Reserve(comps) == inUse' = inUse \cup comps /\ state' = SetState(comps, "TRIAL")

(* tfm_fwu_accept: a context is reserved for every component in trial.     *)
(* The state of a running image may be unreadable, and a slot may fail to  *)
(* open.                                                                   *)
Accept ==
    /\ job = Idle
    /\ Trials # {}
    /\ \/ /\ Reserve(Trials)
          /\ fap' = Opened
          /\ job' = [op |-> "accept", todo |-> Trials, all |-> Trials]
          /\ UNCHANGED bounds
       \/ /\ Reserve(Trials)
          /\ \E d \in Trials : fap' = fap \cup {c \in Trials : c < d}
          /\ UNCHANGED job
          /\ Fail
       \/ /\ \E d \in Comps \ inUse : Reserve({c \in Trials : c < d})
          /\ UNCHANGED <<fap, job>>
          /\ Fail
    /\ UNCHANGED flash

Confirmed(c) == [primary EXCEPT ![c].ok = TRUE]

(* boot_set_confirmed_multi of one component.  If it fails the request     *)
(* ends; what it erases is the flag of the failing component's secondary   *)
(* slot, which nobody set.                                                 *)
Confirm ==
    /\ job.op = "accept"
    /\ job.todo # {}
    /\ LET c == Min(job.todo)
       IN  \/ /\ primary' = Confirmed(c)
              /\ job' = [job EXCEPT !.todo = @ \ {c}]
              /\ UNCHANGED bounds
           \/ job' = Idle /\ primary' \in {primary, Confirmed(c)} /\ Fail
    /\ UNCHANGED <<ram, copied, second>>

AcceptDone ==
    /\ job.op = "accept"
    /\ job.todo = {}
    /\ state' = SetState(job.all, "UPDATED")
    /\ job' = Idle
    /\ UNCHANGED <<inUse, fap, flash, bounds>>

(* tfm_fwu_reject visits every component, if one of them is staged or in   *)
(* trial.                                                                  *)
Reject ==
    /\ job = Idle
    /\ \E c \in Comps : Reported(c) \in {"STAGED", "TRIAL"}
    /\ job' = [op |-> "reject", todo |-> Comps, all |-> Comps]
    /\ UNCHANGED <<ram, flash, bounds>>

RejectStep ==
    /\ job.op = "reject"
    /\ job.todo # {}
    /\ LET c == Min(job.todo)
       IN  \/ /\ c \in inUse /\ state[c] = "STAGED"
              /\ state' = [state EXCEPT ![c] = "FAILED"]
              /\ \/ /\ second' = MagicErased(c)
                    /\ job' = [job EXCEPT !.todo = @ \ {c}]
                    /\ UNCHANGED bounds
                 \/ second' \in {second, MagicErased(c)} /\ job' = Idle /\ Fail
              /\ UNCHANGED inUse
           \/ /\ InTrial(c)
              /\ inUse' = inUse \cup {c}
              /\ state' = [state EXCEPT ![c] = "REJECTED"]
              /\ job' = [job EXCEPT !.todo = @ \ {c}]
              /\ UNCHANGED <<second, bounds>>
           \/ /\ Reported(c) \notin {"STAGED", "TRIAL"}
              /\ job' = [job EXCEPT !.todo = @ \ {c}]
              /\ UNCHANGED <<state, inUse, second, bounds>>
           \/ /\ c \notin inUse
              /\ job' = Idle
              /\ UNCHANGED <<state, inUse, second>>
              /\ Fail
    /\ UNCHANGED <<fap, running>>

RejectDone ==
    /\ job.op = "reject"
    /\ job.todo = {}
    /\ job' = Idle
    /\ UNCHANGED <<ram, flash, bounds>>

-----------------------------------------------------------------------------
(* External: MCUboot swaps in a set of pending, complete images whose      *)
(* dependencies then hold, erases or leaves the other pending ones, and    *)
(* reverts a running image that was swapped in and not confirmed.          *)
Pending == {c \in Comps : second[c].magic}
Reverted == {c \in copied \ Pending : ~primary[c].ok}

SwapOf(c, confirmed) ==
    [run |-> [image |-> second[c].image, ok |-> confirmed],
     old |-> [image |-> primary[c].image, blocks |-> Blocks, magic |-> FALSE]]

BootChoices ==
    {s \in SUBSET Pending :
        \A c \in s :
            /\ second[c].blocks = Blocks
            /\ second[c].image = "new" => \A d \in Needs[c] :
                    (IF d \in s \cup Reverted THEN second[d].image ELSE primary[d].image) = "new"}

Boot(swapped, erased) ==
    /\ primary' = [c \in Comps |->
           IF c \in swapped THEN SwapOf(c, FALSE).run
           ELSE IF c \in Reverted THEN SwapOf(c, TRUE).run ELSE primary[c]]
    /\ second' = [c \in Comps |->
           IF c \in swapped \cup Reverted THEN SwapOf(c, TRUE).old
           ELSE IF c \in erased THEN Erased ELSE second[c]]
    /\ copied' = copied \cup swapped

(* tfm_fwu_request_reboot, or a power failure at any point.                *)
Reboot ==
    /\ reboots < MaxReboots
    /\ reboots' = reboots + 1
    /\ \E swapped \in BootChoices :
           \E erased \in SUBSET (Pending \ swapped) : Boot(swapped, erased)
    /\ state' = [c \in Comps |-> "READY"]
    /\ inUse' = {} /\ fap' = {}
    /\ job' = Idle
    /\ UNCHANGED errors

-----------------------------------------------------------------------------
Init ==
    /\ state = [c \in Comps |-> "READY"]
    /\ inUse = {} /\ fap = {}
    /\ \E confirmed \in BOOLEAN :  \* MCUBOOT_CONFIRM_IMAGE
           primary = [c \in Comps |-> [image |-> "old", ok |-> confirmed]]
    /\ copied = {}
    /\ second = [c \in Comps |-> Erased]
    /\ job = Idle
    /\ errors = 0 /\ reboots = 0

Next ==
    \/ \E c \in Comps : Start(c) \/ Finish(c) \/ Cancel(c) \/ Clean(c)
    \/ \E c \in Comps, b \in 0 .. NumBlocks : Write(c, b)
    \/ Install \/ SetPending \/ InstallDone \/ UndoPending \/ UndoDone
    \/ Accept \/ Confirm \/ AcceptDone
    \/ Reject \/ RejectStep \/ RejectDone
    \/ Reboot

Spec == Init /\ [][Next]_vars

-----------------------------------------------------------------------------
(* Properties.                                                             *)

States == {"READY", "WRITING", "CANDIDATE", "STAGED", "FAILED", "TRIAL", "REJECTED",
           "UPDATED"}

(* Type correctness; no block is written outside of a slot.                *)
TypeOK ==
    /\ state \in [Comps -> States]
    /\ inUse \subseteq Comps /\ fap \subseteq Comps
    /\ primary \in [Comps -> [image : {"old", "new"}, ok : BOOLEAN]]
    /\ copied \subseteq Comps
    /\ second \in [Comps -> [image : {"none", "old", "new"}, blocks : SUBSET Blocks,
                             magic : BOOLEAN]]
    /\ job \in [op : {"none", "install", "undo", "accept", "reject"},
                todo : SUBSET Comps, all : SUBSET Comps]
    /\ errors \in 0 .. MaxErrors /\ reboots \in 0 .. MaxReboots

(* While an image is not confirmed no request asks for another one, and if *)
(* it was swapped in the image before it is complete in the secondary      *)
(* slot: the boot loader can always revert (tfm_fwu_start and              *)
(* tfm_fwu_clean write to that slot).                                      *)
RevertImageIntact ==
    \A c \in Comps : ~primary[c].ok =>
        ~second[c].magic /\ (c \in copied => second[c].blocks = Blocks)

(* A component that failed or was updated can be cleaned: the shim has its *)
(* secondary slot open (fwu_bootloader_clean_component).                   *)
CleanPossible == \A c \in inUse : state[c] \in {"FAILED", "UPDATED"} => c \in fap

(* Images are installed and staged with the images they depend on: those   *)
(* run already or are installed with them (fwu_bootloader_install_image).  *)
(* A reject that fails half-way leaves some of them STAGED, so that the    *)
(* second part is about the service as long as no access has failed.       *)
DependenciesStaged ==
    /\ job.op = "install" =>
           \A c \in job.all : \A d \in Needs[c] : primary[d].image = "new" \/ d \in job.all
    /\ errors = 0 /\ job = Idle => \A c \in inUse : state[c] = "STAGED" =>
           \A d \in Needs[c] : primary[d].image = "new" \/ Reported(d) = "STAGED"

(* tfm_fwu_install: no installation starts while a component is STAGED, in *)
(* TRIAL or REJECTED, as long as no access has failed.  After an accept    *)
(* that failed a component in TRIAL is in use and no longer asked for.     *)
InstallExcluded ==
    errors = 0 /\ job.op = "install" =>
        \A c \in Comps : Reported(c) \notin {"STAGED", "TRIAL", "REJECTED"}

Shown == [c \in Comps |-> Reported(c)]
Factory == Comps \ copied
Steps == INSTANCE FwuStates WITH shown <- Shown, factory <- Factory

(* What clients see of a component follows the states of the PSA firmware  *)
(* update interface, over reboots too (all handlers, and what the shim     *)
(* leaves in the flash), as long as no access to the flash has failed.     *)
ImplementsStates == Steps!Init /\ [][errors' = 0 => Steps!Next]_<<Shown, Factory>>

=============================================================================
