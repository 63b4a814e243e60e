-------------------------- MODULE FwuServiceProofs --------------------------
(***************************************************************************)
(* The firmware update service for every number of components, blocks,     *)
(* reboots and failing accesses and all dependencies.                      *)
(***************************************************************************)
EXTENDS FwuService, WellFoundedInduction, TLAPS

(* A request to write, at any offset.                                      *)
WriteAny(c) == \E b \in 0 .. NumBlocks : Write(c, b)

(* What the safety of the secondary slots rests on: outside of TRIAL and   *)
(* REJECTED a component in use has its slot open and runs a confirmed      *)
(* image, so that the slot holds no image that is needed for a revert.     *)
SlotIsFree(c) == c \in fap /\ primary[c].ok

SlotsInUseAreFree ==
    \A c \in inUse : state[c] \notin {"TRIAL", "REJECTED"} => SlotIsFree(c)

(* The request in progress works on components whose states it has         *)
(* checked, and no other request changes them meanwhile.                   *)
JobIsFresh ==
    /\ job.todo \subseteq job.all
    /\ job.op \in {"install", "undo"} =>
           \A c \in job.all : c \in inUse /\ state[c] = "CANDIDATE"
    /\ job.op = "accept" =>
           \A c \in job.all : c \in fap /\ (c \in job.todo \/ primary[c].ok)

(* A slot in which something was written holds an image.                   *)
WrittenSlotHasImage == \A c \in Comps : second[c].blocks # {} => second[c].image # "none"

SlotsIntact == RevertImageIntact /\ WrittenSlotHasImage

IInv == TypeOK /\ SlotsIntact /\ SlotsInUseAreFree /\ JobIsFresh

-----------------------------------------------------------------------------
(* The first component to do is one of those to do.                        *)
LEMMA MinInSet ==
    ASSUME NEW S, S \subseteq Nat, S # {}
    PROVE  Min(S) \in S
<1> DEFINE R == {ss \in Nat \X Nat : ss[1] < ss[2]}
<1>1. IsWellFoundedOn(R, Nat)
    BY NatLessThanWellFounded, Zenon DEF OpToRel
<1>2. PICK x \in S : \A y \in S : ~(<<y, x>> \in R)
    <2> HIDE DEF R
    <2> QED
        BY <1>1, WFMin
<1>3. ASSUME NEW y \in S
      PROVE  x <= y
    <2>1. x \in Nat /\ y \in Nat
        OBVIOUS
    <2>2. ~(<<y, x>> \in R)
        BY <1>2
    <2>3. ~(y < x)
        BY <2>1, <2>2
    <2> QED
        BY <2>1, <2>3
<1> QED
    BY <1>3 DEF Min

LEMMA FirstToDo ==
    ASSUME TypeOK, job.todo # {}
    PROVE  Min(job.todo) \in job.todo /\ Min(job.todo) \in Comps
<1>1. job.todo \subseteq Comps
    BY DEF TypeOK
<1>2. Comps \subseteq Nat
    BY FwuAssumption DEF Comps
<1> QED
    BY <1>1, <1>2, MinInSet

(* A bound on failures is not exceeded.                                    *)
LEMMA FailIsBounded ==
    ASSUME TypeOK, Fail
    PROVE  errors' \in 0 .. MaxErrors /\ reboots' \in 0 .. MaxReboots
BY FwuAssumption DEF TypeOK, Fail

(* The boot magic of a slot is written on its own.                         *)
LEMMA MagicWritten ==
    ASSUME TypeOK, NEW c \in Comps, NEW b \in BOOLEAN,
           second' = [second EXCEPT ![c].magic = b]
    PROVE  /\ second' \in [Comps -> [image : {"none", "old", "new"}, blocks : SUBSET Blocks,
                                     magic : BOOLEAN]]
           /\ \A d \in Comps : /\ second'[d].image = second[d].image
                               /\ second'[d].blocks = second[d].blocks
                               /\ second'[d].magic = IF d = c THEN b ELSE second[d].magic
<1>1. second[c] \in [image : {"none", "old", "new"}, blocks : SUBSET Blocks, magic : BOOLEAN]
    BY DEF TypeOK
<1>2. second' = [second EXCEPT ![c] = [image |-> second[c].image,
                                       blocks |-> second[c].blocks, magic |-> b]]
    <2>1. [second[c] EXCEPT !.magic = b]
              = [image |-> second[c].image, blocks |-> second[c].blocks, magic |-> b]
        BY <1>1
    <2> QED
        BY <2>1
<1> QED
    BY <1>1, <1>2 DEF TypeOK

(* So is the image_ok flag of the running image.                           *)
LEMMA OkWritten ==
    ASSUME TypeOK, NEW c \in Comps, NEW b \in BOOLEAN,
           primary' = [primary EXCEPT ![c].ok = b]
    PROVE  /\ primary' \in [Comps -> [image : {"old", "new"}, ok : BOOLEAN]]
           /\ \A d \in Comps : primary'[d].ok = IF d = c THEN b ELSE primary[d].ok
<1>1. primary[c] \in [image : {"old", "new"}, ok : BOOLEAN]
    BY DEF TypeOK
<1>2. primary' = [primary EXCEPT ![c] = [image |-> primary[c].image, ok |-> b]]
    <2>1. [primary[c] EXCEPT !.ok = b] = [image |-> primary[c].image, ok |-> b]
        BY <1>1
    <2> QED
        BY <2>1
<1> QED
    BY <1>1, <1>2 DEF TypeOK

(* The images after a swap.                                                *)
LEMMA SwappedImages ==
    ASSUME NEW c, NEW b \in BOOLEAN, NEW m \in BOOLEAN,
           second[c].image \in {"old", "new"}, primary[c].image \in {"old", "new"}
    PROVE  /\ [image |-> second[c].image, ok |-> b] \in [image : {"old", "new"}, ok : BOOLEAN]
           /\ [image |-> primary[c].image, blocks |-> Blocks, magic |-> m]
                 \in [image : {"none", "old", "new"}, blocks : SUBSET Blocks, magic : BOOLEAN]
           /\ [image |-> second[c].image, ok |-> b].ok = b
           /\ [image |-> primary[c].image, blocks |-> Blocks, magic |-> m].magic = m
BY FwuAssumption

(* A slot has blocks.                                                      *)
LEMMA SlotHasBlocks == Blocks # {}
BY FwuAssumption DEF Blocks

LEMMA InitHolds == Init => IInv
BY FwuAssumption
DEF Init, IInv, TypeOK, SlotsIntact, RevertImageIntact, WrittenSlotHasImage, SlotsInUseAreFree, JobIsFresh, States, Erased, Idle, Comps

-----------------------------------------------------------------------------
(* Preparation of an image.                                                *)

(* What is written to the slot of a component that runs a confirmed image  *)
(* does no harm.                                                           *)
LEMMA SlotWritten ==
    ASSUME IInv, NEW c \in Comps, primary[c].ok,
           NEW r \in [image : {"none", "old", "new"}, blocks : SUBSET Blocks, magic : BOOLEAN],
           r.blocks # {} => r.image # "none",
           second' = [second EXCEPT ![c] = r], UNCHANGED <<ram, running, job>>,
           errors' \in 0 .. MaxErrors, reboots' \in 0 .. MaxReboots
    PROVE  IInv'
<1>1. /\ second' \in [Comps -> [image : {"none", "old", "new"}, blocks : SUBSET Blocks,
                                magic : BOOLEAN]]
      /\ \A d \in Comps : second'[d] = IF d = c THEN r ELSE second[d]
    BY DEF IInv, TypeOK
<1>2. TypeOK'
    BY <1>1 DEF IInv, TypeOK, ram, running
<1>3. SlotsIntact'
    BY <1>1 DEF IInv, SlotsIntact, RevertImageIntact, WrittenSlotHasImage, running
<1>4. SlotsInUseAreFree' /\ JobIsFresh'
    BY DEF IInv, SlotsInUseAreFree, SlotIsFree, JobIsFresh, ram, running
<1> QED
    BY <1>2, <1>3, <1>4 DEF IInv

LEMMA PartlyErasedKeeps ==
    ASSUME IInv, NEW c \in Comps, primary[c].ok, PartlyErased(c),
           UNCHANGED <<ram, running, job>>
    PROVE  IInv'
<1>1. PICK kept \in SUBSET second[c].blocks, magic \in {second[c].magic, FALSE} :
          second' = [second EXCEPT ![c] =
              [image |-> second[c].image, blocks |-> kept, magic |-> magic]]
    BY DEF PartlyErased
<1>2. second[c] \in [image : {"none", "old", "new"}, blocks : SUBSET Blocks, magic : BOOLEAN]
    BY DEF IInv, TypeOK
<1> DEFINE r == [image |-> second[c].image, blocks |-> kept, magic |-> magic]
<1>3. /\ r \in [image : {"none", "old", "new"}, blocks : SUBSET Blocks, magic : BOOLEAN]
      /\ r.blocks # {} => r.image # "none"
    BY <1>2 DEF IInv, SlotsIntact, WrittenSlotHasImage
<1>4. errors' \in 0 .. MaxErrors /\ reboots' \in 0 .. MaxReboots
    BY FailIsBounded DEF PartlyErased, IInv
<1>5. second' = [second EXCEPT ![c] = r]
    BY <1>1
<1> HIDE DEF r
<1> QED
    BY <1>3, <1>4, <1>5, SlotWritten

LEMMA WriteKeeps ==
    ASSUME IInv, NEW c \in Comps, WriteAny(c)
    PROVE  IInv'
<1>1. PICK b \in 0 .. NumBlocks : Write(c, b)
    BY DEF WriteAny
<1> DEFINE r == [image |-> "new", blocks |-> second[c].blocks \cup {b},
                 magic |-> second[c].magic]
<1>2. second[c] \in [image : {"none", "old", "new"}, blocks : SUBSET Blocks, magic : BOOLEAN]
    BY DEF IInv, TypeOK
<1>3. b \in Blocks
    BY <1>1, FwuAssumption DEF Write, Fits, Blocks
<1>4. /\ r \in [image : {"none", "old", "new"}, blocks : SUBSET Blocks, magic : BOOLEAN]
      /\ r.blocks # {} => r.image # "none"
    BY <1>2, <1>3
<1>5. primary[c].ok /\ UNCHANGED <<ram, running, job>>
    BY <1>1 DEF Write, IInv, SlotsInUseAreFree, SlotIsFree
<1>6. errors' \in 0 .. MaxErrors /\ reboots' \in 0 .. MaxReboots
    BY <1>1, FailIsBounded DEF Write, IInv, TypeOK, bounds
<1>7. second' = [second EXCEPT ![c] = r] \/ second' = second
    BY <1>1 DEF Write
<1>8. CASE second' = [second EXCEPT ![c] = r]
    <2> HIDE DEF r
    <2> QED
        BY <1>4, <1>5, <1>6, <1>8, SlotWritten
<1>9. CASE second' = second
    BY <1>5, <1>6, <1>9 DEF IInv, TypeOK, SlotsIntact, RevertImageIntact, WrittenSlotHasImage,
                            SlotsInUseAreFree, SlotIsFree, JobIsFresh, ram, running
<1> QED
    BY <1>7, <1>8, <1>9

LEMMA PrepareKeeps ==
    ASSUME IInv, NEW c \in Comps,
           Start(c) \/ WriteAny(c) \/ Finish(c) \/ Cancel(c) \/ Clean(c)
    PROVE  IInv'
<1> USE DEF IInv
<1>1. CASE Start(c)
    <2>1. primary[c].ok
        BY <1>1 DEF Start, MayStart, BootState
    <2>2. CASE PartlyErased(c) /\ UNCHANGED <<ram, running, job>>
        BY <2>1, <2>2, PartlyErasedKeeps
    <2>3. CASE /\ second' = [second EXCEPT ![c] = Erased]
               /\ fap' = fap \cup {c}
               /\ inUse' = inUse \cup {c}
               /\ state' = [state EXCEPT ![c] = "WRITING"]
               /\ UNCHANGED <<bounds, running, job>>
        BY <1>1, <2>1, <2>3 DEF Start, TypeOK, SlotsIntact, RevertImageIntact,
           WrittenSlotHasImage, SlotsInUseAreFree, SlotIsFree, JobIsFresh, States, Erased, Idle,
           bounds, running
    <2> QED
        BY <1>1, <2>2, <2>3 DEF Start
<1>2. CASE WriteAny(c)
    BY <1>2, WriteKeeps
<1>3. CASE Finish(c)
    BY <1>3 DEF Finish, TypeOK, SlotsIntact, RevertImageIntact, WrittenSlotHasImage, SlotsInUseAreFree,
                SlotIsFree, JobIsFresh, States, Idle, flash, bounds
<1>4. CASE Cancel(c)
    BY <1>4 DEF Cancel, TypeOK, SlotsIntact, RevertImageIntact, WrittenSlotHasImage, SlotsInUseAreFree,
                SlotIsFree, JobIsFresh, States, Idle, flash, bounds
<1>5. CASE Clean(c)
    <2>1. primary[c].ok
        BY <1>5 DEF Clean, SlotsInUseAreFree, SlotIsFree
    <2>2. CASE PartlyErased(c) /\ UNCHANGED <<ram, running, job>>
        BY <2>1, <2>2, PartlyErasedKeeps
    <2>3. CASE /\ second' = [second EXCEPT ![c] = Erased]
               /\ fap' = fap \ {c}
               /\ state' = [state EXCEPT ![c] = "READY"]
               /\ inUse' = inUse \ {c}
               /\ UNCHANGED <<bounds, running, job>>
        BY <1>5, <2>1, <2>3 DEF Clean, TypeOK, SlotsIntact, RevertImageIntact,
           WrittenSlotHasImage, SlotsInUseAreFree, SlotIsFree, JobIsFresh, States, Erased, Idle,
           bounds, running
    <2> QED
        BY <1>5, <2>2, <2>3 DEF Clean
<1> QED
    BY <1>1, <1>2, <1>3, <1>4, <1>5

-----------------------------------------------------------------------------
(* Installation.                                                           *)

LEMMA FailCandidatesKeeps ==
    ASSUME IInv, job = Idle, FailCandidates,
           errors' \in 0 .. MaxErrors, reboots' \in 0 .. MaxReboots
    PROVE  IInv'
<1>1. TypeOK'
    BY DEF IInv, TypeOK, FailCandidates, SetState, States, flash
<1>2. SlotsInUseAreFree'
    BY DEF IInv, TypeOK, FailCandidates, SetState, Candidates, SlotsInUseAreFree, SlotIsFree, flash
<1>3. SlotsIntact' /\ JobIsFresh'
    BY DEF IInv, FailCandidates, SlotsIntact, RevertImageIntact, WrittenSlotHasImage, JobIsFresh, Idle, flash
<1> QED
    BY <1>1, <1>2, <1>3 DEF IInv

LEMMA InstallKeeps ==
    ASSUME IInv, Install
    PROVE  IInv'
<1>1. CASE Unfit = {} /\ job' = [op |-> "install", todo |-> Candidates, all |-> Candidates]
               /\ UNCHANGED <<ram, flash, bounds>>
    <2>1. Candidates \subseteq Comps
        BY DEF IInv, TypeOK, Candidates
    <2>2. TypeOK'
        BY <1>1, <2>1 DEF IInv, TypeOK, ram, flash, bounds
    <2>3. JobIsFresh'
        BY <1>1 DEF JobIsFresh, Candidates, ram
    <2>4. SlotsIntact' /\ SlotsInUseAreFree'
        BY <1>1 DEF IInv, SlotsIntact, RevertImageIntact, WrittenSlotHasImage, SlotsInUseAreFree, SlotIsFree, ram, flash
    <2> QED
        BY <2>2, <2>3, <2>4 DEF IInv
<1>2. CASE FailCandidates /\ UNCHANGED bounds
    BY <1>2, FailCandidatesKeeps DEF Install, bounds, IInv, TypeOK
<1>3. CASE FailCandidates /\ Fail
    BY <1>3, FailCandidatesKeeps, FailIsBounded DEF Install, IInv
<1> QED
    BY <1>1, <1>2, <1>3 DEF Install

LEMMA SetPendingKeeps ==
    ASSUME IInv, SetPending
    PROVE  IInv'
<1> DEFINE c == Min(job.todo)
<1>1. c \in job.todo /\ c \in Comps /\ c \in job.all
    BY FirstToDo DEF IInv, SetPending, JobIsFresh
<1>2. c \in inUse /\ state[c] = "CANDIDATE" /\ primary[c].ok
    BY <1>1 DEF IInv, SetPending, JobIsFresh, SlotsInUseAreFree, SlotIsFree
<1> HIDE DEF c
<1>3. UNCHANGED <<ram, running>> /\ job.op = "install"
    BY DEF SetPending
<1>4. second' = second \/ second' = MagicSet(c)
    BY DEF SetPending, c
<1>5. /\ second' \in [Comps -> [image : {"none", "old", "new"}, blocks : SUBSET Blocks,
                                magic : BOOLEAN]]
      /\ SlotsIntact'
    <2>1. CASE second' = second
        BY <1>3, <2>1 DEF IInv, TypeOK, SlotsIntact, RevertImageIntact, WrittenSlotHasImage, running
    <2>2. CASE second' = [second EXCEPT ![c].magic = TRUE]
        <3>1. /\ second' \in [Comps -> [image : {"none", "old", "new"}, blocks : SUBSET Blocks,
                                        magic : BOOLEAN]]
              /\ \A d \in Comps : /\ second'[d].image = second[d].image
                                  /\ second'[d].blocks = second[d].blocks
                                  /\ d # c => second'[d].magic = second[d].magic
            BY <1>1, <2>2, MagicWritten DEF IInv
        <3> QED
            BY <1>1, <1>2, <1>3, <3>1
            DEF IInv, SlotsIntact, RevertImageIntact, WrittenSlotHasImage, running
    <2> QED
        BY <1>4, <2>1, <2>2 DEF MagicSet
<1>6. CASE job' = [job EXCEPT !.todo = @ \ {c}] /\ UNCHANGED bounds
    <2>1. TypeOK'
        BY <1>3, <1>5, <1>6 DEF IInv, TypeOK, ram, running, bounds
    <2>2. SlotsInUseAreFree' /\ JobIsFresh'
        BY <1>3, <1>6 DEF IInv, TypeOK, SlotsInUseAreFree, SlotIsFree, JobIsFresh, ram, running
    <2> QED
        BY <1>5, <2>1, <2>2 DEF IInv
<1>7. CASE job' = [job EXCEPT !.op = "undo", !.todo = {d \in job.all : d < c}] /\ Fail
    <2>1. TypeOK'
        BY <1>3, <1>5, <1>7, FailIsBounded DEF IInv, TypeOK, ram, running
    <2>2. SlotsInUseAreFree'
        BY <1>3 DEF IInv, SlotsInUseAreFree, SlotIsFree, ram, running
    <2>3. JobIsFresh'
        BY <1>3, <1>7 DEF IInv, TypeOK, JobIsFresh, ram, running
    <2> QED
        BY <1>5, <2>1, <2>2, <2>3 DEF IInv
<1> QED
    BY <1>6, <1>7 DEF SetPending, c

LEMMA UndoPendingKeeps ==
    ASSUME IInv, UndoPending
    PROVE  IInv'
<1> DEFINE c == Min(job.todo)
<1>1. c \in job.todo /\ c \in Comps
    BY FirstToDo DEF IInv, UndoPending
<1> HIDE DEF c
<1>2. UNCHANGED <<ram, running>> /\ job.op = "undo"
    BY DEF UndoPending
<1>3. second' = second \/ second' = MagicErased(c)
    BY DEF UndoPending, c
<1>4. /\ second' \in [Comps -> [image : {"none", "old", "new"}, blocks : SUBSET Blocks,
                                magic : BOOLEAN]]
      /\ SlotsIntact'
    <2>1. CASE second' = second
        BY <1>2, <2>1 DEF IInv, TypeOK, SlotsIntact, RevertImageIntact, WrittenSlotHasImage, running
    <2>2. CASE second' = [second EXCEPT ![c].magic = FALSE]
        BY <1>1, <1>2, <2>2, MagicWritten
        DEF IInv, SlotsIntact, RevertImageIntact, WrittenSlotHasImage, running
    <2> QED
        BY <1>3, <2>1, <2>2 DEF MagicErased
<1>5. PICK t \in SUBSET job.todo : job' = [job EXCEPT !.todo = t]
    BY DEF UndoPending
<1>6. errors' \in 0 .. MaxErrors /\ reboots' \in 0 .. MaxReboots
    BY FailIsBounded DEF UndoPending, IInv, TypeOK, bounds
<1>7. TypeOK'
    BY <1>2, <1>4, <1>5, <1>6 DEF IInv, TypeOK, ram, running
<1>8. SlotsInUseAreFree' /\ JobIsFresh'
    BY <1>2, <1>5 DEF IInv, TypeOK, SlotsInUseAreFree, SlotIsFree, JobIsFresh, ram, running
<1> QED
    BY <1>4, <1>7, <1>8 DEF IInv

(* A request that ends moves its components to their new state.            *)
LEMMA DoneKeeps ==
    ASSUME IInv, InstallDone \/ UndoDone \/ AcceptDone
    PROVE  IInv'
<1>1. PICK s \in {"STAGED", "FAILED", "UPDATED"} : state' = SetState(job.all, s)
    BY DEF InstallDone, UndoDone, AcceptDone
<1>2. job' = Idle /\ UNCHANGED <<inUse, fap, flash, bounds>>
    BY DEF InstallDone, UndoDone, AcceptDone
<1>3. \A c \in job.all : SlotIsFree(c)
    BY DEF IInv, InstallDone, UndoDone, AcceptDone, JobIsFresh, SlotsInUseAreFree, SlotIsFree
<1>4. TypeOK'
    BY <1>1, <1>2 DEF IInv, TypeOK, SetState, States, Idle, flash, bounds
<1>5. SlotsInUseAreFree'
    BY <1>1, <1>2, <1>3 DEF IInv, TypeOK, SetState, SlotsInUseAreFree, SlotIsFree, flash
<1>6. SlotsIntact' /\ JobIsFresh'
    BY <1>2 DEF IInv, SlotsIntact, RevertImageIntact, WrittenSlotHasImage, JobIsFresh, Idle, flash
<1> QED
    BY <1>4, <1>5, <1>6 DEF IInv

-----------------------------------------------------------------------------
(* Trial of the running images.                                            *)

LEMMA AcceptKeeps ==
    ASSUME IInv, Accept
    PROVE  IInv'
<1>1. Trials \subseteq Comps
    BY DEF Trials
<1>2. PICK r \in SUBSET Comps : Reserve(r)
    BY <1>1 DEF Accept
<1>3. fap \subseteq fap' /\ fap' \subseteq Comps
    BY <1>1 DEF IInv, TypeOK, Accept, Opened
<1>4. \/ job' = job
      \/ job' = [op |-> "accept", todo |-> Trials, all |-> Trials]
    BY DEF Accept
<1>5. TypeOK'
    <2>1. job' \in [op : {"none", "install", "undo", "accept", "reject"},
                    todo : SUBSET Comps, all : SUBSET Comps]
        BY <1>1, <1>4 DEF IInv, TypeOK
    <2>2. errors' \in 0 .. MaxErrors /\ reboots' \in 0 .. MaxReboots
        BY FailIsBounded DEF Accept, IInv, TypeOK, bounds
    <2> QED
        BY <1>2, <1>3, <2>1, <2>2 DEF IInv, TypeOK, Accept, Reserve, SetState, States, flash
<1>6. SlotsInUseAreFree'
    BY <1>2, <1>3 DEF IInv, TypeOK, Accept, Reserve, SetState, SlotsInUseAreFree, SlotIsFree, flash
<1>7. SlotsIntact'
    BY DEF IInv, Accept, SlotsIntact, RevertImageIntact, WrittenSlotHasImage, flash
<1>8. JobIsFresh'
    BY <1>4 DEF Accept, Opened, JobIsFresh, Idle
<1> QED
    BY <1>5, <1>6, <1>7, <1>8 DEF IInv

LEMMA ConfirmKeeps ==
    ASSUME IInv, Confirm
    PROVE  IInv'
<1> DEFINE c == Min(job.todo)
<1>1. c \in job.todo /\ c \in Comps
    BY FirstToDo DEF IInv, Confirm
<1> HIDE DEF c
<1>2. CASE primary' = [primary EXCEPT ![c].ok = TRUE] /\ job' = [job EXCEPT !.todo = @ \ {c}]
               /\ UNCHANGED bounds
    <2>2. /\ primary' \in [Comps -> [image : {"old", "new"}, ok : BOOLEAN]]
          /\ \A d \in Comps : primary'[d].ok = IF d = c THEN TRUE ELSE primary[d].ok
        BY <1>1, <1>2, OkWritten DEF IInv
    <2>3. TypeOK'
        BY <1>1, <1>2, <2>2 DEF IInv, Confirm, TypeOK, ram, bounds
    <2>4. SlotsIntact' /\ SlotsInUseAreFree'
        BY <1>1, <2>2 DEF IInv, Confirm, TypeOK, SlotsIntact, RevertImageIntact,
                          WrittenSlotHasImage, SlotsInUseAreFree, SlotIsFree, ram
    <2>5. JobIsFresh'
        BY <1>1, <1>2, <2>2 DEF IInv, Confirm, TypeOK, JobIsFresh, ram
    <2> QED
        BY <2>3, <2>4, <2>5 DEF IInv
<1>3. CASE job' = Idle /\ (primary' = primary \/ primary' = [primary EXCEPT ![c].ok = TRUE])
               /\ Fail
    <2>1. /\ primary' \in [Comps -> [image : {"old", "new"}, ok : BOOLEAN]]
          /\ \A d \in Comps : primary[d].ok => primary'[d].ok
        BY <1>1, <1>3, OkWritten DEF IInv, TypeOK
    <2>2. TypeOK'
        BY <1>3, <2>1, FailIsBounded DEF IInv, Confirm, TypeOK, Idle, ram
    <2>3. SlotsIntact' /\ SlotsInUseAreFree' /\ JobIsFresh'
        BY <1>3, <2>1 DEF IInv, TypeOK, Confirm, SlotsIntact, RevertImageIntact,
                          WrittenSlotHasImage, SlotsInUseAreFree, SlotIsFree, JobIsFresh, Idle, ram
    <2> QED
        BY <2>2, <2>3 DEF IInv
<1> QED
    BY <1>2, <1>3 DEF Confirm, Confirmed, c

LEMMA RejectKeeps ==
    ASSUME IInv, Reject \/ RejectDone
    PROVE  IInv'
BY DEF IInv, Reject, RejectDone, TypeOK, SlotsIntact, RevertImageIntact, WrittenSlotHasImage, SlotsInUseAreFree, SlotIsFree,
       JobIsFresh, Idle, ram, flash, bounds

LEMMA RejectStepKeeps ==
    ASSUME IInv, RejectStep
    PROVE  IInv'
<1> DEFINE c == Min(job.todo)
<1>1. c \in job.todo /\ c \in Comps
    BY FirstToDo DEF IInv, RejectStep
<1> HIDE DEF c
<1>2. job.op = "reject" /\ UNCHANGED <<fap, primary, copied>>
    BY DEF RejectStep, running
<1>3. job' = [job EXCEPT !.todo = @ \ {c}] \/ job' = Idle
    BY DEF RejectStep, c
<1>4. UNCHANGED second \/ second' = MagicErased(c)
    BY DEF RejectStep, c
<1>5. \/ UNCHANGED <<state, inUse>>
      \/ /\ c \in inUse /\ state[c] = "STAGED"
         /\ state' = [state EXCEPT ![c] = "FAILED"] /\ UNCHANGED inUse
      \/ inUse' = inUse \cup {c} /\ state' = [state EXCEPT ![c] = "REJECTED"]
    BY DEF RejectStep, c
<1>6. errors' \in 0 .. MaxErrors /\ reboots' \in 0 .. MaxReboots
    BY FailIsBounded DEF RejectStep, IInv, TypeOK, bounds
<1>7. TypeOK'
    <2>1. second' \in [Comps -> [image : {"none", "old", "new"}, blocks : SUBSET Blocks,
                                 magic : BOOLEAN]]
        BY <1>1, <1>4, MagicWritten DEF IInv, TypeOK, MagicErased
    <2>2. state' \in [Comps -> States] /\ inUse' \subseteq Comps
        BY <1>1, <1>5 DEF IInv, TypeOK, States
    <2>3. job' \in [op : {"none", "install", "undo", "accept", "reject"},
                    todo : SUBSET Comps, all : SUBSET Comps]
        BY <1>3 DEF IInv, TypeOK, Idle
    <2> QED
        BY <1>2, <1>6, <2>1, <2>2, <2>3 DEF IInv, TypeOK
<1>8. SlotsIntact'
    BY <1>1, <1>2, <1>4, MagicWritten, ZenonT(40)
    DEF IInv, SlotsIntact, RevertImageIntact, WrittenSlotHasImage, MagicErased
<1>9. SlotsInUseAreFree'
    BY <1>1, <1>2, <1>5 DEF IInv, TypeOK, SlotsInUseAreFree, SlotIsFree
<1>10. JobIsFresh'
    BY <1>2, <1>3 DEF IInv, TypeOK, JobIsFresh, Idle
<1> QED
    BY <1>7, <1>8, <1>9, <1>10 DEF IInv

(* The boot loader swaps the images of pending and of unconfirmed          *)
(* components only, and a pending component is confirmed.                  *)
LEMMA RebootKeeps ==
    ASSUME IInv, Reboot
    PROVE  IInv'
<1>1. PICK swapped \in BootChoices : \E erased \in SUBSET (Pending \ swapped) : Boot(swapped, erased)
    BY DEF Reboot
<1>2. PICK erased \in SUBSET (Pending \ swapped) : Boot(swapped, erased)
    BY <1>1
<1>3. swapped \subseteq Pending /\ \A c \in swapped : second[c].blocks = Blocks
    BY DEF BootChoices
<1>4. \A c \in Comps : second[c].magic => primary[c].ok
    BY DEF IInv, SlotsIntact, RevertImageIntact
<1>5. \A c \in swapped \cup Reverted :
          c \in Comps /\ second[c].blocks = Blocks /\ second[c].image \in {"old", "new"}
    <2>1. \A c \in swapped \cup Reverted : c \in Comps /\ second[c].blocks = Blocks
        BY <1>3 DEF IInv, TypeOK, SlotsIntact, RevertImageIntact, Pending, Reverted
    <2> QED
        BY <2>1, SlotHasBlocks DEF IInv, TypeOK, SlotsIntact, WrittenSlotHasImage
<1>6. /\ primary' = [c \in Comps |-> primary'[c]]
      /\ second' = [c \in Comps |-> second'[c]]
    BY <1>2 DEF Boot
<1>7. ASSUME NEW c \in Comps
      PROVE  /\ primary'[c] \in [image : {"old", "new"}, ok : BOOLEAN]
             /\ second'[c] \in [image : {"none", "old", "new"}, blocks : SUBSET Blocks,
                                magic : BOOLEAN]
             /\ ~primary'[c].ok =>
                    ~second'[c].magic /\ (c \in copied' => second'[c].blocks = Blocks)
             /\ second'[c].blocks # {} => second'[c].image # "none"
    <2>1. primary[c].image \in {"old", "new"}
        BY DEF IInv, TypeOK
    <2>2. CASE c \in swapped
        <3>1. primary'[c] = [image |-> second[c].image, ok |-> FALSE]
            BY <1>2, <2>2 DEF Boot, SwapOf
        <3>2. second'[c] = [image |-> primary[c].image, blocks |-> Blocks, magic |-> FALSE]
            BY <1>2, <2>2 DEF Boot, SwapOf
        <3> QED
            <4>1. primary'[c] \in [image : {"old", "new"}, ok : BOOLEAN]
                BY <1>5, <2>1, <2>2, <3>1, SwappedImages
            <4>2. second'[c] \in [image : {"none", "old", "new"}, blocks : SUBSET Blocks,
                                  magic : BOOLEAN]
                BY <1>5, <2>1, <2>2, <3>2, SwappedImages
            <4>3. second'[c].blocks = Blocks /\ ~second'[c].magic /\ second'[c].image # "none"
                BY <1>5, <2>1, <2>2, <3>2
            <4> QED
                BY <4>1, <4>2, <4>3
    <2>3. CASE c \in Reverted \ swapped
        <3>1. primary'[c] = [image |-> second[c].image, ok |-> TRUE]
            BY <1>2, <2>3 DEF Boot, SwapOf
        <3>2. second'[c] = [image |-> primary[c].image, blocks |-> Blocks, magic |-> FALSE]
            BY <1>2, <2>3 DEF Boot, SwapOf
        <3> QED
            BY <1>5, <2>1, <2>3, <3>1, <3>2, SwappedImages
    <2>4. CASE c \notin swapped \cup Reverted
        <3>1. /\ primary'[c] = primary[c] /\ (c \in copied' <=> c \in copied)
              /\ c \in copied => primary[c].ok
            BY <1>2, <1>4, <2>4 DEF Boot, Reverted, Pending
        <3>2. second'[c] = Erased \/ second'[c] = second[c]
            BY <1>2, <2>4 DEF Boot
        <3> QED
            <4>1. Erased \in [image : {"none", "old", "new"}, blocks : SUBSET Blocks,
                              magic : BOOLEAN]
                BY FwuAssumption DEF Erased
            <4>2. second[c] \in [image : {"none", "old", "new"}, blocks : SUBSET Blocks,
                                 magic : BOOLEAN]
                BY DEF IInv, TypeOK
            <4>3. primary[c] \in [image : {"old", "new"}, ok : BOOLEAN]
                BY DEF IInv, TypeOK
            <4>4. second'[c].blocks # {} => second'[c].image # "none"
                BY <3>2, FwuAssumption DEF IInv, SlotsIntact, WrittenSlotHasImage, Erased
            <4>5. ~primary[c].ok => ~second'[c].magic
                BY <1>4, <3>2 DEF Erased
            <4> QED
                BY <3>1, <3>2, <4>1, <4>2, <4>3, <4>4, <4>5
    <2> QED
        BY <2>2, <2>3, <2>4
<1>8. TypeOK'
    <2>1. primary' \in [Comps -> [image : {"old", "new"}, ok : BOOLEAN]]
        BY <1>6, <1>7
    <2>2. second' \in [Comps -> [image : {"none", "old", "new"}, blocks : SUBSET Blocks,
                                 magic : BOOLEAN]]
        BY <1>6, <1>7
    <2>3. reboots' \in 0 .. MaxReboots
        BY FwuAssumption DEF IInv, TypeOK, Reboot
    <2>4. copied' \subseteq Comps
        BY <1>2, <1>3 DEF IInv, TypeOK, Boot, Pending
    <2> QED
        BY <2>1, <2>2, <2>3, <2>4 DEF IInv, TypeOK, Reboot, States, Idle
<1>9. SlotsIntact'
    BY <1>7 DEF SlotsIntact, RevertImageIntact, WrittenSlotHasImage
<1>10. SlotsInUseAreFree' /\ JobIsFresh'
    BY DEF Reboot, SlotsInUseAreFree, JobIsFresh, Idle
<1> QED
    BY <1>8, <1>9, <1>10 DEF IInv

-----------------------------------------------------------------------------
LEMMA StepKeeps ==
    ASSUME IInv, [Next]_vars
    PROVE  IInv'
<1>1. CASE UNCHANGED vars
    BY <1>1 DEF vars, IInv, TypeOK, SlotsIntact, RevertImageIntact, WrittenSlotHasImage,
                SlotsInUseAreFree, SlotIsFree, JobIsFresh
<1>2. CASE Next
    BY <1>2, PrepareKeeps, InstallKeeps, SetPendingKeeps, UndoPendingKeeps, DoneKeeps,
       AcceptKeeps, ConfirmKeeps, RejectKeeps, RejectStepKeeps, RebootKeeps DEF Next, WriteAny
<1> QED
    BY <1>1, <1>2

(* The inductive invariant holds in every reachable state.                 *)
THEOREM Invariance == Spec => []IInv
BY InitHolds, StepKeeps, PTL DEF Spec

(* The state of the service and of the slots stays within its types.       *)
THEOREM TypeCorrect == Spec => []TypeOK
<1>1. IInv => TypeOK
    BY DEF IInv
<1> QED
    BY <1>1, Invariance, PTL

(* While an image is on trial the boot loader can revert it, whatever is   *)
(* requested, fails or is interrupted by a reboot (tfm_fwu_start,          *)
(* tfm_fwu_clean and fwu_bootloader_install_image write to its slot).      *)
THEOREM TrialsCanBeReverted == Spec => []RevertImageIntact
<1>1. IInv => RevertImageIntact
    BY DEF IInv, SlotsIntact
<1> QED
    BY <1>1, Invariance, PTL

(* A failed or updated component can always be cleaned                     *)
(* (fwu_bootloader_clean_component needs its slot open).                   *)
THEOREM FailedCanBeCleaned == Spec => []CleanPossible
<1>1. IInv => CleanPossible
    BY DEF IInv, SlotsInUseAreFree, SlotIsFree, CleanPossible
<1> QED
    BY <1>1, Invariance, PTL

-----------------------------------------------------------------------------
(* What installations rest on.  An accept works on components in TRIAL,    *)
(* and only a failing one leaves a component in TRIAL in use.              *)
AcceptsTrials ==
    /\ job.op = "accept" => \A c \in job.all : c \in inUse /\ state[c] = "TRIAL"
    /\ errors = 0 => \A c \in inUse : state[c] = "TRIAL" =>
           job.op = "accept" /\ c \in job.all

(* A component in use has the boot magic only if it is staged, or the      *)
(* installation has come to it.                                            *)
MagicIsAsked ==
    errors = 0 => \A c \in inUse : second[c].magic =>
        state[c] = "STAGED" \/ (job.op = "install" /\ c \in job.all /\ c \notin job.todo)

(* A reject has still to visit every staged component.                     *)
RejectsStaged ==
    job.op = "reject" => \A c \in inUse : state[c] = "STAGED" => c \in job.todo

InstallsNeeded ==
    job.op = "install" =>
        \A c \in job.all : \A d \in Needs[c] : primary[d].image = "new" \/ d \in job.all

StagedNeeded ==
    errors = 0 /\ job.op # "reject" => \A c \in inUse : state[c] = "STAGED" =>
        \A d \in Needs[c] : primary[d].image = "new" \/ (d \in inUse /\ state[d] = "STAGED")

UndoAfterFailure == job.op = "undo" => errors # 0

Conduct ==
    AcceptsTrials /\ MagicIsAsked /\ RejectsStaged /\ InstallsNeeded /\ StagedNeeded
        /\ UndoAfterFailure /\ InstallExcluded

FullInv == IInv /\ Conduct

(* What a client sees of a component.                                      *)
LEMMA ReportedIs ==
    ASSUME NEW c
    PROVE  /\ c \in inUse => Reported(c) = state[c]
           /\ c \notin inUse /\ primary[c].ok => Reported(c) = "READY"
           /\ c \notin inUse /\ ~primary[c].ok => Reported(c) = "TRIAL"
BY DEF Reported, BootState

(* Steps that keep the states of the components and only go on in a        *)
(* request, or end it with a failure.                                      *)
LEMMA SameStates ==
    ASSUME state' = state, inUse' = inUse, \A c \in Comps : primary'[c].ok = primary[c].ok
    PROVE  \A c \in Comps : Reported(c)' = Reported(c)
BY DEF Reported, BootState

(* After a failed access little is promised.                               *)
LEMMA FailedConduct ==
    ASSUME FullInv, errors' # 0, job'.op \in {"none", "undo"}
    PROVE  Conduct'
BY DEF Conduct, AcceptsTrials, RejectsStaged, InstallsNeeded, InstallExcluded,
       StagedNeeded, MagicIsAsked, UndoAfterFailure

(* Preparation leaves STAGED components and trials alone.                  *)
LEMMA PrepareConduct ==
    ASSUME FullInv, NEW c \in Comps,
           Start(c) \/ WriteAny(c) \/ Finish(c) \/ Cancel(c) \/ Clean(c)
    PROVE  Conduct'
<1> USE DEF FullInv, IInv, Conduct
<1>0. errors \in Nat
  BY FwuAssumption DEF TypeOK
<1>1. job = Idle /\ job' = Idle /\ primary' = primary /\ job.op = "none" /\ job'.op = "none"
  BY DEF Start, WriteAny, Write, Finish, Cancel, Clean, Idle, running, flash
<1>2. CASE Fail
  <2>1. errors' # 0
    BY <1>0, <1>2 DEF Fail
  <2> QED BY <1>1, <2>1, FailedConduct
<1>3. CASE ~Fail
  <2>1. RejectsStaged' /\ InstallsNeeded' /\ InstallExcluded' /\ UndoAfterFailure'
    BY <1>1 DEF RejectsStaged, InstallsNeeded, InstallExcluded, UndoAfterFailure
  <2>2. state \in [Comps -> States] /\ inUse \subseteq Comps /\ Needs \in [Comps -> SUBSET Comps]
        /\ second \in [Comps -> [image : {"none", "old", "new"}, blocks : SUBSET Blocks,
                                 magic : BOOLEAN]]
    BY FwuAssumption DEF TypeOK
  <2>3. /\ \A d \in Comps \ {c} : state'[d] = state[d] /\ (d \in inUse' <=> d \in inUse)
        /\ c \in inUse' => state'[c] \notin {"TRIAL", "STAGED"}
        /\ c \in inUse => state[c] # "STAGED"
        /\ inUse' \subseteq Comps
        /\ errors' = errors
        /\ \A d \in Comps \ {c} : second'[d].magic = second[d].magic
        /\ c \in inUse' /\ second'[c].magic => c \in inUse /\ second[c].magic
    <3>1. CASE Start(c)
      BY <1>3, <2>2, <3>1 DEF Start, PartlyErased, MayStart, Erased, bounds
    <3>2. CASE WriteAny(c)
      BY <1>3, <2>2, <3>2 DEF WriteAny, Write, ram, bounds
    <3>3. CASE Finish(c) \/ Cancel(c)
      BY <2>2, <3>3 DEF Finish, Cancel, flash, bounds
    <3>4. CASE Clean(c)
      BY <1>3, <2>2, <3>4 DEF Clean, PartlyErased, bounds
    <3> QED BY <3>1, <3>2, <3>3, <3>4
  <2>4. AcceptsTrials'
    BY <1>1, <2>2, <2>3 DEF AcceptsTrials
  <2>5. StagedNeeded'
    BY <1>1, <2>2, <2>3 DEF StagedNeeded
  <2>6. MagicIsAsked'
    BY <1>1, <2>2, <2>3 DEF MagicIsAsked
  <2> QED BY <2>1, <2>4, <2>5, <2>6
<1> QED BY <1>2, <1>3

(* An installation starts with candidates whose needs are met.             *)
LEMMA InstallConduct ==
    ASSUME FullInv, Install
    PROVE  Conduct'
<1> USE DEF FullInv, IInv, Conduct
<1>1. job = Idle /\ job.op = "none" /\ primary' = primary /\ second' = second /\ inUse' = inUse
      /\ ~InstallForbidden
  BY DEF Install, Idle, flash, ram, FailCandidates
<1>2. state \in [Comps -> States] /\ inUse \subseteq Comps /\ Needs \in [Comps -> SUBSET Comps]
  BY FwuAssumption DEF TypeOK
<1>3. CASE Unfit = {} /\ job' = [op |-> "install", todo |-> Candidates, all |-> Candidates]
               /\ UNCHANGED <<ram, flash, bounds>>
  <2>1. state' = state /\ errors' = errors /\ job'.op = "install" /\ job'.all = Candidates
        /\ job'.todo = Candidates
    BY <1>3 DEF ram, bounds
  <2>2. InstallsNeeded'
    <3> SUFFICES ASSUME NEW c \in Candidates, NEW d \in Needs[c]
                 PROVE  primary[d].image = "new" \/ d \in Candidates
      BY <1>1, <2>1 DEF InstallsNeeded
    <3>1. CASE NumComps > 1
      BY <1>3, <3>1 DEF Unfit, NeedsMet
    <3>2. CASE ~(NumComps > 1)
      BY <1>2, <3>2, FwuAssumption DEF Comps, Candidates
    <3> QED BY <3>1, <3>2
  <2>3. AcceptsTrials'
    BY <1>1, <2>1 DEF AcceptsTrials
  <2>4. InstallExcluded'
    <3>1. ASSUME NEW c \in Comps, errors = 0
          PROVE  Reported(c) \notin {"STAGED", "TRIAL", "REJECTED"}
      <4>1. CASE c \in inUse
        BY <3>1, <4>1, <1>1, ReportedIs DEF AcceptsTrials, InstallForbidden
      <4>2. CASE c \notin inUse
        BY <4>2, <1>1 DEF InstallForbidden, Reported, BootState
      <4> QED BY <4>1, <4>2
    <3> QED BY <3>1, <1>1, <2>1, SameStates DEF InstallExcluded
  <2>5. MagicIsAsked' /\ RejectsStaged' /\ UndoAfterFailure'
    BY <1>1, <2>1 DEF MagicIsAsked, RejectsStaged, UndoAfterFailure
  <2>6. StagedNeeded'
    BY <1>1, <2>1 DEF StagedNeeded
  <2> QED BY <2>2, <2>3, <2>4, <2>5, <2>6
<1>4. CASE FailCandidates /\ (UNCHANGED bounds \/ Fail)
  <2>1. job' = job /\ state' = SetState(Candidates, "FAILED") /\ errors \in Nat
        /\ (errors' = 0 => errors = 0)
    BY <1>4, FwuAssumption DEF FailCandidates, bounds, Fail, TypeOK
  <2>2. \A c \in Comps : \/ state'[c] = state[c]
                         \/ state'[c] = "FAILED" /\ c \in inUse /\ state[c] = "CANDIDATE"
    BY <2>1, <1>2 DEF SetState, Candidates
  <2>3. AcceptsTrials' /\ RejectsStaged' /\ InstallsNeeded' /\ InstallExcluded'
            /\ UndoAfterFailure'
    BY <1>1, <1>2, <2>1, <2>2
    DEF AcceptsTrials, RejectsStaged, InstallsNeeded, InstallExcluded, UndoAfterFailure
  <2>4. MagicIsAsked' /\ StagedNeeded'
    <3>1. MagicIsAsked'
      BY <1>1, <1>2, <2>1, <2>2 DEF MagicIsAsked
    <3>2. StagedNeeded'
      BY <1>1, <1>2, <2>1, <2>2 DEF StagedNeeded
    <3> QED BY <3>1, <3>2
  <2> QED BY <2>3, <2>4
<1> QED BY <1>3, <1>4 DEF Install

(* The boot magic goes to the components of the installation.              *)
LEMMA SetPendingConduct ==
    ASSUME FullInv, SetPending
    PROVE  Conduct'
<1> USE DEF FullInv, IInv, Conduct
<1> PICK c : c = Min(job.todo)
  OBVIOUS
<1>1. c \in job.todo /\ c \in Comps
  BY FirstToDo DEF SetPending
<1>2. /\ job.op = "install" /\ state' = state /\ inUse' = inUse /\ primary' = primary
      /\ \A d \in Comps : Reported(d)' = Reported(d)
  BY SameStates DEF SetPending, ram, running
<1>3. CASE second' = [second EXCEPT ![c].magic = TRUE]
               /\ job' = [job EXCEPT !.todo = @ \ {c}] /\ UNCHANGED bounds
  <2>1. /\ job'.op = "install" /\ job'.all = job.all /\ job'.todo = job.todo \ {c}
        /\ errors' = errors /\ c \in job.all
        /\ \A d \in Comps \ {c} : second'[d].magic = second[d].magic
    BY <1>1, <1>2, <1>3, MagicWritten DEF TypeOK, bounds, JobIsFresh
  <2>2. AcceptsTrials' /\ RejectsStaged' /\ InstallsNeeded' /\ InstallExcluded'
            /\ UndoAfterFailure'
    BY <1>2, <2>1 DEF AcceptsTrials, RejectsStaged, InstallsNeeded, InstallExcluded,
                      UndoAfterFailure
  <2>3. StagedNeeded'
    BY <1>2, <2>1 DEF StagedNeeded
  <2>4. MagicIsAsked'
    BY <1>2, <2>1 DEF MagicIsAsked, TypeOK
  <2> QED BY <2>2, <2>3, <2>4
<1>4. CASE job' = [job EXCEPT !.op = "undo", !.todo = {d \in job.all : d < c}] /\ Fail
  <2>1. job'.op = "undo" /\ errors' # 0
    BY <1>4, FwuAssumption DEF TypeOK, Fail
  <2> QED BY <2>1, FailedConduct
<1> QED BY <1>3, <1>4 DEF SetPending, MagicSet

(* An installation that failed is undone.                                  *)
LEMMA UndoConduct ==
    ASSUME FullInv, UndoPending \/ UndoDone
    PROVE  Conduct'
<1>1. job.op = "undo" /\ job'.op \in {"undo", "none"}
  BY DEF UndoPending, UndoDone, Idle, FullInv, IInv, TypeOK
<1>2. errors \in Nat /\ errors # 0
  BY <1>1, FwuAssumption DEF FullInv, Conduct, IInv, TypeOK, UndoAfterFailure
<1>3. errors' # 0
  BY <1>2 DEF UndoPending, UndoDone, bounds, Fail
<1> QED BY <1>1, <1>3, FailedConduct

(* The candidates become STAGED, those they need with them.                *)
LEMMA InstallDoneConduct ==
    ASSUME FullInv, InstallDone
    PROVE  Conduct'
<1> USE DEF FullInv, IInv, Conduct
<1>1. /\ job.op = "install" /\ job.todo = {} /\ job' = Idle /\ job'.op = "none"
      /\ state' = SetState(job.all, "STAGED")
      /\ inUse' = inUse /\ primary' = primary /\ second' = second /\ errors' = errors
  BY DEF InstallDone, Idle, flash, bounds
<1>2. state \in [Comps -> States] /\ inUse \subseteq Comps /\ Needs \in [Comps -> SUBSET Comps]
  BY FwuAssumption DEF TypeOK
<1>3. /\ \A c \in Comps : state'[c] = IF c \in job.all THEN "STAGED" ELSE state[c]
      /\ job.all \subseteq inUse
  BY <1>1, <1>2 DEF SetState, JobIsFresh
<1>4. AcceptsTrials'
  BY <1>1, <1>2, <1>3 DEF AcceptsTrials
<1>5. MagicIsAsked'
  BY <1>1, <1>2, <1>3 DEF MagicIsAsked
<1>6. StagedNeeded'
  <2> SUFFICES ASSUME errors = 0, NEW c \in inUse, state'[c] = "STAGED", NEW d \in Needs[c]
               PROVE  primary[d].image = "new" \/ (d \in inUse /\ state'[d] = "STAGED")
    BY <1>1 DEF StagedNeeded
  <2>1. c \in Comps /\ d \in Comps
    BY <1>2
  <2>2. CASE c \in job.all
    BY <2>1, <2>2, <1>1, <1>3 DEF InstallsNeeded
  <2>3. CASE c \notin job.all
    <3>1. state[c] = "STAGED"
      BY <2>1, <2>3, <1>3
    <3>2. primary[d].image = "new" \/ (d \in inUse /\ state[d] = "STAGED")
      BY <3>1, <1>1 DEF StagedNeeded
    <3> QED BY <3>2, <2>1, <1>3
  <2> QED BY <2>2, <2>3
<1>7. RejectsStaged' /\ InstallsNeeded' /\ InstallExcluded' /\ UndoAfterFailure'
  BY <1>1 DEF RejectsStaged, InstallsNeeded, InstallExcluded, UndoAfterFailure
<1> QED BY <1>4, <1>5, <1>6, <1>7

(* The components in trial have no boot magic.                             *)
LEMMA AcceptConduct ==
    ASSUME FullInv, Accept
    PROVE  Conduct'
<1> USE DEF FullInv, IInv, Conduct
<1>0. errors \in Nat
  BY FwuAssumption DEF TypeOK
<1>1. CASE Fail
  <2>1. errors' # 0
    BY <1>0, <1>1 DEF Fail
  <2>2. job.op = "none"
    BY DEF Accept, Idle
  <2>3. \/ job' = job
        \/ job' = [op |-> "accept", todo |-> Trials, all |-> Trials] /\ errors' = errors
    BY DEF Accept, bounds
  <2>4. job'.op = "none"
    BY <2>2, <2>3, <1>0, <1>1 DEF Fail
  <2> QED BY <2>1, <2>4, FailedConduct
<1>2. CASE /\ Reserve(Trials)
           /\ job' = [op |-> "accept", todo |-> Trials, all |-> Trials]
           /\ UNCHANGED bounds
  <2>1. /\ job'.op = "accept" /\ job'.all = Trials /\ inUse' = inUse \cup Trials
        /\ state' = SetState(Trials, "TRIAL") /\ errors' = errors /\ second' = second
        /\ primary' = primary /\ job.op = "none"
    BY <1>2 DEF Accept, Reserve, bounds, flash, Idle
  <2>2. state \in [Comps -> States] /\ inUse \subseteq Comps /\ Trials \subseteq Comps
        /\ Needs \in [Comps -> SUBSET Comps]
    BY FwuAssumption DEF TypeOK, Trials
  <2>3. \A c \in Comps : state'[c] = IF c \in Trials THEN "TRIAL" ELSE state[c]
    BY <2>1, <2>2 DEF SetState
  <2>4. \A c \in Trials : c \in inUse => state[c] = "TRIAL"
    BY ReportedIs DEF Trials, InTrial
  <2>5. AcceptsTrials'
    BY <2>1, <2>2, <2>3 DEF AcceptsTrials
  <2>6. StagedNeeded'
    BY <2>1, <2>2, <2>3, <2>4 DEF StagedNeeded
  <2>7. MagicIsAsked'
    <3> SUFFICES ASSUME errors = 0, NEW c \in inUse', second[c].magic
                 PROVE  state'[c] = "STAGED"
      BY <2>1 DEF MagicIsAsked
    <3>1. c \in Comps
      BY <2>1, <2>2
    <3>2. primary[c].ok
      BY <3>1 DEF SlotsIntact, RevertImageIntact
    <3>3. c \notin Trials
      BY <3>1, <3>2, <2>1, ReportedIs DEF Trials, InTrial, AcceptsTrials
    <3> QED BY <3>1, <3>3, <2>1, <2>3 DEF MagicIsAsked
  <2>8. RejectsStaged' /\ InstallsNeeded' /\ InstallExcluded' /\ UndoAfterFailure'
    BY <2>1 DEF RejectsStaged, InstallsNeeded, InstallExcluded, UndoAfterFailure
  <2> QED BY <2>5, <2>6, <2>7, <2>8
<1> QED BY <1>1, <1>2 DEF Accept

(* A component of the accept is confirmed.                                 *)
LEMMA ConfirmConduct ==
    ASSUME FullInv, Confirm
    PROVE  Conduct'
<1> USE DEF FullInv, IInv, Conduct
<1> PICK c : c = Min(job.todo)
  OBVIOUS
<1>1. c \in job.todo /\ c \in Comps
  BY FirstToDo DEF Confirm
<1>2. job.op = "accept" /\ state' = state /\ inUse' = inUse /\ second' = second
  BY DEF Confirm, ram
<1>3. CASE primary' = [primary EXCEPT ![c].ok = TRUE] /\ job' = [job EXCEPT !.todo = @ \ {c}]
               /\ UNCHANGED bounds
  <2>1. job'.op = "accept" /\ job'.all = job.all /\ errors' = errors
    BY <1>2, <1>3 DEF TypeOK, bounds
  <2>2. \A d \in Comps : primary'[d].image = primary[d].image
    <3> PICK r : r = [primary[c] EXCEPT !.ok = TRUE]
      OBVIOUS
    <3>1. r.image = primary[c].image
      BY <1>1 DEF TypeOK
    <3> QED BY <1>1, <1>3, <3>1 DEF TypeOK
  <2>3. AcceptsTrials' /\ MagicIsAsked' /\ RejectsStaged' /\ InstallsNeeded'
            /\ InstallExcluded' /\ UndoAfterFailure'
    BY <1>2, <2>1 DEF AcceptsTrials, MagicIsAsked, RejectsStaged, InstallsNeeded,
                      InstallExcluded, UndoAfterFailure
  <2>4. StagedNeeded'
    <3>1. inUse \subseteq Comps /\ Needs \in [Comps -> SUBSET Comps]
      BY FwuAssumption DEF TypeOK
    <3> QED BY <3>1, <1>2, <2>1, <2>2 DEF StagedNeeded
  <2> QED BY <2>3, <2>4
<1>4. CASE job' = Idle /\ Fail
  <2>1. job'.op = "none" /\ errors' # 0
    BY <1>4, FwuAssumption DEF TypeOK, Fail, Idle
  <2> QED BY <2>1, FailedConduct
<1> QED BY <1>3, <1>4 DEF Confirm, Confirmed

(* No component is left in TRIAL by an accept that succeeds.               *)
LEMMA AcceptDoneConduct ==
    ASSUME FullInv, AcceptDone
    PROVE  Conduct'
<1> USE DEF FullInv, IInv, Conduct
<1>1. /\ job.op = "accept" /\ job'.op = "none" /\ state' = SetState(job.all, "UPDATED")
      /\ inUse' = inUse /\ primary' = primary /\ second' = second /\ errors' = errors
  BY DEF AcceptDone, Idle, flash, bounds
<1>2. state \in [Comps -> States] /\ inUse \subseteq Comps /\ Needs \in [Comps -> SUBSET Comps]
  BY FwuAssumption DEF TypeOK
<1>3. \A c \in Comps : /\ c \in job.all => state[c] = "TRIAL"
                       /\ state'[c] = IF c \in job.all THEN "UPDATED" ELSE state[c]
  BY <1>1, <1>2 DEF SetState, AcceptsTrials
<1>4. AcceptsTrials'
  BY <1>1, <1>2, <1>3 DEF AcceptsTrials
<1>5. MagicIsAsked'
  BY <1>1, <1>2, <1>3 DEF MagicIsAsked
<1>6. StagedNeeded'
  BY <1>1, <1>2, <1>3 DEF StagedNeeded
<1>7. RejectsStaged' /\ InstallsNeeded' /\ InstallExcluded' /\ UndoAfterFailure'
  BY <1>1 DEF RejectsStaged, InstallsNeeded, InstallExcluded, UndoAfterFailure
<1> QED BY <1>4, <1>5, <1>6, <1>7

(* A reject begins with all components and ends with none left.            *)
LEMMA RejectConduct ==
    ASSUME FullInv, Reject \/ RejectDone
    PROVE  Conduct'
<1> USE DEF FullInv, IInv, Conduct
<1>1. /\ state' = state /\ inUse' = inUse /\ primary' = primary /\ second' = second
      /\ errors' = errors
  BY DEF Reject, RejectDone, ram, flash, bounds
<1>2. inUse \subseteq Comps
  BY DEF TypeOK
<1>3. CASE Reject
  <2>1. job.op = "none" /\ job'.op = "reject" /\ job'.todo = Comps
    BY <1>3 DEF Reject, Idle
  <2> QED BY <1>1, <1>2, <2>1 DEF AcceptsTrials, MagicIsAsked, RejectsStaged, InstallsNeeded,
             InstallExcluded, UndoAfterFailure, StagedNeeded
<1>4. CASE RejectDone
  <2>1. job.op = "reject" /\ job'.op = "none" /\ job.todo = {}
    BY <1>4 DEF RejectDone, Idle
  <2> QED BY <1>1, <1>2, <2>1 DEF AcceptsTrials, MagicIsAsked, RejectsStaged, InstallsNeeded,
             InstallExcluded, UndoAfterFailure, StagedNeeded
<1> QED BY <1>3, <1>4

(* A component that the reject has visited is neither STAGED nor in TRIAL. *)
LEMMA RejectStepConduct ==
    ASSUME FullInv, RejectStep
    PROVE  Conduct'
<1> USE DEF FullInv, IInv, Conduct
<1> PICK c : c = Min(job.todo)
  OBVIOUS
<1>1. c \in job.todo /\ c \in Comps
  BY FirstToDo DEF RejectStep
<1>2. job.op = "reject" /\ state \in [Comps -> States] /\ inUse \subseteq Comps
      /\ errors \in Nat
  BY FwuAssumption DEF RejectStep, TypeOK
<1>3. CASE job' = Idle /\ Fail
  <2>1. job'.op = "none" /\ errors' # 0
    BY <1>2, <1>3 DEF Fail, Idle
  <2> QED BY <2>1, FailedConduct
<1>4. ASSUME job' = [job EXCEPT !.todo = @ \ {c}], UNCHANGED bounds,
             \A d \in Comps \ {c} : /\ state'[d] = state[d] /\ (d \in inUse' <=> d \in inUse)
                                    /\ second'[d].magic = second[d].magic,
             inUse' \subseteq Comps,
             c \in inUse' => state'[c] \notin {"STAGED", "TRIAL"},
             errors = 0 /\ c \in inUse' => ~second'[c].magic
      PROVE  Conduct'
  <2>1. job'.op = "reject" /\ job'.todo = job.todo \ {c} /\ job'.all = job.all /\ errors' = errors
    BY <1>2, <1>4 DEF TypeOK, bounds
  <2>2. RejectsStaged' /\ InstallsNeeded' /\ InstallExcluded' /\ UndoAfterFailure'
            /\ StagedNeeded'
    BY <1>1, <1>2, <1>4, <2>1
    DEF RejectsStaged, InstallsNeeded, InstallExcluded, UndoAfterFailure, StagedNeeded
  <2>3. AcceptsTrials'
    BY <1>1, <1>2, <1>4, <2>1 DEF AcceptsTrials
  <2>4. MagicIsAsked'
    BY <1>1, <1>2, <1>4, <2>1 DEF MagicIsAsked
  <2> QED BY <2>2, <2>3, <2>4
<1>5. CASE /\ c \in inUse /\ state[c] = "STAGED"
           /\ state' = [state EXCEPT ![c] = "FAILED"]
           /\ second' = MagicErased(c)
           /\ job' = [job EXCEPT !.todo = @ \ {c}]
           /\ UNCHANGED bounds
           /\ UNCHANGED inUse
  <2>1. \A d \in Comps : second'[d].magic = IF d = c THEN FALSE ELSE second[d].magic
    BY <1>1, <1>5, MagicWritten DEF MagicErased
  <2> QED BY <1>1, <1>2, <1>4, <1>5, <2>1
<1>6. CASE /\ InTrial(c)
           /\ inUse' = inUse \cup {c}
           /\ state' = [state EXCEPT ![c] = "REJECTED"]
           /\ job' = [job EXCEPT !.todo = @ \ {c}]
           /\ UNCHANGED <<second, bounds>>
  <2>1. errors = 0 => ~second[c].magic
    <3> SUFFICES ASSUME errors = 0 PROVE ~second[c].magic
      OBVIOUS
    <3>1. CASE c \in inUse
      BY <3>1, <1>2, <1>6, ReportedIs DEF InTrial, AcceptsTrials
    <3>2. CASE c \notin inUse
      <4>1. ~primary[c].ok
        BY <3>2, <1>6 DEF InTrial, Reported, BootState
      <4> QED BY <4>1, <1>1 DEF SlotsIntact, RevertImageIntact
    <3> QED BY <3>1, <3>2
  <2> QED BY <1>1, <1>2, <1>4, <1>6, <2>1
<1>7. CASE /\ Reported(c) \notin {"STAGED", "TRIAL"}
           /\ job' = [job EXCEPT !.todo = @ \ {c}]
           /\ UNCHANGED <<state, inUse, second, bounds>>
  <2>1. c \in inUse => state[c] \notin {"STAGED", "TRIAL"}
    BY <1>7, ReportedIs
  <2>2. errors = 0 /\ c \in inUse => ~second[c].magic
    BY <2>1, <1>2 DEF MagicIsAsked
  <2> QED BY <1>1, <1>2, <1>4, <1>7, <2>1, <2>2
<1> QED BY <1>3, <1>5, <1>6, <1>7 DEF RejectStep

(* A reboot forgets the requests.                                          *)
LEMMA RebootConduct ==
    ASSUME FullInv, Reboot
    PROVE  Conduct'
<1>1. inUse' = {} /\ job'.op = "none"
  BY DEF Reboot, Idle
<1> QED BY <1>1 DEF Conduct, AcceptsTrials, RejectsStaged, InstallsNeeded, InstallExcluded,
             StagedNeeded, MagicIsAsked, UndoAfterFailure

LEMMA InitFull == Init => FullInv
<1> SUFFICES ASSUME Init PROVE Conduct
  BY InitHolds DEF FullInv
<1>1. inUse = {} /\ job.op = "none"
  BY DEF Init, Idle
<1> QED BY <1>1 DEF Conduct, AcceptsTrials, RejectsStaged, InstallsNeeded, InstallExcluded,
             StagedNeeded, MagicIsAsked, UndoAfterFailure

(* Every step keeps the stronger invariant.                                *)
LEMMA FullStep ==
    ASSUME FullInv, [Next]_vars
    PROVE  FullInv'
<1>1. IInv'
  BY StepKeeps DEF FullInv
<1>2. CASE UNCHANGED vars
  BY <1>1, <1>2, SameStates DEF vars, FullInv, Conduct, AcceptsTrials, RejectsStaged,
     InstallsNeeded, InstallExcluded, StagedNeeded, MagicIsAsked, UndoAfterFailure
<1>3. CASE Next
  <2>1. Conduct'
    BY <1>3, PrepareConduct, InstallConduct, SetPendingConduct, InstallDoneConduct,
       UndoConduct, AcceptConduct, ConfirmConduct, AcceptDoneConduct, RejectConduct,
       RejectStepConduct, RebootConduct DEF Next, WriteAny
  <2> QED BY <1>1, <2>1 DEF FullInv
<1> QED BY <1>2, <1>3

(* The stronger invariant holds in every reachable state.                  *)
THEOREM FullInvariance == Spec => []FullInv
BY InitFull, FullStep, PTL DEF Spec

(* Images are installed, and staged while no access has failed, with the   *)
(* images they depend on, for any dependencies                             *)
(* (fwu_bootloader_install_image, tfm_fwu_reject).                         *)
THEOREM DependenciesAreStaged == Spec => []DependenciesStaged
<1>1. ASSUME FullInv PROVE DependenciesStaged
  <2>1. InstallsNeeded /\ StagedNeeded
    BY <1>1 DEF FullInv, Conduct
  <2>2. job = Idle => job.op # "reject"
    BY DEF Idle
  <2>3. \A d : d \in inUse /\ state[d] = "STAGED" => Reported(d) = "STAGED"
    BY DEF Reported
  <2> QED BY <2>1, <2>2, <2>3 DEF DependenciesStaged, InstallsNeeded, StagedNeeded
<1> QED BY <1>1, FullInvariance, PTL

(* No installation runs while a component is STAGED, in TRIAL or REJECTED, *)
(* as long as no access has failed (tfm_fwu_install).                      *)
THEOREM InstallIsExcluded == Spec => []InstallExcluded
<1>1. FullInv => InstallExcluded
  BY DEF FullInv, Conduct
<1> QED BY <1>1, FullInvariance, PTL

-----------------------------------------------------------------------------
(* The states that clients see.                                            *)

(* A request that moves components along the arrows of the interface.      *)
LEMMA RequestAllowed ==
    ASSUME \A c \in Comps : Reported(c)' \in States,
           \A c \in Comps : Reported(c)' # Reported(c)
                                => <<Reported(c), Reported(c)'>> \in Steps!Requests,
           copied' = copied
    PROVE  Steps!Next
<1>1. /\ Shown' = [c \in Comps |-> Reported(c)']
      /\ \A c \in Comps : Shown[c] = Reported(c) /\ Shown'[c] = Reported(c)'
  BY DEF Shown
<1>2. Shown' \in [Comps -> {"READY", "WRITING", "CANDIDATE", "STAGED", "FAILED", "TRIAL",
                            "REJECTED", "UPDATED"}]
  BY <1>1 DEF States
<1>3. Factory' = Factory
  BY DEF Factory
<1> QED BY <1>1, <1>2, <1>3 DEF Steps!Next, Steps!Request

(* Preparation of an image.                                                *)
LEMMA PrepareAllowed ==
    ASSUME FullInv, FullInv', NEW c \in Comps,
           Start(c) \/ WriteAny(c) \/ Finish(c) \/ Cancel(c) \/ Clean(c)
    PROVE  Steps!Next
<1> USE DEF FullInv, IInv
<1>1. \A d \in Comps : Reported(d)' \in States
  BY DEF TypeOK, Reported, BootState, States
<1>2. state \in [Comps -> States]
  BY DEF TypeOK
<1>3. primary' = primary /\ copied' = copied
  BY DEF Start, WriteAny, Write, Finish, Cancel, Clean, running, flash
<1>4. CASE UNCHANGED ram
  <2>1. \A d \in Comps : Reported(d)' = Reported(d)
    BY <1>3, <1>4 DEF Reported, BootState, ram
  <2> QED BY <1>1, <1>3, <2>1, RequestAllowed
<1>5. ASSUME \A d \in Comps \ {c} : state'[d] = state[d] /\ (d \in inUse' <=> d \in inUse),
             <<Reported(c), Reported(c)'>> \in Steps!Requests
      PROVE  Steps!Next
  <2>1. \A d \in Comps \ {c} : Reported(d)' = Reported(d)
    BY <1>3, <1>5 DEF Reported, BootState
  <2> QED BY <1>1, <1>3, <1>5, <2>1, RequestAllowed
<1>6. CASE Start(c) /\ ~UNCHANGED ram
  <2>1. /\ c \notin inUse /\ primary[c].ok
        /\ inUse' = inUse \cup {c}
        /\ state' = [state EXCEPT ![c] = "WRITING"]
    BY <1>6 DEF Start, MayStart, BootState
  <2>2. Reported(c) = "READY" /\ Reported(c)' = "WRITING"
    BY <1>2, <2>1 DEF Reported, BootState
  <2>3. <<Reported(c), Reported(c)'>> \in Steps!Requests
    BY <2>2 DEF Steps!Requests
  <2> QED BY <1>2, <1>5, <2>1, <2>3
<1>7. CASE WriteAny(c)
  BY <1>4, <1>7 DEF WriteAny, Write
<1>8. CASE Finish(c) \/ Cancel(c)
  <2>1. <<Reported(c), Reported(c)'>> \in Steps!Requests
    BY <1>2, <1>8 DEF Finish, Cancel, Reported, Steps!Requests
  <2> QED BY <1>2, <1>5, <1>8, <2>1 DEF Finish, Cancel
<1>9. CASE Clean(c) /\ ~UNCHANGED ram
  <2>1. /\ c \in inUse /\ state[c] \in {"FAILED", "UPDATED"}
        /\ inUse' = inUse \ {c}
        /\ state' = [state EXCEPT ![c] = "READY"]
    BY <1>9 DEF Clean
  <2>2. primary[c].ok
    BY <2>1 DEF SlotsInUseAreFree, SlotIsFree
  <2>3. Reported(c) = state[c] /\ Reported(c)' = "READY"
    BY <1>2, <1>3, <2>1, <2>2 DEF Reported, BootState
  <2>4. <<Reported(c), Reported(c)'>> \in Steps!Requests
    BY <2>1, <2>3 DEF Steps!Requests
  <2> QED BY <1>2, <1>5, <2>1, <2>4
<1> QED BY <1>4, <1>6, <1>7, <1>8, <1>9

(* Steps of install, accept and reject.                                    *)
LEMMA JobAllowed ==
    ASSUME FullInv, FullInv', errors' = 0,
           \/ Install \/ SetPending \/ InstallDone \/ UndoPending \/ UndoDone
           \/ Accept \/ Confirm \/ AcceptDone \/ Reject \/ RejectStep \/ RejectDone
    PROVE  Steps!Next
<1> USE DEF FullInv, IInv
<1>1. \A d \in Comps : Reported(d)' \in States
  BY DEF TypeOK, Reported, BootState, States
<1>2. state \in [Comps -> States] /\ inUse \subseteq Comps /\ job.all \subseteq Comps
  BY DEF TypeOK
<1> copied' = copied
  BY DEF Install, FailCandidates, SetPending, InstallDone, UndoPending, UndoDone, Accept,
         Confirm, AcceptDone, Reject, RejectStep, RejectDone, running, flash
<1>3. CASE SetPending \/ UndoPending \/ Reject \/ RejectDone
  <2>1. state' = state /\ inUse' = inUse /\ primary' = primary
    BY <1>3 DEF SetPending, UndoPending, Reject, RejectDone, ram, running, flash
  <2> QED BY <1>1, <2>1, SameStates, RequestAllowed
<1>4. CASE Install
  <2>1. CASE state' = state /\ inUse' = inUse /\ primary' = primary
    BY <1>1, <2>1, SameStates, RequestAllowed
  <2>2. CASE FailCandidates
    <3>1. \A c \in Comps : \/ Reported(c)' = Reported(c)
                           \/ Reported(c)' = "FAILED" /\ Reported(c) = "CANDIDATE"
      BY <1>2, <2>2 DEF FailCandidates, Candidates, SetState, Reported, BootState, flash
    <3> QED BY <1>1, <3>1, RequestAllowed DEF Steps!Requests
  <2> QED BY <1>4, <2>1, <2>2 DEF Install, ram, flash
<1>5. CASE InstallDone \/ UndoDone
  <2>1. PICK s \in {"STAGED", "FAILED"} : state' = SetState(job.all, s)
    BY <1>5 DEF InstallDone, UndoDone
  <2>2. inUse' = inUse /\ primary' = primary
    BY <1>5 DEF InstallDone, UndoDone, flash
  <2>3. \A c \in job.all : c \in inUse /\ state[c] = "CANDIDATE"
    BY <1>5 DEF InstallDone, UndoDone, JobIsFresh
  <2>4. \A c \in Comps : \/ Reported(c)' = Reported(c)
                         \/ Reported(c)' = s /\ Reported(c) = "CANDIDATE"
    BY <1>2, <2>1, <2>2, <2>3 DEF SetState, Reported, BootState
  <2> QED BY <1>1, <2>4, RequestAllowed DEF Steps!Requests
<1>6. CASE AcceptDone
  <2>1. /\ state' = SetState(job.all, "UPDATED") /\ inUse' = inUse /\ primary' = primary
        /\ \A c \in job.all : c \in inUse /\ state[c] = "TRIAL"
    BY <1>6 DEF AcceptDone, flash, Conduct, AcceptsTrials
  <2>2. \A c \in Comps : \/ Reported(c)' = Reported(c)
                         \/ Reported(c)' = "UPDATED" /\ Reported(c) = "TRIAL"
    BY <1>2, <2>1 DEF SetState, Reported, BootState
  <2> QED BY <1>1, <2>2, RequestAllowed DEF Steps!Requests
<1>7. CASE Accept
  <2>1. PICK r \in SUBSET Trials : Reserve(r)
    BY <1>7 DEF Accept
  <2>2. primary' = primary
    BY <1>7 DEF Accept, flash
  <2>3. \A c \in Comps : Reported(c)' = Reported(c)
    BY <1>2, <2>1, <2>2 DEF Reserve, SetState, Trials, InTrial, Reported, BootState
  <2> QED BY <1>1, <2>3, RequestAllowed
<1>8. CASE Confirm
  <2> PICK c : c = Min(job.todo)
    OBVIOUS
  <2>1. c \in job.todo /\ c \in Comps /\ c \in job.all
    BY <1>8, FirstToDo DEF Confirm, JobIsFresh
  <2>2. c \in inUse /\ state' = state /\ inUse' = inUse
    BY <1>8, <2>1 DEF Confirm, ram, Conduct, AcceptsTrials
  <2>3. \A d \in Comps \ {c} : primary'[d].ok = primary[d].ok
    BY <1>8, <2>1, OkWritten DEF Confirm, Confirmed
  <2>4. \A d \in Comps : Reported(d)' = Reported(d)
    BY <2>2, <2>3 DEF Reported, BootState
  <2> QED BY <1>1, <2>4, RequestAllowed
<1>9. CASE RejectStep
  <2> PICK c : c = Min(job.todo)
    OBVIOUS
  <2>1. c \in Comps /\ primary' = primary
    BY <1>9, FirstToDo DEF RejectStep, running
  <2>2. \/ state' = state /\ inUse' = inUse
        \/ Reported(c) = "STAGED" /\ inUse' = inUse /\ c \in inUse
           /\ state' = [state EXCEPT ![c] = "FAILED"]
        \/ Reported(c) = "TRIAL" /\ inUse' = inUse \cup {c}
           /\ state' = [state EXCEPT ![c] = "REJECTED"]
    BY <1>9, ReportedIs DEF RejectStep, InTrial
  <2>3. \A d \in Comps : \/ Reported(d)' = Reported(d)
                         \/ Reported(d)' = "FAILED" /\ Reported(d) = "STAGED"
                         \/ Reported(d)' = "REJECTED" /\ Reported(d) = "TRIAL"
    BY <1>2, <2>1, <2>2 DEF Reported, BootState
  <2> QED BY <1>1, <2>3, RequestAllowed DEF Steps!Requests
<1> QED BY <1>3, <1>4, <1>5, <1>6, <1>7, <1>8, <1>9

(* A reboot brings into TRIAL only what had been left to the boot loader.  *)
LEMMA RebootAllowed ==
    ASSUME FullInv, errors' = 0, Reboot
    PROVE  Steps!Next
<1> USE DEF FullInv, IInv
<1>1. PICK swapped \in BootChoices : \E erased \in SUBSET (Pending \ swapped) : Boot(swapped, erased)
  BY DEF Reboot
<1>2. PICK erased \in SUBSET (Pending \ swapped) : Boot(swapped, erased)
  BY <1>1
<1>3. swapped \subseteq Pending /\ inUse' = {} /\ errors = 0 /\ copied' = copied \cup swapped
  BY <1>2 DEF BootChoices, Reboot, Boot
<1>4. ASSUME NEW c \in Comps
      PROVE  /\ Shown'[c] \in {"READY", "TRIAL"}
             /\ Shown'[c] \in IF c \in Factory' THEN Steps!MayStay(Shown[c])
                                                 ELSE Steps!MayBoot(Shown[c])
  <2>1. Shown'[c] = (IF primary'[c].ok THEN "READY" ELSE "TRIAL") /\ Shown[c] = Reported(c)
    BY <1>3 DEF Shown, Reported, BootState
  <2>2. CASE primary'[c].ok
    BY <2>1, <2>2 DEF Steps!MayStay, Steps!MayBoot
  <2>3. CASE ~primary'[c].ok /\ c \notin swapped
    <3>1. c \notin Reverted
      BY <1>2, <2>3 DEF Boot, SwapOf
    <3>2. ~primary[c].ok
      BY <1>2, <2>3, <3>1 DEF Boot
    <3>3. c \notin copied /\ c \in Factory'
      BY <1>3, <2>3, <3>1, <3>2
      DEF Reverted, Pending, SlotsIntact, RevertImageIntact, Factory
    <3>4. Reported(c) \in {"TRIAL", "REJECTED"}
      <4>1. CASE c \in inUse
        BY <3>2, <4>1, ReportedIs DEF SlotsInUseAreFree, SlotIsFree
      <4>2. CASE c \notin inUse
        BY <3>2, <4>2, ReportedIs
      <4> QED BY <4>1, <4>2
    <3> QED BY <2>1, <2>3, <3>3, <3>4 DEF Steps!MayStay
  <2>4. CASE ~primary'[c].ok /\ c \in swapped
    <3>1. second[c].magic /\ primary[c].ok /\ c \notin Factory'
      BY <1>3, <2>4 DEF Pending, SlotsIntact, RevertImageIntact, Factory
    <3>2. Reported(c) \in {"READY", "CANDIDATE", "STAGED"}
      <4>1. CASE c \in inUse
        BY <1>3, <3>1, <4>1, ReportedIs DEF Conduct, MagicIsAsked, JobIsFresh
      <4>2. CASE c \notin inUse
        BY <3>1, <4>2, ReportedIs
      <4> QED BY <4>1, <4>2
    <3> QED BY <2>1, <3>1, <3>2 DEF Steps!MayBoot
  <2> QED BY <2>2, <2>3, <2>4
<1>5. Shown' = [c \in Comps |-> Shown'[c]]
  BY DEF Shown
<1>6. Shown' \in [Comps -> {"READY", "TRIAL"}]
  BY <1>4, <1>5
<1>7. Factory' \subseteq Factory
  BY <1>3 DEF Factory
<1> QED BY <1>4, <1>6, <1>7 DEF Steps!Next, Steps!Reboot

(* The service implements the states of the PSA firmware update interface  *)
(* as long as no access to the flash has failed, for any number of         *)
(* components and any dependencies.                                        *)
THEOREM StatesImplemented == Spec => ImplementsStates
<1>1. ASSUME Init PROVE Steps!Init
  <2>1. PICK ok \in BOOLEAN : primary = [c \in Comps |-> [image |-> "old", ok |-> ok]]
    BY <1>1 DEF Init
  <2>2. Factory = Comps /\ inUse = {}
    BY <1>1 DEF Init, Factory
  <2>3. \A c \in Comps : Reported(c) = IF ok THEN "READY" ELSE "TRIAL"
    BY <2>1, <2>2 DEF Reported, BootState
  <2>4. Shown = [c \in Comps |-> IF ok THEN "READY" ELSE "TRIAL"]
    BY <2>3 DEF Shown
  <2> QED BY <2>2, <2>4 DEF Steps!Init
<1>2. ASSUME FullInv, FullInv', [Next]_vars, errors' = 0
      PROVE  Steps!Next \/ (Shown' = Shown /\ Factory' = Factory)
  <2>1. CASE UNCHANGED vars
    <3>1. \A c \in Comps : Reported(c)' = Reported(c)
      BY <2>1, SameStates DEF vars
    <3> QED BY <2>1, <3>1 DEF Shown, Factory, vars
  <2>2. CASE Next
    BY <1>2, <2>2, PrepareAllowed, JobAllowed, RebootAllowed DEF Next, WriteAny
  <2> QED BY <1>2, <2>1, <2>2
<1>3. FullInv /\ FullInv' /\ [Next]_vars => [errors' = 0 => Steps!Next]_<<Shown, Factory>>
  BY <1>2
<1> QED BY <1>1, <1>3, FullInvariance, PTL DEF Spec, ImplementsStates

=============================================================================
