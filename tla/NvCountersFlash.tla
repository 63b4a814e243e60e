-------------------------- MODULE NvCountersFlash --------------------------
(***************************************************************************)
(* NV counters kept in flash: platform/ext/common/template/nv_counters.c,  *)
(* flash_otp_nv_counters_backend.c and the counters of otp_flash.c.        *)
(*                                                                         *)
(* The items live in two areas of the flash, the area in use and its       *)
(* backup, each with a mark that it was initialised (in its first sector)  *)
(* and a count of the updates (at the end of its last sector).  Each       *)
(* operation is a list of accesses to the flash, and the power may fail    *)
(* between any two.  No item lies in two sectors.  An access may also      *)
(* fail, with no effect, and the operation returns at once.                *)
(***************************************************************************)
EXTENDS Naturals, Sequences

CONSTANTS
    Items,       \* counters
    NumSectors,  \* sectors of an area
    SectorOf,    \* the sector of each item
    MaxValue,    \* UINT32_MAX as value of an item: what erased flash reads
    MaxSwap,     \* UINT32_MAX as swap_count
    MaxCrashes,  \* bound on power failures
    MaxErrors    \* bound on failed accesses

Sectors == 1 .. NumSectors

ASSUME NvAssumption ==
    /\ NumSectors \in Nat \ {0}
    /\ SectorOf \in [Items -> Sectors]
    /\ MaxValue \in Nat \ {0} /\ MaxSwap \in Nat /\ MaxSwap > 2
    /\ MaxCrashes \in Nat /\ MaxErrors \in Nat

VARIABLES
    area,    \* "main" and "backup": init_value, the items, swap_count
    todo,    \* accesses to the flash that are left of the operation
    up,      \* init_otp_nv_counters_flash has returned
    failed,  \* an operation failed since the reset
    crashes, errors,
    resumed  \* history: a counter was set after a failure, without a reset

vars == <<area, todo, up, failed, crashes, errors, resumed>>

Areas == {"main", "backup"}
Last == NumSectors
ErasedArea == [init |-> "erased", item |-> [i \in Items |-> MaxValue], swap |-> MaxSwap]

-----------------------------------------------------------------------------
(* Accesses to the flash.                                                  *)

Access(op, a, s) == [op |-> op, area |-> a, sector |-> s]

In(s, f, g) == [i \in Items |-> IF SectorOf[i] = s THEN f[i] ELSE g[i]]

Erase(a, s) ==
    [a EXCEPT !.item = In(s, [i \in Items |-> MaxValue], @),
              !.init = IF s = 1 THEN "erased" ELSE @,
              !.swap = IF s = Last THEN MaxSwap ELSE @]

(* Sector s of area to becomes that of area from, but for swap_count.      *)
CopyData(from, to, s) ==
    [to EXCEPT !.item = In(s, from.item, @), !.init = IF s = 1 THEN from.init ELSE @]

Zero(a, s) ==
    [a EXCEPT !.item = In(s, [i \in Items |-> 0], @),
              !.init = IF s = 1 THEN "zero" ELSE @,
              !.swap = IF s = Last THEN 0 ELSE @]

(* The count wraps before the value of erased flash.                       *)
NextSwap(n) ==
    LET m == (n + 1) % (MaxSwap + 1)
    IN  IF m = MaxSwap THEN 1 ELSE m

Other(a) == IF a = "main" THEN "backup" ELSE "main"

After(x) ==
    LET a == area[x.area]
        from == area[Other(x.area)]
    IN  CASE x.op = "erase" -> Erase(a, x.sector)
          [] x.op = "zero" -> Zero(a, x.sector)
          [] x.op = "data" -> CopyData(from, a, x.sector)
          [] x.op = "set" -> [CopyData(from, a, x.sector) EXCEPT !.item[x.item] = x.value]
          [] x.op = "mark" -> [CopyData(from, a, 1) EXCEPT !.init = "ok"]
          [] x.op = "count" -> [a EXCEPT !.swap = NextSwap(from.swap)]
          [] x.op = "swap" -> [a EXCEPT !.swap = from.swap]

-----------------------------------------------------------------------------
(* Operations as lists of accesses.                                        *)

ForSectors(op, a) == [s \in Sectors |-> Access(op, a, s)]

(* erase_flash_region, copy_flash_region; swap_count is at the end.        *)
EraseThenCopy(a) == ForSectors("erase", a) \o ForSectors("data", a) \o <<Access("swap", a, Last)>>

MakeBackup == EraseThenCopy("backup")
RestoreBackup == EraseThenCopy("main")

(* Mutant: the sector of swap_count is erased after the item's.            *)
WriteCountLate(s, program) ==
    <<Access("erase", "main", s), program>>
        \o (IF s < Last THEN <<Access("erase", "main", Last), Access("data", "main", Last)>>
                        ELSE << >>)
        \o <<Access("count", "main", Last)>> \o MakeBackup

(* write_otp_nv_counters_flash of something in sector s: swap_count is     *)
(* erased first and written last.                                          *)
WriteFlash(s, program) ==
    (IF s < Last THEN <<Access("erase", "main", Last)>> ELSE << >>)
        \o <<Access("erase", "main", s), program>>
        \o (IF s < Last THEN <<Access("data", "main", Last)>> ELSE << >>)
        \o <<Access("count", "main", Last)>> \o MakeBackup

(* create_or_restore_layout without a valid backup.  The second write is   *)
(* that of swap_count, whose value the count replaces.                     *)
CreateLayout ==
    ForSectors("erase", "main") \o ForSectors("zero", "main") \o MakeBackup
        \o WriteFlash(1, Access("mark", "main", 1))
        \o WriteFlash(Last, Access("data", "main", Last))

-----------------------------------------------------------------------------
ValidCount(n) == n # 0 /\ n # MaxSwap
Valid(a) == area[a].init = "ok" /\ ValidCount(area[a].swap)

(* Mutant: a backup that is older by a wrapped count counts as current.    *)
BackupIsStaleNoWrap ==
    ~ValidCount(area["backup"].swap) \/ area["backup"].swap < area["main"].swap

BackupIsStale ==
    \/ ~ValidCount(area["backup"].swap)
    \/ area["backup"].swap < area["main"].swap
    \/ area["backup"].swap = MaxSwap - 1 /\ area["main"].swap = 1

(* init_otp_nv_counters_flash.                                             *)
Boot ==
    /\ ~up /\ todo = << >> /\ ~failed
    /\ todo' = IF ~Valid("main")
               THEN IF Valid("backup") THEN RestoreBackup ELSE CreateLayout
               ELSE IF BackupIsStale THEN MakeBackup ELSE << >>
    /\ up' = (Valid("main") /\ ~BackupIsStale)
    /\ UNCHANGED <<area, failed, crashes, errors, resumed>>

FlashAccess ==
    /\ todo # << >>
    /\ area' = [area EXCEPT ![Head(todo).area] = After(Head(todo))]
    /\ todo' = Tail(todo)
    /\ up' = (up \/ Len(todo) = 1)
    /\ UNCHANGED <<failed, crashes, errors, resumed>>

(* The driver reports an error: the operation returns it.  When it was     *)
(* init_otp_nv_counters_flash, the platform does not start.                *)
AccessFails ==
    /\ todo # << >> /\ errors < MaxErrors
    /\ errors' = errors + 1
    /\ todo' = << >>
    /\ failed' = TRUE
    /\ UNCHANGED <<area, up, crashes, resumed>>

(* set_nv_counter_flash; for a counter in OTP, whose value is its number   *)
(* of leading ones, read_from_input refuses to clear a bit.                *)
MaySet(i, v) == area["main"].item[i] # MaxValue /\ v >= area["main"].item[i]

(* tfm_plat_set_nv_counter, tfm_plat_increment_nv_counter.  Their users go *)
(* on after a failure: Protected Storage increments its counters again     *)
(* with the next request (ps_object_table.c).                              *)
SetCounter(i, v) ==
    /\ up /\ todo = << >>
    /\ MaySet(i, v)
    /\ todo' = WriteFlash(SectorOf[i],
                          [op |-> "set", area |-> "main", sector |-> SectorOf[i],
                           item |-> i, value |-> v])
    /\ resumed' = (resumed \/ failed)
    /\ UNCHANGED <<area, up, failed, crashes, errors>>

(* The power fails.                                                        *)
Crash ==
    /\ crashes < MaxCrashes
    /\ crashes' = crashes + 1
    /\ todo' = << >>
    /\ up' = FALSE
    /\ failed' = FALSE
    /\ UNCHANGED <<area, errors, resumed>>

-----------------------------------------------------------------------------
Init ==
    /\ area = [a \in Areas |-> ErasedArea]
    /\ todo = << >>
    /\ up = FALSE
    /\ failed = FALSE
    /\ crashes = 0 /\ errors = 0
    /\ resumed = FALSE

Next ==
    \/ Boot \/ FlashAccess \/ AccessFails
    \/ \E i \in Items, v \in 0 .. MaxValue : SetCounter(i, v)
    \/ Crash

Spec == Init /\ [][Next]_vars

-----------------------------------------------------------------------------
(* Properties.                                                             *)

(* The values that the next boot finds.                                    *)
Holds == IF Valid("main") THEN "main" ELSE "backup"
Exists == Valid("main") \/ Valid("backup")
Shown == IF Exists THEN area[Holds].item ELSE [i \in Items |-> 0]

(* When the last operation since the reset succeeded, the area in use is   *)
(* the one that the next boot uses, and its backup is the same             *)
(* (init_otp_nv_counters_flash, make_backup).  That holds also after       *)
(* failed accesses, as long as no counter is set between a failure and the *)
(* next reset: write_otp_nv_counters_flash relies on the backup and does   *)
(* not look whether it is whole.                                           *)
AreasAgree ==
    ~resumed /\ up /\ ~failed /\ todo = << >> => Valid("main") /\ area["main"] = area["backup"]

Store == INSTANCE NvStore WITH
    exists <- Exists,
    value <- Shown

(* Setting a counter is one step for whoever reads it, and no counter ever *)
(* decreases or changes otherwise, whenever the power fails and whichever  *)
(* access fails, up to the first counter that is set between a failure and *)
(* the next reset: at every point one of the two areas is whole and has    *)
(* the valid count (the order of the accesses of                           *)
(* write_otp_nv_counters_flash and make_backup).                           *)
ImplementsStore ==
    Store!Init /\ [][~resumed' => Store!Next]_<<Exists, Shown>>

=============================================================================
