--------------------------- MODULE PsObjectTable ---------------------------
(***************************************************************************)
(* Protected Storage: ps_object_table.c, ps_object_system.c and            *)
(* tfm_protected_storage.c, with encryption and without a key usage limit. *)
(*                                                                         *)
(* Every object is a file of Internal Trusted Storage and the object table *)
(* is another one, kept in two copies: a request stores the new object in  *)
(* a free file, writes the new table over the older copy, aligns the three *)
(* non-volatile counters and removes the old table and the old object.     *)
(* Each call to ITS and each increment of a counter is a step; power may   *)
(* fail between any two, and within an its_set that takes several writes.  *)
(* The authentication tag of an object identifies one encryption of it.    *)
(***************************************************************************)
EXTENDS Naturals, FiniteSets, FiniteSetsExt

CONSTANTS
    Uids,          \* client id and uid of an object
    Vals,          \* contents of objects
    CreateFlags,   \* values of PSA_STORAGE_FLAG_WRITE_ONCE clients use
    NumAssets,     \* PS_NUM_ASSETS
    Rollback,      \* PS_ROLLBACK_PROTECTION
    CreateLayout,  \* PS_CREATE_FLASH_LAYOUT
    SwapMod,       \* swap_count takes SwapMod values (256)
    MaxNvc,        \* bound: no request starts with the counter at this value
    MaxCrashes,    \* bound on saves in a row that a power failure interrupts
    MaxErrors,     \* bound on calls that fail
    Faults,        \* the calls that may fail: get, set, remove, increment
    Torn,          \* a file of which only a part was written
    None           \* no file, no index, no request

ASSUME PsAssumption ==
    /\ NumAssets \in Nat \ {0}
    /\ SwapMod \in Nat \ (0 .. 3)
    /\ MaxNvc \in Nat /\ MaxCrashes \in Nat /\ MaxErrors \in Nat
    /\ Rollback \in BOOLEAN /\ CreateLayout \in BOOLEAN
    /\ CreateFlags \subseteq BOOLEAN
    /\ Faults \subseteq {"get", "set", "remove", "increment"}
    /\ None \notin Nat
    /\ {None, Torn} \cap [tag : Nat, val : Vals, once : BOOLEAN] = {}
    /\ {None, Torn} \cap [ver : Nat,
                          db : [0 .. NumAssets -> [uid : Uids, tag : Nat] \cup {None}]] = {}
    /\ None \notin [uid : Uids, tag : Nat] /\ None \notin [val : Vals, once : BOOLEAN]
    /\ None \notin [op : {"set", "remove"}, uid : Uids,
                    value : [val : Vals, once : BOOLEAN] \cup {None}, done : BOOLEAN]

VARIABLES
    obj,      \* object files, by index in the table
    tab,      \* the two table files
    nvc,      \* TFM_PS_NV_COUNTER_1 .. 3
    table,    \* ps_obj_table_ctx.obj_table.obj_db
    swap,     \* ps_obj_table_ctx.obj_table.swap_count
    active,   \* ps_obj_table_ctx.active_table; the other is the scratch table
    pc,       \* the next call to ITS or to a counter
    call,     \* the request, with g_obj_tbl_info and g_ps_object
    result,   \* outcome of the last request
    crashes,  \* power failures during a save since one was completed
    twice,    \* history: with the counters in use there were two of them
    errors    \* calls that failed

persistent == <<obj, tab, nvc>>
ram == <<table, swap, active>>
vars == <<obj, tab, nvc, table, swap, active, pc, call, result, crashes, twice, errors>>

Idx == 0 .. NumAssets       \* PS_OBJ_TABLE_ENTRIES is PS_NUM_ASSETS + 1
scratch == 1 - active
EmptyTable == [i \in Idx |-> None]

-----------------------------------------------------------------------------
(* The object table.                                                       *)

FirstIdx(S) == IF S = {} THEN None ELSE Min(S)

(* ps_get_object_entry_idx.                                                *)
EntryIdx(db, u) == FirstIdx({i \in Idx : db[i] # None /\ db[i].uid = u})

(* Mutant: a new object may take the last free entry.                      *)
FreeIdxLast(n) == FirstIdx({i \in Idx : table[i] = None})

(* ps_table_free_idx: the n-th free index.                                 *)
FreeIdx(n) ==
    LET free == {i \in Idx : table[i] = None}
    IN  FirstIdx({i \in free : Cardinality({j \in free : j <= i}) = n})

(* ps_encrypted_object_read: the tag in the table authenticates the file.  *)
Readable(db, i) == obj[i] \notin {None, Torn} /\ obj[i].tag = db[i].tag

(* ps_crypto_get_iv: no two encryptions of which a trace is left share a   *)
(* tag.                                                                    *)
Tags(db) == {db[i].tag : i \in {j \in Idx : db[j] # None}}
FreshTag ==
    LET files == {obj[i].tag : i \in {j \in Idx : obj[j] \notin {None, Torn}}}
        old == UNION {Tags(tab[t].db) : t \in {k \in {0, 1} : tab[k] \notin {None, Torn}}}
    IN  Min((1 .. 4 * (NumAssets + 1) + 1) \ (files \cup old \cup Tags(table)))

-----------------------------------------------------------------------------
(* Which of the two tables is used after a restart.                        *)

(* Mutant: counter 3 is used although it differs from counter 2.           *)
Nvc3Always == nvc[3]

(* PS_INVALID_NVC_VALUE is 0: no table is authenticated with it.           *)
UsableNvc3 == IF nvc[3] = nvc[2] THEN nvc[3] ELSE 0

(* ps_object_table_authenticate; a table carries the value of counter 1    *)
(* its tag was made with.                                                  *)
TableState(t) ==
    IF tab[t] \in {None, Torn} THEN "invalid"
    ELSE IF ~Rollback THEN "valid"
    ELSE IF tab[t].ver = nvc[1] THEN "nvc1"
    ELSE IF UsableNvc3 # 0 /\ tab[t].ver = UsableNvc3 THEN "nvc3"
    ELSE "invalid"

(* The roll over of the swap count in ps_set_active_object_table.          *)
LaterTable(n0, n1) ==
    IF n1 = 0 /\ n0 # 1 THEN 1
    ELSE IF n0 = 0 /\ n1 # 1 THEN 0
    ELSE IF n1 > n0 THEN 1 ELSE 0

(* ps_set_active_object_table; unread are the files that could not be read. *)
ActiveTable(unread) ==
    LET state == [t \in {0, 1} |-> IF t \in unread THEN "invalid" ELSE TableState(t)]
    IN  IF state[0] = "invalid" /\ state[1] = "invalid" THEN None
        ELSE IF state[0] = "invalid" THEN 1
        ELSE IF state[1] = "invalid" THEN 0
        ELSE IF Rollback THEN (IF state[1] = "nvc1" THEN 1 ELSE 0)
        ELSE LaterTable(tab[0].ver, tab[1].ver)

-----------------------------------------------------------------------------
(* Requests.  fid and tag are g_obj_tbl_info, new is the free file, old is *)
(* old_fid, backup the entry that was replaced in the table.               *)

NoCall == [op |-> "none"]
InitCall(again) == [op |-> "init", again |-> again]

Fails(kind) == kind \in Faults /\ errors < MaxErrors
OneError == errors' = errors + 1

Return(status) ==
    /\ pc' = "idle"
    /\ call' = NoCall
    /\ result' = [status |-> status, value |-> None]

(* ps_object_table_save_table starts with counter 1.                       *)
SaveStart == IF Rollback THEN "increment" ELSE "write"
Saves == {"increment", "write", "align"}

(* Mutant: the old entry of the object stays in the table.                 *)
StartUpdateKeeping(c) ==
    /\ table' = [table EXCEPT ![c.fid] = [uid |-> c.uid, tag |-> c.tag]]
    /\ call' = c
    /\ pc' = SaveStart

(* ps_object_table_set_obj_tbl_info up to the save.                        *)
StartUpdate(c) ==
    LET i == EntryIdx(table, c.uid)
        db == IF i = None THEN table ELSE [table EXCEPT ![i] = None]
    IN  /\ table' = [db EXCEPT ![c.fid] = [uid |-> c.uid, tag |-> c.tag]]
        /\ call' = [c EXCEPT !.backup = IF i = None THEN None
                                        ELSE [idx |-> i, entry |-> table[i]]]
        /\ pc' = SaveStart

Request(op, u, v, once) ==
    LET i == EntryIdx(table, u)
    IN  [op |-> op, uid |-> u, val |-> v, once |-> once,
         fid |-> i, tag |-> IF i = None THEN 0 ELSE table[i].tag,
         new |-> None, old |-> None, backup |-> None, err |-> "ok"]

(* ps_object_create up to the first change of a file.  An object that      *)
(* cannot be read or changed has its entry written again.                  *)
CreateRequest(u, v, once, readFails) ==
    LET c == Request("set", u, v, once)
        i == c.fid
        Refuse(err) == StartUpdate([c EXCEPT !.err = err]) /\ UNCHANGED result
    IN  IF i = None
        THEN IF FreeIdx(2) = None THEN Return("no_space") /\ UNCHANGED table
             ELSE /\ call' = [c EXCEPT !.new = FreeIdx(2)]
                  /\ pc' = "free"
                  /\ UNCHANGED <<table, result>>
        ELSE IF readFails \/ ~Readable(table, i) THEN Refuse("failed")
        ELSE IF obj[i].once THEN Refuse("not_permitted")
        ELSE IF FreeIdx(1) = None THEN Refuse("no_space")
        ELSE /\ call' = [c EXCEPT !.new = FreeIdx(1), !.old = i]
             /\ pc' = "free"
             /\ UNCHANGED <<table, result>>

(* The read of an object that has an entry succeeds or fails.              *)
ReadOutcome(u, fails) ==
    /\ fails => Fails("get") /\ EntryIdx(table, u) # None
    /\ IF fails THEN OneError ELSE UNCHANGED errors

Set(u, v, once) ==
    /\ pc = "idle"
    /\ nvc[1] < MaxNvc
    /\ \E fails \in BOOLEAN :
        /\ ReadOutcome(u, fails)
        /\ CreateRequest(u, v, once, fails)
    /\ UNCHANGED <<persistent, swap, active, crashes, twice>>

(* ps_object_delete and ps_object_table_delete_object up to the save.      *)
Remove(u) ==
    /\ pc = "idle"
    /\ nvc[1] < MaxNvc
    /\ \E fails \in BOOLEAN :
        /\ ReadOutcome(u, fails)
        /\ LET c == Request("remove", u, None, FALSE)
               i == c.fid
           IN  IF i = None THEN Return("does_not_exist") /\ UNCHANGED table
               ELSE IF fails \/ ~Readable(table, i) THEN Return("failed") /\ UNCHANGED table
               ELSE IF obj[i].once THEN Return("not_permitted") /\ UNCHANGED table
               ELSE /\ table' = [table EXCEPT ![i] = None]
                    /\ call' = [c EXCEPT !.backup = [idx |-> i, entry |-> table[i]]]
                    /\ pc' = SaveStart
                    /\ UNCHANGED result
    /\ UNCHANGED <<persistent, swap, active, crashes, twice>>

(* ps_object_read and ps_object_get_info.                                  *)
Get(u) ==
    /\ pc = "idle"
    /\ \E fails \in BOOLEAN :
        /\ ReadOutcome(u, fails)
        /\ LET i == EntryIdx(table, u)
           IN  result' = IF i = None THEN [status |-> "does_not_exist", value |-> None]
                         ELSE IF fails \/ ~Readable(table, i)
                         THEN [status |-> "failed", value |-> None]
                         ELSE [status |-> "success",
                               value |-> [val |-> obj[i].val, once |-> obj[i].once]]
    /\ UNCHANGED <<persistent, ram, pc, call, crashes, twice>>

-----------------------------------------------------------------------------
(* The steps of ps_object_create.                                          *)

(* The object could not be stored: an old one is entered again, with what  *)
(* g_obj_tbl_info holds by now.                                            *)
CreateFails(c) ==
    IF c.old = None THEN Return("failed") /\ UNCHANGED table
    ELSE StartUpdate([c EXCEPT !.err = "failed"]) /\ UNCHANGED result

(* Mutant: the old object is removed before the table is saved.            *)
FreeFileEarly ==
    /\ pc = "free"
    /\ obj' = [i \in Idx |-> IF i \in {call.new, call.old} THEN None ELSE obj[i]]
    /\ pc' = "store"
    /\ UNCHANGED <<tab, nvc, ram, call, result, crashes, twice, errors>>

(* ps_object_table_get_free_fid removes what is left of an old object.     *)
FreeFile ==
    /\ pc = "free"
    /\ \/ /\ obj' = [obj EXCEPT ![call.new] = None]
          /\ pc' = "store"
          /\ UNCHANGED <<table, call, result, errors>>
       \/ Fails("remove") /\ OneError /\ CreateFails(call) /\ UNCHANGED obj
    /\ UNCHANGED <<tab, nvc, swap, active, crashes, twice>>

(* Mutant: the new object is written over the old one.                     *)
StoreInPlace ==
    /\ pc = "store"
    /\ LET f == IF call.old = None THEN call.new ELSE call.old
       IN  /\ obj' = [obj EXCEPT ![f] =
                        [tag |-> FreshTag, val |-> call.val, once |-> call.once]]
           /\ StartUpdate([call EXCEPT !.fid = f, !.tag = FreshTag, !.old = None])
    /\ UNCHANGED <<tab, nvc, swap, active, result, crashes, twice, errors>>

(* ps_store_object: the tag in g_obj_tbl_info is the new one whether the   *)
(* file could be written or not.                                           *)
StoreObject ==
    LET c == [call EXCEPT !.fid = call.new, !.tag = FreshTag]
    IN  /\ pc = "store"
        /\ \/ /\ obj' = [obj EXCEPT ![call.new] =
                            [tag |-> FreshTag, val |-> call.val, once |-> call.once]]
              /\ StartUpdate(c)
              /\ UNCHANGED <<result, errors>>
           \/ /\ Fails("set")
              /\ OneError
              /\ CreateFails([c EXCEPT !.fid = IF call.old = None THEN @ ELSE call.old])
              /\ UNCHANGED obj
        /\ UNCHANGED <<tab, nvc, swap, active, crashes, twice>>

-----------------------------------------------------------------------------
(* ps_object_table_save_table and what follows it.                         *)

(* tfm_ps_init: the first failure of ps_system_prepare creates an empty    *)
(* table when PS_CREATE_FLASH_LAYOUT says so.                              *)
PrepareFails ==
    IF CreateLayout /\ ~call.again
    THEN /\ table' = EmptyTable
         /\ swap' = 0
         /\ active' = 1
         /\ call' = InitCall(TRUE)
         /\ pc' = SaveStart
    ELSE /\ pc' = "dead"
         /\ UNCHANGED <<ram, call>>

SaveSucceeds ==
    /\ crashes' = 0
    /\ IF call.op = "init" THEN pc' = "boot" ELSE pc' = "drop_table"
    /\ UNCHANGED <<table, call, result>>

(* The change of the table is undone; ps_update_table then removes the     *)
(* object.                                                                 *)
SaveFails ==
    LET restored == IF call.backup = None THEN table
                    ELSE [table EXCEPT ![call.backup.idx] = call.backup.entry]
    IN  /\ IF call.op = "init" THEN pc' = "dead" /\ UNCHANGED <<table, call, result>>
           ELSE IF call.op = "remove" THEN table' = restored /\ Return("failed")
           ELSE /\ table' = [restored EXCEPT ![call.fid] = None]
                /\ pc' = "undo"
                /\ call' = [call EXCEPT !.err = IF @ = "ok" THEN "failed" ELSE @]
                /\ UNCHANGED result
        /\ UNCHANGED crashes

IncrementNvc1 ==
    /\ pc = "increment"
    /\ \/ /\ nvc' = [nvc EXCEPT ![1] = @ + 1]
          /\ pc' = "write"
          /\ UNCHANGED <<table, call, result, crashes, errors>>
       \/ Fails("increment") /\ OneError /\ SaveFails /\ UNCHANGED nvc
    /\ UNCHANGED <<obj, tab, swap, active, twice>>

(* The swap count skips the value of erased flash.                         *)
NextSwap(n) == IF (n + 1) % SwapMod = SwapMod - 1 THEN 0 ELSE (n + 1) % SwapMod

(* The swap of active_table and scratch_table.                             *)
Swapped == scratch

(* ps_object_table_fs_write_table, with the swap of the tables.            *)
WriteTable ==
    /\ pc = "write"
    /\ swap' = IF Rollback THEN swap ELSE NextSwap(swap)
    /\ \/ /\ tab' = [tab EXCEPT ![scratch] =
                        [ver |-> IF Rollback THEN nvc[1] ELSE swap', db |-> table]]
          /\ active' = Swapped
          /\ IF Rollback
             THEN pc' = "align" /\ UNCHANGED <<table, call, result, crashes>>
             ELSE SaveSucceeds
          /\ UNCHANGED errors
       \/ Fails("set") /\ OneError /\ SaveFails /\ UNCHANGED <<tab, active>>
    /\ UNCHANGED <<obj, nvc, twice>>

(* ps_object_table_align_nv_counters: counter 2 first.                     *)
NextNvc == IF nvc[2] < nvc[1] THEN 2 ELSE 3

AlignNvc ==
    /\ pc = "align"
    /\ \/ /\ nvc' = [nvc EXCEPT ![NextNvc] = @ + 1]
          /\ IF nvc'[2] = nvc[1] /\ nvc'[3] = nvc[1] THEN SaveSucceeds
             ELSE UNCHANGED <<pc, table, call, result, crashes>>
          /\ UNCHANGED errors
       \/ Fails("increment") /\ OneError /\ SaveFails /\ UNCHANGED nvc
    /\ UNCHANGED <<obj, tab, swap, active, twice>>

(* A write that takes several steps can be interrupted within.             *)
TearFile ==
    /\ \/ /\ pc = "store" /\ obj[call.new] # Torn
          /\ obj' = [obj EXCEPT ![call.new] = Torn]
          /\ UNCHANGED tab
       \/ /\ pc = "write" /\ tab[scratch] # Torn
          /\ tab' = [tab EXCEPT ![scratch] = Torn]
          /\ UNCHANGED obj
    /\ UNCHANGED <<nvc, ram, pc, call, result, crashes, twice, errors>>

-----------------------------------------------------------------------------
(* What a request removes once its table is saved.                         *)

(* The old object is removed after a successful update only.               *)
AfterDropTable(ok) ==
    LET err == IF call.err # "ok" THEN call.err ELSE IF ok THEN "ok" ELSE "failed"
    IN  IF err = "ok" /\ (call.op = "remove" \/ call.old # None)
        THEN pc' = "drop_object" /\ UNCHANGED <<call, result>>
        ELSE Return(IF err = "ok" THEN "success" ELSE err)

(* ps_object_table_delete_old_table.                                       *)
DropTable ==
    /\ pc = "drop_table"
    /\ \/ /\ tab' = [tab EXCEPT ![scratch] = None]
          /\ AfterDropTable(tab[scratch] # None)
          /\ UNCHANGED errors
       \/ /\ Fails("remove")
          /\ OneError
          /\ AfterDropTable(FALSE)
          /\ UNCHANGED tab
    /\ UNCHANGED <<obj, nvc, ram, crashes, twice>>

DropObject ==
    LET f == IF call.op = "remove" THEN call.fid ELSE call.old
    IN  /\ pc = "drop_object"
        /\ \/ /\ obj' = [obj EXCEPT ![f] = None]
              /\ Return(IF obj[f] # None THEN "success" ELSE "failed")
              /\ UNCHANGED errors
           \/ Fails("remove") /\ OneError /\ Return("failed") /\ UNCHANGED obj
        /\ UNCHANGED <<tab, nvc, ram, crashes, twice>>

(* ps_update_table after a failed save.                                    *)
UndoStore ==
    /\ pc = "undo"
    /\ \/ obj' = [obj EXCEPT ![call.fid] = None] /\ UNCHANGED errors
       \/ Fails("remove") /\ OneError /\ UNCHANGED obj
    /\ Return(call.err)
    /\ UNCHANGED <<tab, nvc, ram, crashes, twice>>

-----------------------------------------------------------------------------
(* ps_object_table_init.  A counter that cannot be read has the effect of  *)
(* two tables that cannot be read.                                         *)

Boot ==
    /\ pc = "boot"
    /\ \E unread \in SUBSET {0, 1} :
        /\ unread # {} => Fails("get")
        /\ IF unread = {} THEN UNCHANGED errors ELSE OneError
        /\ LET a == ActiveTable(unread)
           IN  IF a = None THEN PrepareFails
               ELSE /\ active' = a
                    /\ table' = tab[a].db
                    /\ swap' = IF Rollback THEN swap ELSE tab[a].ver
                    /\ pc' = "clean"
                    /\ UNCHANGED call
    /\ UNCHANGED <<persistent, result, crashes, twice>>

(* The scratch table is removed, if there is one.                          *)
CleanTable ==
    /\ pc = "clean"
    /\ \/ /\ tab' = [tab EXCEPT ![scratch] = None]
          /\ pc' = "idle"
          /\ call' = NoCall
          /\ UNCHANGED <<ram, errors>>
       \/ Fails("remove") /\ OneError /\ PrepareFails /\ UNCHANGED tab
    /\ UNCHANGED <<obj, nvc, result, crashes, twice>>

(* RAM is lost.  A failed initialisation panics and restarts the device.   *)
PowerFailure ==
    /\ \/ pc \in Saves /\ crashes < MaxCrashes /\ crashes' = crashes + 1
       \/ pc \notin Saves /\ UNCHANGED crashes
    /\ twice' = (twice \/ (Rollback /\ crashes' > 1))
    /\ table' = EmptyTable
    /\ swap' = 0
    /\ active' = 0
    /\ pc' = "boot"
    /\ call' = InitCall(FALSE)
    /\ result' = [status |-> "none", value |-> None]
    /\ UNCHANGED <<persistent, errors>>

Init ==
    /\ obj = [i \in Idx |-> None]
    /\ tab = [t \in {0, 1} |-> None]
    /\ nvc = [i \in 1 .. 3 |-> 0]
    /\ table = EmptyTable
    /\ swap = 0
    /\ active = 0
    /\ pc = "boot"
    /\ call = InitCall(FALSE)
    /\ result = [status |-> "none", value |-> None]
    /\ crashes = 0
    /\ twice = FALSE
    /\ errors = 0

Step ==
    \/ FreeFile \/ StoreObject \/ IncrementNvc1 \/ WriteTable \/ AlignNvc
    \/ DropTable \/ DropObject \/ UndoStore \/ Boot \/ CleanTable

Next ==
    \/ \E u \in Uids, v \in Vals, once \in CreateFlags : Set(u, v, once)
    \/ \E u \in Uids : Remove(u)
    \/ \E u \in Uids : Get(u)
    \/ Step
    \/ TearFile
    \/ PowerFailure

Spec == Init /\ [][Next]_vars

-----------------------------------------------------------------------------
(* The table in force: the one a restart would choose, until PS has        *)
(* started, and the active one from then on.                               *)
CurrentTable ==
    IF call.op = "init" /\ pc # "clean" THEN ActiveTable({}) ELSE active

CurrentDb ==
    LET t == CurrentTable
    IN  IF t = None \/ tab[t] \in {None, Torn} THEN EmptyTable ELSE tab[t].db

Visible(u) ==
    LET i == EntryIdx(CurrentDb, u)
    IN  IF i # None /\ Readable(CurrentDb, i)
        THEN [val |-> obj[i].val, once |-> obj[i].once]
        ELSE None

Objects == [u \in Uids |-> Visible(u)]

(* A request took effect when the table with its change was written.       *)
StoreCall ==
    IF call.op \notin {"set", "remove"} THEN None
    ELSE [op |-> call.op, uid |-> call.uid,
          value |-> IF call.op = "set" THEN [val |-> call.val, once |-> call.once] ELSE None,
          done |-> call.err = "ok" /\ pc \in {"align", "drop_table", "drop_object"}]

Store == INSTANCE ObjectStore WITH objs <- Objects, call <- StoreCall

(* The value of counter 1 a table was made with that a restart accepts.    *)
Accepts(n) == n = nvc[1] \/ (UsableNvc3 # 0 /\ n = UsableNvc3)

-----------------------------------------------------------------------------
(* Properties.                                                             *)

(* The table in force is whole: each entry has its object file, written by *)
(* the encryption whose tag the entry holds.  The order in which a request *)
(* writes and removes files guarantees it at every moment as long as the   *)
(* calls to ITS succeed (ps_object_create, ps_object_delete).              *)
TableIsWhole ==
    errors = 0 => \A i \in Idx : CurrentDb[i] # None => Readable(CurrentDb, i)

(* One entry is free whenever a request arrives, so that an object can be  *)
(* replaced however full the storage is (ps_object_table_get_free_fid).    *)
ReplacementHasRoom == pc = "idle" => FreeIdx(1) # None

(* No two entries of the table name the same object.                       *)
OneEntryPerObject ==
    \A i, j \in Idx : table[i] # None /\ table[j] # None /\ table[i].uid = table[j].uid
                     => i = j

(* Rollback protection: a table version that a restart no longer accepts   *)
(* is never accepted again, although counters 2 and 3 are incremented one  *)
(* by one and any increment can be the last before a power failure or can  *)
(* fail (ps_object_table_align_nv_counters, _nvc_authenticate).            *)
OldTableStaysRejected ==
    [][\A n \in 0 .. nvc[1] - 1 : ~Accepts(n) => ~Accepts(n)']_vars

(* Requests are atomic and durable, are refused only for the reasons of    *)
(* ObjectStore, and a read returns what the last completed request left,   *)
(* wherever power fails, as long as no call to ITS or to a counter has     *)
(* failed and, with rollback protection, no power failure has interrupted  *)
(* the save that follows an interrupted save.  In that last case no table  *)
(* carries the value of a counter (ps_object_table_save_table): counter 1  *)
(* is ahead and the alignment of the others never ended.                   *)
ImplementsStore ==
    /\ Store!Init
    /\ [][errors' = 0 /\ ~twice' => Store!Next]_<<Objects, StoreCall, result>>

=============================================================================
