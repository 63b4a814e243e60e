------------------------ MODULE PsObjectTableProofs ------------------------
(***************************************************************************)
(* The rollback protection of Protected Storage and the integrity of its   *)
(* object table for every number of objects, power failures and failing    *)
(* calls, and the refinement of ObjectStore while no call fails.           *)
(***************************************************************************)
EXTENDS PsObjectTable, FiniteSetTheorems, TLAPS

(* The order of the counters, which the argument rests on: counter 2 never *)
(* passes counter 1 and counter 3 never passes counter 2; once a table is  *)
(* to be written counter 3 is behind, so that the alignment ends there.    *)
CountersInOrder ==
    /\ nvc \in [1 .. 3 -> Nat]
    /\ nvc[3] <= nvc[2] /\ nvc[2] <= nvc[1]
    /\ pc = "align" => nvc[3] < nvc[1]
    /\ pc = "write" /\ Rollback => nvc[3] < nvc[1]

(* The steps that do not touch a counter start no alignment, and a save    *)
(* with rollback protection starts with counter 1.                         *)
CountersKept ==
    /\ nvc' = nvc
    /\ pc' = pc \/ (pc' # "align" /\ (pc' = "write" => ~Rollback))

(* The save of the table is started by an update of the table only         *)
(* (ps_object_table_set_obj_tbl_info).                                     *)
LEMMA StartUpdateKeepsCounters ==
    ASSUME NEW c, StartUpdate(c)
    PROVE  pc' # "align" /\ (pc' = "write" => ~Rollback)
BY DEF StartUpdate, SaveStart

(* A request that returns starts no save.                                  *)
LEMMA ReturnStartsNothing ==
    ASSUME NEW status, Return(status)
    PROVE  pc' = "idle"
BY DEF Return

LEMMA CreateFailsKeepsCounters ==
    ASSUME NEW c, CreateFails(c)
    PROVE  pc' # "align" /\ (pc' = "write" => ~Rollback)
BY StartUpdateKeepsCounters, ReturnStartsNothing DEF CreateFails

LEMMA SaveEndsKeepCounters ==
    ASSUME SaveSucceeds \/ SaveFails
    PROVE  pc' # "align" /\ pc' # "write"
BY ReturnStartsNothing DEF SaveSucceeds, SaveFails

LEMMA PrepareFailsKeepsCounters ==
    ASSUME PrepareFails
    PROVE  pc' # "align" /\ (pc' = "write" => ~Rollback)
BY DEF PrepareFails, SaveStart

LEMMA CreateRequestKeepsCounters ==
    ASSUME NEW u, NEW v, NEW once, NEW fails, CreateRequest(u, v, once, fails)
    PROVE  pc' # "align" /\ (pc' = "write" => ~Rollback)
BY StartUpdateKeepsCounters, ReturnStartsNothing DEF CreateRequest

(* Every action but the increments of the counters.                        *)
LEMMA OtherStepsKeepCounters ==
    ASSUME Next, ~IncrementNvc1, ~WriteTable, ~AlignNvc
    PROVE  CountersKept
<1>1. ASSUME NEW u \in Uids, NEW v \in Vals, NEW once \in CreateFlags, Set(u, v, once)
      PROVE  CountersKept
    BY <1>1, CreateRequestKeepsCounters DEF Set, CountersKept, persistent
<1>2. ASSUME NEW u \in Uids, Remove(u)
      PROVE  CountersKept
    BY <1>2, ReturnStartsNothing DEF Remove, SaveStart, CountersKept, persistent
<1>3. ASSUME NEW u \in Uids, Get(u)
      PROVE  CountersKept
    BY <1>3 DEF Get, CountersKept, persistent
<1>4. CASE FreeFile \/ StoreObject
    BY <1>4, CreateFailsKeepsCounters, StartUpdateKeepsCounters
    DEF FreeFile, StoreObject, CountersKept
<1>5. CASE DropTable \/ DropObject \/ UndoStore
    BY <1>5, ReturnStartsNothing
    DEF DropTable, DropObject, UndoStore, AfterDropTable, CountersKept
<1>6. CASE Boot \/ CleanTable
    BY <1>6, PrepareFailsKeepsCounters DEF Boot, CleanTable, CountersKept, persistent
<1>7. CASE TearFile \/ PowerFailure
    BY <1>7 DEF TearFile, PowerFailure, CountersKept, persistent
<1> QED
    BY <1>1, <1>2, <1>3, <1>4, <1>5, <1>6, <1>7 DEF Next, Step

(* A step of the alignment raises counter 2 until it is that of counter 1, *)
(* then counter 3.                                                         *)
LEMMA AlignStep ==
    ASSUME CountersInOrder, AlignNvc
    PROVE  \/ nvc' = nvc
           \/ nvc[2] < nvc[1] /\ nvc' = [nvc EXCEPT ![2] = @ + 1]
           \/ nvc[2] = nvc[1] /\ nvc' = [nvc EXCEPT ![3] = @ + 1]
BY DEF CountersInOrder, AlignNvc, NextNvc

(* The counters stay in order (ps_object_table_save_table,                 *)
(* ps_object_table_align_nv_counters).                                     *)
LEMMA OrderPreserved ==
    ASSUME CountersInOrder, [Next]_vars
    PROVE  CountersInOrder'
<1>1. CASE UNCHANGED vars
    BY <1>1 DEF CountersInOrder, vars
<1>2. CASE IncrementNvc1
    BY <1>2, SaveEndsKeepCounters DEF IncrementNvc1, CountersInOrder
<1>3. CASE WriteTable
    BY <1>3, SaveEndsKeepCounters DEF WriteTable, CountersInOrder
<1>4. CASE AlignNvc
    <2>1. CASE nvc' = nvc
        BY <1>4, <2>1, SaveEndsKeepCounters DEF AlignNvc, CountersInOrder
    <2>2. CASE nvc[2] < nvc[1] /\ nvc' = [nvc EXCEPT ![2] = @ + 1]
        BY <1>4, <2>2, SaveEndsKeepCounters DEF AlignNvc, CountersInOrder
    <2>3. CASE nvc[2] = nvc[1] /\ nvc' = [nvc EXCEPT ![3] = @ + 1]
        BY <1>4, <2>3, SaveEndsKeepCounters DEF AlignNvc, CountersInOrder
    <2> QED
        BY <1>4, <2>1, <2>2, <2>3, AlignStep
<1>5. CASE Next /\ ~IncrementNvc1 /\ ~WriteTable /\ ~AlignNvc
    BY <1>5, OtherStepsKeepCounters DEF CountersKept, CountersInOrder
<1> QED
    BY <1>1, <1>2, <1>3, <1>4, <1>5

(* Counter 3 never overtakes counter 2 nor counter 2 counter 1.            *)
THEOREM CountersOrdered == Spec => []CountersInOrder
<1>1. Init => CountersInOrder
    BY DEF Init, CountersInOrder
<1> QED
    BY <1>1, OrderPreserved, PTL DEF Spec

(* One step never makes an old table acceptable: only counter 1 and, when  *)
(* it agrees with counter 2, counter 3 authenticate a table.               *)
LEMMA StepKeepsRejected ==
    ASSUME CountersInOrder, [Next]_vars,
           NEW n \in 0 .. nvc[1] - 1, ~Accepts(n)
    PROVE  ~Accepts(n)'
<1>1. CASE nvc' = nvc
    BY <1>1 DEF Accepts, UsableNvc3
<1>2. CASE IncrementNvc1
    BY <1>2 DEF IncrementNvc1, CountersInOrder, Accepts, UsableNvc3
<1>3. CASE AlignNvc
    BY <1>3, AlignStep DEF CountersInOrder, Accepts, UsableNvc3
<1>4. CASE WriteTable
    BY <1>1, <1>4 DEF WriteTable
<1>5. CASE UNCHANGED vars
    BY <1>1, <1>5 DEF vars
<1>6. CASE Next /\ ~IncrementNvc1 /\ ~WriteTable /\ ~AlignNvc
    BY <1>1, <1>6, OtherStepsKeepCounters DEF CountersKept
<1> QED
    BY <1>2, <1>3, <1>4, <1>5, <1>6

(* Rollback protection: a table that a restart rejects stays rejected, for *)
(* any number of objects, power failures and failing calls                 *)
(* (ps_object_table_align_nv_counters, _nvc_authenticate).                 *)
THEOREM OldTablesStayRejected == Spec => OldTableStaysRejected
<1>1. CountersInOrder /\ [Next]_vars
          => [\A n \in 0 .. nvc[1] - 1 : ~Accepts(n) => ~Accepts(n)']_vars
    BY StepKeepsRejected
<1> QED
    BY <1>1, CountersOrdered, PTL DEF Spec, OldTableStaysRejected

-----------------------------------------------------------------------------
(* The objects and the tables: the inductive invariant.                    *)

Entry == [uid : Uids, tag : Nat]
Table == [Idx -> Entry \cup {None}]
ObjFile == [tag : Nat, val : Vals, once : BOOLEAN]
TabFile == [ver : Nat, db : Table]
Backup == [idx : Idx, entry : Entry \cup {None}]

Requests ==
    [op : {"set", "remove"}, uid : Uids, val : Vals \cup {None}, once : BOOLEAN,
     fid : Idx \cup {None}, tag : Nat, new : Idx \cup {None}, old : Idx \cup {None},
     backup : Backup \cup {None}, err : {"ok", "failed", "not_permitted", "no_space"}]

Ends == {"drop_table", "drop_object"}

TypeOK ==
    /\ obj \in [Idx -> ObjFile \cup {None, Torn}]
    /\ tab \in [{0, 1} -> TabFile \cup {None, Torn}]
    /\ nvc \in [1 .. 3 -> Nat] /\ swap \in Nat /\ errors \in Nat
    /\ table \in Table
    /\ active \in {0, 1}

CallOK ==
    /\ pc \in {"idle", "free", "store", "undo", "boot", "clean", "dead"} \cup Saves \cup Ends
    /\ pc = "idle" => call = NoCall
    /\ pc \in {"boot", "clean", "dead"} => call.op = "init"
    /\ pc \in Saves => call.op = "init" \/ call \in Requests
    /\ pc \in {"free", "store", "undo"} \cup Ends => call \in Requests

Unique(db) ==
    \A i, j \in Idx : db[i] # None /\ db[j] # None /\ db[i].uid = db[j].uid => i = j
HasFree(db) == \E i \in Idx : db[i] = None
Lacks(db, u, S) == \A i \in Idx \ S : db[i] # None => db[i].uid # u

TablesOK ==
    /\ Unique(table) /\ HasFree(table)
    /\ \A t \in {0, 1} : tab[t] \notin {None, Torn} => Unique(tab[t].db) /\ HasFree(tab[t].db)

(* ps_object_create before the object is entered in the table. *)
CreateOK ==
    pc \in {"free", "store"} =>
        /\ call.op = "set" /\ call.val \in Vals
        /\ call.new \in Idx /\ table[call.new] = None
        /\ call.old = None => /\ Lacks(table, call.uid, {})
                              /\ \E j \in Idx \ {call.new} : table[j] = None
        /\ call.old # None => /\ call.old = EntryIdx(table, call.uid)
                              /\ call.fid = call.old

(* What undoes a save. *)
UndoOK ==
    /\ pc = "undo" => call.fid \in Idx /\ errors # 0
    /\ pc \in Saves /\ call.op # "init" =>
        /\ call.fid \in Idx
        /\ call.backup # None /\ call.backup.entry # None => call.backup.entry.uid = call.uid
        /\ call.op = "set" => Lacks(table, call.uid, {call.fid})
        /\ call.op = "remove" /\ call.backup # None =>
                              /\ Lacks(table, call.uid, {})
                              /\ \E j \in Idx \ {call.backup.idx} : table[j] = None

Whole(db, o) ==
    \A i \in Idx : db[i] # None => o[i] \notin {None, Torn} /\ o[i].tag = db[i].tag
Good(db) == Whole(db, obj)

WholeOK ==
    /\ Good(table)
    /\ \A t \in {0, 1} : tab[t] \notin {None, Torn} => Good(tab[t].db)
    /\ pc \in {"idle", "free", "store", "drop_object"} => tab[scratch] = None
    /\ pc \in {"idle", "free", "store", "clean", "align"} \cup Ends => tab[active].db = table
    /\ pc \in Saves \cup Ends /\ call.op = "remove" => call.fid \in Idx /\ table[call.fid] = None
    /\ pc \in Saves \cup Ends /\ call.op = "set" /\ call.old # None => table[call.old] = None

IndInv ==
    TypeOK /\ CallOK /\ TablesOK /\ CreateOK /\ UndoOK /\ (errors = 0 => WholeOK)

-----------------------------------------------------------------------------
(* Entries of a table.                                                     *)

LEMMA Numbers ==
    /\ NumAssets \in Nat \ {0} /\ Idx = 0 .. NumAssets /\ Idx \subseteq Nat /\ None \notin Idx
    /\ 0 \in Idx /\ None \notin {0, 1}
    /\ None \notin ObjFile /\ Torn \notin ObjFile
BY PsAssumption DEF Idx, ObjFile

LEMMA MinInSet ==
    ASSUME NEW S, S \subseteq Nat, S # {}
    PROVE  Min(S) \in S /\ \A y \in S : Min(S) <= y
<1> DEFINE R == {ss \in Nat \X Nat : ss[1] < ss[2]}
<1>1. IsWellFoundedOn(R, Nat)
  BY NatLessThanWellFounded, Zenon DEF OpToRel
<1>2. PICK x \in S : \A y \in S : ~(<<y, x>> \in R)
  <2> HIDE DEF R
  <2> QED BY <1>1, WFMin
<1>3. ASSUME NEW y \in S PROVE x <= y
  <2>1. x \in Nat /\ y \in Nat
    OBVIOUS
  <2>2. ~(<<y, x>> \in R)
    BY <1>2
  <2>3. ~(y < x)
    BY <2>1, <2>2
  <2> QED BY <2>1, <2>3
<1> QED BY <1>3 DEF Min

LEMMA FirstIdxIs ==
    ASSUME NEW S, S \subseteq Idx
    PROVE  /\ S = {} => FirstIdx(S) = None
           /\ S # {} => FirstIdx(S) \in S /\ FirstIdx(S) # None
           /\ FirstIdx(S) # None => FirstIdx(S) \in S
BY Numbers, MinInSet DEF FirstIdx

LEMMA EntryIdxIs ==
    ASSUME NEW db, NEW u
    PROVE  /\ EntryIdx(db, u) = None => Lacks(db, u, {})
           /\ EntryIdx(db, u) # None => /\ EntryIdx(db, u) \in Idx
                                        /\ db[EntryIdx(db, u)] # None
                                        /\ db[EntryIdx(db, u)].uid = u
           /\ EntryIdx(db, u) # None /\ Unique(db) => Lacks(db, u, {EntryIdx(db, u)})
<1> PICK S : S = {i \in Idx : db[i] # None /\ db[i].uid = u}
  OBVIOUS
<1>0. S \subseteq Idx /\ EntryIdx(db, u) = FirstIdx(S)
  BY DEF EntryIdx
<1>1. CASE S = {}
  <2>1. EntryIdx(db, u) = None
    BY <1>0, <1>1, FirstIdxIs
  <2> QED BY <1>1, <2>1 DEF Lacks
<1>2. CASE S # {}
  <2>1. EntryIdx(db, u) \in S /\ EntryIdx(db, u) # None
    BY <1>0, <1>2, FirstIdxIs
  <2> QED BY <2>1 DEF Lacks, Unique
<1> QED BY <1>1, <1>2

LEMMA EntryOf ==
    \A w : EntryIdx(table, w) # None
              => EntryIdx(table, w) \in Idx /\ table[EntryIdx(table, w)] # None
<1> SUFFICES ASSUME NEW w, EntryIdx(table, w) # None
             PROVE  EntryIdx(table, w) \in Idx /\ table[EntryIdx(table, w)] # None
  OBVIOUS
<1> QED BY EntryIdxIs

(* ps_table_free_idx: the second free entry is not the only one.           *)
LEMMA FreeIdxIs ==
    ASSUME TypeOK, NEW n
    PROVE  /\ FreeIdx(n) # None => FreeIdx(n) \in Idx /\ table[FreeIdx(n)] = None
           /\ FreeIdx(2) # None => \E j \in Idx \ {FreeIdx(2)} : table[j] = None
           /\ HasFree(table) => FreeIdx(1) # None
<1> PICK F : F = {i \in Idx : table[i] = None}
  OBVIOUS
<1>0. F \subseteq Idx /\ F \subseteq Nat
  BY Numbers
<1>1. \A m : FreeIdx(m) = FirstIdx({i \in F : Cardinality({j \in F : j <= i}) = m})
  BY DEF FreeIdx
<1>2. ASSUME NEW m, FreeIdx(m) # None
      PROVE  FreeIdx(m) \in F /\ Cardinality({j \in F : j <= FreeIdx(m)}) = m
  <2> PICK S : S = {i \in F : Cardinality({j \in F : j <= i}) = m}
    OBVIOUS
  <2>1. S \subseteq Idx /\ FreeIdx(m) = FirstIdx(S)
    BY <1>0, <1>1
  <2>2. FreeIdx(m) \in S
    BY <1>2, <2>1, FirstIdxIs
  <2> QED BY <2>2
<1>3. ASSUME FreeIdx(2) # None PROVE \E j \in Idx \ {FreeIdx(2)} : table[j] = None
  <2> PICK i : i = FreeIdx(2)
    OBVIOUS
  <2>1. i \in F /\ Cardinality({j \in F : j <= i}) = 2
    BY <1>2, <1>3
  <2>2. {j \in F : j <= i} # {i}
    <3>1. Cardinality({i}) = 1
      BY FS_Singleton
    <3> QED BY <2>1, <3>1
  <2>3. i \in {j \in F : j <= i}
    BY <1>0, <2>1
  <2>4. PICK j \in F : j # i
    BY <2>2, <2>3
  <2> QED BY <1>0, <2>4
<1>4. ASSUME HasFree(table) PROVE FreeIdx(1) # None
  <2>1. F # {}
    BY <1>4 DEF HasFree
  <2> PICK i : i = Min(F)
    OBVIOUS
  <2>2. i \in F /\ \A y \in F : i <= y
    BY <1>0, <2>1, MinInSet
  <2>3. {j \in F : j <= i} = {i}
    <3>1. ASSUME NEW j \in F, j <= i PROVE j = i
      <4>1. j \in Nat /\ i \in Nat /\ i <= j
        BY <1>0, <2>2
      <4> QED BY <3>1, <4>1
    <3>2. i <= i
      BY <1>0, <2>2
    <3> QED BY <2>2, <3>1, <3>2
  <2>4. Cardinality({j \in F : j <= i}) = 1
    BY <2>3, FS_Singleton
  <2> PICK S : S = {k \in F : Cardinality({j \in F : j <= k}) = 1}
    OBVIOUS
  <2>5. S \subseteq Idx /\ S # {} /\ FreeIdx(1) = FirstIdx(S)
    BY <1>0, <1>1, <2>2, <2>4
  <2> QED BY <2>5, FirstIdxIs
<1> QED BY <1>2, <1>3, <1>4

(* ps_crypto_get_iv: there is always a tag that nothing else has.          *)
LEMMA TagsAreFew ==
    ASSUME NEW db \in [Idx -> Entry \cup {None, Torn} \cup ObjFile], NEW S \in SUBSET Idx
    PROVE  LET T == {db[i].tag : i \in S}
           IN  IsFiniteSet(T) /\ Cardinality(T) \in Nat /\ Cardinality(T) <= NumAssets + 1
<1> PICK T : T = {db[i].tag : i \in S}
  OBVIOUS
<1> PICK f : f = [i \in S |-> db[i].tag]
  OBVIOUS
<1>1. IsFiniteSet(Idx) /\ Cardinality(Idx) = NumAssets + 1
  <2>1. NumAssets \in Int /\ 0 \in Int /\ ~(0 > NumAssets) /\ NumAssets - 0 + 1 = NumAssets + 1
    BY Numbers
  <2> QED BY <2>1, Numbers, FS_Interval
<1>2. IsFiniteSet(S) /\ Cardinality(S) <= NumAssets + 1 /\ Cardinality(S) \in Nat
  BY <1>1, FS_Subset, FS_CardinalityType
<1>3. f \in Surjection(S, T)
  <2>1. f \in [S -> T] /\ \A y \in T : \E i \in S : f[i] = y
    OBVIOUS
  <2> QED BY <2>1 DEF Surjection
<1>4. IsFiniteSet(T) /\ Cardinality(T) <= Cardinality(S)
  BY <1>2, <1>3, FS_Surjection
<1>5. Cardinality(T) \in Nat
  BY <1>4, FS_CardinalityType
<1>6. Cardinality(T) <= NumAssets + 1
  BY <1>2, <1>4, <1>5, Numbers
<1> QED BY <1>4, <1>5, <1>6

LEMMA FewOfTwo ==
    ASSUME NEW S, NEW T, NEW m \in Nat, NEW n \in Nat,
           IsFiniteSet(S), Cardinality(S) <= m, IsFiniteSet(T), Cardinality(T) <= n
    PROVE  IsFiniteSet(S \cup T) /\ Cardinality(S \cup T) <= m + n
<1>1. Cardinality(S) \in Nat /\ Cardinality(T) \in Nat
  BY FS_CardinalityType
<1>2. IsFiniteSet(S \cup T)
      /\ Cardinality(S \cup T) = Cardinality(S) + Cardinality(T) - Cardinality(S \cap T)
  BY FS_Union
<1>3. S \cap T \in SUBSET S
  OBVIOUS
<1>4. IsFiniteSet(S \cap T)
  BY <1>3, FS_Subset
<1>5. Cardinality(S \cap T) \in Nat
  BY <1>4, FS_CardinalityType
<1> QED BY <1>1, <1>2, <1>5

LEMMA FreshTagIs ==
    ASSUME TypeOK
    PROVE  FreshTag \in Nat
<1> PICK A : A = {obj[i].tag : i \in {j \in Idx : obj[j] \notin {None, Torn}}}
  OBVIOUS
<1> PICK B : B = UNION {Tags(tab[t].db) : t \in {k \in {0, 1} : tab[k] \notin {None, Torn}}}
  OBVIOUS
<1> PICK n \in Nat : n = NumAssets + 1
  BY Numbers
<1>1. IsFiniteSet(A) /\ Cardinality(A) <= n
  <2>1. obj \in [Idx -> Entry \cup {None, Torn} \cup ObjFile]
    BY DEF TypeOK
  <2>2. {j \in Idx : obj[j] \notin {None, Torn}} \in SUBSET Idx
    OBVIOUS
  <2> QED BY <2>1, <2>2, TagsAreFew
<1>2. ASSUME NEW db \in Table PROVE IsFiniteSet(Tags(db)) /\ Cardinality(Tags(db)) <= n
  <2>1. db \in [Idx -> Entry \cup {None, Torn} \cup ObjFile]
    BY DEF Table
  <2>2. {j \in Idx : db[j] # None} \in SUBSET Idx
    OBVIOUS
  <2> QED BY <2>1, <2>2, TagsAreFew DEF Tags
<1> DEFINE Of(t) == IF tab[t] \notin {None, Torn} THEN Tags(tab[t].db) ELSE {}
<1>3. ASSUME NEW t \in {0, 1} PROVE IsFiniteSet(Of(t)) /\ Cardinality(Of(t)) <= n
  <2>1. CASE tab[t] \in {None, Torn}
    <3>1. Of(t) = {}
      BY <2>1
    <3> QED BY <3>1, FS_EmptySet
  <2>2. CASE tab[t] \notin {None, Torn}
    <3>1. tab[t].db \in Table
      BY <2>2 DEF TypeOK, TabFile
    <3>2. Of(t) = Tags(tab[t].db)
      BY <2>2
    <3> QED BY <1>2, <3>1, <3>2
  <2> QED BY <2>1, <2>2
<1>4. B = Of(0) \cup Of(1)
  OBVIOUS
<1> PICK C : C = Of(0)
  OBVIOUS
<1> PICK D : D = Of(1)
  OBVIOUS
<1> PICK T : T = Tags(table)
  OBVIOUS
<1>5. IsFiniteSet(C) /\ Cardinality(C) <= n /\ IsFiniteSet(D) /\ Cardinality(D) <= n
  BY <1>3
<1>6. IsFiniteSet(T) /\ Cardinality(T) <= n
  BY <1>2 DEF TypeOK
<1>7. B = C \cup D
  BY <1>4
<1> HIDE DEF Of
<1>8. IsFiniteSet(C \cup D) /\ Cardinality(C \cup D) <= n + n
  BY <1>5, FewOfTwo
<1>9. IsFiniteSet(A \cup B) /\ Cardinality(A \cup B) <= n + (n + n)
  <2>1. n + n \in Nat
    OBVIOUS
  <2> QED BY <1>1, <1>7, <1>8, <2>1, FewOfTwo
<1> PICK U : U = (A \cup B) \cup T
  OBVIOUS
<1>10. IsFiniteSet(U) /\ Cardinality(U) <= n + (n + n) + n
  <2>1. n + (n + n) \in Nat
    OBVIOUS
  <2> QED BY <1>6, <1>9, <2>1, FewOfTwo
<1> PICK k \in Nat : k = 4 * (NumAssets + 1) + 1
  BY Numbers
<1>11. Cardinality(1 .. k) = k /\ IsFiniteSet(1 .. k)
  <2>1. 1 \in Int /\ k \in Int /\ ~(1 > k) /\ k - 1 + 1 = k
    BY Numbers
  <2> QED BY <2>1, FS_Interval
<1>12. (1 .. k) \ U # {}
  <2>1. SUFFICES ASSUME 1 .. k \subseteq U PROVE FALSE
    OBVIOUS
  <2>2. 1 .. k \in SUBSET U
    BY <2>1
  <2>3. Cardinality(1 .. k) <= Cardinality(U)
    BY <1>10, <2>2, FS_Subset
  <2>4. Cardinality(U) \in Nat
    BY <1>10, FS_CardinalityType
  <2>5. k > n + (n + n) + n
    BY Numbers
  <2> QED BY <1>10, <1>11, <2>3, <2>4, <2>5
<1> PICK M : M = (1 .. k) \ U
  OBVIOUS
<1>13. M \subseteq Nat /\ M # {}
  BY <1>12
<1>14. Min(M) \in M
  BY <1>13, MinInSet
<1>15. FreshTag = Min(M)
  BY DEF FreshTag
<1> QED BY <1>13, <1>14, <1>15

-----------------------------------------------------------------------------
(* ps_object_table_set_obj_tbl_info.                                       *)

LEMMA StartUpdateIs ==
    ASSUME TypeOK, TablesOK, NEW c \in Requests, c.op = "set", c.fid \in Idx, StartUpdate(c),
           table[c.fid] = None \/ c.fid = EntryIdx(table, c.uid),
           EntryIdx(table, c.uid) = None => \E j \in Idx \ {c.fid} : table[j] = None
    PROVE  /\ table' \in Table /\ Unique(table') /\ HasFree(table')
           /\ pc' \in {"increment", "write"}
           /\ call' \in Requests /\ call'.op = "set" /\ call'.fid = c.fid /\ call'.old = c.old
           /\ call'.uid = c.uid /\ call'.err = c.err /\ call'.tag = c.tag
           /\ call'.val = c.val /\ call'.once = c.once
           /\ call'.backup # None /\ call'.backup.entry # None
                  => call'.backup.entry.uid = c.uid
           /\ Lacks(table', c.uid, {c.fid})
           /\ \A j \in Idx : table'[j] = IF j = c.fid THEN [uid |-> c.uid, tag |-> c.tag]
                                        ELSE IF j = EntryIdx(table, c.uid) THEN None
                                        ELSE table[j]
<1> PICK i : i = EntryIdx(table, c.uid)
  OBVIOUS
<1> PICK e : e = [uid |-> c.uid, tag |-> c.tag]
  OBVIOUS
<1>1. e \in Entry /\ e.uid = c.uid
  BY DEF Requests, Entry
<1>2. table \in Table /\ Unique(table) /\ HasFree(table)
  BY DEF TypeOK, TablesOK
<1>3. /\ i = None => Lacks(table, c.uid, {})
      /\ i # None => i \in Idx /\ table[i] # None /\ table[i].uid = c.uid
                     /\ Lacks(table, c.uid, {i})
  BY <1>2, EntryIdxIs
<1> PICK db : db = IF i = None THEN table ELSE [table EXCEPT ![i] = None]
  OBVIOUS
<1>4. db \in Table /\ \A j \in Idx : db[j] = IF j = i THEN None ELSE table[j]
  BY <1>2, <1>3, Numbers DEF Table
<1>5. table' = [db EXCEPT ![c.fid] = e]
  BY DEF StartUpdate
<1>6. table' \in Table
      /\ \A j \in Idx : table'[j] = IF j = c.fid THEN e ELSE IF j = i THEN None ELSE table[j]
  BY <1>1, <1>4, <1>5 DEF Table
<1>7. Lacks(table', c.uid, {c.fid})
  BY <1>3, <1>6 DEF Lacks
<1>8. Unique(table')
  <2> SUFFICES ASSUME NEW j \in Idx, NEW k \in Idx, table'[j] # None, table'[k] # None,
                      table'[j].uid = table'[k].uid
               PROVE  j = k
    BY DEF Unique
  <2>1. CASE j = c.fid
    BY <1>1, <1>6, <1>7, <2>1 DEF Lacks
  <2>2. CASE k = c.fid
    BY <1>1, <1>6, <1>7, <2>2 DEF Lacks
  <2>3. CASE j # c.fid /\ k # c.fid
    BY <1>2, <1>6, <2>3 DEF Unique
  <2> QED BY <2>1, <2>2, <2>3
<1>9. HasFree(table')
  <2>1. CASE i = None
    BY <1>6, <2>1, Numbers DEF HasFree
  <2>2. CASE i # None /\ i # c.fid
    BY <1>3, <1>6, <2>2 DEF HasFree
  <2>3. CASE i # None /\ i = c.fid
    BY <1>2, <1>3, <1>6, <2>3 DEF HasFree
  <2> QED BY <2>1, <2>2, <2>3
<1> PICK b : b = IF i = None THEN None ELSE [idx |-> i, entry |-> table[i]]
  OBVIOUS
<1>10. b \in Backup \cup {None} /\ (i # None => b.entry = table[i]) /\ (i = None => b = None)
  BY <1>2, <1>3 DEF Backup, Table
<1>11. call' = [c EXCEPT !.backup = b]
  BY DEF StartUpdate
<1>12. /\ call' \in Requests /\ call'.op = c.op /\ call'.fid = c.fid /\ call'.old = c.old
       /\ call'.uid = c.uid /\ call'.err = c.err /\ call'.tag = c.tag
       /\ call'.val = c.val /\ call'.once = c.once /\ call'.backup = b
  BY <1>10, <1>11 DEF Requests
<1>13. b # None /\ b.entry # None => b.entry.uid = c.uid
  BY <1>3, <1>10
<1>14. pc' \in {"increment", "write"}
  BY DEF StartUpdate, SaveStart
<1> QED BY <1>6, <1>7, <1>8, <1>9, <1>12, <1>13, <1>14

(* What an update leaves to prove.                                         *)
LEMMA UpdateHolds ==
    ASSUME IndInv, NEW c \in Requests, c.op = "set", c.fid \in Idx, StartUpdate(c),
           table[c.fid] = None \/ c.fid = EntryIdx(table, c.uid),
           EntryIdx(table, c.uid) = None => \E j \in Idx \ {c.fid} : table[j] = None,
           obj' \in [Idx -> ObjFile \cup {None, Torn}], errors' \in Nat,
           UNCHANGED <<tab, nvc, swap, active>>,
           errors' = 0 => /\ Good(table)'
                          /\ \A t \in {0, 1} : tab[t] \notin {None, Torn} => Good(tab[t].db)'
                          /\ c.old # None => table'[c.old] = None
    PROVE  IndInv'
<1>0. TypeOK /\ TablesOK
  BY DEF IndInv
<1>1. /\ table' \in Table /\ Unique(table') /\ HasFree(table')
      /\ pc' \in {"increment", "write"}
      /\ call' \in Requests /\ call'.op = "set" /\ call'.fid = c.fid /\ call'.old = c.old
      /\ call'.uid = c.uid
      /\ call'.backup # None /\ call'.backup.entry # None => call'.backup.entry.uid = c.uid
      /\ Lacks(table', c.uid, {c.fid})
  BY <1>0, StartUpdateIs
<1>2. TypeOK'
  BY <1>0, <1>1 DEF TypeOK
<1>3. CallOK'
  BY <1>1 DEF CallOK, Saves, Ends
<1>4. TablesOK'
  BY <1>0, <1>1 DEF TablesOK
<1>5. CreateOK'
  BY <1>1 DEF CreateOK
<1>6. UndoOK'
  BY <1>1 DEF UndoOK
<1>7. errors' = 0 => WholeOK'
  <2>1. ASSUME errors' = 0 PROVE WholeOK'
    <3>1. pc' \notin {"idle", "free", "store", "clean", "align"} \cup Ends
      BY <1>1 DEF Ends
    <3>2. pc' # "drop_object"
      BY <1>1
    <3>3. \A t \in {0, 1} : tab'[t] \notin {None, Torn} => Good(tab[t].db)'
      BY <2>1
    <3> QED BY <1>1, <2>1, <3>1, <3>2, <3>3 DEF WholeOK
  <2> QED BY <2>1
<1> QED BY <1>2, <1>3, <1>4, <1>5, <1>6, <1>7 DEF IndInv

-----------------------------------------------------------------------------
(* The initial state and what most steps have in common.                   *)

LEMMA InitHolds == Init => IndInv
<1> SUFFICES ASSUME Init PROVE IndInv
  OBVIOUS
<1>1. EmptyTable \in Table /\ Unique(EmptyTable) /\ HasFree(EmptyTable)
      /\ \A o : Whole(EmptyTable, o)
  BY Numbers DEF EmptyTable, Table, Unique, HasFree, Whole
<1>2. TypeOK
  BY <1>1 DEF Init, TypeOK
<1>3. CallOK
  BY DEF Init, CallOK, InitCall, Saves, Ends
<1>4. TablesOK
  BY <1>1 DEF Init, TablesOK
<1>5. CreateOK /\ UndoOK
  BY DEF Init, CreateOK, UndoOK, Saves
<1>6. WholeOK
  BY <1>1 DEF Init, WholeOK, Good, Saves, Ends, InitCall
<1> QED BY <1>2, <1>3, <1>4, <1>5, <1>6 DEF IndInv

(* A table stays whole when only files that it does not name change.       *)
LEMMA WholeKept ==
    ASSUME NEW db, NEW o, NEW p, Whole(db, o), \A i \in Idx : db[i] # None => p[i] = o[i]
    PROVE  Whole(db, p)
BY DEF Whole

FilesWhole ==
    /\ Whole(table, obj)
    /\ \A t \in {0, 1} : tab[t] \notin {None, Torn} => Whole(tab[t].db, obj)

(* The end of a request.                                                   *)
LEMMA ReturnHolds ==
    ASSUME TypeOK', TablesOK', pc' = "idle", call' = NoCall,
           errors' = 0 => FilesWhole' /\ (tab[scratch])' = None /\ (tab[active].db)' = table'
    PROVE  IndInv'
<1>1. CallOK'
  BY DEF CallOK, Saves, Ends
<1>2. CreateOK'
  BY DEF CreateOK
<1>3. UndoOK'
  BY DEF UndoOK, Saves
<1>4. errors' = 0 => WholeOK'
  BY DEF WholeOK, FilesWhole, Good, Saves, Ends
<1> QED BY <1>1, <1>2, <1>3, <1>4 DEF IndInv

(* A step of the initialisation.                                           *)
LEMMA InitStepHolds ==
    ASSUME TypeOK', TablesOK', pc' \in {"boot", "clean", "dead"} \cup Saves,
           (call.op)' = "init",
           errors' = 0 => FilesWhole' /\ (pc' \in {"clean", "align"} => (tab[active].db)' = table')
    PROVE  IndInv'
<1>1. CallOK'
  BY DEF CallOK, Saves, Ends
<1>2. CreateOK'
  BY DEF CreateOK, Saves
<1>3. UndoOK'
  BY DEF UndoOK, Saves
<1>4. errors' = 0 => WholeOK'
  BY DEF WholeOK, FilesWhole, Good, Saves, Ends
<1> QED BY <1>1, <1>2, <1>3, <1>4 DEF IndInv

(* What the invariant says of the files.                                   *)
LEMMA InvParts ==
    ASSUME IndInv
    PROVE  /\ TypeOK /\ CallOK /\ TablesOK /\ CreateOK /\ UndoOK
           /\ errors = 0 => FilesWhole
           /\ errors = 0 /\ pc \in {"idle", "free", "store", "drop_object"} => tab[scratch] = None
           /\ errors = 0 /\ pc \in {"idle", "free", "store", "clean", "align"} \cup Ends
                  => tab[active].db = table
BY DEF IndInv, WholeOK, FilesWhole, Good

-----------------------------------------------------------------------------
(* Requests.                                                               *)

LEMMA RequestIs ==
    ASSUME TypeOK, TablesOK, NEW op \in {"set", "remove"}, NEW u \in Uids,
           NEW v \in Vals \cup {None}, NEW once \in BOOLEAN
    PROVE  LET c == Request(op, u, v, once)
           IN  /\ c \in Requests /\ c.op = op /\ c.uid = u /\ c.val = v
               /\ c.once = once /\ c.err = "ok"
               /\ c.fid = EntryIdx(table, u) /\ c.new = None /\ c.old = None /\ c.backup = None
               /\ c.fid # None => c.fid \in Idx /\ table[c.fid] # None
                                  /\ c.tag = table[c.fid].tag /\ table[c.fid].uid = u
<1> PICK i : i = EntryIdx(table, u)
  OBVIOUS
<1>1. i # None => i \in Idx /\ table[i] # None /\ table[i].uid = u
  BY EntryIdxIs
<1> PICK g : g = IF i = None THEN 0 ELSE table[i].tag
  OBVIOUS
<1>2. g \in Nat /\ i \in Idx \cup {None}
  BY <1>1 DEF TypeOK, Table, Entry
<1> PICK c : c = Request(op, u, v, once)
  OBVIOUS
<1>3. c = [op |-> op, uid |-> u, val |-> v, once |-> once, fid |-> i, tag |-> g,
           new |-> None, old |-> None, backup |-> None, err |-> "ok"]
  BY DEF Request
<1>4. c \in Requests
  BY <1>2, <1>3 DEF Requests
<1> QED BY <1>1, <1>3, <1>4

(* A read of an object that fails is counted.                              *)
LEMMA ReadCounts ==
    ASSUME NEW u, NEW fails \in BOOLEAN, errors \in Nat, ReadOutcome(u, fails)
    PROVE  errors' \in Nat /\ (errors' = 0 => errors = 0 /\ fails = FALSE)
BY DEF ReadOutcome, OneError

LEMMA SetHolds ==
    ASSUME IndInv, NEW u \in Uids, NEW v \in Vals, NEW once \in CreateFlags, Set(u, v, once)
    PROVE  IndInv'
<1>0. TypeOK /\ TablesOK /\ once \in BOOLEAN
  BY PsAssumption DEF IndInv
<1> PICK c : c = Request("set", u, v, once)
  OBVIOUS
<1> PICK i : i = c.fid
  OBVIOUS
<1>1. /\ c \in Requests /\ c.op = "set" /\ c.uid = u /\ c.val = v
      /\ i = EntryIdx(table, u) /\ c.new = None /\ c.old = None
      /\ i # None => i \in Idx /\ table[i] # None /\ c.tag = table[i].tag /\ table[i].uid = u
  BY <1>0, RequestIs
<1>2. pc = "idle" /\ UNCHANGED <<obj, tab, nvc, swap, active>>
  BY DEF Set, persistent
<1>3. PICK fails \in BOOLEAN : ReadOutcome(u, fails) /\ CreateRequest(u, v, once, fails)
  BY DEF Set
<1>4. errors' \in Nat /\ (errors' = 0 => errors = 0)
  BY <1>0, <1>3, ReadCounts DEF TypeOK
<1>5. /\ errors = 0 => FilesWhole /\ tab[scratch] = None /\ tab[active].db = table
  BY <1>2, InvParts
<1>6. ASSUME Return("no_space"), UNCHANGED table PROVE IndInv'
  <2>1. TypeOK' /\ TablesOK'
    BY <1>0, <1>2, <1>4, <1>6 DEF TypeOK, TablesOK
  <2>2. errors' = 0 => FilesWhole' /\ (tab[scratch])' = None /\ (tab[active].db)' = table'
    BY <1>2, <1>4, <1>5, <1>6 DEF FilesWhole, scratch
  <2> QED BY <1>6, <2>1, <2>2, ReturnHolds DEF Return
<1>7. ASSUME NEW d \in Requests, d.op = "set", d.uid = u, d.val = v, d.new \in Idx,
             table[d.new] = None, d.fid = i,
             i = None => d.old = None /\ \E j \in Idx \ {d.new} : table[j] = None,
             i # None => d.old = i,
             call' = d, pc' = "free", UNCHANGED table
      PROVE  IndInv'
  <2>1. TypeOK' /\ TablesOK'
    BY <1>0, <1>2, <1>4, <1>7 DEF TypeOK, TablesOK
  <2>2. CallOK'
    BY <1>7 DEF CallOK, Saves, Ends
  <2>3. i = None => Lacks(table, u, {})
    BY <1>1, EntryIdxIs
  <2>4. CreateOK'
    <3>1. d.old = None => i = None
      BY <1>1, <1>7
    <3>2. d.old # None => d.old = i
      BY <1>7
    <3>3. EntryIdx(table, d.uid)' = EntryIdx(table, d.uid)
      BY <1>7 DEF EntryIdx
    <3> QED BY <1>1, <1>7, <2>3, <3>1, <3>2, <3>3 DEF CreateOK
  <2>5. UndoOK'
    BY <1>7 DEF UndoOK, Saves
  <2>6. errors' = 0 => WholeOK'
    BY <1>2, <1>4, <1>5, <1>7 DEF WholeOK, FilesWhole, Good, scratch, Saves, Ends
  <2> QED BY <2>1, <2>2, <2>4, <2>5, <2>6 DEF IndInv
<1>8. ASSUME NEW err \in {"failed", "not_permitted", "no_space"}, i # None,
             StartUpdate([c EXCEPT !.err = err])
      PROVE  IndInv'
  <2> PICK d : d = [c EXCEPT !.err = err]
    OBVIOUS
  <2>1. d \in Requests /\ d.op = "set" /\ d.uid = u /\ d.fid = i /\ d.old = None /\ d.tag = c.tag
    BY <1>1 DEF Requests
  <2>2. StartUpdate(d)
    BY <1>8
  <2>3. \A j \in Idx : table'[j] = table[j]
    <3>1. \A j \in Idx : table'[j] = IF j = d.fid THEN [uid |-> d.uid, tag |-> d.tag]
                                     ELSE IF j = EntryIdx(table, d.uid) THEN None
                                     ELSE table[j]
      <4>1. d.fid \in Idx /\ d.fid = EntryIdx(table, d.uid) /\ EntryIdx(table, d.uid) # None
        BY <1>1, <1>8, <2>1
      <4> QED BY <1>0, <2>1, <2>2, <4>1, StartUpdateIs
    <3>2. table[i] = [uid |-> u, tag |-> c.tag]
      BY <1>0, <1>1, <1>8 DEF TypeOK, Table, Entry
    <3> QED BY <1>1, <2>1, <3>1, <3>2
  <2>4. errors' = 0 => /\ Good(table)'
                       /\ \A t \in {0, 1} : tab[t] \notin {None, Torn} => Good(tab[t].db)'
    BY <1>2, <1>4, <1>5, <2>3 DEF Good, FilesWhole, Whole
  <2> QED BY <1>0, <1>1, <1>2, <1>4, <1>8, <2>1, <2>2, <2>4, UpdateHolds DEF TypeOK
<1>9. CASE i = None
  <2>1. CASE FreeIdx(2) = None
    BY <1>1, <1>3, <1>6, <1>9, <2>1 DEF CreateRequest
  <2>2. CASE FreeIdx(2) # None
    <3> PICK d : d = [c EXCEPT !.new = FreeIdx(2)]
      OBVIOUS
    <3>1. FreeIdx(2) \in Idx /\ table[FreeIdx(2)] = None
          /\ \E j \in Idx \ {FreeIdx(2)} : table[j] = None
      BY <1>0, <2>2, FreeIdxIs
    <3>2. d \in Requests /\ d.op = "set" /\ d.uid = u /\ d.val = v /\ d.new = FreeIdx(2)
          /\ d.fid = i /\ d.old = None
      BY <1>1, <3>1 DEF Requests
    <3>3. call' = d /\ pc' = "free" /\ UNCHANGED table
      BY <1>3, <1>9, <2>2 DEF CreateRequest
    <3> QED BY <1>7, <1>9, <3>1, <3>2, <3>3
  <2> QED BY <2>1, <2>2
<1>10. CASE i # None
  <2>1. CASE \E err \in {"failed", "not_permitted", "no_space"} : StartUpdate([c EXCEPT !.err = err])
    BY <1>8, <1>10, <2>1
  <2>2. CASE /\ FreeIdx(1) # None
             /\ call' = [c EXCEPT !.new = FreeIdx(1), !.old = i] /\ pc' = "free" /\ UNCHANGED table
    <3> PICK d : d = [c EXCEPT !.new = FreeIdx(1), !.old = i]
      OBVIOUS
    <3>1. FreeIdx(1) \in Idx /\ table[FreeIdx(1)] = None
      BY <1>0, <2>2, FreeIdxIs
    <3>2. d \in Requests /\ d.op = "set" /\ d.uid = u /\ d.val = v /\ d.new = FreeIdx(1)
          /\ d.fid = i /\ d.old = i
      BY <1>1, <1>10, <3>1 DEF Requests
    <3>3. call' = d /\ pc' = "free" /\ UNCHANGED table
      BY <2>2
    <3> QED BY <1>7, <1>10, <3>1, <3>2, <3>3
  <2> QED BY <1>3, <1>10, <2>1, <2>2 DEF CreateRequest
<1> QED BY <1>9, <1>10

LEMMA RemoveHolds ==
    ASSUME IndInv, NEW u \in Uids, Remove(u)
    PROVE  IndInv'
<1>0. TypeOK /\ TablesOK
  BY DEF IndInv
<1> PICK no \in BOOLEAN : no = FALSE
  OBVIOUS
<1> PICK c : c = Request("remove", u, None, no)
  OBVIOUS
<1> PICK i : i = c.fid
  OBVIOUS
<1>1. /\ c \in Requests /\ c.op = "remove" /\ c.uid = u
      /\ i = EntryIdx(table, u) /\ c.old = None
      /\ i # None => i \in Idx /\ table[i] # None /\ table[i].uid = u
  <2>1. "remove" \in {"set", "remove"} /\ None \in Vals \cup {None}
    OBVIOUS
  <2> QED BY <1>0, <2>1, RequestIs
<1>2. /\ pc = "idle" /\ UNCHANGED <<obj, tab, nvc, swap, active>>
      /\ errors' \in Nat /\ (errors' = 0 => errors = 0)
  BY <1>0, ReadCounts DEF Remove, persistent, TypeOK
<1>3. errors = 0 => FilesWhole /\ tab[scratch] = None /\ tab[active].db = table
  BY <1>2, InvParts
<1>4. ASSUME NEW status, Return(status), UNCHANGED table PROVE IndInv'
  <2>1. TypeOK' /\ TablesOK'
    BY <1>0, <1>2, <1>4 DEF TypeOK, TablesOK
  <2>2. errors' = 0 => FilesWhole' /\ (tab[scratch])' = None /\ (tab[active].db)' = table'
    BY <1>2, <1>3, <1>4 DEF FilesWhole, scratch
  <2> QED BY <1>4, <2>1, <2>2, ReturnHolds DEF Return
<1>5. CASE /\ i # None /\ table' = [table EXCEPT ![i] = None]
           /\ call' = [c EXCEPT !.backup = [idx |-> i, entry |-> table[i]]]
           /\ pc' = SaveStart
  <2> PICK b : b = [idx |-> i, entry |-> table[i]]
    OBVIOUS
  <2>1. b \in Backup /\ b.idx = i /\ b.entry = table[i]
    BY <1>0, <1>1, <1>5 DEF Backup, TypeOK, Table
  <2>2. /\ call' \in Requests /\ call'.op = "remove" /\ call'.uid = u /\ call'.fid = i
        /\ call'.backup = b
    BY <1>1, <1>5, <2>1 DEF Requests
  <2>3. table' \in Table /\ \A j \in Idx : table'[j] = IF j = i THEN None ELSE table[j]
    BY <1>0, <1>1, <1>5 DEF TypeOK, Table
  <2>4. pc' \in {"increment", "write"}
    BY <1>5 DEF SaveStart
  <2>5. Unique(table') /\ HasFree(table')
    BY <1>0, <1>1, <1>5, <2>3 DEF TablesOK, Unique, HasFree
  <2>6. Lacks(table', u, {})
    <3>1. Lacks(table, u, {i})
      BY <1>0, <1>1, <1>5, EntryIdxIs DEF TablesOK
    <3> QED BY <2>3, <3>1 DEF Lacks
  <2>7. \E j \in Idx \ {i} : table'[j] = None
    BY <1>0, <1>1, <1>5, <2>3 DEF TablesOK, HasFree
  <2>8. TypeOK' /\ TablesOK'
    BY <1>0, <1>2, <2>3, <2>5 DEF TypeOK, TablesOK
  <2>9. CallOK' /\ CreateOK'
    BY <2>2, <2>4 DEF CallOK, CreateOK, Saves, Ends
  <2>10. UndoOK'
    BY <1>1, <1>5, <2>1, <2>2, <2>4, <2>6, <2>7 DEF UndoOK
  <2>11. errors' = 0 => WholeOK'
    <3>1. ASSUME errors' = 0 PROVE WholeOK'
      <4>1. Good(table)'
        BY <1>2, <1>3, <2>3, <3>1 DEF Good, Whole, FilesWhole
      <4>2. \A t \in {0, 1} : tab'[t] \notin {None, Torn} => Good(tab[t].db)'
        BY <1>2, <1>3, <3>1 DEF Good, FilesWhole
      <4> QED BY <1>1, <1>5, <2>2, <2>3, <2>4, <4>1, <4>2 DEF WholeOK, Ends
    <3> QED BY <3>1
  <2> QED BY <2>8, <2>9, <2>10, <2>11 DEF IndInv
<1> QED BY <1>4, <1>5 DEF Remove

-----------------------------------------------------------------------------
(* ps_object_create.                                                       *)

LEMMA CreateFailsHolds ==
    ASSUME IndInv, pc \in {"free", "store"}, NEW c \in Requests, c.op = "set",
           c.uid = call.uid, c.old = call.old, c.old # None => c.fid = call.old,
           CreateFails(c), errors' \in Nat, errors' # 0,
           UNCHANGED <<obj, tab, nvc, swap, active>>
    PROVE  IndInv'
<1>0. TypeOK /\ TablesOK /\ CreateOK
  BY DEF IndInv
<1>1. CASE c.old = None
  <2>1. Return("failed") /\ UNCHANGED table
    BY <1>1 DEF CreateFails
  <2>2. TypeOK' /\ TablesOK'
    BY <1>0, <2>1 DEF TypeOK, TablesOK
  <2> QED BY <2>1, <2>2, ReturnHolds DEF Return
<1>2. CASE c.old # None
  <2> PICK d : d = [c EXCEPT !.err = "failed"]
    OBVIOUS
  <2>1. d \in Requests /\ d.op = "set" /\ d.uid = c.uid /\ d.fid = c.fid /\ d.old = c.old
    BY DEF Requests
  <2>2. StartUpdate(d)
    BY <1>2 DEF CreateFails
  <2>3. d.fid = EntryIdx(table, d.uid) /\ EntryIdx(table, d.uid) # None
    BY <1>0, <1>2, <2>1 DEF CreateOK
  <2>4. d.fid \in Idx
    BY <2>3, EntryOf
  <2>5. obj' \in [Idx -> ObjFile \cup {None, Torn}]
    BY <1>0 DEF TypeOK
  <2> QED BY <2>1, <2>2, <2>3, <2>4, <2>5, UpdateHolds
<1> QED BY <1>1, <1>2

(* A request to create an object has a file of its own, which no table in  *)
(* flash names.                                                            *)
LEMMA CreateIs ==
    ASSUME IndInv, pc \in {"free", "store"}
    PROVE  /\ call \in Requests /\ call.op = "set" /\ call.val \in Vals
           /\ call.new \in Idx /\ table[call.new] = None
           /\ errors = 0 => \A t \in {0, 1} : tab[t] \notin {None, Torn} => tab[t].db = table
<1>1. /\ call \in Requests /\ call.op = "set" /\ call.val \in Vals
      /\ call.new \in Idx /\ table[call.new] = None
  BY DEF IndInv, CallOK, CreateOK
<1>2. ASSUME errors = 0, NEW t \in {0, 1}, tab[t] \notin {None, Torn} PROVE tab[t].db = table
  <2>1. tab[scratch] = None /\ tab[active].db = table /\ active \in {0, 1}
    BY <1>2, InvParts DEF TypeOK
  <2>2. t = active \/ t = scratch
    BY <2>1 DEF scratch
  <2> QED BY <1>2, <2>1, <2>2
<1> QED BY <1>1, <1>2

LEMMA FreeFileHolds ==
    ASSUME IndInv, FreeFile
    PROVE  IndInv'
<1>0. TypeOK /\ TablesOK /\ CreateOK /\ pc = "free"
  BY DEF IndInv, FreeFile
<1>1. /\ call \in Requests /\ call.op = "set" /\ call.val \in Vals
      /\ call.new \in Idx /\ table[call.new] = None
      /\ errors = 0 => \A t \in {0, 1} : tab[t] \notin {None, Torn} => tab[t].db = table
  BY <1>0, CreateIs
<1>2. UNCHANGED <<tab, nvc, swap, active>>
  BY DEF FreeFile
<1>3. CASE OneError /\ CreateFails(call) /\ UNCHANGED obj
  <2>1. errors' \in Nat /\ errors' # 0
    BY <1>0, <1>3 DEF OneError, TypeOK
  <2> QED BY <1>0, <1>1, <1>2, <1>3, <2>1, CreateFailsHolds DEF CreateOK
<1>4. CASE /\ obj' = [obj EXCEPT ![call.new] = None] /\ pc' = "store"
           /\ UNCHANGED <<table, call, result, errors>>
  <2>1. obj' \in [Idx -> ObjFile \cup {None, Torn}]
        /\ \A i \in Idx : obj'[i] = IF i = call.new THEN None ELSE obj[i]
    BY <1>0, <1>1, <1>4 DEF TypeOK
  <2>2. TypeOK' /\ TablesOK'
    BY <1>0, <1>2, <1>4, <2>1 DEF TypeOK, TablesOK
  <2>3. CallOK'
    BY <1>1, <1>4 DEF CallOK, Saves, Ends
  <2>4. CreateOK'
    <3>1. EntryIdx(table, call.uid)' = EntryIdx(table, call.uid)
      BY <1>4 DEF EntryIdx
    <3> QED BY <1>0, <1>4, <3>1 DEF CreateOK
  <2>5. UndoOK'
    BY <1>4 DEF UndoOK, Saves
  <2>6. errors' = 0 => WholeOK'
    <3>1. ASSUME errors' = 0 PROVE WholeOK'
      <4>1. FilesWhole /\ tab[scratch] = None /\ tab[active].db = table /\ errors = 0
        BY <1>0, <1>4, <3>1, InvParts
      <4>2. Whole(table, obj')
        BY <1>1, <2>1, <4>1, WholeKept DEF FilesWhole
      <4>3. \A t \in {0, 1} : tab[t] \notin {None, Torn} => Whole(tab[t].db, obj')
        BY <1>1, <4>1, <4>2
      <4> QED BY <1>1, <1>2, <1>4, <4>1, <4>2, <4>3 DEF WholeOK, Good, scratch, Saves, Ends
    <3> QED BY <3>1
  <2> QED BY <2>2, <2>3, <2>4, <2>5, <2>6 DEF IndInv
<1> QED BY <1>3, <1>4 DEF FreeFile

LEMMA StoreObjectHolds ==
    ASSUME IndInv, StoreObject
    PROVE  IndInv'
<1>0. TypeOK /\ TablesOK /\ CreateOK /\ pc = "store"
  BY DEF IndInv, StoreObject
<1>1. /\ call \in Requests /\ call.op = "set" /\ call.val \in Vals
      /\ call.new \in Idx /\ table[call.new] = None
      /\ errors = 0 => \A t \in {0, 1} : tab[t] \notin {None, Torn} => tab[t].db = table
  BY <1>0, CreateIs
<1>2. UNCHANGED <<tab, nvc, swap, active>>
  BY DEF StoreObject
<1> PICK g : g = FreshTag
  OBVIOUS
<1> PICK n : n = call.new
  OBVIOUS
<1> PICK c : c = [call EXCEPT !.fid = call.new, !.tag = FreshTag]
  OBVIOUS
<1>3. g \in Nat
  BY <1>0, FreshTagIs
<1>4. /\ c \in Requests /\ c.op = "set" /\ c.uid = call.uid /\ c.old = call.old /\ c.fid = n
      /\ c.tag = g
  BY <1>1, <1>3 DEF Requests
<1>5. /\ call.old = None => \E j \in Idx \ {n} : table[j] = None
      /\ call.old # None => call.old = EntryIdx(table, call.uid)
  BY <1>0 DEF CreateOK
<1>6. ASSUME OneError, UNCHANGED obj,
             CreateFails([c EXCEPT !.fid = IF call.old = None THEN @ ELSE call.old])
      PROVE  IndInv'
  <2> PICK f : f = IF call.old = None THEN n ELSE call.old
    OBVIOUS
  <2> PICK d : d = [c EXCEPT !.fid = f]
    OBVIOUS
  <2>1. f \in Idx
    BY <1>1, <1>5, EntryOf
  <2>2. /\ d \in Requests /\ d.op = "set" /\ d.uid = call.uid /\ d.old = call.old
        /\ d.old # None => d.fid = call.old
    BY <1>4, <2>1 DEF Requests
  <2>3. CreateFails(d)
    BY <1>4, <1>6
  <2>4. errors' \in Nat /\ errors' # 0
    BY <1>0, <1>6 DEF OneError, TypeOK
  <2> QED BY <1>0, <1>2, <1>6, <2>2, <2>3, <2>4, CreateFailsHolds
<1>7. ASSUME obj' = [obj EXCEPT ![call.new] =
                        [tag |-> FreshTag, val |-> call.val, once |-> call.once]],
             StartUpdate(c), UNCHANGED errors
      PROVE  IndInv'
  <2> PICK o : o = [tag |-> g, val |-> call.val, once |-> call.once]
    OBVIOUS
  <2>1. o \in ObjFile /\ o.tag = g /\ o \notin {None, Torn}
    BY <1>1, <1>3, Numbers DEF ObjFile, Requests
  <2>2. obj' \in [Idx -> ObjFile \cup {None, Torn}]
        /\ \A i \in Idx : obj'[i] = IF i = n THEN o ELSE obj[i]
    BY <1>0, <1>1, <1>7, <2>1 DEF TypeOK
  <2>3. EntryIdx(table, c.uid) = None => \E j \in Idx \ {c.fid} : table[j] = None
    BY <1>4, <1>5
  <2>4. \A j \in Idx : table'[j] = IF j = c.fid THEN [uid |-> c.uid, tag |-> c.tag]
                                 ELSE IF j = EntryIdx(table, c.uid) THEN None
                                 ELSE table[j]
    BY <1>0, <1>1, <1>4, <1>7, <2>3, StartUpdateIs, ZenonT(40)
  <2>5. ASSUME errors' = 0
        PROVE  /\ Good(table)'
               /\ \A t \in {0, 1} : tab[t] \notin {None, Torn} => Good(tab[t].db)'
               /\ c.old # None => table'[c.old] = None
    <3>1. FilesWhole /\ errors = 0
      BY <1>0, <1>7, <2>5, InvParts
    <3>2. Whole(table, obj')
      BY <1>1, <2>2, <3>1, WholeKept DEF FilesWhole
    <3>3. Whole(table', obj')
      BY <1>4, <2>1, <2>2, <2>4, <3>2 DEF Whole
    <3>4. \A t \in {0, 1} : tab[t] \notin {None, Torn} => Good(tab[t].db)'
      BY <1>1, <1>2, <3>1, <3>2 DEF Good
    <3>5. ASSUME c.old # None PROVE table'[c.old] = None
      <4>1. c.old = EntryIdx(table, c.uid)
        BY <1>4, <1>5, <3>5
      <4>2. c.old \in Idx /\ table[c.old] # None
        BY <3>5, <4>1, EntryOf
      <4> QED BY <1>1, <1>4, <2>4, <4>1, <4>2
    <3> QED BY <3>3, <3>4, <3>5 DEF Good
  <2>6. errors' \in Nat
    BY <1>0, <1>7 DEF TypeOK
  <2> QED BY <1>1, <1>2, <1>4, <1>7, <2>2, <2>3, <2>5, <2>6, UpdateHolds
<1> QED BY <1>6, <1>7 DEF StoreObject

-----------------------------------------------------------------------------
(* ps_object_table_save_table.                                             *)

LEMMA SaveSucceedsHolds ==
    ASSUME IndInv, pc \in Saves, SaveSucceeds, TypeOK', TablesOK',
           errors' = 0 => errors = 0 /\ FilesWhole' /\ (tab[active].db)' = table'
    PROVE  IndInv'
<1>0. CallOK /\ UNCHANGED <<table, call>>
  BY DEF IndInv, SaveSucceeds
<1>1. CASE call.op = "init"
  <2>1. pc' = "boot" /\ (call.op)' = "init"
    BY <1>0, <1>1 DEF SaveSucceeds
  <2>2. errors' = 0 => FilesWhole' /\ (pc' \in {"clean", "align"} => (tab[active].db)' = table')
    OBVIOUS
  <2> QED BY <2>1, <2>2, InitStepHolds
<1>2. CASE call.op # "init"
  <2>1. pc' = "drop_table" /\ call \in Requests
    BY <1>0, <1>2 DEF SaveSucceeds, CallOK
  <2>2. CallOK' /\ CreateOK' /\ UndoOK'
    BY <1>0, <2>1 DEF CallOK, CreateOK, UndoOK, Saves, Ends
  <2>3. errors' = 0 => WholeOK'
    <3>1. ASSUME errors' = 0 PROVE WholeOK'
      <4>1. WholeOK /\ FilesWhole' /\ (tab[active].db)' = table'
        BY <3>1 DEF IndInv
      <4>2. /\ call.op = "remove" => call.fid \in Idx /\ table[call.fid] = None
            /\ call.op = "set" /\ call.old # None => table[call.old] = None
        BY <4>1 DEF WholeOK
      <4> QED BY <1>0, <2>1, <4>1, <4>2 DEF WholeOK, FilesWhole, Good, Saves, Ends
    <3> QED BY <3>1
  <2> QED BY <2>2, <2>3 DEF IndInv
<1> QED BY <1>1, <1>2

(* The table that a failed save leaves behind.                             *)
LEMMA SaveFailsHolds ==
    ASSUME IndInv, pc \in Saves, SaveFails, UNCHANGED <<obj, tab, nvc, active>>,
           swap' \in Nat, errors' \in Nat, errors' # 0
    PROVE  IndInv'
<1>0. TypeOK /\ TablesOK /\ CallOK /\ UndoOK /\ table \in Table /\ Unique(table)
  BY DEF IndInv, TypeOK, TablesOK
<1>1. CASE call.op = "init"
  <2>1. pc' = "dead" /\ UNCHANGED <<table, call>>
    BY <1>1 DEF SaveFails
  <2>2. TypeOK' /\ TablesOK'
    BY <1>0, <2>1 DEF TypeOK, TablesOK
  <2> QED BY <1>1, <2>1, <2>2, InitStepHolds
<1> PICK b : b = call.backup
  OBVIOUS
<1> PICK r : r = IF b = None THEN table ELSE [table EXCEPT ![b.idx] = b.entry]
  OBVIOUS
<1>2. ASSUME call.op # "init"
      PROVE  /\ call \in Requests /\ call.fid \in Idx /\ b \in Backup \cup {None}
             /\ b # None => b.idx \in Idx /\ b.entry \in Entry \cup {None}
             /\ b # None /\ b.entry # None => b.entry.uid = call.uid
             /\ r \in Table
             /\ b = None => r = table
             /\ b # None => \A j \in Idx : r[j] = IF j = b.idx THEN b.entry ELSE table[j]
  <2>1. call \in Requests /\ call.fid \in Idx
        /\ (b # None /\ b.entry # None => b.entry.uid = call.uid)
    BY <1>0, <1>2 DEF CallOK, UndoOK
  <2>2. b \in Backup \cup {None}
    BY <2>1 DEF Requests
  <2>3. b # None => b.idx \in Idx /\ b.entry \in Entry \cup {None}
    BY <2>2 DEF Backup
  <2> QED BY <1>0, <2>1, <2>2, <2>3 DEF Table
<1>3. CASE call.op = "remove"
  <2>1. table' = r /\ Return("failed")
    BY <1>3 DEF SaveFails
  <2>2. b # None => Lacks(table, call.uid, {}) /\ \E j \in Idx \ {b.idx} : table[j] = None
    BY <1>0, <1>3 DEF UndoOK
  <2>3. Unique(r)
    <3>1. CASE b = None
      BY <1>0, <1>2, <1>3, <3>1
    <3>2. CASE b # None
      BY <1>0, <1>2, <1>3, <2>2, <3>2 DEF Unique, Lacks
    <3> QED BY <3>1, <3>2
  <2>4. HasFree(r)
    BY <1>0, <1>2, <1>3, <2>2 DEF HasFree, TablesOK
  <2>5. TypeOK' /\ TablesOK'
    BY <1>0, <1>2, <1>3, <2>1, <2>3, <2>4 DEF TypeOK, TablesOK
  <2> QED BY <2>1, <2>5, ReturnHolds DEF Return
<1>4. CASE call.op \notin {"init", "remove"}
  <2> PICK e : e = IF call.err = "ok" THEN "failed" ELSE call.err
    OBVIOUS
  <2>1. table' = [r EXCEPT ![call.fid] = None] /\ pc' = "undo"
    BY <1>4 DEF SaveFails
  <2>2. call' = [call EXCEPT !.err = e]
    BY <1>4 DEF SaveFails
  <2>3. call.op = "set" /\ Lacks(table, call.uid, {call.fid})
    BY <1>0, <1>2, <1>4 DEF UndoOK, Requests
  <2>4. call' \in Requests /\ call'.fid = call.fid
    BY <1>2, <1>4, <2>2 DEF Requests
  <2>5. table' \in Table /\ \A j \in Idx : table'[j] = IF j = call.fid THEN None ELSE r[j]
    BY <1>2, <1>4, <2>1 DEF Table
  <2>6. Unique(table')
    <3>1. CASE b = None
      BY <1>0, <1>2, <1>4, <2>5, <3>1 DEF Unique
    <3>2. CASE b # None
      BY <1>0, <1>2, <1>4, <2>3, <2>5, <3>2 DEF Unique, Lacks
    <3> QED BY <3>1, <3>2
  <2>7. HasFree(table')
    BY <1>2, <1>4, <2>5 DEF HasFree
  <2>8. TypeOK' /\ TablesOK'
    BY <1>0, <2>5, <2>6, <2>7 DEF TypeOK, TablesOK
  <2>9. CallOK' /\ CreateOK' /\ UndoOK'
    BY <1>2, <1>4, <2>1, <2>4 DEF CallOK, CreateOK, UndoOK, Saves, Ends
  <2> QED BY <2>8, <2>9 DEF IndInv
<1> QED BY <1>1, <1>3, <1>4

(* A step of the save that leaves the request as it is.                    *)
LEMMA SaveGoesOn ==
    ASSUME IndInv, pc \in Saves, pc' \in Saves, UNCHANGED <<table, call, errors>>,
           TypeOK', TablesOK',
           errors = 0 => FilesWhole' /\ (pc' = "align" => (tab[active].db)' = table')
    PROVE  IndInv'
<1>1. CallOK' /\ CreateOK' /\ UndoOK'
  BY DEF IndInv, CallOK, CreateOK, UndoOK, Saves, Ends
<1>2. errors' = 0 => WholeOK'
  <2>1. ASSUME errors' = 0 PROVE WholeOK'
    <3>1. WholeOK /\ FilesWhole' /\ (pc' = "align" => (tab[active].db)' = table')
      BY <2>1 DEF IndInv
    <3>2. /\ call.op = "remove" => call.fid \in Idx /\ table[call.fid] = None
          /\ call.op = "set" /\ call.old # None => table[call.old] = None
      BY <3>1 DEF WholeOK
    <3> QED BY <3>1, <3>2 DEF WholeOK, FilesWhole, Good, Saves, Ends
  <2> QED BY <2>1
<1> QED BY <1>1, <1>2 DEF IndInv

LEMMA IncrementHolds ==
    ASSUME IndInv, IncrementNvc1
    PROVE  IndInv'
<1>0. /\ TypeOK /\ TablesOK /\ pc \in Saves /\ UNCHANGED <<obj, tab, swap, active>>
      /\ errors = 0 => FilesWhole
  BY InvParts DEF IncrementNvc1, Saves
<1>1. CASE nvc' = [nvc EXCEPT ![1] = @ + 1] /\ pc' = "write" /\ UNCHANGED <<table, call, errors>>
  <2>1. nvc' \in [1 .. 3 -> Nat]
    BY <1>0, <1>1 DEF TypeOK
  <2>2. TypeOK' /\ TablesOK'
    BY <1>0, <1>1, <2>1 DEF TypeOK, TablesOK
  <2>3. pc' \in Saves /\ pc' # "align"
    BY <1>1 DEF Saves
  <2>4. errors = 0 => FilesWhole'
    BY <1>0, <1>1 DEF FilesWhole
  <2> QED BY <1>0, <1>1, <2>2, <2>3, <2>4, SaveGoesOn
<1>2. CASE OneError /\ SaveFails /\ UNCHANGED nvc
  <2>1. errors' \in Nat /\ errors' # 0 /\ swap' \in Nat
    BY <1>0, <1>2 DEF OneError, TypeOK
  <2> QED BY <1>0, <1>2, <2>1, SaveFailsHolds
<1> QED BY <1>1, <1>2 DEF IncrementNvc1

LEMMA NextSwapIs ==
    ASSUME NEW n \in Nat
    PROVE  NextSwap(n) \in Nat
BY PsAssumption DEF NextSwap

LEMMA WriteTableHolds ==
    ASSUME IndInv, WriteTable
    PROVE  IndInv'
<1>0. /\ TypeOK /\ TablesOK /\ pc \in Saves /\ UNCHANGED <<obj, nvc>>
      /\ errors = 0 => FilesWhole
  BY InvParts DEF WriteTable, Saves
<1>1. swap' \in Nat
  BY <1>0, NextSwapIs DEF WriteTable, TypeOK
<1>2. CASE OneError /\ SaveFails /\ UNCHANGED <<tab, active>>
  <2>1. errors' \in Nat /\ errors' # 0
    BY <1>0, <1>2 DEF OneError, TypeOK
  <2> QED BY <1>0, <1>1, <1>2, <2>1, SaveFailsHolds
<1>3. CASE /\ tab' = [tab EXCEPT ![scratch] =
                         [ver |-> IF Rollback THEN nvc[1] ELSE swap', db |-> table]]
           /\ active' = Swapped
           /\ IF Rollback
              THEN pc' = "align" /\ UNCHANGED <<table, call, result, crashes>>
              ELSE SaveSucceeds
           /\ UNCHANGED errors
  <2> PICK s : s = scratch
    OBVIOUS
  <2> PICK n : n = IF Rollback THEN nvc[1] ELSE swap'
    OBVIOUS
  <2> PICK f : f = [ver |-> n, db |-> table]
    OBVIOUS
  <2>1. s \in {0, 1} /\ active' = s /\ tab' = [tab EXCEPT ![s] = f]
    BY <1>0, <1>3 DEF TypeOK, scratch, Swapped
  <2>2. n \in Nat
    BY <1>0, <1>1 DEF TypeOK
  <2>3. f \in TabFile /\ f.db = table
    BY <1>0, <2>2 DEF TypeOK, TabFile
  <2>4. tab' \in [{0, 1} -> TabFile \cup {None, Torn}]
        /\ \A t \in {0, 1} : tab'[t] = IF t = s THEN f ELSE tab[t]
    BY <1>0, <2>1, <2>3 DEF TypeOK
  <2>5. UNCHANGED <<table, call>>
    BY <1>3 DEF SaveSucceeds
  <2>6. TypeOK'
    BY <1>0, <1>1, <1>3, <2>1, <2>4, <2>5 DEF TypeOK
  <2>7. TablesOK'
    BY <1>0, <2>3, <2>4, <2>5 DEF TablesOK
  <2>8. (tab[active].db)' = table'
    BY <2>1, <2>3, <2>4, <2>5
  <2>9. errors = 0 => FilesWhole'
    BY <1>0, <2>3, <2>4, <2>5 DEF FilesWhole
  <2>10. CASE Rollback
    <3>1. pc' \in Saves
      BY <1>3, <2>10 DEF Saves
    <3> QED BY <1>0, <1>3, <2>5, <2>6, <2>7, <2>8, <2>9, <3>1, SaveGoesOn
  <2>11. CASE ~Rollback
    BY <1>0, <1>3, <2>6, <2>7, <2>8, <2>9, <2>11, SaveSucceedsHolds
  <2> QED BY <2>10, <2>11
<1> QED BY <1>2, <1>3 DEF WriteTable

LEMMA AlignHolds ==
    ASSUME IndInv, AlignNvc
    PROVE  IndInv'
<1>0. /\ TypeOK /\ TablesOK /\ pc \in Saves /\ pc = "align" /\ UNCHANGED <<obj, tab, swap, active>>
      /\ errors = 0 => FilesWhole /\ tab[active].db = table
  BY InvParts DEF AlignNvc, Saves
<1>1. CASE OneError /\ SaveFails /\ UNCHANGED nvc
  <2>1. errors' \in Nat /\ errors' # 0 /\ swap' \in Nat
    BY <1>0, <1>1 DEF OneError, TypeOK
  <2> QED BY <1>0, <1>1, <2>1, SaveFailsHolds
<1>2. CASE /\ nvc' = [nvc EXCEPT ![NextNvc] = @ + 1]
           /\ SaveSucceeds \/ UNCHANGED <<pc, table, call, result, crashes>>
           /\ UNCHANGED errors
  <2>1. nvc' \in [1 .. 3 -> Nat]
    BY <1>0, <1>2 DEF TypeOK, NextNvc
  <2>2. UNCHANGED <<table, call>>
    BY <1>2 DEF SaveSucceeds
  <2>3. TypeOK' /\ TablesOK'
    BY <1>0, <1>2, <2>1, <2>2 DEF TypeOK, TablesOK
  <2>4. errors = 0 => FilesWhole' /\ (tab[active].db)' = table'
    BY <1>0, <2>2 DEF FilesWhole
  <2>5. CASE SaveSucceeds
    BY <1>0, <1>2, <2>3, <2>4, <2>5, SaveSucceedsHolds
  <2>6. CASE UNCHANGED <<pc, table, call, result, crashes>>
    BY <1>0, <1>2, <2>3, <2>4, <2>6, SaveGoesOn
  <2> QED BY <1>2, <2>5, <2>6
<1> QED BY <1>1, <1>2 DEF AlignNvc

(* A write that is interrupted within.                                     *)
LEMMA TearHolds ==
    ASSUME IndInv, TearFile
    PROVE  IndInv'
<1>0. /\ TypeOK /\ TablesOK /\ CreateOK /\ CallOK
      /\ UNCHANGED <<nvc, table, swap, active, pc, call, errors>>
      /\ errors = 0 => FilesWhole
  BY InvParts DEF TearFile, ram
<1>1. CASE pc = "store" /\ obj' = [obj EXCEPT ![call.new] = Torn] /\ UNCHANGED tab
  <2>1. /\ call.new \in Idx /\ table[call.new] = None
        /\ errors = 0 => \A t \in {0, 1} : tab[t] \notin {None, Torn} => tab[t].db = table
    BY <1>1, CreateIs
  <2>2. obj' \in [Idx -> ObjFile \cup {None, Torn}]
        /\ \A i \in Idx : obj'[i] = IF i = call.new THEN Torn ELSE obj[i]
    BY <1>0, <1>1, <2>1 DEF TypeOK
  <2>3. TypeOK' /\ TablesOK' /\ CallOK'
    BY <1>0, <1>1, <2>2 DEF TypeOK, TablesOK, CallOK
  <2>4. CreateOK'
    <3>1. EntryIdx(table, call.uid)' = EntryIdx(table, call.uid)
      BY <1>0 DEF EntryIdx
    <3> QED BY <1>0, <3>1 DEF CreateOK
  <2>5. UndoOK'
    BY <1>0, <1>1 DEF UndoOK, Saves
  <2>6. errors' = 0 => WholeOK'
    <3>1. ASSUME errors' = 0 PROVE WholeOK'
      <4>1. FilesWhole /\ tab[scratch] = None /\ tab[active].db = table /\ errors = 0
        BY <1>0, <1>1, <3>1, InvParts
      <4>2. Whole(table, obj')
        BY <2>1, <2>2, <4>1, WholeKept DEF FilesWhole
      <4>3. \A t \in {0, 1} : tab[t] \notin {None, Torn} => Whole(tab[t].db, obj')
        BY <2>1, <4>1, <4>2
      <4> QED BY <1>0, <1>1, <4>1, <4>2, <4>3 DEF WholeOK, Good, scratch, Saves, Ends
    <3> QED BY <3>1
  <2> QED BY <2>3, <2>4, <2>5, <2>6 DEF IndInv
<1>2. CASE pc = "write" /\ tab' = [tab EXCEPT ![scratch] = Torn] /\ UNCHANGED obj
  <2>1. scratch \in {0, 1}
    BY <1>0 DEF TypeOK, scratch
  <2>2. tab' \in [{0, 1} -> TabFile \cup {None, Torn}]
        /\ \A t \in {0, 1} : tab'[t] = IF t = scratch THEN Torn ELSE tab[t]
    BY <1>0, <1>2, <2>1 DEF TypeOK
  <2>3. TypeOK' /\ TablesOK'
    BY <1>0, <1>2, <2>2 DEF TypeOK, TablesOK
  <2>4. errors = 0 => FilesWhole'
    BY <1>0, <1>2, <2>2 DEF FilesWhole
  <2>5. pc \in Saves /\ pc' \in Saves /\ pc' # "align"
    BY <1>0, <1>2 DEF Saves
  <2> QED BY <1>0, <2>3, <2>4, <2>5, SaveGoesOn
<1> QED BY <1>1, <1>2 DEF TearFile

-----------------------------------------------------------------------------
(* What a request removes once its table is saved.                         *)

LEMMA DropTableHolds ==
    ASSUME IndInv, DropTable
    PROVE  IndInv'
<1>0. /\ TypeOK /\ TablesOK /\ pc = "drop_table" /\ call \in Requests
      /\ UNCHANGED <<obj, nvc, table, swap, active>>
      /\ errors = 0 => FilesWhole /\ tab[active].db = table
  BY InvParts DEF DropTable, ram, CallOK, Ends
<1>1. scratch \in {0, 1} /\ active \in {0, 1} /\ scratch # active
  BY <1>0 DEF TypeOK, scratch
<1>2. /\ tab' = tab \/ tab' = [tab EXCEPT ![scratch] = None]
      /\ errors' \in Nat
      /\ errors' = 0 => errors = 0 /\ tab' = [tab EXCEPT ![scratch] = None]
  <2>1. \/ tab' = [tab EXCEPT ![scratch] = None] /\ errors' = errors
        \/ tab' = tab /\ OneError
    BY Zenon DEF DropTable
  <2>2. errors \in Nat
    BY <1>0 DEF TypeOK
  <2> QED BY <2>1, <2>2 DEF OneError
<1>3. /\ tab' \in [{0, 1} -> TabFile \cup {None, Torn}]
      /\ \A t \in {0, 1} : tab'[t] = tab[t] \/ tab'[t] = None
  BY <1>0, <1>1, <1>2 DEF TypeOK
<1>4. errors' = 0 => tab'[scratch] = None /\ tab'[active] = tab[active]
  BY <1>0, <1>1, <1>2 DEF TypeOK
<1>5. TypeOK' /\ TablesOK'
  BY <1>0, <1>2, <1>3 DEF TypeOK, TablesOK
<1>6. errors' = 0 => FilesWhole' /\ (tab[scratch])' = None /\ (tab[active].db)' = table'
  BY <1>0, <1>2, <1>3, <1>4 DEF FilesWhole, scratch
<1>7. CASE \E status : Return(status)
  BY <1>5, <1>6, <1>7, ReturnHolds DEF Return
<1>8. CASE pc' = "drop_object" /\ UNCHANGED call
  <2>1. CallOK' /\ CreateOK' /\ UndoOK'
    BY <1>0, <1>8 DEF CallOK, CreateOK, UndoOK, Saves, Ends
  <2>2. errors' = 0 => WholeOK'
    <3>1. ASSUME errors' = 0 PROVE WholeOK'
      <4>1. WholeOK
        BY <1>2, <3>1 DEF IndInv
      <4>2. /\ call.op = "remove" => call.fid \in Idx /\ table[call.fid] = None
            /\ call.op = "set" /\ call.old # None => table[call.old] = None
        BY <1>0, <4>1 DEF WholeOK, Ends
      <4> QED BY <1>0, <1>6, <1>8, <3>1, <4>2 DEF WholeOK, FilesWhole, Good, Saves, Ends
    <3> QED BY <3>1
  <2> QED BY <1>5, <2>1, <2>2 DEF IndInv
<1>9. (\E status : Return(status)) \/ (pc' = "drop_object" /\ UNCHANGED call)
  BY Zenon DEF DropTable, AfterDropTable
<1> QED BY <1>7, <1>8, <1>9

LEMMA DropObjectHolds ==
    ASSUME IndInv, DropObject
    PROVE  IndInv'
<1>0. /\ TypeOK /\ TablesOK /\ pc = "drop_object" /\ call \in Requests
      /\ UNCHANGED <<tab, nvc, table, swap, active>>
      /\ errors = 0 => FilesWhole /\ tab[scratch] = None /\ tab[active].db = table
  BY InvParts DEF DropObject, ram, CallOK, Ends
<1> PICK f : f = IF call.op = "remove" THEN call.fid ELSE call.old
  OBVIOUS
<1>1. /\ obj' = obj \/ obj' = [obj EXCEPT ![f] = None]
      /\ errors' \in Nat
      /\ errors' = 0 => errors = 0
      /\ \E status : Return(status)
  BY <1>0 DEF DropObject, OneError, TypeOK
<1>2. /\ obj' \in [Idx -> ObjFile \cup {None, Torn}]
      /\ \A i \in Idx : i # f => obj'[i] = obj[i]
  BY <1>0, <1>1 DEF TypeOK
<1>3. TypeOK' /\ TablesOK'
  BY <1>0, <1>1, <1>2 DEF TypeOK, TablesOK
<1>4. ASSUME errors' = 0
      PROVE  FilesWhole' /\ (tab[scratch])' = None /\ (tab[active].db)' = table'
  <2>1. WholeOK /\ FilesWhole /\ tab[scratch] = None /\ tab[active].db = table
    BY <1>0, <1>1, <1>4 DEF IndInv
  <2>2. f \in Idx => table[f] = None
    BY <1>0, <2>1, Numbers DEF WholeOK, Ends, Requests
  <2>3. Whole(table, obj')
    BY <1>2, <2>1, <2>2, WholeKept DEF FilesWhole
  <2>4. \A t \in {0, 1} : tab[t] \notin {None, Torn} => tab[t].db = table
    BY <1>0, <2>1 DEF TypeOK, scratch
  <2> QED BY <1>0, <2>1, <2>3, <2>4 DEF FilesWhole, scratch
<1> QED BY <1>1, <1>3, <1>4, ReturnHolds DEF Return

LEMMA UndoHolds ==
    ASSUME IndInv, UndoStore
    PROVE  IndInv'
<1>0. TypeOK /\ TablesOK /\ UNCHANGED <<tab, nvc, table, swap, active>> /\ errors # 0
  BY InvParts DEF UndoStore, ram, UndoOK
<1>1. obj' \in [Idx -> ObjFile \cup {None, Torn}]
  BY <1>0 DEF UndoStore, TypeOK
<1>2. errors' \in Nat /\ errors' # 0
  BY <1>0 DEF UndoStore, OneError, TypeOK
<1>3. TypeOK' /\ TablesOK'
  BY <1>0, <1>1, <1>2 DEF TypeOK, TablesOK
<1> QED BY <1>2, <1>3, ReturnHolds DEF UndoStore, Return

-----------------------------------------------------------------------------
(* ps_object_table_init.                                                   *)

(* A restart chooses a table that was written as a whole.                  *)
LEMMA ActiveTableIs ==
    \A unread : ActiveTable(unread) # None
                    => ActiveTable(unread) \in {0, 1}
                       /\ tab[ActiveTable(unread)] \notin {None, Torn}
<1> SUFFICES ASSUME NEW unread, ActiveTable(unread) # None
             PROVE  ActiveTable(unread) \in {0, 1}
                    /\ tab[ActiveTable(unread)] \notin {None, Torn}
  OBVIOUS
<1> PICK S : S = [t \in {0, 1} |-> IF t \in unread THEN "invalid" ELSE TableState(t)]
  OBVIOUS
<1>1. \A t \in {0, 1} : S[t] # "invalid" => tab[t] \notin {None, Torn}
  BY DEF TableState
<1>2. ActiveTable(unread) =
          IF S[0] = "invalid" /\ S[1] = "invalid" THEN None
          ELSE IF S[0] = "invalid" THEN 1
          ELSE IF S[1] = "invalid" THEN 0
          ELSE IF Rollback THEN (IF S[1] = "nvc1" THEN 1 ELSE 0)
          ELSE LaterTable(tab[0].ver, tab[1].ver)
  BY DEF ActiveTable
<1>3. \A m, n : LaterTable(m, n) \in {0, 1}
  BY DEF LaterTable
<1> QED BY <1>1, <1>2, <1>3

LEMMA PrepareFailsHolds ==
    ASSUME IndInv, PrepareFails, call.op = "init", UNCHANGED <<obj, tab, nvc>>,
           errors' \in Nat, errors' = 0 => errors = 0
    PROVE  IndInv'
<1>0. TypeOK /\ TablesOK /\ (errors = 0 => FilesWhole)
  BY InvParts
<1>1. EmptyTable \in Table /\ Unique(EmptyTable) /\ HasFree(EmptyTable)
      /\ \A o : Whole(EmptyTable, o)
  BY Numbers DEF EmptyTable, Table, Unique, HasFree, Whole
<1>2. /\ pc' \in {"dead", "increment", "write"} /\ (call.op)' = "init"
      /\ UNCHANGED <<table, swap, active>>
         \/ (table' = EmptyTable /\ swap' = 0 /\ active' = 1)
  BY DEF PrepareFails, SaveStart, ram, InitCall
<1>3. TypeOK' /\ TablesOK'
  BY <1>0, <1>1, <1>2 DEF TypeOK, TablesOK
<1>4. errors' = 0 => FilesWhole'
  BY <1>0, <1>1, <1>2 DEF FilesWhole
<1>5. pc' \in {"boot", "clean", "dead"} \cup Saves /\ pc' \notin {"clean", "align"}
  BY <1>2 DEF Saves
<1> QED BY <1>2, <1>3, <1>4, <1>5, InitStepHolds

LEMMA BootHolds ==
    ASSUME IndInv, Boot
    PROVE  IndInv'
<1>0. /\ TypeOK /\ TablesOK /\ call.op = "init" /\ UNCHANGED <<obj, tab, nvc>>
      /\ errors = 0 => FilesWhole
  BY InvParts DEF Boot, persistent, CallOK
<1>1. PICK unread \in SUBSET {0, 1} :
          /\ IF unread = {} THEN UNCHANGED errors ELSE OneError
          /\ LET a == ActiveTable(unread)
             IN  IF a = None THEN PrepareFails
                 ELSE /\ active' = a
                      /\ table' = tab[a].db
                      /\ swap' = IF Rollback THEN swap ELSE tab[a].ver
                      /\ pc' = "clean"
                      /\ UNCHANGED call
  BY DEF Boot
<1> PICK a : a = ActiveTable(unread)
  OBVIOUS
<1>2. errors' \in Nat /\ (errors' = 0 => errors = 0)
  BY <1>0, <1>1 DEF OneError, TypeOK
<1>3. CASE a = None
  BY <1>0, <1>1, <1>2, <1>3, PrepareFailsHolds
<1>4. CASE a # None
  <2>1. a \in {0, 1} /\ tab[a] \notin {None, Torn}
    BY <1>4, ActiveTableIs
  <2>2. tab[a] \in TabFile
    BY <1>0, <2>1 DEF TypeOK
  <2>3. tab[a].ver \in Nat /\ tab[a].db \in Table
    BY <2>2 DEF TabFile
  <2>4. active' = a /\ table' = tab[a].db /\ pc' = "clean" /\ UNCHANGED call /\ swap' \in Nat
    BY <1>0, <1>1, <1>4, <2>3 DEF TypeOK
  <2>5. TypeOK' /\ TablesOK'
    BY <1>0, <1>2, <2>1, <2>3, <2>4 DEF TypeOK, TablesOK
  <2>6. errors' = 0 => FilesWhole' /\ (tab[active].db)' = table'
    BY <1>0, <1>2, <2>1, <2>4 DEF FilesWhole
  <2>7. pc' \in {"boot", "clean", "dead"} \cup Saves /\ (call.op)' = "init"
    BY <1>0, <2>4
  <2> QED BY <2>5, <2>6, <2>7, InitStepHolds
<1> QED BY <1>3, <1>4

LEMMA CleanHolds ==
    ASSUME IndInv, CleanTable
    PROVE  IndInv'
<1>0. /\ TypeOK /\ TablesOK /\ call.op = "init" /\ UNCHANGED <<obj, nvc>>
      /\ errors = 0 => FilesWhole /\ tab[active].db = table
  BY InvParts DEF CleanTable, CallOK
<1>1. CASE OneError /\ PrepareFails /\ UNCHANGED tab
  <2>1. errors' \in Nat /\ errors' # 0
    BY <1>0, <1>1 DEF OneError, TypeOK
  <2> QED BY <1>0, <1>1, <2>1, PrepareFailsHolds
<1>2. CASE /\ tab' = [tab EXCEPT ![scratch] = None] /\ pc' = "idle" /\ call' = NoCall
           /\ UNCHANGED <<table, swap, active, errors>>
  <2>1. scratch \in {0, 1} /\ active \in {0, 1} /\ scratch # active
    BY <1>0 DEF TypeOK, scratch
  <2>2. /\ tab' \in [{0, 1} -> TabFile \cup {None, Torn}]
        /\ \A t \in {0, 1} : tab'[t] = IF t = scratch THEN None ELSE tab[t]
    BY <1>0, <1>2, <2>1 DEF TypeOK
  <2>3. TypeOK' /\ TablesOK'
    BY <1>0, <1>2, <2>2 DEF TypeOK, TablesOK
  <2>4. errors' = 0 => FilesWhole' /\ (tab[scratch])' = None /\ (tab[active].db)' = table'
    BY <1>0, <1>2, <2>1, <2>2 DEF FilesWhole, scratch
  <2> QED BY <1>2, <2>3, <2>4, ReturnHolds
<1> QED BY <1>1, <1>2 DEF CleanTable, ram

LEMMA PowerFailureHolds ==
    ASSUME IndInv, PowerFailure
    PROVE  IndInv'
<1>0. /\ TypeOK /\ TablesOK /\ UNCHANGED <<obj, tab, nvc, errors>>
      /\ errors = 0 => FilesWhole
  BY InvParts DEF PowerFailure, persistent
<1>1. EmptyTable \in Table /\ Unique(EmptyTable) /\ HasFree(EmptyTable)
      /\ \A o : Whole(EmptyTable, o)
  BY Numbers DEF EmptyTable, Table, Unique, HasFree, Whole
<1>2. table' = EmptyTable /\ swap' = 0 /\ active' = 0 /\ pc' = "boot" /\ (call.op)' = "init"
  BY DEF PowerFailure, InitCall
<1>3. TypeOK' /\ TablesOK'
  BY <1>0, <1>1, <1>2 DEF TypeOK, TablesOK
<1>4. errors' = 0 => FilesWhole'
  BY <1>0, <1>1, <1>2 DEF FilesWhole
<1> QED BY <1>2, <1>3, <1>4, InitStepHolds

-----------------------------------------------------------------------------
(* The theorems.                                                           *)

LEMMA UnchangedHolds ==
    ASSUME IndInv, UNCHANGED <<obj, tab, nvc, ram, pc, call>>,
           errors' \in Nat, errors' = 0 => errors = 0
    PROVE  IndInv'
<1>1. UNCHANGED <<obj, tab, nvc, table, swap, active, pc, call>>
  BY DEF ram
<1>2. TypeOK' /\ CallOK' /\ TablesOK'
  BY <1>1 DEF IndInv, TypeOK, CallOK, TablesOK
<1>3. CreateOK'
  <2>1. EntryIdx(table, call.uid)' = EntryIdx(table, call.uid)
    BY <1>1 DEF EntryIdx
  <2> QED BY <1>1, <2>1 DEF IndInv, CreateOK
<1>4. UndoOK' /\ (errors' = 0 => WholeOK')
  BY <1>1 DEF IndInv, UndoOK, WholeOK, Good, scratch
<1> QED BY <1>2, <1>3, <1>4 DEF IndInv

LEMMA NextHolds ==
    ASSUME IndInv, [Next]_vars
    PROVE  IndInv'
<1>1. ASSUME NEW u \in Uids, NEW v \in Vals, NEW once \in CreateFlags, Set(u, v, once)
      PROVE  IndInv'
  BY <1>1, SetHolds
<1>2. ASSUME NEW u \in Uids, Remove(u) PROVE IndInv'
  BY <1>2, RemoveHolds
<1>3. ASSUME NEW u \in Uids, Get(u) PROVE IndInv'
  <2>1. UNCHANGED <<obj, tab, nvc, ram, pc, call>>
    BY <1>3 DEF Get, persistent
  <2>2. errors' \in Nat /\ (errors' = 0 => errors = 0)
    BY <1>3, ReadCounts DEF Get, IndInv, TypeOK
  <2> QED BY <2>1, <2>2, UnchangedHolds
<1>4. CASE Step
  BY <1>4, FreeFileHolds, StoreObjectHolds, IncrementHolds, WriteTableHolds, AlignHolds,
     DropTableHolds, DropObjectHolds, UndoHolds, BootHolds, CleanHolds DEF Step
<1>5. CASE TearFile
  BY <1>5, TearHolds
<1>6. CASE PowerFailure
  BY <1>6, PowerFailureHolds
<1>7. CASE UNCHANGED vars
  BY <1>7, UnchangedHolds DEF vars, ram, IndInv, TypeOK
<1> QED BY <1>1, <1>2, <1>3, <1>4, <1>5, <1>6, <1>7 DEF Next

(* The inductive invariant: what the table in RAM, the two table files and *)
(* the object files hold at each call that a request makes to ITS or to a  *)
(* counter (ps_object_system.c, ps_object_table.c).                        *)
THEOREM TablesInvariance == Spec => []IndInv
BY InitHolds, NextHolds, PTL DEF Spec

(* No two entries of the object table name the same object, whichever call *)
(* fails and however a save is undone (ps_object_table_set_obj_tbl_info,   *)
(* ps_object_table_delete_object).                                         *)
THEOREM ObjectsHaveOneEntry == Spec => []OneEntryPerObject
<1>1. IndInv => OneEntryPerObject
  BY DEF IndInv, TablesOK, Unique, OneEntryPerObject
<1> QED BY <1>1, TablesInvariance, PTL

(* An entry is free whenever a request arrives, for any number of objects: *)
(* an object can always be replaced (ps_object_table_get_free_fid).        *)
THEOREM ReplacementsHaveRoom == Spec => []ReplacementHasRoom
<1>1. IndInv => ReplacementHasRoom
  BY FreeIdxIs DEF IndInv, TablesOK, ReplacementHasRoom
<1> QED BY <1>1, TablesInvariance, PTL

(* At every moment, and so after a power failure at any moment, each entry *)
(* of the table in force has the object file that its tag authenticates,   *)
(* as long as no call failed (ps_object_create, ps_object_delete,          *)
(* ps_object_table_init).                                                  *)
THEOREM TablesAreWhole == Spec => []TableIsWhole
<1>1. ASSUME IndInv PROVE TableIsWhole
  <2> SUFFICES ASSUME errors = 0, NEW i \in Idx, CurrentDb[i] # None
               PROVE  Readable(CurrentDb, i)
    BY DEF TableIsWhole
  <2> PICK t : t = CurrentTable
    OBVIOUS
  <2>1. TypeOK /\ FilesWhole
    BY <1>1, InvParts
  <2>2. t # None /\ tab[t] \notin {None, Torn} => t \in {0, 1}
    BY <2>1, ActiveTableIs DEF CurrentTable, TypeOK
  <2>3. CASE t # None /\ tab[t] \notin {None, Torn}
    <3>1. CurrentDb = tab[t].db
      BY <2>3 DEF CurrentDb
    <3>2. Whole(CurrentDb, obj)
      BY <2>1, <2>2, <2>3, <3>1 DEF FilesWhole
    <3> QED BY <3>2 DEF Whole, Readable
  <2>4. CASE ~(t # None /\ tab[t] \notin {None, Torn})
    BY <2>4 DEF CurrentDb, EmptyTable
  <2> QED BY <2>3, <2>4
<1> QED BY <1>1, TablesInvariance, PTL

-----------------------------------------------------------------------------
(* The store of objects.  As long as no call fails, the table in force is  *)
(* the one a restart would choose, and what a request has changed in RAM   *)
(* and in the files is what it will do to the store.                       *)

IsTab(t) == tab[t] \notin {None, Torn}
NoTables == ~IsTab(0) /\ ~IsTab(1)
Starting == call.op = "init" /\ pc # "clean"
Swaps == 0 .. SwapMod - 2

(* The versions of the tables: none is newer than counter 1, or the swap   *)
(* counts stay below the value of erased flash.                            *)
VersionsOK ==
    IF Rollback
    THEN \A t \in {0, 1} :
            IsTab(t) => tab[t].ver <= nvc[1] /\ (pc = "write" => tab[t].ver < nvc[1])
    ELSE /\ swap \in Swaps
         /\ pc \notin {"increment", "align"}
         /\ \A t \in {0, 1} : IsTab(t) => tab[t].ver \in Swaps
         /\ ~Starting => tab[active].ver = swap

(* A table is created only when there is none. *)
CreatingOK ==
    call.op = "init" =>
        /\ pc \in {"increment", "write", "dead"} => NoTables
        /\ pc \in {"increment", "write", "align"} => table = EmptyTable
        /\ pc = "align" => ~IsTab(scratch)

(* Which table is in force. *)
ChoiceOK ==
    /\ pc = "boot" => ActiveTable({}) # None \/ NoTables
    /\ pc = "clean" => ActiveTable({}) = active
    /\ ~Starting => IsTab(active)
    /\ pc \in {"increment", "write"} => ~IsTab(scratch)

(* Both tables exist between the write of one and the removal of the other. *)
LatestOK ==
    /\ pc = "align" \/ (pc = "drop_table" /\ Rollback) =>
        /\ IsTab(active) /\ tab[active].ver = nvc[1]
        /\ IsTab(scratch) => tab[scratch].ver # nvc[1]
    /\ pc \in {"align", "drop_table"} /\ call.op # "init" => IsTab(scratch)
    /\ pc = "drop_table" => IF Rollback THEN nvc[2] = nvc[1] /\ nvc[3] = nvc[1] /\ nvc[1] # 0
                            ELSE tab[active].ver = NextSwap(tab[scratch].ver)

(* After a completed save the counters agree, and with the table in force; *)
(* after an interrupted one a restart still chooses the table in use, up   *)
(* to the next increment of counter 1.                                     *)
AlignedOK ==
    Rollback =>
        /\ pc \in Ends => crashes = 0
        /\ crashes = 0 /\ pc # "align" =>
            /\ nvc[2] = nvc[3]
            /\ \A t \in {0, 1} : IsTab(t) /\ t = CurrentTable
                                   => tab[t].ver = nvc[2] /\ nvc[2] # 0
        /\ crashes # 0 /\ ~Starting /\ pc \in {"idle", "free", "store", "increment"}
            => ActiveTable({}) = active

Holds(db, u, i) == i \in Idx /\ db[i] # None /\ db[i].uid = u

PreparedOK ==
    pc \in {"free", "store"} => call.err = "ok" /\ (call.old # None => ~obj[call.old].once)

(* The table being saved is the one in force but for the request, db the   *)
(* table in force.                                                         *)
SavesSet(db) ==
    /\ call.op = "set" /\ call.val \in Vals /\ call.err = "ok" /\ db[call.fid] = None
    /\ obj[call.fid] = [tag |-> call.tag, val |-> call.val, once |-> call.once]
    /\ call.old = None => Lacks(db, call.uid, {})
    /\ call.old # None => Holds(db, call.uid, call.old) /\ ~obj[call.old].once
    /\ table = [i \in Idx |-> IF i = call.fid THEN [uid |-> call.uid, tag |-> call.tag]
                              ELSE IF i = call.old THEN None ELSE db[i]]
SavesAgain(db) ==
    /\ call.op = "set" /\ call.val \in Vals /\ call.err = "not_permitted"
    /\ Holds(db, call.uid, call.fid) /\ obj[call.fid].once
    /\ table = db
SavesRemove(db) ==
    /\ call.op = "remove" /\ call.err = "ok"
    /\ Holds(db, call.uid, call.fid) /\ ~obj[call.fid].once
    /\ table = [i \in Idx |-> IF i = call.fid THEN None ELSE db[i]]

SavingOK ==
    pc \in {"increment", "write"} /\ call.op # "init" =>
        LET db == tab[active].db IN SavesSet(db) \/ SavesAgain(db) \/ SavesRemove(db)

(* What is left to do. *)
LeftToDrop ==
    /\ call.err = "ok"
    /\ call.op = "remove" => obj[call.fid] # None
    /\ call.op = "set" => call.val \in Vals /\ (call.old # None => obj[call.old] # None)
Refused ==
    /\ call.op = "set" /\ call.val \in Vals /\ call.err = "not_permitted"
    /\ Holds(table, call.uid, call.fid) /\ obj[call.fid].once

SavedOK ==
    /\ pc \in {"align", "drop_table"} /\ call.op # "init" => LeftToDrop \/ Refused
    /\ pc = "drop_object" => LeftToDrop /\ (call.op = "set" => call.old # None)

StoreOK ==
    /\ VersionsOK /\ CreatingOK /\ ChoiceOK /\ LatestOK /\ AlignedOK
    /\ PreparedOK /\ SavingOK /\ SavedOK

CrashesOK == crashes \in Nat /\ twice \in BOOLEAN /\ (Rollback /\ ~twice => crashes <= 1)

(* The invariant while no call has failed and no second save in a row was cut short. *)
Sound ==
    IndInv /\ WholeOK /\ CountersInOrder /\ CrashesOK /\ StoreOK /\ errors = 0 /\ ~twice

-----------------------------------------------------------------------------
(* The store as a function of a table and the object files.                *)

View(db, o) ==
    [u \in Uids |-> LET i == EntryIdx(db, u)
                    IN  IF i # None /\ o[i] \notin {None, Torn} /\ o[i].tag = db[i].tag
                        THEN [val |-> o[i].val, once |-> o[i].once] ELSE None]

CallView(c, p) ==
    IF c.op \notin {"set", "remove"} THEN None
    ELSE [op |-> c.op, uid |-> c.uid,
          value |-> IF c.op = "set" THEN [val |-> c.val, once |-> c.once] ELSE None,
          done |-> c.err = "ok" /\ p \in {"align", "drop_table", "drop_object"}]

LEMMA ObjectsAre ==
    /\ Objects = View(CurrentDb, obj) /\ Objects' = View(CurrentDb', obj')
    /\ StoreCall = CallView(call, pc) /\ StoreCall' = CallView(call', pc')
BY DEF Objects, Visible, Readable, View, StoreCall, CallView

LEMMA NotNone ==
    /\ \A e \in Entry : e # None
    /\ \A f \in TabFile : f # None /\ f # Torn
    /\ \A v \in Vals, once \in BOOLEAN : [val |-> v, once |-> once] # None
    /\ \A f \in ObjFile : f.val \in Vals /\ f.once \in BOOLEAN /\ f.tag \in Nat
                          /\ [val |-> f.val, once |-> f.once] # None
BY PsAssumption DEF Entry, TabFile, Table, Idx, ObjFile

LEMMA CallNotNone ==
    ASSUME NEW c \in Requests, c.op = "set" => c.val \in Vals, NEW p
    PROVE  /\ CallView(c, p) # None
           /\ CallView(c, p).uid = c.uid
           /\ CallView(c, p).done = (c.err = "ok" /\ p \in {"align", "drop_table", "drop_object"})
           /\ CallView(c, p).value
                = IF c.op = "set" THEN [val |-> c.val, once |-> c.once] ELSE None
<1>1. c.op \in {"set", "remove"} /\ c.uid \in Uids /\ c.once \in BOOLEAN
  BY DEF Requests
<1> PICK d : d = (c.err = "ok" /\ p \in {"align", "drop_table", "drop_object"})
  OBVIOUS
<1> PICK v : v = IF c.op = "set" THEN [val |-> c.val, once |-> c.once] ELSE None
  OBVIOUS
<1>2. d \in BOOLEAN /\ v \in [val : Vals, once : BOOLEAN] \cup {None}
  BY <1>1
<1>3. CallView(c, p) = [op |-> c.op, uid |-> c.uid, value |-> v, done |-> d]
  BY <1>1 DEF CallView
<1>4. CallView(c, p) \in [op : {"set", "remove"}, uid : Uids,
                          value : [val : Vals, once : BOOLEAN] \cup {None}, done : BOOLEAN]
  BY <1>1, <1>2, <1>3
<1>5. CallView(c, p) # None
  <2>1. None \notin [op : {"set", "remove"}, uid : Uids,
                     value : [val : Vals, once : BOOLEAN] \cup {None}, done : BOOLEAN]
    BY PsAssumption
  <2> QED BY <1>4, <2>1
<1> QED BY <1>3, <1>5

LEMMA EntrySame ==
    ASSUME NEW d, NEW e, NEW u, \A i \in Idx : Holds(d, u, i) <=> Holds(e, u, i)
    PROVE  EntryIdx(d, u) = EntryIdx(e, u)
<1>1. {i \in Idx : d[i] # None /\ d[i].uid = u} = {i \in Idx : e[i] # None /\ e[i].uid = u}
  BY DEF Holds
<1> QED BY <1>1 DEF EntryIdx

LEMMA ViewOf ==
    ASSUME NEW db, NEW o, Unique(db), Whole(db, o), NEW u \in Uids
    PROVE  /\ \A i : Holds(db, u, i) => /\ EntryIdx(db, u) = i
                                        /\ View(db, o)[u] = [val |-> o[i].val, once |-> o[i].once]
           /\ Lacks(db, u, {}) => EntryIdx(db, u) = None /\ View(db, o)[u] = None
<1>1. ASSUME NEW i, Holds(db, u, i)
      PROVE  /\ EntryIdx(db, u) = i
             /\ View(db, o)[u] = [val |-> o[i].val, once |-> o[i].once]
  <2>1. EntryIdx(db, u) # None
    BY <1>1, EntryIdxIs DEF Lacks, Holds
  <2>2. EntryIdx(db, u) = i
    BY <1>1, <2>1, EntryIdxIs DEF Unique, Holds
  <2>3. o[i] \notin {None, Torn} /\ o[i].tag = db[i].tag
    BY <1>1 DEF Whole, Holds
  <2> QED BY <2>1, <2>2, <2>3 DEF View
<1>2. ASSUME Lacks(db, u, {}) PROVE EntryIdx(db, u) = None /\ View(db, o)[u] = None
  <2>1. EntryIdx(db, u) = None
    BY <1>2, EntryIdxIs DEF Lacks
  <2> QED BY <2>1 DEF View
<1> QED BY <1>1, <1>2

LEMMA ViewSame ==
    ASSUME NEW d, NEW e, NEW o, NEW p, Whole(d, o), Whole(e, p), NEW u \in Uids,
           \A i \in Idx : Holds(d, u, i) <=> Holds(e, u, i),
           \A i \in Idx : Holds(d, u, i) => o[i] = p[i]
    PROVE  View(d, o)[u] = View(e, p)[u]
<1> PICK i : i = EntryIdx(d, u)
  OBVIOUS
<1>1. EntryIdx(e, u) = i
  BY EntrySame
<1>2. CASE i = None
  BY <1>1, <1>2 DEF View
<1>3. CASE i # None
  <2>1. Holds(d, u, i) /\ Holds(e, u, i)
    BY <1>3, EntryIdxIs DEF Holds
  <2>2. o[i] = p[i] /\ o[i] \notin {None, Torn} /\ o[i].tag = d[i].tag /\ p[i].tag = e[i].tag
    BY <2>1 DEF Whole, Holds
  <2> QED BY <1>1, <1>3, <2>2 DEF View
<1> QED BY <1>2, <1>3

LEMMA ViewKept ==
    ASSUME NEW d, NEW o, NEW p, \A i \in Idx : d[i] # None => o[i] = p[i], Whole(d, o)
    PROVE  View(d, o) = View(d, p)
<1>1. Whole(d, p)
  BY WholeKept
<1>2. ASSUME NEW u \in Uids PROVE View(d, o)[u] = View(d, p)[u]
  BY <1>1, ViewSame DEF Holds
<1> QED BY <1>2 DEF View

-----------------------------------------------------------------------------
(* The table that a restart chooses.                                       *)

ActiveIs ==
    ActiveTable({}) = IF TableState(0) = "invalid" /\ TableState(1) = "invalid" THEN None
                      ELSE IF TableState(0) = "invalid" THEN 1
                      ELSE IF TableState(1) = "invalid" THEN 0
                      ELSE IF Rollback THEN (IF TableState(1) = "nvc1" THEN 1 ELSE 0)
                      ELSE LaterTable(tab[0].ver, tab[1].ver)

LEMMA ActiveByState == ActiveIs
BY DEF ActiveTable, ActiveIs
LEMMA ActiveByStateNext == ActiveIs'
BY ActiveByState, PTL

SomeChosen == (\E t \in {0, 1} : TableState(t) # "invalid") => ActiveTable({}) # None
LEMMA AnyIsChosen == SomeChosen
<1>1. \A m, n : LaterTable(m, n) \in {0, 1}
  BY DEF LaterTable
<1> QED BY <1>1, ActiveByState, Numbers DEF ActiveIs, SomeChosen
LEMMA AnyIsChosenNext == SomeChosen'
BY AnyIsChosen, PTL

LEMMA LoneIsChosen ==
    ASSUME NEW t \in {0, 1}, TableState(t) # "invalid", ~IsTab(1 - t)
    PROVE  ActiveTable({}) = t
<1>1. TableState(1 - t) = "invalid"
  BY DEF TableState, IsTab
<1> QED BY <1>1, ActiveByState DEF ActiveIs

LEMMA NewestIsChosen ==
    ASSUME NEW t \in {0, 1}, Rollback, IsTab(t), tab[t].ver = nvc[1],
           IsTab(1 - t) => tab[1 - t].ver # nvc[1]
    PROVE  ActiveTable({}) = t
<1>1. TableState(t) = "nvc1" /\ TableState(1 - t) # "nvc1"
  BY DEF TableState, IsTab
<1> QED BY <1>1, ActiveByState DEF ActiveIs

LEMMA NextSwapOf ==
    ASSUME NEW n \in Swaps
    PROVE  NextSwap(n) = (IF n = SwapMod - 2 THEN 0 ELSE n + 1) /\ NextSwap(n) \in Swaps
<1>1. SwapMod \in Nat /\ SwapMod > 3 /\ n \in Nat /\ n + 1 <= SwapMod - 1
  BY PsAssumption DEF Swaps
<1>2. (n + 1) % SwapMod = n + 1
  BY <1>1
<1> QED BY <1>1, <1>2 DEF NextSwap, Swaps

LEMMA LaterIsChosen ==
    ASSUME NEW t \in {0, 1}, ~Rollback, IsTab(t),
           IsTab(1 - t) => /\ tab[1 - t].ver \in Swaps
                           /\ tab[t].ver = NextSwap(tab[1 - t].ver)
    PROVE  ActiveTable({}) = t
<1>1. CASE ~IsTab(1 - t)
  BY <1>1, LoneIsChosen DEF TableState, IsTab
<1>2. CASE IsTab(1 - t)
  <2> PICK n : n = tab[1 - t].ver
    OBVIOUS
  <2>1. TableState(0) = "valid" /\ TableState(1) = "valid"
    BY <1>2 DEF TableState, IsTab
  <2>2. ActiveTable({}) = LaterTable(tab[0].ver, tab[1].ver)
    BY <2>1, ActiveByState DEF ActiveIs
  <2>3. SwapMod \in Nat /\ SwapMod > 3 /\ n \in 0 .. SwapMod - 2
    BY <1>2, PsAssumption DEF Swaps
  <2>4. tab[t].ver = IF n = SwapMod - 2 THEN 0 ELSE n + 1
    BY <1>2, NextSwapOf
  <2>5. CASE t = 0
    BY <2>2, <2>3, <2>4, <2>5 DEF LaterTable
  <2>6. CASE t = 1
    BY <2>2, <2>3, <2>4, <2>6 DEF LaterTable
  <2> QED BY <2>5, <2>6
<1> QED BY <1>1, <1>2

-----------------------------------------------------------------------------
(* The table in force.                                                     *)

Serving == active \in {0, 1} /\ ~Starting /\ IsTab(active)
Blank == Starting /\ \A t \in {0, 1} : IsTab(t) => tab[t].db = EmptyTable

InForce ==
    /\ Serving => CurrentDb = tab[active].db
    /\ Blank => CurrentDb = EmptyTable
LEMMA DbInForce == InForce
<1>1. Serving => CurrentDb = tab[active].db
  BY Numbers DEF Serving, Starting, IsTab, CurrentDb, CurrentTable
<1>2. ASSUME Blank PROVE CurrentDb = EmptyTable
  <2>1. CurrentTable = ActiveTable({})
    BY <1>2 DEF Blank, Starting, CurrentTable
  <2>2. CurrentTable # None => CurrentTable \in {0, 1}
    BY <2>1, ActiveTableIs
  <2> QED BY <1>2, <2>2 DEF Blank, IsTab, CurrentDb
<1> QED BY <1>1, <1>2 DEF InForce
LEMMA DbInForceNext == InForce'
BY DbInForce, PTL

LEMMA ChoiceKept ==
    ASSUME tab' = tab, nvc' = nvc
    PROVE  ActiveTable({})' = ActiveTable({}) /\ \A t \in {0, 1} : IsTab(t)' <=> IsTab(t)
<1>1. \A t \in {0, 1} : TableState(t)' = TableState(t)
  BY DEF TableState, UsableNvc3
<1>2. \A t \in {0, 1} : IsTab(t)' <=> IsTab(t)
  BY DEF IsTab
<1> QED BY <1>1, <1>2 DEF ActiveTable

(* What holds at each point of a request or of a restart. *)
LEMMA Points ==
    ASSUME Sound
    PROVE  /\ active \in {0, 1} /\ scratch \in {0, 1} /\ scratch # active /\ scratch = 1 - active
           /\ pc \in {"idle", "free", "store", "undo", "boot", "clean", "dead", "increment", "write",
                      "align", "drop_table", "drop_object"}
           /\ pc # "undo" /\ (pc = "idle" => call = NoCall /\ call.op = "none")
           /\ pc \in {"boot", "clean", "dead"} => call.op = "init"
           /\ pc \in {"free", "store", "drop_table", "drop_object"}
                 => call \in Requests /\ call.op \in {"set", "remove"}
           /\ pc \in {"increment", "write", "align"}
                 => call.op = "init" \/ (call \in Requests /\ call.op \in {"set", "remove"})
           /\ ~Starting => pc \notin {"boot", "dead"}
           /\ pc \in {"idle", "free", "store", "drop_object"} => tab[scratch] = None /\ ~IsTab(scratch)
           /\ pc \in {"idle", "free", "store", "drop_table", "drop_object"} => ~Starting
           /\ pc \in {"idle", "free", "store", "clean", "align", "drop_table", "drop_object"}
                 => tab[active].db = table
<1>1. TypeOK /\ CallOK /\ UndoOK /\ WholeOK /\ errors = 0
  BY DEF Sound, IndInv
<1>2. \A c \in Requests : c.op \in {"set", "remove"} /\ c.op # "init"
  BY DEF Requests
<1>3. active \in {0, 1} /\ scratch \in {0, 1} /\ scratch # active /\ scratch = 1 - active
  BY <1>1 DEF TypeOK, scratch
<1>4. NoCall.op = "none"
  BY DEF NoCall
<1>5. pc # "undo"
  BY <1>1 DEF UndoOK
<1>6. /\ pc \in {"idle", "free", "store", "undo", "boot", "clean", "dead", "increment", "write",
                 "align", "drop_table", "drop_object"}
      /\ pc = "idle" => call = NoCall
      /\ pc \in {"boot", "clean", "dead"} => call.op = "init"
      /\ pc \in {"free", "store", "drop_table", "drop_object"} => call \in Requests
      /\ pc \in {"increment", "write", "align"} => call.op = "init" \/ call \in Requests
  BY <1>1 DEF CallOK, Saves, Ends
<1>7. /\ pc \in {"idle", "free", "store", "drop_object"} => tab[scratch] = None /\ ~IsTab(scratch)
      /\ pc \in {"idle", "free", "store", "clean", "align", "drop_table", "drop_object"}
            => tab[active].db = table
  BY <1>1 DEF WholeOK, Ends, IsTab
<1> QED BY <1>2, <1>3, <1>4, <1>5, <1>6, <1>7 DEF Starting

(* The table in use is the one that a restart would choose. *)
LEMMA ForceIsChosen ==
    ASSUME Sound, Rollback /\ pc \in Saves => crashes = 0, ~Starting \/ pc = "align"
    PROVE  ActiveTable({}) = active
<1>1. /\ VersionsOK /\ ChoiceOK /\ LatestOK /\ AlignedOK /\ CreatingOK
  BY DEF Sound, StoreOK
<1>2. active \in {0, 1} /\ scratch = 1 - active /\ scratch \in {0, 1}
  BY Points
<1>3. CASE pc = "clean"
  BY <1>1, <1>3 DEF ChoiceOK
<1>4. CASE pc \in {"align", "drop_table"} /\ Rollback
  <2>1. /\ IsTab(active) /\ tab[active].ver = nvc[1]
        /\ IsTab(scratch) => tab[scratch].ver # nvc[1]
    BY <1>1, <1>4 DEF LatestOK
  <2> QED BY <1>2, <1>4, <2>1, NewestIsChosen
<1>5. CASE pc \in {"align", "drop_table"} /\ ~Rollback
  <2>1. pc = "drop_table" /\ (IsTab(scratch) => tab[scratch].ver \in Swaps)
    BY <1>1, <1>2, <1>5 DEF VersionsOK
  <2>2. IsTab(active)
    BY <1>1, <2>1, Points DEF ChoiceOK
  <2>3. tab[active].ver = NextSwap(tab[scratch].ver)
    BY <1>1, <1>5, <2>1 DEF LatestOK
  <2> QED BY <1>2, <1>5, <2>1, <2>2, <2>3, LaterIsChosen
<1>6. CASE pc \notin {"clean", "align", "drop_table"}
  <2>1. ~Starting /\ IsTab(active)
    BY <1>1, <1>6 DEF ChoiceOK
  <2>2. ~IsTab(scratch)
    BY <1>1, <1>6, <2>1, Points DEF ChoiceOK
  <2>3. CASE Rollback /\ crashes # 0
    <3>1. pc \in {"idle", "free", "store"}
      BY <1>1, <1>6, <2>1, <2>3, Points DEF AlignedOK, Saves, Ends
    <3> QED BY <1>1, <2>1, <2>3, <3>1 DEF AlignedOK
  <2>4. CASE ~(Rollback /\ crashes # 0)
    <3>1. CurrentTable = active
      BY <2>1 DEF CurrentTable, Starting
    <3>2. Rollback => nvc[2] = nvc[3] /\ tab[active].ver = nvc[2] /\ nvc[2] # 0
      BY <1>1, <1>2, <1>6, <2>1, <2>4, <3>1 DEF AlignedOK
    <3>3. TableState(active) # "invalid"
      BY <2>1, <3>2 DEF TableState, IsTab, UsableNvc3
    <3> QED BY <1>2, <2>2, <3>3, LoneIsChosen
  <2> QED BY <2>3, <2>4
<1> QED BY <1>3, <1>4, <1>5, <1>6

(* The steps of a request before its save and after it. *)
LEMMA RequestStep ==
    ASSUME Sound, UNCHANGED <<tab, nvc, swap, active, crashes>>,
           pc \in {"idle", "free", "store", "drop_object"},
           pc' \in {"idle", "free", "store", SaveStart}, (call.op)' # "init"
    PROVE  /\ VersionsOK' /\ CreatingOK' /\ ChoiceOK' /\ LatestOK' /\ AlignedOK'
           /\ CurrentDb = table /\ CurrentDb' = table /\ tab[active].db = table
           /\ IsTab(active)
<1>1. VersionsOK /\ ChoiceOK /\ AlignedOK
  BY DEF Sound, StoreOK
<1>2. /\ active \in {0, 1} /\ scratch \in {0, 1} /\ ~IsTab(scratch) /\ ~Starting
      /\ tab[active].db = table /\ scratch' = scratch
  BY Points DEF scratch
<1>3. ~Starting' /\ IsTab(active) /\ \A t \in {0, 1} : IsTab(t)' <=> IsTab(t)
  BY <1>1, <1>2 DEF Starting, ChoiceOK, IsTab
<1>4. /\ pc' \notin {"align", "drop_table", "drop_object", "boot", "clean"}
      /\ Rollback => pc' # "write"
      /\ ~Rollback => pc' # "increment"
  BY DEF SaveStart
<1>5. VersionsOK'
  BY <1>1, <1>2, <1>3, <1>4 DEF VersionsOK
<1>6. CreatingOK' /\ LatestOK'
  BY <1>4 DEF CreatingOK, LatestOK
<1>7. ChoiceOK'
  <2>1. (IsTab(active))' /\ ~(IsTab(scratch))'
    BY <1>2, <1>3 DEF IsTab
  <2> QED BY <1>4, <2>1 DEF ChoiceOK
<1>8. AlignedOK'
  <2>1. /\ (pc # "align" /\ pc' \notin {"align", "write"} \cup Ends) \/ ~Rollback
        /\ pc = "drop_object" /\ Rollback => crashes = 0
    BY <1>1, <1>4 DEF AlignedOK, Ends
  <2>2. CurrentTable = active /\ CurrentTable' = active /\ ActiveTable({})' = ActiveTable({})
    BY <1>2, <1>3, ChoiceKept DEF CurrentTable, Starting
  <2> QED BY <1>1, <1>2, <1>3, <2>1, <2>2 DEF AlignedOK
<1>9. CurrentDb = table
  BY <1>2, <1>3, DbInForce DEF Serving, InForce
<1>10. CurrentDb' = table
  <2>1. Serving'
    BY <1>2, <1>3 DEF Serving, IsTab
  <2> QED BY <1>2, <2>1, DbInForceNext DEF InForce
<1> QED BY <1>2, <1>3, <1>5, <1>6, <1>7, <1>8, <1>9, <1>10

-----------------------------------------------------------------------------
(* Requests arrive.                                                        *)

StoreStep == [Store!Next]_<<Objects, StoreCall, result>>

(* What a client can see between requests. *)
LEMMA Idle ==
    ASSUME Sound, pc = "idle", NEW u \in Uids, NEW i, i = EntryIdx(table, u)
    PROVE  /\ StoreCall = None /\ CurrentDb = table
           /\ i = None => Objects[u] = None
           /\ i # None => /\ Holds(table, u, i) /\ Readable(table, i) /\ obj[i] \in ObjFile
                          /\ Objects[u] = [val |-> obj[i].val, once |-> obj[i].once]
                          /\ Objects[u] # None /\ Objects[u].once = obj[i].once
                          /\ obj[i].once \in BOOLEAN
<1>1. TypeOK /\ Unique(table) /\ Whole(table, obj)
  BY DEF Sound, IndInv, TablesOK, WholeOK, Good
<1>2. CurrentDb = table
  <2>1. tab[active].db = table /\ active \in {0, 1} /\ ~Starting
    BY Points
  <2>2. IsTab(active)
    BY <2>1 DEF Sound, StoreOK, ChoiceOK
  <2> QED BY <2>1, <2>2, DbInForce DEF InForce, Serving
<1>3. Objects = View(table, obj)
  BY <1>2, ObjectsAre
<1>4. StoreCall = None
  BY Points DEF StoreCall
<1>5. CASE i = None
  <2>1. Lacks(table, u, {})
    BY <1>5, EntryIdxIs
  <2> QED BY <1>1, <1>2, <1>3, <1>4, <1>5, <2>1, ViewOf
<1>6. CASE i # None
  <2>1. Holds(table, u, i)
    BY <1>6, EntryIdxIs DEF Holds
  <2>2. Objects[u] = [val |-> obj[i].val, once |-> obj[i].once]
    BY <1>1, <1>3, <2>1, ViewOf
  <2>3. obj[i] \in ObjFile /\ Readable(table, i)
    BY <1>1, <2>1 DEF Whole, Holds, TypeOK, Readable
  <2>4. Objects[u] # None /\ Objects[u].once = obj[i].once /\ obj[i].once \in BOOLEAN
    BY <2>2, <2>3, NotNone
  <2> QED BY <1>2, <1>4, <1>6, <2>1, <2>2, <2>3, <2>4
<1> QED BY <1>5, <1>6

(* A second entry is free unless all but one are taken. *)
LEMMA SecondFree ==
    ASSUME TypeOK, NEW F, F = {i \in Idx : table[i] = None}, F # {}
    PROVE  /\ IsFiniteSet(F) /\ Cardinality(F) \in Nat
           /\ FreeIdx(2) = None <=> Cardinality(F) = 1
<1>0. F \subseteq Idx /\ F \subseteq Nat /\ IsFiniteSet(Idx)
  <2>1. NumAssets \in Int /\ 0 \in Int
    BY Numbers
  <2> QED BY <2>1, Numbers, FS_Interval
<1>1. IsFiniteSet(F) /\ Cardinality(F) \in Nat
  BY <1>0, FS_Subset, FS_CardinalityType
<1> PICK S : S = {i \in F : Cardinality({j \in F : j <= i}) = 2}
  OBVIOUS
<1>2. FreeIdx(2) = FirstIdx(S) /\ S \subseteq Idx
  BY <1>0 DEF FreeIdx
<1>3. FreeIdx(2) = None <=> S = {}
  BY <1>2, FirstIdxIs
<1> PICK m : m = Min(F)
  OBVIOUS
<1>4. m \in F /\ \A y \in F : m <= y
  BY <1>0, MinInSet
<1>5. ASSUME Cardinality(F) = 1 PROVE S = {}
  <2>1. SUFFICES ASSUME NEW i \in S PROVE FALSE
    OBVIOUS
  <2> PICK T : T = {j \in F : j <= i}
    OBVIOUS
  <2>2. T \in SUBSET F /\ Cardinality(T) = 2
    OBVIOUS
  <2>3. Cardinality(T) <= Cardinality(F)
    BY <1>1, <2>2, FS_Subset
  <2> QED BY <1>5, <2>2, <2>3
<1>6. ASSUME Cardinality(F) # 1 PROVE S # {}
  <2> PICK G : G = F \ {m}
    OBVIOUS
  <2>1. G # {}
    <3>1. Cardinality({m}) = 1
      BY FS_Singleton
    <3>2. F # {m}
      BY <1>6, <3>1
    <3> QED BY <1>4, <3>2
  <2>2. G \subseteq Nat
    BY <1>0
  <2> PICK k : k = Min(G)
    OBVIOUS
  <2>3. k \in G /\ \A y \in G : k <= y
    BY <2>1, <2>2, MinInSet
  <2>4. k \in Nat /\ m \in Nat /\ k # m /\ m <= k /\ k \in F
    BY <1>0, <1>4, <2>3
  <2>5. {j \in F : j <= k} = {m, k}
    <3>1. ASSUME NEW j \in F, j <= k PROVE j \in {m, k}
      <4>1. CASE j \in G
        BY <1>0, <2>3, <2>4, <3>1, <4>1
      <4> QED BY <4>1
    <3>2. k <= k
      BY <2>4
    <3> QED BY <1>4, <2>4, <3>1, <3>2
  <2>6. Cardinality({m, k}) = 2
    <3>1. {m, k} = {m} \cup {k} /\ k \notin {m}
      BY <2>4
    <3>2. IsFiniteSet({m}) /\ Cardinality({m}) = 1
      BY FS_Singleton
    <3>3. Cardinality({m} \cup {k}) = Cardinality({m}) + 1
      BY <3>1, <3>2, FS_AddElement
    <3> QED BY <3>1, <3>2, <3>3
  <2>7. k \in S
    BY <2>4, <2>5, <2>6
  <2> QED BY <2>7
<1> QED BY <1>1, <1>3, <1>5, <1>6

(* ps_table_free_idx refuses a new object exactly when NumAssets exist. *)
LEMMA FullIs ==
    ASSUME Sound, pc = "idle"
    PROVE  Store!Full <=> FreeIdx(2) = None
<1>0. TypeOK /\ Unique(table) /\ HasFree(table)
  BY DEF Sound, IndInv, TablesOK
<1> PICK F : F = {i \in Idx : table[i] = None}
  OBVIOUS
<1> PICK E : E = {i \in Idx : table[i] # None}
  OBVIOUS
<1> PICK U : U = {u \in Uids : Objects[u] # None}
  OBVIOUS
<1>1. IsFiniteSet(F) /\ Cardinality(F) \in Nat /\ (FreeIdx(2) = None <=> Cardinality(F) = 1)
  BY <1>0, SecondFree DEF HasFree
<1>2. IsFiniteSet(Idx) /\ Cardinality(Idx) = NumAssets + 1
  <2>1. NumAssets \in Int /\ 0 \in Int /\ ~(0 > NumAssets) /\ NumAssets - 0 + 1 = NumAssets + 1
    BY Numbers
  <2> QED BY <2>1, Numbers, FS_Interval
<1>3. IsFiniteSet(E) /\ Cardinality(E) = NumAssets + 1 - Cardinality(F) /\ Cardinality(E) \in Nat
  <2>1. E \in SUBSET Idx /\ Idx = E \cup F /\ E \cap F = {}
    OBVIOUS
  <2>2. IsFiniteSet(E) /\ Cardinality(E) \in Nat
    BY <1>2, <2>1, FS_Subset, FS_CardinalityType
  <2>3. Cardinality(E \cup F) = Cardinality(E) + Cardinality(F) - Cardinality(E \cap F)
    BY <1>1, <2>2, FS_Union
  <2>4. Cardinality(E \cap F) = 0 /\ Cardinality(E \cup F) = NumAssets + 1
    BY <1>2, <2>1, FS_EmptySet, Zenon
  <2> QED BY <1>1, <2>2, <2>3, <2>4, Numbers
<1> PICK f : f = [i \in E |-> table[i].uid]
  OBVIOUS
<1>4. f \in Bijection(E, U)
  <2>1. \A i \in E : f[i] \in U
    <3> SUFFICES ASSUME NEW i \in E PROVE f[i] \in U
      OBVIOUS
    <3>1. table[i].uid \in Uids /\ f[i] = table[i].uid
      BY <1>0 DEF TypeOK, Table, Entry
    <3>2. PICK u \in Uids : u = table[i].uid
      BY <3>1
    <3>3. PICK k : k = EntryIdx(table, u)
      OBVIOUS
    <3>4. k # None
      BY <3>2, <3>3, EntryIdxIs DEF Lacks
    <3>5. Objects[u] # None
      BY <3>2, <3>3, <3>4, Idle
    <3> QED BY <3>1, <3>2, <3>5
  <2>2. \A i, j \in E : f[i] = f[j] => i = j
    BY <1>0 DEF Unique
  <2>3. \A u \in U : \E i \in E : f[i] = u
    <3> SUFFICES ASSUME NEW u \in U PROVE \E i \in E : f[i] = u
      OBVIOUS
    <3> PICK i : i = EntryIdx(table, u)
      OBVIOUS
    <3>1. u \in Uids /\ Objects[u] # None
      OBVIOUS
    <3>2. i # None
      BY <3>1, Idle
    <3>3. i \in E /\ table[i].uid = u
      BY <3>2, EntryIdxIs
    <3> QED BY <3>3
  <2>4. f \in [E -> U]
    BY <2>1
  <2>5. f \in Injection(E, U)
    BY <2>2, <2>4 DEF Injection, IsInjective
  <2>6. f \in Surjection(E, U)
    BY <2>3, <2>4 DEF Surjection
  <2> QED BY <2>5, <2>6 DEF Bijection
<1>5. Cardinality(E) = Cardinality(U)
  <2>1. ExistsBijection(E, U)
    BY <1>4 DEF ExistsBijection
  <2> QED BY <1>3, <2>1, FS_Bijection
<1>6. Store!Full <=> Cardinality(U) = NumAssets
  <2>1. {u \in Uids : Store!Exists(u)} = U
    BY DEF Store!Exists
  <2>2. Store!Cardinality(U) = Cardinality(U)
    BY DEF Store!Cardinality, Cardinality
  <2> QED BY <2>1, <2>2 DEF Store!Full
<1> QED BY <1>1, <1>3, <1>5, <1>6, Numbers

(* The state between requests stays as it is but for the request. *)
LEMMA Arrives ==
    ASSUME Sound, pc = "idle", UNCHANGED <<obj, tab, nvc, swap, active, crashes>>,
           pc' \in {"idle", "free", SaveStart}, (call.op)' # "init"
    PROVE  Objects' = Objects
<1>1. CurrentDb' = CurrentDb
  BY RequestStep
<1> QED BY <1>1, ObjectsAre

LEMMA SetStores ==
    ASSUME Sound, NEW u \in Uids, NEW v \in Vals, NEW once \in CreateFlags, Set(u, v, once),
           errors' = 0
    PROVE  StoreOK' /\ StoreStep
<1>0. TypeOK /\ TablesOK /\ once \in BOOLEAN /\ errors = 0 /\ HasFree(table) /\ table \in Table
  BY PsAssumption DEF Sound, IndInv, TypeOK, TablesOK
<1> PICK c : c = Request("set", u, v, once)
  OBVIOUS
<1> PICK i : i = EntryIdx(table, u)
  OBVIOUS
<1>1. /\ c \in Requests /\ c.op = "set" /\ c.uid = u /\ c.val = v /\ c.once = once /\ c.err = "ok"
      /\ c.fid = i /\ c.new = None /\ c.old = None
      /\ i # None => i \in Idx /\ table[i] # None /\ c.tag = table[i].tag /\ table[i].uid = u
  BY <1>0, RequestIs
<1>2. pc = "idle" /\ UNCHANGED <<obj, tab, nvc, swap, active, crashes>>
  BY DEF Set, persistent
<1>3. CreateRequest(u, v, once, FALSE)
  <2>1. PICK fails \in BOOLEAN : ReadOutcome(u, fails) /\ CreateRequest(u, v, once, fails)
    BY DEF Set
  <2>2. fails = FALSE
    BY <1>0, <2>1, ReadCounts DEF TypeOK
  <2> QED BY <2>1, <2>2
<1>4. /\ StoreCall = None
      /\ i = None => Objects[u] = None
      /\ i # None => /\ Readable(table, i) /\ Objects[u] # None /\ obj[i].once \in BOOLEAN
  <2>1. /\ StoreCall = None /\ CurrentDb = table
        /\ i = None => Objects[u] = None
        /\ i # None => /\ Holds(table, u, i) /\ Readable(table, i) /\ obj[i] \in ObjFile
                       /\ Objects[u] = [val |-> obj[i].val, once |-> obj[i].once]
                       /\ Objects[u] # None /\ Objects[u].once = obj[i].once
                       /\ obj[i].once \in BOOLEAN
    BY <1>2, Idle
  <2> QED BY <2>1
<1>5. ASSUME call' \in Requests, (call.op)' = "set", (call.uid)' = u, (call.val)' = v,
             (call.once)' = once, pc' \in {"free", SaveStart}, result' = result,
             i = None => ~Store!Full
      PROVE  StoreStep
  <2>1. Objects' = Objects
    BY <1>2, <1>5, Arrives
  <2>2. pc' \notin {"align", "drop_table", "drop_object"}
    BY <1>5 DEF SaveStart
  <2>3. StoreCall' = [op |-> "set", uid |-> u, value |-> [val |-> v, once |-> once],
                      done |-> FALSE]
    BY <1>5, <2>2 DEF StoreCall
  <2>4. Store!Begin("set", u, [val |-> v, once |-> once])
    BY <1>5, <2>1, <2>3 DEF Store!Begin
  <2>5. Store!Set(u, v, once)
    BY <1>4, <1>5, <2>4 DEF Store!Set, Store!Exists
  <2> QED BY <2>5 DEF StoreStep, Store!Next
<1>6. CASE i = None /\ FreeIdx(2) = None
  <2>1. Return("no_space") /\ table' = table
    BY <1>1, <1>3, <1>6 DEF CreateRequest
  <2>2. pc' = "idle" /\ (call.op)' = "none" /\ result' = [status |-> "no_space", value |-> None]
    BY <2>1 DEF Return, NoCall
  <2>3. StoreOK'
    <3>1. VersionsOK' /\ CreatingOK' /\ ChoiceOK' /\ LatestOK' /\ AlignedOK'
      BY <1>2, <2>2, RequestStep
    <3> QED BY <2>2, <3>1 DEF StoreOK, PreparedOK, SavingOK, SavedOK
  <2>4. Objects' = Objects /\ StoreCall' = None
    BY <1>2, <2>2, Arrives DEF StoreCall
  <2>5. Store!Set(u, v, once)
    BY <1>2, <1>4, <1>6, <2>2, <2>4, FullIs DEF Store!Set, Store!Exists, Store!Answer
  <2> QED BY <2>3, <2>5 DEF StoreStep, Store!Next
<1>7. ASSUME NEW n \in Idx, NEW old \in Idx \cup {None},
             call' = [c EXCEPT !.new = n, !.old = old], pc' = "free", result' = result,
             i = None => ~Store!Full, old # None => old = i /\ ~obj[i].once
      PROVE  StoreOK' /\ StoreStep
  <2>1. /\ call' \in Requests /\ (call.op)' = "set" /\ (call.uid)' = u /\ (call.val)' = v
        /\ (call.once)' = once /\ (call.err)' = "ok" /\ (call.old)' = old
    BY <1>1, <1>7 DEF Requests
  <2>2. StoreStep
    BY <1>5, <1>7, <2>1
  <2>3. VersionsOK' /\ CreatingOK' /\ ChoiceOK' /\ LatestOK' /\ AlignedOK'
    BY <1>2, <1>7, <2>1, RequestStep
  <2>4. PreparedOK'
    BY <1>2, <1>7, <2>1 DEF PreparedOK
  <2> QED BY <1>7, <2>2, <2>3, <2>4 DEF StoreOK, SavingOK, SavedOK
<1>8. CASE i = None /\ FreeIdx(2) # None
  <2>1. call' = [c EXCEPT !.new = FreeIdx(2)] /\ pc' = "free" /\ result' = result
    BY <1>1, <1>3, <1>8 DEF CreateRequest
  <2>2. call' = [c EXCEPT !.new = FreeIdx(2), !.old = None]
    BY <1>1, <2>1 DEF Requests
  <2>3. FreeIdx(2) \in Idx /\ ~Store!Full
    BY <1>0, <1>2, <1>8, FreeIdxIs, FullIs
  <2> QED BY <1>7, <2>1, <2>2, <2>3
<1>9. CASE i # None /\ obj[i].once
  <2> PICK d : d = [c EXCEPT !.err = "not_permitted"]
    OBVIOUS
  <2>1. StartUpdate(d) /\ result' = result
    BY <1>1, <1>3, <1>4, <1>9 DEF CreateRequest
  <2>2. /\ d \in Requests /\ d.op = "set" /\ d.uid = u /\ d.fid = i /\ d.tag = c.tag
        /\ d.val = v /\ d.once = once /\ d.err = "not_permitted"
    BY <1>1 DEF Requests
  <2>3. /\ table' \in Table
        /\ call' \in Requests /\ call'.op = "set" /\ call'.fid = i
        /\ call'.uid = u /\ call'.err = "not_permitted" /\ call'.val = v /\ call'.once = once
        /\ \A j \in Idx : table'[j] = IF j = i THEN [uid |-> u, tag |-> c.tag]
                                      ELSE IF j = i THEN None ELSE table[j]
    <3>1. d.fid \in Idx /\ d.fid = EntryIdx(table, d.uid) /\ EntryIdx(table, d.uid) # None
      BY <1>1, <1>9, <2>2
    <3>2. /\ table' \in Table
          /\ call' \in Requests /\ call'.op = "set" /\ call'.fid = d.fid
          /\ call'.uid = d.uid /\ call'.err = d.err /\ call'.val = d.val /\ call'.once = d.once
          /\ \A j \in Idx : table'[j] = IF j = d.fid THEN [uid |-> d.uid, tag |-> d.tag]
                                        ELSE IF j = EntryIdx(table, d.uid) THEN None
                                        ELSE table[j]
      BY <1>0, <2>1, <2>2, <3>1, StartUpdateIs
    <3> QED BY <2>2, <3>1, <3>2
  <2>4. table' = table
    <3>1. table[i] = [uid |-> u, tag |-> c.tag]
      BY <1>0, <1>1, <1>9 DEF Table, Entry
    <3>2. \A j \in Idx : table'[j] = table[j]
      BY <2>3, <3>1
    <3> QED BY <1>0, <2>3, <3>2 DEF Table
  <2>5. pc' = SaveStart
    BY <2>1 DEF StartUpdate
  <2>6. StoreStep
    BY <1>5, <1>9, <2>1, <2>3, <2>5
  <2>7. /\ VersionsOK' /\ CreatingOK' /\ ChoiceOK' /\ LatestOK' /\ AlignedOK'
        /\ tab[active].db = table
    BY <1>2, <2>3, <2>5, RequestStep
  <2>8. (SavesAgain(tab[active].db))'
    BY <1>1, <1>2, <1>9, <2>3, <2>4, <2>7 DEF SavesAgain, Holds
  <2>9. pc' \notin {"free", "store", "align", "drop_table", "drop_object"}
    BY <2>5 DEF SaveStart
  <2> QED BY <2>6, <2>7, <2>8, <2>9 DEF StoreOK, PreparedOK, SavingOK, SavedOK
<1>10. CASE i # None /\ ~obj[i].once
  <2>1. FreeIdx(1) # None /\ FreeIdx(1) \in Idx
    BY <1>0, FreeIdxIs
  <2>2. call' = [c EXCEPT !.new = FreeIdx(1), !.old = i] /\ pc' = "free" /\ result' = result
    BY <1>1, <1>3, <1>4, <1>10, <2>1 DEF CreateRequest
  <2> QED BY <1>1, <1>7, <1>10, <2>1, <2>2
<1> QED BY <1>4, <1>6, <1>8, <1>9, <1>10

LEMMA RemoveStores ==
    ASSUME Sound, NEW u \in Uids, Remove(u), errors' = 0
    PROVE  StoreOK' /\ StoreStep
<1>0. TypeOK /\ TablesOK /\ table \in Table
  BY DEF Sound, IndInv, TypeOK
<1> PICK no \in BOOLEAN : no = FALSE
  OBVIOUS
<1> PICK c : c = Request("remove", u, None, no)
  OBVIOUS
<1> PICK i : i = EntryIdx(table, u)
  OBVIOUS
<1>1. /\ c \in Requests /\ c.op = "remove" /\ c.uid = u /\ c.err = "ok" /\ c.fid = i
      /\ i # None => i \in Idx /\ table[i] # None /\ table[i].uid = u
  <2>1. "remove" \in {"set", "remove"} /\ None \in Vals \cup {None}
    OBVIOUS
  <2> QED BY <1>0, <2>1, RequestIs
<1>2. pc = "idle" /\ UNCHANGED <<obj, tab, nvc, swap, active, crashes>>
  BY DEF Remove, persistent
<1>8. IF i = None THEN Return("does_not_exist") /\ UNCHANGED table
      ELSE IF ~Readable(table, i) THEN Return("failed") /\ UNCHANGED table
      ELSE IF obj[i].once THEN Return("not_permitted") /\ UNCHANGED table
      ELSE /\ table' = [table EXCEPT ![i] = None]
           /\ call' = [c EXCEPT !.backup = [idx |-> i, entry |-> table[i]]]
           /\ pc' = SaveStart
           /\ UNCHANGED result
  <2>1. PICK fails \in BOOLEAN :
            /\ ReadOutcome(u, fails)
            /\ IF i = None THEN Return("does_not_exist") /\ UNCHANGED table
               ELSE IF fails \/ ~Readable(table, i) THEN Return("failed") /\ UNCHANGED table
               ELSE IF obj[i].once THEN Return("not_permitted") /\ UNCHANGED table
               ELSE /\ table' = [table EXCEPT ![i] = None]
                    /\ call' = [c EXCEPT !.backup = [idx |-> i, entry |-> table[i]]]
                    /\ pc' = SaveStart
                    /\ UNCHANGED result
    BY <1>1 DEF Remove
  <2>2. fails = FALSE
    BY <1>0, <2>1, ReadCounts DEF TypeOK
  <2> QED BY <2>1, <2>2
<1>3. /\ StoreCall = None
      /\ i = None => Objects[u] = None
      /\ i # None => /\ Readable(table, i) /\ Objects[u] # None /\ obj[i].once \in BOOLEAN
                     /\ Objects[u].once = obj[i].once
  <2>1. /\ StoreCall = None /\ CurrentDb = table
        /\ i = None => Objects[u] = None
        /\ i # None => /\ Holds(table, u, i) /\ Readable(table, i) /\ obj[i] \in ObjFile
                       /\ Objects[u] = [val |-> obj[i].val, once |-> obj[i].once]
                       /\ Objects[u] # None /\ Objects[u].once = obj[i].once
                       /\ obj[i].once \in BOOLEAN
    BY <1>2, Idle
  <2> QED BY <2>1
<1>4. ASSUME NEW status, Return(status), status = "does_not_exist" \/ status = "not_permitted",
             status = "does_not_exist" => i = None,
             status = "not_permitted" => i # None /\ obj[i].once
      PROVE  StoreOK' /\ StoreStep
  <2>1. pc' = "idle" /\ (call.op)' = "none" /\ result' = [status |-> status, value |-> None]
    BY <1>4 DEF Return, NoCall
  <2>2. StoreOK'
    <3>1. VersionsOK' /\ CreatingOK' /\ ChoiceOK' /\ LatestOK' /\ AlignedOK'
      BY <1>2, <2>1, RequestStep
    <3> QED BY <2>1, <3>1 DEF StoreOK, PreparedOK, SavingOK, SavedOK
  <2>3. Objects' = Objects /\ StoreCall' = None
    BY <1>2, <2>1, Arrives DEF StoreCall
  <2>4. Store!Answer(status, None)
    BY <2>1, <2>3 DEF Store!Answer
  <2>5. Store!Remove(u)
    BY <1>3, <1>4, <2>4 DEF Store!Remove, Store!Exists, Store!WriteOnce
  <2> QED BY <2>2, <2>5 DEF StoreStep, Store!Next
<1>5. CASE i = None
  <2>1. Return("does_not_exist")
    BY <1>5, <1>8
  <2> QED BY <1>4, <1>5, <2>1
<1>6. CASE i # None /\ obj[i].once
  <2>1. Return("not_permitted")
    BY <1>3, <1>6, <1>8
  <2> QED BY <1>4, <1>6, <2>1
<1>7. CASE i # None /\ ~obj[i].once
  <2>1. /\ table' = [table EXCEPT ![i] = None]
        /\ call' = [c EXCEPT !.backup = [idx |-> i, entry |-> table[i]]]
        /\ pc' = SaveStart /\ result' = result
    BY <1>3, <1>7, <1>8
  <2>2. call'.op = "remove" /\ call'.uid = u /\ call'.err = "ok" /\ call'.fid = i
    BY <1>1, <2>1 DEF Requests
  <2>3. pc' \notin {"free", "store", "align", "drop_table", "drop_object"}
    BY <2>1 DEF SaveStart
  <2>4. /\ VersionsOK' /\ CreatingOK' /\ ChoiceOK' /\ LatestOK' /\ AlignedOK'
        /\ tab[active].db = table
    BY <1>2, <2>1, <2>2, RequestStep
  <2>5. table' = [j \in Idx |-> IF j = i THEN None ELSE table[j]]
    BY <1>0, <2>1 DEF Table
  <2>6. (SavesRemove(tab[active].db))'
    BY <1>1, <1>2, <1>7, <2>2, <2>4, <2>5 DEF SavesRemove, Holds
  <2>7. StoreOK'
    BY <2>3, <2>4, <2>6 DEF StoreOK, PreparedOK, SavingOK, SavedOK
  <2>8. Objects' = Objects
    BY <1>2, <2>1, <2>2, Arrives
  <2>9. StoreCall' = [op |-> "remove", uid |-> u, value |-> None, done |-> FALSE]
    BY <2>2, <2>3 DEF StoreCall
  <2>10. Store!Remove(u)
    BY <1>3, <1>7, <2>1, <2>8, <2>9
    DEF Store!Remove, Store!Exists, Store!WriteOnce, Store!Begin
  <2> QED BY <2>7, <2>10 DEF StoreStep, Store!Next
<1> QED BY <1>3, <1>5, <1>6, <1>7

LEMMA GetStores ==
    ASSUME Sound, NEW u \in Uids, Get(u), errors' = 0
    PROVE  StoreOK' /\ StoreStep
<1> PICK i : i = EntryIdx(table, u)
  OBVIOUS
<1>1. /\ pc = "idle" /\ pc' = "idle" /\ call' = call
      /\ UNCHANGED <<obj, tab, nvc, swap, active, crashes, table>>
  BY DEF Get, persistent, ram
<1>8. result' = IF i = None THEN [status |-> "does_not_exist", value |-> None]
                ELSE IF ~Readable(table, i) THEN [status |-> "failed", value |-> None]
                ELSE [status |-> "success", value |-> [val |-> obj[i].val, once |-> obj[i].once]]
  <2>1. errors \in Nat
    BY DEF Sound, IndInv, TypeOK
  <2> QED BY <2>1, ReadCounts DEF Get
<1>2. /\ StoreCall = None
      /\ i = None => Objects[u] = None
      /\ i # None => /\ Readable(table, i) /\ Objects[u] # None
                     /\ Objects[u] = [val |-> obj[i].val, once |-> obj[i].once]
  BY <1>1, Idle
<1>3. call.op = "none"
  BY <1>1, Points
<1>4. StoreOK'
  <2>1. VersionsOK' /\ CreatingOK' /\ ChoiceOK' /\ LatestOK' /\ AlignedOK'
    BY <1>1, <1>3, RequestStep
  <2> QED BY <1>1, <2>1 DEF StoreOK, PreparedOK, SavingOK, SavedOK
<1>5. Objects' = Objects /\ StoreCall' = None
  BY <1>1, <1>3, Arrives DEF StoreCall
<1>6. CASE i = None
  <2>1. result' = [status |-> "does_not_exist", value |-> None]
    BY <1>6, <1>8
  <2>2. Store!Get(u)
    BY <1>2, <1>5, <1>6, <2>1 DEF Store!Get, Store!Exists, Store!Answer
  <2> QED BY <1>4, <2>2 DEF StoreStep, Store!Next
<1>7. CASE i # None
  <2>1. result' = [status |-> "success", value |-> Objects[u]]
    BY <1>2, <1>7, <1>8
  <2>2. Store!Get(u)
    BY <1>2, <1>5, <1>7, <2>1 DEF Store!Get, Store!Exists, Store!Answer
  <2> QED BY <1>4, <2>2 DEF StoreStep, Store!Next
<1> QED BY <1>6, <1>7

-----------------------------------------------------------------------------
(* The object is stored.                                                   *)

(* The entry that a set will replace. *)
LEMMA CreateFacts ==
    ASSUME Sound, pc \in {"free", "store"}
    PROVE  /\ call \in Requests /\ call.op = "set" /\ call.val \in Vals /\ call.uid \in Uids
           /\ call.new \in Idx /\ table[call.new] = None /\ call.err = "ok"
           /\ call.old = EntryIdx(table, call.uid)
           /\ call.old = None => Lacks(table, call.uid, {})
                                 /\ \E j \in Idx \ {call.new} : table[j] = None
           /\ call.old # None => /\ Holds(table, call.uid, call.old) /\ call.old # call.new
                                 /\ ~obj[call.old].once
           /\ Whole(table, obj) /\ obj \in [Idx -> ObjFile \cup {None, Torn}]
<1>1. CreateOK /\ WholeOK /\ PreparedOK /\ TypeOK
  BY DEF Sound, IndInv, StoreOK
<1>2. /\ call.op = "set" /\ call.val \in Vals /\ call.new \in Idx /\ table[call.new] = None
      /\ call.old = None => /\ Lacks(table, call.uid, {})
                            /\ \E j \in Idx \ {call.new} : table[j] = None
      /\ call.old # None => call.old = EntryIdx(table, call.uid)
      /\ call.err = "ok" /\ (call.old # None => ~obj[call.old].once)
  BY <1>1 DEF CreateOK, PreparedOK
<1>3. call \in Requests /\ call.uid \in Uids
  BY Points DEF Requests
<1>4. Lacks(table, call.uid, {}) => EntryIdx(table, call.uid) = None
  BY EntryIdxIs DEF Lacks
<1>5. call.old # None => Holds(table, call.uid, call.old) /\ call.old # call.new
  <2> PICK k, u : k = EntryIdx(table, u) /\ u = call.uid
    OBVIOUS
  <2>1. k # None => k \in Idx /\ table[k] # None /\ table[k].uid = u
    BY EntryIdxIs
  <2> QED BY <1>2, <2>1 DEF Holds
<1> QED BY <1>1, <1>2, <1>3, <1>4, <1>5 DEF WholeOK, Good, TypeOK

(* A change of the free file alone. *)
LEMMA FileChange ==
    ASSUME Sound, pc \in {"free", "store"}, pc' = "store", call' = call, result' = result,
           table' = table, UNCHANGED <<tab, nvc, swap, active, crashes>>,
           NEW x, obj' = [obj EXCEPT ![call.new] = x]
    PROVE  StoreOK' /\ StoreStep
<1>1. /\ call \in Requests /\ call.op = "set" /\ call.new \in Idx /\ table[call.new] = None
      /\ call.err = "ok" /\ Whole(table, obj) /\ obj \in [Idx -> ObjFile \cup {None, Torn}]
      /\ call.old # None => /\ Holds(table, call.uid, call.old) /\ call.old # call.new
                            /\ ~obj[call.old].once
  BY CreateFacts
<1>2. \A i \in Idx : i # call.new => obj'[i] = obj[i]
  BY <1>1
<1>3. /\ VersionsOK' /\ CreatingOK' /\ ChoiceOK' /\ LatestOK' /\ AlignedOK'
      /\ CurrentDb = table /\ CurrentDb' = table
  BY <1>1, RequestStep
<1>4. PreparedOK'
  BY <1>1, <1>2 DEF PreparedOK, Holds
<1>5. StoreOK'
  BY <1>3, <1>4 DEF StoreOK, SavingOK, SavedOK
<1>6. View(table, obj) = View(table, obj')
  <2> PICK o : o = obj'
    OBVIOUS
  <2>1. \A i \in Idx : table[i] # None => obj[i] = o[i]
    BY <1>1, <1>2
  <2>2. Whole(table, obj)
    BY <1>1
  <2>3. View(table, obj) = View(table, o)
    BY <2>1, <2>2, ViewKept
  <2> QED BY <2>3
<1>7. Objects' = Objects
  BY <1>3, <1>6, ObjectsAre
<1>8. StoreCall' = StoreCall
  BY DEF StoreCall
<1> QED BY <1>5, <1>7, <1>8 DEF StoreStep

LEMMA FreeFileStores ==
    ASSUME Sound, FreeFile, errors' = 0
    PROVE  StoreOK' /\ StoreStep
<1>1. /\ pc = "free" /\ pc' = "store" /\ obj' = [obj EXCEPT ![call.new] = None]
      /\ UNCHANGED <<tab, nvc, swap, active, crashes, table, call, result>>
  BY DEF FreeFile, OneError, Sound
<1> QED BY <1>1, FileChange

LEMMA StoreObjectStores ==
    ASSUME Sound, StoreObject, errors' = 0
    PROVE  StoreOK' /\ StoreStep
<1> PICK g : g = FreshTag
  OBVIOUS
<1> PICK c : c = [call EXCEPT !.fid = call.new, !.tag = g]
  OBVIOUS
<1> PICK x : x = [tag |-> g, val |-> call.val, once |-> call.once]
  OBVIOUS
<1>1. /\ call \in Requests /\ call.op = "set" /\ call.val \in Vals /\ call.uid \in Uids
      /\ call.new \in Idx /\ table[call.new] = None /\ call.err = "ok"
      /\ call.old = EntryIdx(table, call.uid)
      /\ call.old = None => Lacks(table, call.uid, {})
                            /\ \E j \in Idx \ {call.new} : table[j] = None
      /\ call.old # None => /\ Holds(table, call.uid, call.old) /\ call.old # call.new
                            /\ ~obj[call.old].once
      /\ Whole(table, obj) /\ obj \in [Idx -> ObjFile \cup {None, Torn}]
  BY CreateFacts DEF StoreObject
<1>2. /\ pc = "store" /\ UNCHANGED <<tab, nvc, swap, active, crashes, result>>
      /\ obj' = [obj EXCEPT ![call.new] = x] /\ StartUpdate(c)
  BY DEF StoreObject, OneError, Sound
<1>3. TypeOK /\ TablesOK /\ table \in Table /\ g \in Nat
  BY FreshTagIs DEF Sound, IndInv, TypeOK
<1>4. /\ c \in Requests /\ c.op = "set" /\ c.fid = call.new /\ c.tag = g /\ c.uid = call.uid
      /\ c.old = call.old /\ c.val = call.val /\ c.once = call.once /\ c.err = "ok"
  BY <1>1, <1>3 DEF Requests
<1>5. /\ table' \in Table
      /\ call' \in Requests /\ call'.op = "set" /\ call'.fid = c.fid /\ call'.old = c.old
      /\ call'.uid = c.uid /\ call'.err = c.err /\ call'.tag = c.tag
      /\ call'.val = c.val /\ call'.once = c.once
      /\ \A j \in Idx : table'[j] = IF j = c.fid THEN [uid |-> c.uid, tag |-> c.tag]
                                    ELSE IF j = EntryIdx(table, c.uid) THEN None
                                    ELSE table[j]
  <2>1. /\ c.fid \in Idx /\ table[c.fid] = None
        /\ EntryIdx(table, c.uid) = None => \E j \in Idx \ {c.fid} : table[j] = None
    BY <1>1, <1>4
  <2> QED BY <1>2, <1>3, <1>4, <2>1, StartUpdateIs
<1>6. pc' = SaveStart
  BY <1>2 DEF StartUpdate
<1>7. /\ VersionsOK' /\ CreatingOK' /\ ChoiceOK' /\ LatestOK' /\ AlignedOK'
      /\ CurrentDb = table /\ CurrentDb' = table /\ tab[active].db = table
  BY <1>2, <1>5, <1>6, RequestStep
<1>8. /\ \A i \in Idx : i # call.new => obj'[i] = obj[i]
      /\ obj'[call.new] = x
  BY <1>1, <1>2
<1>9. (SavesSet(tab[active].db))'
  <2>1. table' = [i \in Idx |-> IF i = call.new THEN [uid |-> call.uid, tag |-> g]
                                ELSE IF i = call.old THEN None ELSE table[i]]
    BY <1>1, <1>4, <1>5 DEF Table
  <2>2. (tab[active].db)' = table
    BY <1>2, <1>7
  <2>3. call.old # None => ~obj'[call.old].once /\ Holds(table, call.uid, call.old)
    BY <1>1, <1>8 DEF Holds
  <2> QED BY <1>1, <1>4, <1>5, <1>8, <2>1, <2>2, <2>3 DEF SavesSet
<1>10. pc' \notin {"free", "store", "align", "drop_table", "drop_object"}
  BY <1>6 DEF SaveStart
<1>11. StoreOK'
  BY <1>7, <1>9, <1>10 DEF StoreOK, PreparedOK, SavingOK, SavedOK
<1>12. Objects' = Objects
  <2>1. View(table, obj) = View(table, obj')
    BY <1>1, <1>8, ViewKept
  <2> QED BY <1>7, <2>1, ObjectsAre
<1>13. StoreCall' = StoreCall
  BY <1>1, <1>2, <1>4, <1>5, <1>10 DEF StoreCall
<1> QED BY <1>2, <1>11, <1>12, <1>13 DEF StoreStep

-----------------------------------------------------------------------------
(* The table is saved.                                                     *)

(* A step of the save that leaves the table in force alone. *)
LEMMA SameObjects ==
    ASSUME Sound, pc \in {"increment", "write", "align"}, obj' = obj, call' = call,
           pc' \in {"increment", "write", "align", "drop_table", "boot"},
           active' = active, tab'[active] = tab[active],
           call.op = "init" => \A t \in {0, 1} : IsTab(t)' => IsTab(t) /\ tab'[t] = tab[t]
    PROVE  Objects' = Objects
<1>1. active \in {0, 1} /\ scratch \in {0, 1} /\ (pc = "align" => tab[active].db = table)
      /\ scratch = 1 - active
  BY Points
<1>2. CASE call.op = "init"
  <2>1. Blank
    BY <1>1, <1>2 DEF Sound, StoreOK, CreatingOK, Blank, Starting, NoTables
  <2>2. Blank'
    BY <1>2, <2>1 DEF Blank, Starting
  <2> QED BY <2>1, <2>2, DbInForce, DbInForceNext, ObjectsAre DEF InForce
<1>3. CASE call.op # "init"
  <2>1. Serving
    BY <1>1, <1>3 DEF Sound, StoreOK, ChoiceOK, Serving, Starting
  <2>2. Serving'
    BY <1>3, <2>1 DEF Serving, Starting, IsTab
  <2> QED BY <2>1, <2>2, DbInForce, DbInForceNext, ObjectsAre DEF InForce
<1> QED BY <1>2, <1>3

LEMMA IncrementStores ==
    ASSUME Sound, IncrementNvc1, errors' = 0
    PROVE  StoreOK' /\ StoreStep
<1>1. /\ pc = "increment" /\ pc' = "write" /\ nvc' = [nvc EXCEPT ![1] = @ + 1]
      /\ UNCHANGED <<obj, tab, swap, active, table, call, result, crashes>>
  BY DEF IncrementNvc1, OneError, Sound
<1>2. VersionsOK /\ CreatingOK /\ ChoiceOK /\ AlignedOK /\ SavingOK
  BY DEF Sound, StoreOK
<1>3. Rollback /\ nvc \in [1 .. 3 -> Nat]
  BY <1>1, <1>2 DEF VersionsOK, Sound, CountersInOrder
<1>4. nvc'[1] = nvc[1] + 1 /\ nvc'[2] = nvc[2] /\ nvc'[3] = nvc[3]
  BY <1>1, <1>3
<1>5. /\ \A t \in {0, 1} : (IsTab(t)' <=> IsTab(t)) /\ tab'[t] = tab[t]
      /\ scratch' = scratch /\ active \in {0, 1} /\ scratch \in {0, 1}
  BY <1>1, Points DEF IsTab, scratch
<1>6. VersionsOK'
  <2>1. ASSUME NEW t \in {0, 1}, IsTab(t) PROVE tab[t].ver \in Nat /\ tab[t].ver <= nvc[1]
    BY <1>2, <1>3, <2>1 DEF VersionsOK, Sound, IndInv, TypeOK, TabFile, IsTab
  <2> QED BY <1>3, <1>4, <1>5, <2>1 DEF VersionsOK
<1>7. CreatingOK'
  BY <1>1, <1>2, <1>5 DEF CreatingOK, NoTables
<1>8. ChoiceOK'
  BY <1>1, <1>2, <1>5 DEF ChoiceOK, Starting
<1>9. AlignedOK'
  <2>1. Starting => \A t \in {0, 1} : ~IsTab(t)
    BY <1>1, <1>2 DEF Starting, CreatingOK, NoTables
  <2>2. ~Starting => CurrentTable = active /\ CurrentTable' = active
    BY <1>1 DEF Starting, CurrentTable
  <2> QED BY <1>1, <1>2, <1>3, <1>4, <1>5, <2>1, <2>2 DEF AlignedOK, Ends
<1>10. SavingOK'
  BY <1>1, <1>2 DEF SavingOK, SavesSet, SavesAgain, SavesRemove
<1>11. StoreOK'
  BY <1>1, <1>6, <1>7, <1>8, <1>9, <1>10 DEF StoreOK, LatestOK, PreparedOK, SavedOK
<1>12. Objects' = Objects
  BY <1>1, <1>5, SameObjects
<1>13. StoreCall' = StoreCall
  BY <1>1 DEF StoreCall
<1> QED BY <1>1, <1>11, <1>12, <1>13 DEF StoreStep

LEMMA TearStores ==
    ASSUME Sound, TearFile, errors' = 0
    PROVE  StoreOK' /\ StoreStep
<1>0. UNCHANGED <<nvc, table, swap, active, pc, call, result, crashes>>
  BY DEF TearFile, ram
<1>1. CASE pc = "store" /\ obj' = [obj EXCEPT ![call.new] = Torn] /\ tab' = tab
  BY <1>0, <1>1, FileChange
<1>2. CASE pc = "write" /\ tab' = [tab EXCEPT ![scratch] = Torn] /\ obj' = obj
  <2>1. VersionsOK /\ CreatingOK /\ ChoiceOK /\ AlignedOK /\ SavingOK
    BY DEF Sound, StoreOK
  <2>2. /\ active \in {0, 1} /\ scratch \in {0, 1} /\ scratch' = scratch /\ scratch # active
        /\ tab \in [{0, 1} -> TabFile \cup {None, Torn}]
    BY <1>0, Points DEF scratch, Sound, IndInv, TypeOK
  <2>3. /\ tab'[active] = tab[active] /\ tab'[scratch] = Torn
        /\ \A t \in {0, 1} : IsTab(t)' => IsTab(t) /\ tab'[t] = tab[t]
        /\ IsTab(active) => IsTab(active)'
    BY <1>0, <1>2, <2>2 DEF IsTab
  <2>4. VersionsOK'
    <3>1. Starting' <=> Starting
      BY <1>0 DEF Starting
    <3> QED BY <1>0, <1>2, <2>1, <2>3, <3>1 DEF VersionsOK
  <2>5. CreatingOK'
    BY <1>0, <1>2, <2>1, <2>3 DEF CreatingOK, NoTables
  <2>6. ChoiceOK'
    <3>1. ~IsTab(scratch)'
      BY <2>2, <2>3 DEF IsTab
    <3> QED BY <1>0, <1>2, <2>1, <2>3, <3>1 DEF ChoiceOK, Starting
  <2>7. AlignedOK'
    <3>1. Starting => \A t \in {0, 1} : ~IsTab(t)
      BY <1>2, <2>1 DEF Starting, CreatingOK, NoTables
    <3>2. ~Starting => CurrentTable = active /\ CurrentTable' = active
      BY <1>0 DEF Starting, CurrentTable
    <3> QED BY <1>0, <1>2, <2>1, <2>3, <3>1, <3>2 DEF AlignedOK, Ends
  <2>8. SavingOK'
    BY <1>0, <1>2, <2>1, <2>3 DEF SavingOK, SavesSet, SavesAgain, SavesRemove
  <2>9. StoreOK'
    BY <1>0, <1>2, <2>4, <2>5, <2>6, <2>7, <2>8 DEF StoreOK, LatestOK, PreparedOK, SavedOK
  <2>10. Objects' = Objects
    BY <1>0, <1>2, <2>3, SameObjects
  <2>11. StoreCall' = StoreCall
    BY <1>0 DEF StoreCall
  <2> QED BY <1>0, <2>9, <2>10, <2>11 DEF StoreStep
<1> QED BY <1>1, <1>2 DEF TearFile

(* What the write of the table does to the store, db the table in force. *)
LEMMA SetTakesEffect ==
    ASSUME TypeOK, NEW db, SavesSet(db), call.uid \in Uids, call.fid \in Idx, call.tag \in Nat,
           Unique(db), Good(db), Unique(table), Good(table)
    PROVE  /\ View(table, obj)
                = [View(db, obj) EXCEPT ![call.uid] = [val |-> call.val, once |-> call.once]]
           /\ View(db, obj)[call.uid] # None => ~View(db, obj)[call.uid].once
<1> PICK e : e = [uid |-> call.uid, tag |-> call.tag]
  OBVIOUS
<1>1. /\ db[call.fid] = None
      /\ obj[call.fid] = [tag |-> call.tag, val |-> call.val, once |-> call.once]
      /\ call.old = None => Lacks(db, call.uid, {})
      /\ call.old # None => Holds(db, call.uid, call.old) /\ ~obj[call.old].once
      /\ \A i \in Idx : table[i] = IF i = call.fid THEN e ELSE IF i = call.old THEN None ELSE db[i]
  BY DEF SavesSet
<1>2. table[call.fid] = e /\ e # None /\ e.uid = call.uid
  <2>1. table[call.fid] = e /\ e.uid = call.uid
    BY <1>1
  <2>2. e # None
    <3>1. e \in Entry
      BY DEF Entry
    <3> QED BY <3>1, NotNone
  <2> QED BY <2>1, <2>2
<1>3. Whole(db, obj) /\ Whole(table, obj)
  BY DEF Good
<1>4. View(table, obj)[call.uid] = [val |-> call.val, once |-> call.once]
  <2>1. Holds(table, call.uid, call.fid)
    BY <1>2 DEF Holds
  <2>2. View(table, obj)[call.uid] = [val |-> obj[call.fid].val, once |-> obj[call.fid].once]
    BY <1>3, <2>1, ViewOf
  <2> QED BY <1>1, <2>2
<1>5. ASSUME NEW u \in Uids, u # call.uid PROVE View(table, obj)[u] = View(db, obj)[u]
  <2>1. \A i \in Idx : Holds(table, u, i) <=> Holds(db, u, i)
    <3> SUFFICES ASSUME NEW i \in Idx PROVE Holds(table, u, i) <=> Holds(db, u, i)
      OBVIOUS
    <3>1. CASE i = call.fid
      BY <1>1, <1>2, <1>5, <3>1 DEF Holds
    <3>2. CASE i # call.fid /\ i = call.old
      <4>1. table[i] = None /\ call.old # None
        BY <1>1, <3>2, Numbers
      <4> QED BY <1>1, <1>5, <3>2, <4>1 DEF Holds
    <3>3. CASE i # call.fid /\ i # call.old
      BY <1>1, <3>3 DEF Holds
    <3> QED BY <3>1, <3>2, <3>3
  <2> QED BY <1>3, <2>1, ViewSame
<1>6. View(db, obj)[call.uid] # None => ~View(db, obj)[call.uid].once
  <2>1. CASE call.old = None
    BY <1>1, <1>3, <2>1, ViewOf
  <2>2. CASE call.old # None
    <3>1. View(db, obj)[call.uid] = [val |-> obj[call.old].val, once |-> obj[call.old].once]
      BY <1>1, <1>3, <2>2, ViewOf
    <3> QED BY <1>1, <2>2, <3>1
  <2> QED BY <2>1, <2>2
<1> QED BY <1>4, <1>5, <1>6 DEF View

LEMMA RemoveTakesEffect ==
    ASSUME TypeOK, NEW db, SavesRemove(db), call.uid \in Uids,
           Unique(db), Good(db), Unique(table), Good(table)
    PROVE  /\ View(table, obj) = [View(db, obj) EXCEPT ![call.uid] = None]
           /\ View(db, obj)[call.uid] # None => ~View(db, obj)[call.uid].once
<1>1. /\ Holds(db, call.uid, call.fid) /\ ~obj[call.fid].once
      /\ \A i \in Idx : table[i] = IF i = call.fid THEN None ELSE db[i]
  BY DEF SavesRemove
<1>2. Whole(db, obj) /\ Whole(table, obj)
  BY DEF Good
<1>3. View(table, obj)[call.uid] = None
  <2>1. Lacks(table, call.uid, {})
    BY <1>1 DEF Lacks, Unique, Holds
  <2> QED BY <1>2, <2>1, ViewOf
<1>4. ASSUME NEW u \in Uids, u # call.uid PROVE View(table, obj)[u] = View(db, obj)[u]
  <2>1. \A i \in Idx : Holds(table, u, i) <=> Holds(db, u, i)
    BY <1>1, <1>4 DEF Holds
  <2> QED BY <1>2, <2>1, ViewSame
<1>5. View(db, obj)[call.uid] # None => ~View(db, obj)[call.uid].once
  <2>1. View(db, obj)[call.uid] = [val |-> obj[call.fid].val, once |-> obj[call.fid].once]
    BY <1>1, <1>2, ViewOf
  <2> QED BY <1>1, <2>1
<1> QED BY <1>3, <1>4, <1>5 DEF View

(* The request takes effect when its table is in force. *)
LEMMA RequestApplied ==
    ASSUME Sound, pc = "write", call.op # "init", pc' \in {"align", "drop_table"},
           obj' = obj, call' = call, result' = result, CurrentDb' = table
    PROVE  StoreStep
<1> PICK db : db = tab[active].db
  OBVIOUS
<1>1. TypeOK /\ TablesOK /\ WholeOK /\ UndoOK
  BY DEF Sound, IndInv
<1>2. /\ call \in Requests /\ call.uid \in Uids /\ call.op \in {"set", "remove"}
      /\ active \in {0, 1} /\ call.fid \in Idx /\ call.tag \in Nat
  <2>1. call.fid \in Idx
    BY <1>1 DEF UndoOK, Saves
  <2> QED BY <2>1, Points DEF Requests
<1>3. ~Starting /\ IsTab(active)
  BY DEF Starting, Sound, StoreOK, ChoiceOK
<1>4. CurrentDb = db
  BY <1>2, <1>3, DbInForce DEF Serving, InForce
<1>5. Unique(db) /\ Good(db) /\ Unique(table) /\ Good(table)
  BY <1>1, <1>2, <1>3 DEF TablesOK, WholeOK, IsTab
<1>6. Objects = View(db, obj) /\ Objects' = View(table, obj)
  BY <1>4, ObjectsAre
<1>7. SavesSet(db) \/ SavesAgain(db) \/ SavesRemove(db)
  BY DEF Sound, StoreOK, SavingOK
<1>8. ASSUME call.err = "ok", call.op = "set" => call.val \in Vals,
             NEW x, x = IF call.op = "set" THEN [val |-> call.val, once |-> call.once] ELSE None,
             Objects' = [Objects EXCEPT ![call.uid] = x],
             Objects[call.uid] # None => ~Objects[call.uid].once
      PROVE  StoreStep
  <2>1. /\ StoreCall # None /\ StoreCall.uid = call.uid /\ StoreCall.value = x
        /\ ~StoreCall.done
    <3>1. pc \notin {"align", "drop_table", "drop_object"} /\ StoreCall = CallView(call, pc)
      BY ObjectsAre
    <3>2. PICK c \in Requests, p \in {pc} : c = call /\ p = pc
      BY <1>2
    <3>3. /\ CallView(c, p) # None
          /\ CallView(c, p).uid = c.uid
          /\ CallView(c, p).done = (c.err = "ok" /\ p \in {"align", "drop_table", "drop_object"})
          /\ CallView(c, p).value
                = IF c.op = "set" THEN [val |-> c.val, once |-> c.once] ELSE None
      BY <1>8, <3>2, CallNotNone
    <3> QED BY <1>8, <3>1, <3>2, <3>3
  <2>2. /\ StoreCall = [op |-> call.op, uid |-> call.uid, value |-> x, done |-> FALSE]
        /\ StoreCall' = [op |-> call.op, uid |-> call.uid, value |-> x, done |-> TRUE]
    BY <1>2, <1>8 DEF StoreCall
  <2>3. StoreCall' = [StoreCall EXCEPT !.done = TRUE]
    <3>1. PICK d, e : d = FALSE /\ e = TRUE
      OBVIOUS
    <3>2. PICK r, s : r = StoreCall /\ s = StoreCall'
      OBVIOUS
    <3>3. /\ r = [op |-> call.op, uid |-> call.uid, value |-> x, done |-> d]
          /\ s = [op |-> call.op, uid |-> call.uid, value |-> x, done |-> e]
      BY <2>2, <3>1, <3>2, Zenon
    <3>4. s = [r EXCEPT !.done = e]
      BY <3>3
    <3> QED BY <3>1, <3>2, <3>4, Zenon
  <2>4. Store!Apply
    BY <1>8, <2>1, <2>3 DEF Store!Apply, Store!WriteOnce, Store!Exists
  <2> QED BY <2>4 DEF StoreStep, Store!Next
<1>9. CASE SavesSet(db)
  <2>1. call.op = "set" /\ call.val \in Vals /\ call.err = "ok"
    BY <1>9 DEF SavesSet
  <2>2. /\ View(table, obj)
             = [View(db, obj) EXCEPT ![call.uid] = [val |-> call.val, once |-> call.once]]
        /\ View(db, obj)[call.uid] # None => ~View(db, obj)[call.uid].once
    BY <1>1, <1>2, <1>5, <1>9, SetTakesEffect
  <2> QED BY <1>6, <1>8, <2>1, <2>2
<1>10. CASE SavesRemove(db)
  <2>1. call.op = "remove" /\ call.err = "ok"
    BY <1>10 DEF SavesRemove
  <2>2. /\ View(table, obj) = [View(db, obj) EXCEPT ![call.uid] = None]
        /\ View(db, obj)[call.uid] # None => ~View(db, obj)[call.uid].once
    BY <1>1, <1>2, <1>5, <1>10, RemoveTakesEffect
  <2> QED BY <1>6, <1>8, <2>1, <2>2
<1>11. CASE SavesAgain(db)
  <2>1. table = db /\ call.err = "not_permitted"
    BY <1>11 DEF SavesAgain
  <2>2. Objects' = Objects /\ StoreCall' = StoreCall
    BY <1>6, <2>1 DEF StoreCall
  <2> QED BY <2>2 DEF StoreStep
<1> QED BY <1>7, <1>9, <1>10, <1>11

LEMMA WriteStores ==
    ASSUME Sound, WriteTable, errors' = 0
    PROVE  StoreOK' /\ StoreStep
<1> PICK v : v = IF Rollback THEN nvc[1] ELSE NextSwap(swap)
  OBVIOUS
<1> PICK f : f = [ver |-> v, db |-> table]
  OBVIOUS
<1>0. TypeOK /\ WholeOK /\ UndoOK /\ table \in Table /\ swap \in Nat /\ nvc \in [1 .. 3 -> Nat]
  BY DEF Sound, IndInv, TypeOK
<1>1. VersionsOK /\ CreatingOK /\ ChoiceOK /\ SavingOK
  BY DEF Sound, StoreOK
<1>2. /\ pc = "write" /\ tab' = [tab EXCEPT ![scratch] = f] /\ active' = scratch
      /\ swap' = IF Rollback THEN swap ELSE NextSwap(swap)
      /\ Rollback => pc' = "align"
      /\ ~Rollback => pc' = IF call.op = "init" THEN "boot" ELSE "drop_table"
      /\ UNCHANGED <<obj, nvc, table, call, result>>
  BY DEF WriteTable, OneError, Sound, SaveSucceeds, Swapped
<1>3. f \in TabFile /\ f \notin {None, Torn} /\ f.ver = v /\ f.db = table
  <2>1. v \in Nat
    BY <1>0, NextSwapIs
  <2> QED BY <1>0, <2>1, NotNone DEF TabFile
<1>4. /\ active \in {0, 1} /\ scratch \in {0, 1} /\ scratch # active /\ scratch' = active
      /\ tab'[scratch] = f /\ tab'[active] = tab[active]
      /\ \A t \in {0, 1} : t = scratch \/ t = active
  BY <1>0, <1>2, Points DEF scratch, TypeOK
<1>5. /\ (tab[active])' = f /\ (tab[scratch])' = tab[active]
      /\ (IsTab(active))' /\ ((IsTab(scratch))' <=> IsTab(active))
      /\ \A t \in {0, 1} : IsTab(t)' <=> t = scratch \/ IsTab(active)
  BY <1>2, <1>3, <1>4 DEF IsTab
<1>6. ASSUME ~Starting PROVE IsTab(active) /\ (~Rollback => tab[active].ver = swap)
  BY <1>1, <1>6 DEF ChoiceOK, VersionsOK
<1>7. Starting <=> call.op = "init"
  BY <1>2 DEF Starting
<1>8. Starting' <=> call.op = "init"
  BY <1>2 DEF Starting
<1>9. IsTab(active) => /\ Rollback => tab[active].ver < nvc[1] /\ tab[active].ver # nvc[1]
                       /\ ~Rollback => tab[active].ver \in Swaps
  <2>1. Rollback /\ IsTab(active) => tab[active].ver \in Nat /\ tab[active].ver < nvc[1]
    BY <1>0, <1>1, <1>2, <1>4 DEF VersionsOK, TypeOK, IsTab, TabFile
  <2> QED BY <1>0, <1>1, <1>4, <2>1 DEF VersionsOK
<1>10. ~Rollback => v \in Swaps
  BY <1>1, NextSwapOf DEF VersionsOK
<1>11. VersionsOK'
  <2>1. CASE Rollback
    <3>1. v = nvc[1] /\ nvc[1] \in Nat /\ pc' = "align" /\ nvc' = nvc
      BY <1>0, <1>2, <2>1
    <3>2. ASSUME NEW t \in {0, 1}, IsTab(t)' PROVE tab'[t].ver <= nvc[1]
      <4>1. CASE t = scratch
        BY <1>3, <1>4, <3>1, <4>1
      <4>2. CASE t = active /\ IsTab(active)
        <5>1. tab[active].ver \in Nat
          BY <1>0, <1>4, <4>2 DEF TypeOK, IsTab, TabFile
        <5> QED BY <1>4, <1>9, <2>1, <3>1, <4>2, <5>1
      <4> QED BY <1>4, <1>5, <3>2, <4>1, <4>2
    <3> QED BY <2>1, <3>1, <3>2 DEF VersionsOK
  <2>2. CASE ~Rollback
    <3>1. swap' = v /\ v \in Swaps /\ pc' \notin {"increment", "align"}
      BY <1>2, <1>10, <2>2
    <3>2. \A t \in {0, 1} : IsTab(t)' => tab'[t].ver \in Swaps
      BY <1>3, <1>4, <1>5, <1>9, <2>2, <3>1
    <3>3. (tab[active].ver)' = v
      BY <1>3, <1>5
    <3> QED BY <2>2, <3>1, <3>2, <3>3 DEF VersionsOK, Swaps
  <2> QED BY <2>1, <2>2
<1>12. call.op = "init" => ~IsTab(active) /\ table = EmptyTable
  BY <1>1, <1>2, <1>4 DEF CreatingOK, NoTables
<1>13. CreatingOK'
  <2>1. pc' \in {"align", "boot", "drop_table"} /\ EmptyTable' = EmptyTable
    BY <1>2 DEF EmptyTable
  <2> QED BY <1>2, <1>5, <1>12, <2>1 DEF CreatingOK
<1>14. ChoiceOK'
  <2>1. pc' = "boot" => (ActiveTable({}))' # None
    <3>1. PICK s \in {0, 1} : s = scratch
      BY <1>4
    <3>2. ~Rollback => TableState(s)' # "invalid"
      BY <1>3, <1>4, <3>1 DEF TableState
    <3> QED BY <1>2, <3>1, <3>2, AnyIsChosenNext DEF SomeChosen
  <2> QED BY <1>2, <1>5, <2>1 DEF ChoiceOK
<1>15. LatestOK'
  <2>1. call.op # "init" => IsTab(active)
    BY <1>6, <1>7
  <2>2. pc' = "align" \/ pc' = "boot" \/ (pc' = "drop_table" /\ ~Rollback /\ call.op # "init")
    BY <1>2
  <2>3. Rollback => (tab[active].ver)' = nvc[1] /\ (IsTab(active) => (tab[scratch].ver)' # nvc[1])
    BY <1>3, <1>5, <1>9
  <2>4. ~Rollback /\ call.op # "init" => (tab[active].ver)' = NextSwap((tab[scratch].ver)')
    BY <1>3, <1>5, <1>6, <1>7
  <2> QED BY <1>2, <1>5, <2>1, <2>2, <2>3, <2>4 DEF LatestOK
<1>16. AlignedOK' /\ PreparedOK' /\ SavingOK'
  BY <1>2 DEF AlignedOK, PreparedOK, SavingOK, Ends
<1>17. SavedOK'
  <2>1. SUFFICES ASSUME call.op # "init" PROVE (LeftToDrop \/ Refused)'
    BY <1>2 DEF SavedOK
  <2> PICK db : db = tab[active].db
    OBVIOUS
  <2>2. Good(db)
    BY <1>0, <1>4, <1>6, <1>7, <2>1 DEF WholeOK, IsTab
  <2>3. CASE SavesSet(db)
    <3>1. LeftToDrop
      BY <2>2, <2>3 DEF SavesSet, LeftToDrop, Good, Whole, Holds
    <3> QED BY <1>2, <3>1 DEF LeftToDrop
  <2>4. CASE SavesAgain(db)
    <3>1. Refused
      BY <2>4 DEF SavesAgain, Refused
    <3> QED BY <1>2, <3>1 DEF Refused
  <2>5. CASE SavesRemove(db)
    <3>1. LeftToDrop
      BY <2>2, <2>5 DEF SavesRemove, LeftToDrop, Good, Whole, Holds
    <3> QED BY <1>2, <3>1 DEF LeftToDrop
  <2> QED BY <1>1, <1>2, <2>1, <2>3, <2>4, <2>5 DEF SavingOK
<1>18. StoreOK'
  BY <1>11, <1>13, <1>14, <1>15, <1>16, <1>17 DEF StoreOK
<1>19. CASE call.op = "init"
  <2>1. Blank
    BY <1>2, <1>4, <1>1, <1>7, <1>19 DEF Blank, CreatingOK, NoTables
  <2>2. Blank'
    <3>1. EmptyTable' = EmptyTable
      BY DEF EmptyTable
    <3> QED BY <1>3, <1>4, <1>5, <1>8, <1>12, <1>19, <3>1 DEF Blank
  <2>3. CurrentDb = EmptyTable /\ CurrentDb' = EmptyTable
    BY <2>1, <2>2, DbInForce, DbInForceNext DEF InForce, EmptyTable
  <2>4. Objects' = Objects
    BY <1>2, <2>3, ObjectsAre
  <2>5. StoreCall' = StoreCall
    BY <1>2, <1>19 DEF StoreCall
  <2> QED BY <1>2, <1>18, <2>4, <2>5 DEF StoreStep
<1>20. CASE call.op # "init"
  <2>1. Serving' /\ (tab[active].db)' = table
    BY <1>2, <1>3, <1>4, <1>5, <1>8, <1>20 DEF Serving
  <2>2. CurrentDb' = table
    BY <2>1, DbInForceNext DEF InForce
  <2>3. pc' \in {"align", "drop_table"}
    BY <1>2, <1>20
  <2>4. StoreStep
    BY <1>2, <1>20, <2>2, <2>3, RequestApplied
  <2> QED BY <1>18, <2>4
<1> QED BY <1>19, <1>20

LEMMA AlignStores ==
    ASSUME Sound, AlignNvc, errors' = 0
    PROVE  StoreOK' /\ StoreStep
<1>0. /\ VersionsOK /\ CreatingOK /\ ChoiceOK /\ LatestOK /\ SavedOK /\ CountersInOrder
      /\ nvc \in [1 .. 3 -> Nat] /\ TypeOK
  BY DEF Sound, StoreOK, CountersInOrder, IndInv
<1>1. /\ pc = "align" /\ nvc' = [nvc EXCEPT ![NextNvc] = @ + 1]
      /\ UNCHANGED <<obj, tab, swap, active, table, call, result>>
      /\ \/ pc' = "align"
         \/ /\ nvc'[2] = nvc[1] /\ nvc'[3] = nvc[1]
            /\ pc' = IF call.op = "init" THEN "boot" ELSE "drop_table"
            /\ crashes' = 0
  BY DEF AlignNvc, OneError, Sound, SaveSucceeds
<1>2. Rollback
  BY <1>0, <1>1 DEF VersionsOK
<1>3. nvc'[1] = nvc[1] /\ nvc[1] \in Nat /\ nvc[1] # 0
  BY <1>0, <1>1 DEF NextNvc, CountersInOrder
<1>4. /\ \A t \in {0, 1} : (IsTab(t)' <=> IsTab(t)) /\ tab'[t] = tab[t]
      /\ scratch' = scratch /\ active \in {0, 1} /\ scratch \in {0, 1}
      /\ \A t \in {0, 1} : t = scratch \/ t = active
  BY <1>1, Points DEF IsTab, scratch
<1>5. /\ IsTab(active) /\ tab[active].ver = nvc[1]
      /\ IsTab(scratch) => tab[scratch].ver # nvc[1]
      /\ call.op # "init" => IsTab(scratch)
      /\ call.op = "init" => ~IsTab(scratch) /\ table = EmptyTable
  BY <1>0, <1>1 DEF LatestOK, CreatingOK
<1>6. (IsTab(active))' /\ ((IsTab(scratch))' <=> IsTab(scratch)) /\ EmptyTable' = EmptyTable
  BY <1>1, <1>4, <1>5 DEF IsTab, EmptyTable
<1>7. VersionsOK'
  BY <1>0, <1>1, <1>2, <1>3, <1>4 DEF VersionsOK
<1>8. CreatingOK'
  BY <1>1, <1>5, <1>6 DEF CreatingOK
<1>9. ChoiceOK'
  <2>1. (ActiveTable({}))' # None
    <3>1. PICK a \in {0, 1} : a = active
      BY <1>4
    <3>2. TableState(a)' # "invalid"
      BY <1>2, <1>3, <1>4, <1>5, <3>1 DEF TableState, IsTab
    <3> QED BY <3>1, <3>2, AnyIsChosenNext DEF SomeChosen
  <2> QED BY <1>1, <1>6, <2>1 DEF ChoiceOK
<1>10. LatestOK'
  <2>1. (tab[active])' = tab[active] /\ (tab[scratch])' = tab[scratch]
    BY <1>1, <1>4
  <2>2. \/ pc' \in {"align", "boot"}
        \/ pc' = "drop_table" /\ nvc'[2] = nvc[1] /\ nvc'[3] = nvc[1]
    BY <1>1
  <2> QED BY <1>1, <1>2, <1>3, <1>5, <1>6, <2>1, <2>2 DEF LatestOK
<1>11. AlignedOK'
  <2>1. ASSUME pc' # "align" PROVE AlignedOK'
    <3>1. crashes' = 0 /\ pc' \in {"boot", "drop_table"} /\ nvc'[2] = nvc[1] /\ nvc'[3] = nvc[1]
      BY <1>1, <2>1
    <3>2. pc' = "drop_table" => CurrentTable' = active
      BY <1>1 DEF CurrentTable
    <3>3. pc' = "boot" => ~IsTab(scratch)
      BY <1>1, <1>5
    <3> QED BY <1>1, <1>3, <1>4, <1>5, <3>1, <3>2, <3>3 DEF AlignedOK
  <2>2. pc' = "align" => AlignedOK'
    BY DEF AlignedOK, Ends
  <2> QED BY <2>1, <2>2
<1>12. PreparedOK' /\ SavingOK'
  BY <1>1 DEF PreparedOK, SavingOK
<1>13. SavedOK'
  <2>1. call.op # "init" => LeftToDrop \/ Refused
    BY <1>0, <1>1 DEF SavedOK
  <2>2. LeftToDrop' <=> LeftToDrop
    BY <1>1 DEF LeftToDrop
  <2>3. Refused' <=> Refused
    BY <1>1 DEF Refused
  <2> QED BY <1>1, <2>1, <2>2, <2>3 DEF SavedOK
<1>14. StoreOK'
  BY <1>7, <1>8, <1>9, <1>10, <1>11, <1>12, <1>13 DEF StoreOK
<1>15. Objects' = Objects
  BY <1>1, <1>4, SameObjects
<1>16. StoreCall' = StoreCall
  BY <1>1 DEF StoreCall
<1> QED BY <1>1, <1>14, <1>15, <1>16 DEF StoreStep

-----------------------------------------------------------------------------
(* The request ends.                                                       *)

(* Without the older table, between the save and the next request. *)
LEMMA ScratchDropped ==
    ASSUME Sound, pc \in {"clean", "drop_table"}, tab' = [tab EXCEPT ![scratch] = None],
           UNCHANGED <<obj, nvc, table, swap, active, crashes>>,
           pc' \in {"idle", "drop_object"}, pc = "clean" => pc' = "idle", (call.op)' # "init"
    PROVE  /\ VersionsOK' /\ CreatingOK' /\ ChoiceOK' /\ LatestOK' /\ AlignedOK'
           /\ CurrentDb = table /\ CurrentDb' = table /\ Objects' = Objects
<1>1. VersionsOK /\ ChoiceOK /\ LatestOK /\ AlignedOK /\ TypeOK
  BY DEF Sound, StoreOK, IndInv
<1>2. /\ active \in {0, 1} /\ scratch \in {0, 1} /\ scratch # active /\ scratch' = scratch
      /\ tab[active].db = table /\ ~Starting
      /\ \A t \in {0, 1} : t = scratch \/ t = active
  BY Points DEF Starting, scratch
<1>3. IsTab(active) /\ ~Starting'
  BY <1>1, <1>2 DEF ChoiceOK, Starting
<1>4. /\ tab'[active] = tab[active] /\ tab'[scratch] = None /\ (IsTab(active))'
      /\ \A t \in {0, 1} : IsTab(t)' => t = active
  BY <1>1, <1>2, <1>3 DEF IsTab, TypeOK
<1>5. VersionsOK'
  BY <1>1, <1>2, <1>3, <1>4 DEF VersionsOK
<1>6. CreatingOK' /\ LatestOK' /\ ChoiceOK'
  BY <1>4 DEF CreatingOK, LatestOK, ChoiceOK
<1>7. AlignedOK'
  <2>1. CurrentTable = active /\ CurrentTable' = active
    BY <1>2, <1>3 DEF Starting, CurrentTable
  <2>2. Rollback /\ crashes = 0 => nvc[2] = nvc[3] /\ tab[active].ver = nvc[2] /\ nvc[2] # 0
    BY <1>1, <1>2, <1>3, <2>1 DEF LatestOK, AlignedOK
  <2>3. Rollback /\ pc = "drop_table" => crashes = 0
    BY <1>1 DEF AlignedOK, Ends
  <2>4. ASSUME pc = "clean" PROVE ActiveTable({})' = active
    <3>1. PICK a \in {0, 1} : a = active
      BY <1>2
    <3>2. TableState(a)' = TableState(a) /\ ActiveTable({}) = a
      BY <1>1, <1>4, <2>4, <3>1 DEF TableState, UsableNvc3, ChoiceOK
    <3>3. TableState(a) # "invalid"
      BY <3>2, ActiveByState, Numbers DEF ActiveIs
    <3>4. TableState(1 - a)' = "invalid"
      BY <1>2, <1>4, <3>1 DEF TableState, IsTab
    <3> QED BY <3>1, <3>2, <3>3, <3>4, ActiveByStateNext DEF ActiveIs
  <2> QED BY <1>4, <2>1, <2>2, <2>3, <2>4 DEF AlignedOK, Ends
<1>8. Serving /\ Serving'
  BY <1>2, <1>3, <1>4 DEF Serving
<1>9. CurrentDb = table /\ CurrentDb' = table
  BY <1>2, <1>4, <1>8, DbInForce, DbInForceNext DEF InForce
<1> QED BY <1>5, <1>6, <1>7, <1>9, ObjectsAre

LEMMA CleanStores ==
    ASSUME Sound, CleanTable, errors' = 0
    PROVE  StoreOK' /\ StoreStep
<1>1. /\ pc = "clean" /\ pc' = "idle" /\ call' = NoCall /\ tab' = [tab EXCEPT ![scratch] = None]
      /\ UNCHANGED <<obj, nvc, table, swap, active, crashes, result>>
  BY DEF CleanTable, OneError, Sound, ram
<1>2. (call.op)' = "none" /\ call.op = "init"
  BY <1>1, Points DEF NoCall
<1>3. /\ VersionsOK' /\ CreatingOK' /\ ChoiceOK' /\ LatestOK' /\ AlignedOK'
      /\ Objects' = Objects
  BY <1>1, <1>2, ScratchDropped
<1>4. StoreOK'
  BY <1>1, <1>3 DEF StoreOK, PreparedOK, SavingOK, SavedOK
<1>5. StoreCall' = StoreCall
  BY <1>2 DEF StoreCall
<1> QED BY <1>1, <1>3, <1>4, <1>5 DEF StoreStep

(* An answer to the request. *)
LEMMA Answers ==
    ASSUME Sound, pc \in {"drop_table", "drop_object"}, Objects' = Objects, CurrentDb = table,
           VersionsOK', CreatingOK', ChoiceOK', LatestOK', AlignedOK',
           NEW status, Return(status),
           \/ status = "success" /\ LeftToDrop
           \/ status = "not_permitted" /\ Refused
    PROVE  StoreOK' /\ StoreStep
<1>1. pc' = "idle" /\ (call.op)' = "none" /\ result' = [status |-> status, value |-> None]
  BY DEF Return, NoCall
<1>2. StoreOK'
  BY <1>1 DEF StoreOK, PreparedOK, SavingOK, SavedOK
<1>3. StoreCall' = None /\ Store!Answer(status, None)
  BY <1>1 DEF StoreCall, Store!Answer
<1>4. PICK c \in Requests, p \in {pc} : c = call /\ p = pc
  BY Points
<1>5. c.op = "set" => c.val \in Vals
  BY <1>4 DEF LeftToDrop, Refused
<1>6. /\ CallView(c, p) # None
      /\ CallView(c, p).uid = c.uid
      /\ CallView(c, p).done = (c.err = "ok" /\ p \in {"align", "drop_table", "drop_object"})
  BY <1>4, <1>5, CallNotNone
<1>7. StoreCall # None /\ StoreCall.uid = call.uid /\ (StoreCall.done <=> call.err = "ok")
  BY <1>4, <1>6, ObjectsAre
<1>8. CASE status = "success" /\ LeftToDrop
  <2>1. Store!Return
    BY <1>3, <1>7, <1>8 DEF Store!Return, LeftToDrop
  <2> QED BY <1>2, <2>1 DEF StoreStep, Store!Next
<1>9. CASE status = "not_permitted" /\ Refused
  <2>1. TypeOK /\ Unique(table) /\ Whole(table, obj) /\ call.uid \in Uids
    BY Points DEF Sound, IndInv, TablesOK, WholeOK, Good, Requests
  <2>2. Holds(table, call.uid, call.fid) /\ obj[call.fid].once /\ call.err # "ok"
    BY <1>9 DEF Refused
  <2>3. Objects[call.uid] = [val |-> obj[call.fid].val, once |-> obj[call.fid].once]
    <3>1. View(table, obj)[call.uid] = [val |-> obj[call.fid].val, once |-> obj[call.fid].once]
      <4>1. Unique(table)
        BY <2>1
      <4>2. Whole(table, obj)
        BY <2>1
      <4>3. PICK u \in Uids, i \in {call.fid} : u = call.uid /\ i = call.fid
        BY <2>1
      <4>4. Holds(table, u, i)
        BY <2>2, <4>3
      <4>5. View(table, obj)[u] = [val |-> obj[i].val, once |-> obj[i].once]
        BY <4>1, <4>2, <4>3, <4>4, ViewOf
      <4> QED BY <4>3, <4>5
    <3> QED BY <3>1, ObjectsAre
  <2>4. obj[call.fid] \in ObjFile
    BY <2>1, <2>2 DEF Whole, Holds, TypeOK
  <2>5. Objects[call.uid] # None /\ Objects[call.uid].once
    <3>1. /\ Objects[call.uid] # None /\ Objects[call.uid].once = obj[call.fid].once
          /\ obj[call.fid].once \in BOOLEAN
      BY <2>3, <2>4, NotNone
    <3> QED BY <2>2, <3>1
  <2>6. Store!Return
    BY <1>3, <1>7, <1>9, <2>2, <2>5 DEF Store!Return, Store!WriteOnce, Store!Exists
  <2> QED BY <1>2, <2>6 DEF StoreStep, Store!Next
<1> QED BY <1>8, <1>9

LEMMA DropTableStores ==
    ASSUME Sound, DropTable, errors' = 0
    PROVE  StoreOK' /\ StoreStep
<1>1. /\ pc = "drop_table" /\ tab' = [tab EXCEPT ![scratch] = None]
      /\ AfterDropTable(tab[scratch] # None)
      /\ UNCHANGED <<obj, nvc, table, swap, active, crashes>>
  BY DEF DropTable, OneError, Sound, ram
<1>2. call.op \in {"set", "remove"} /\ (LeftToDrop \/ Refused) /\ tab[scratch] # None
  <2>1. call.op \in {"set", "remove"}
    BY <1>1, Points
  <2> QED BY <1>1, <2>1 DEF Sound, StoreOK, LatestOK, SavedOK, IsTab
<1>3. CASE pc' = "drop_object"
  <2>1. UNCHANGED <<call, result>> /\ call.err = "ok" /\ (call.op = "remove" \/ call.old # None)
    BY <1>1, <1>3 DEF AfterDropTable, Return
  <2>2. /\ VersionsOK' /\ CreatingOK' /\ ChoiceOK' /\ LatestOK' /\ AlignedOK'
        /\ Objects' = Objects
    BY <1>1, <1>2, <1>3, <2>1, ScratchDropped
  <2>3. LeftToDrop'
    BY <1>1, <1>2, <2>1 DEF LeftToDrop, Refused
  <2>4. StoreOK'
    BY <1>3, <2>1, <2>2, <2>3 DEF StoreOK, PreparedOK, SavingOK, SavedOK
  <2>5. StoreCall' = StoreCall
    BY <1>1, <1>3, <2>1 DEF StoreCall
  <2> QED BY <2>1, <2>2, <2>4, <2>5 DEF StoreStep
<1>4. CASE pc' # "drop_object"
  <2> PICK status : status = IF call.err = "ok" THEN "success" ELSE call.err
    OBVIOUS
  <2>1. Return(status)
    BY <1>1, <1>2, <1>4 DEF AfterDropTable
  <2>2. pc' = "idle" /\ (call.op)' = "none"
    BY <2>1 DEF Return, NoCall
  <2>3. /\ VersionsOK' /\ CreatingOK' /\ ChoiceOK' /\ LatestOK' /\ AlignedOK'
        /\ Objects' = Objects /\ CurrentDb = table
    BY <1>1, <2>2, ScratchDropped
  <2>4. \/ status = "success" /\ LeftToDrop
        \/ status = "not_permitted" /\ Refused
    BY <1>2 DEF LeftToDrop, Refused
  <2> QED BY <1>1, <2>1, <2>3, <2>4, Answers
<1> QED BY <1>3, <1>4

LEMMA DropObjectStores ==
    ASSUME Sound, DropObject, errors' = 0
    PROVE  StoreOK' /\ StoreStep
<1> PICK f : f = IF call.op = "remove" THEN call.fid ELSE call.old
  OBVIOUS
<1>1. /\ pc = "drop_object" /\ obj' = [obj EXCEPT ![f] = None]
      /\ Return(IF obj[f] # None THEN "success" ELSE "failed")
      /\ UNCHANGED <<tab, nvc, table, swap, active, crashes>>
  BY DEF DropObject, OneError, Sound, ram
<1>2. /\ call.op \in {"set", "remove"} /\ LeftToDrop
      /\ call.op = "set" => call.old # None
  BY <1>1, Points DEF Sound, StoreOK, SavedOK
<1>3. obj[f] # None /\ Return("success")
  BY <1>1, <1>2 DEF LeftToDrop
<1>4. table[f] = None /\ Whole(table, obj) /\ TypeOK
  BY <1>1, <1>2 DEF Sound, IndInv, WholeOK, Ends, Good
<1>5. pc' = "idle" /\ (call.op)' = "none"
  BY <1>3 DEF Return, NoCall
<1>6. /\ VersionsOK' /\ CreatingOK' /\ ChoiceOK' /\ LatestOK' /\ AlignedOK'
      /\ CurrentDb = table /\ CurrentDb' = table
  BY <1>1, <1>5, RequestStep
<1>7. Objects' = Objects
  <2>1. PICK o : o = obj'
    OBVIOUS
  <2>2. \A i \in Idx : table[i] # None => obj[i] = o[i]
    BY <1>1, <1>4, <2>1 DEF TypeOK
  <2>3. View(table, obj) = View(table, o)
    BY <1>4, <2>2, ViewKept
  <2> QED BY <1>6, <2>1, <2>3, ObjectsAre
<1> QED BY <1>1, <1>2, <1>3, <1>6, <1>7, Answers

-----------------------------------------------------------------------------
(* Restarts.                                                               *)

LEMMA BootStores ==
    ASSUME Sound, Boot, errors' = 0
    PROVE  StoreOK' /\ StoreStep
<1> PICK a : a = ActiveTable({})
  OBVIOUS
<1>0. VersionsOK /\ ChoiceOK /\ AlignedOK /\ TypeOK /\ errors = 0
  BY DEF Sound, StoreOK, IndInv
<1>1. /\ pc = "boot" /\ UNCHANGED <<obj, tab, nvc, result, crashes>>
      /\ a = None => PrepareFails
      /\ a # None => /\ active' = a /\ table' = tab[a].db /\ pc' = "clean" /\ call' = call
                     /\ swap' = IF Rollback THEN swap ELSE tab[a].ver
  <2>1. PICK unread \in SUBSET {0, 1} :
            /\ IF unread = {} THEN UNCHANGED errors ELSE OneError
            /\ LET t == ActiveTable(unread)
               IN  IF t = None THEN PrepareFails
                   ELSE /\ active' = t /\ table' = tab[t].db
                        /\ swap' = IF Rollback THEN swap ELSE tab[t].ver
                        /\ pc' = "clean" /\ UNCHANGED call
    BY DEF Boot
  <2>2. unread = {}
    BY <1>0, <2>1 DEF OneError
  <2> QED BY <2>1, <2>2 DEF Boot, persistent
<1>2. call.op = "init" /\ Starting
  BY <1>1, Points DEF Starting
<1>3. (ActiveTable({}))' = a /\ \A t \in {0, 1} : (IsTab(t)' <=> IsTab(t)) /\ tab'[t] = tab[t]
  BY <1>1, ChoiceKept
<1>4. CASE a = None
  <2>1. NoTables /\ \A t \in {0, 1} : ~IsTab(t) /\ ~IsTab(t)'
    BY <1>0, <1>1, <1>3, <1>4 DEF ChoiceOK, NoTables
  <2>2. /\ (call.op)' = "init" /\ pc' \in {"dead", SaveStart} /\ active' \in {0, 1}
        /\ pc' # "dead" => table' = EmptyTable
        /\ swap' = 0 \/ swap' = swap
    BY <1>0, <1>1, <1>2, <1>4 DEF PrepareFails, InitCall, ram, TypeOK
  <2>3. /\ pc' \in {"dead", "increment", "write"} /\ (~Rollback => pc' # "increment")
        /\ Starting' /\ scratch' \in {0, 1} /\ EmptyTable' = EmptyTable
    <3>1. pc' \in {"dead", "increment", "write"} /\ (~Rollback => pc' # "increment")
      BY <2>2 DEF SaveStart
    <3>2. active' = 0 => scratch' = 1
      BY DEF scratch
    <3>3. active' = 1 => scratch' = 0
      BY DEF scratch
    <3> QED BY <2>2, <3>1, <3>2, <3>3 DEF Starting, EmptyTable
  <2>4. VersionsOK'
    <3>1. ~Rollback => swap' \in Swaps
      <4>1. 0 \in Swaps
        BY PsAssumption DEF Swaps
      <4> QED BY <1>0, <2>2, <4>1 DEF VersionsOK
    <3> QED BY <2>1, <2>3, <3>1 DEF VersionsOK, Swaps
  <2>5. CreatingOK'
    BY <2>1, <2>2, <2>3 DEF CreatingOK, NoTables
  <2>6. ChoiceOK'
    <3>1. ~(IsTab(scratch))'
      BY <2>1, <2>3 DEF IsTab
    <3> QED BY <2>3, <3>1 DEF ChoiceOK
  <2>7. AlignedOK'
    BY <1>0, <1>1, <2>1, <2>3 DEF AlignedOK, Ends
  <2>8. StoreOK'
    BY <2>2, <2>3, <2>4, <2>5, <2>6, <2>7 DEF StoreOK, LatestOK, PreparedOK, SavingOK, SavedOK
  <2>9. Blank /\ Blank'
    BY <1>2, <2>1, <2>3 DEF Blank
  <2>10. CurrentDb = EmptyTable /\ CurrentDb' = EmptyTable
    BY <2>9, DbInForce, DbInForceNext DEF InForce, EmptyTable
  <2>11. Objects' = Objects /\ StoreCall' = StoreCall
    BY <1>1, <1>2, <2>2, <2>10, ObjectsAre DEF StoreCall
  <2> QED BY <1>1, <2>8, <2>11 DEF StoreStep
<1>5. CASE a # None
  <2>1. a \in {0, 1} /\ IsTab(a)
    BY <1>5, ActiveTableIs DEF IsTab
  <2>2. pc' = "clean" /\ call' = call /\ active' = a /\ ~Starting' /\ (IsTab(active))'
        /\ (tab[active])' = tab[a]
    BY <1>1, <1>3, <1>5, <2>1 DEF Starting, IsTab
  <2>3. VersionsOK'
    <3>1. CASE Rollback
      BY <1>0, <1>1, <1>3, <2>2, <3>1 DEF VersionsOK
    <3>2. CASE ~Rollback
      <4>1. swap' = tab[a].ver /\ tab[a].ver \in Swaps
        BY <1>0, <1>1, <1>5, <2>1, <3>2 DEF VersionsOK
      <4> QED BY <1>0, <1>3, <2>2, <3>2, <4>1 DEF VersionsOK, Swaps
    <3> QED BY <3>1, <3>2
  <2>4. ChoiceOK'
    BY <1>3, <2>2 DEF ChoiceOK
  <2>5. AlignedOK'
    <3>1. CurrentTable = a /\ CurrentTable' = a
      BY <1>2, <2>2 DEF CurrentTable, Starting
    <3> QED BY <1>0, <1>1, <1>3, <2>2, <3>1 DEF AlignedOK, Ends
  <2>6. StoreOK'
    BY <2>2, <2>3, <2>4, <2>5
    DEF StoreOK, CreatingOK, LatestOK, PreparedOK, SavingOK, SavedOK
  <2>7. CurrentDb = tab[a].db
    BY <1>2, <1>5, <2>1 DEF CurrentDb, CurrentTable, Starting, IsTab
  <2>8. CurrentDb' = tab[a].db
    <3>1. Serving'
      BY <2>1, <2>2 DEF Serving
    <3> QED BY <2>2, <3>1, DbInForceNext DEF InForce
  <2>9. Objects' = Objects /\ StoreCall' = StoreCall
    BY <1>1, <1>2, <2>2, <2>7, <2>8, ObjectsAre DEF StoreCall
  <2> QED BY <1>1, <2>6, <2>9 DEF StoreStep
<1> QED BY <1>4, <1>5

LEMMA PowerFailureStores ==
    ASSUME Sound, PowerFailure, ~twice'
    PROVE  StoreOK' /\ StoreStep
<1>0. VersionsOK /\ ChoiceOK /\ AlignedOK /\ CreatingOK /\ TypeOK /\ crashes \in Nat
  BY DEF Sound, StoreOK, IndInv, CrashesOK
<1>1. /\ pc' = "boot" /\ (call.op)' = "init" /\ swap' = 0
      /\ result' = [status |-> "none", value |-> None]
      /\ UNCHANGED <<obj, tab, nvc>>
      /\ pc \in Saves => crashes' = crashes + 1
      /\ pc \notin Saves => crashes' = crashes
      /\ twice' = (twice \/ (Rollback /\ crashes' > 1))
  BY DEF PowerFailure, InitCall, persistent
<1>2. /\ (ActiveTable({}))' = ActiveTable({})
      /\ \A t \in {0, 1} : (IsTab(t)' <=> IsTab(t)) /\ tab'[t] = tab[t]
      /\ Starting' /\ (NoTables' <=> NoTables)
  BY <1>1, ChoiceKept DEF Starting, NoTables
<1>3. Rollback /\ pc \in Saves => crashes = 0
  <2>1. Rollback => ~(crashes' > 1)
    BY <1>1, Zenon
  <2> QED BY <1>0, <1>1, <2>1
<1>4. ~Starting \/ pc = "align" => ActiveTable({}) = active /\ active \in {0, 1}
  BY <1>3, ForceIsChosen, Points
<1>5. ActiveTable({}) # None \/ NoTables
  <2>1. CASE ~Starting \/ pc = "align"
    BY <1>4, <2>1, Numbers
  <2>2. CASE Starting /\ pc # "align"
    <3>1. pc \in {"boot", "dead", "increment", "write"}
      BY <2>2, Points DEF Starting
    <3> QED BY <1>0, <2>2, <3>1 DEF ChoiceOK, CreatingOK, Starting
  <2> QED BY <2>1, <2>2
<1>6. VersionsOK'
  <2>1. 0 \in Swaps
    BY PsAssumption DEF Swaps
  <2> QED BY <1>0, <1>1, <1>2, <2>1 DEF VersionsOK, Swaps
<1>7. ChoiceOK' /\ CreatingOK' /\ LatestOK'
  BY <1>1, <1>2, <1>5 DEF ChoiceOK, CreatingOK, LatestOK
<1>8. AlignedOK'
  <2>1. ASSUME crashes' = 0 PROVE pc # "align" /\ crashes = 0
    BY <1>0, <1>1, <2>1 DEF Saves
  <2>2. CurrentTable = ActiveTable({}) /\ CurrentTable' = ActiveTable({})
    BY <1>1, <1>2, <1>4 DEF CurrentTable, Starting
  <2> QED BY <1>0, <1>1, <1>2, <2>1, <2>2 DEF AlignedOK, Ends
<1>9. StoreOK'
  BY <1>1, <1>6, <1>7, <1>8 DEF StoreOK, PreparedOK, SavingOK, SavedOK
<1>10. CurrentDb' = CurrentDb
  <2>1. CurrentTable' = ActiveTable({}) /\ CurrentTable = ActiveTable({})
    BY <1>1, <1>2, <1>4 DEF CurrentTable, Starting
  <2> QED BY <1>1, <2>1 DEF CurrentDb, EmptyTable, Idx
<1>11. Objects' = Objects /\ StoreCall' = None
  BY <1>1, <1>10, ObjectsAre DEF StoreCall
<1>12. Store!PowerFailure
  BY <1>1, <1>11 DEF Store!PowerFailure
<1> QED BY <1>9, <1>12 DEF StoreStep, Store!Next

-----------------------------------------------------------------------------
(* The theorem.                                                            *)

LEMMA CrashesKept ==
    ASSUME CrashesOK, [Next]_vars
    PROVE  CrashesOK' /\ (~twice' => ~twice)
<1>1. \/ crashes' \in {crashes, 0} /\ twice' = twice
      \/ crashes' \in {crashes, crashes + 1} /\ twice' = (twice \/ (Rollback /\ crashes' > 1))
  <2>1. CASE Step
    BY <2>1 DEF Step, FreeFile, StoreObject, IncrementNvc1, WriteTable, AlignNvc, DropTable,
        DropObject, UndoStore, Boot, CleanTable, SaveSucceeds, SaveFails
  <2>2. CASE TearFile \/ PowerFailure
    BY <2>2 DEF TearFile, PowerFailure
  <2>3. CASE \/ \E u \in Uids, v \in Vals, once \in CreateFlags : Set(u, v, once)
             \/ \E u \in Uids : Remove(u)
             \/ \E u \in Uids : Get(u)
    BY <2>3 DEF Set, Remove, Get
  <2>4. CASE UNCHANGED vars
    BY <2>4 DEF vars
  <2> QED BY <2>1, <2>2, <2>3, <2>4 DEF Next
<1> QED BY <1>1, PsAssumption DEF CrashesOK

LEMMA ErrorsKept ==
    ASSUME errors \in Nat, [Next]_vars, errors' = 0
    PROVE  errors = 0
<1>1. errors' = errors \/ errors' = errors + 1
  <2>1. CASE Step
    BY <2>1 DEF Step, FreeFile, StoreObject, IncrementNvc1, WriteTable, AlignNvc, DropTable,
        DropObject, UndoStore, Boot, CleanTable, OneError
  <2>2. CASE TearFile \/ PowerFailure
    BY <2>2 DEF TearFile, PowerFailure
  <2>3. CASE \/ \E u \in Uids, v \in Vals, once \in CreateFlags : Set(u, v, once)
             \/ \E u \in Uids : Remove(u)
             \/ \E u \in Uids : Get(u)
    BY <2>3 DEF Set, Remove, Get, ReadOutcome, OneError
  <2>4. CASE UNCHANGED vars
    BY <2>4 DEF vars
  <2> QED BY <2>1, <2>2, <2>3, <2>4 DEF Next
<1> QED BY <1>1

LEMMA StepStores ==
    ASSUME Sound, Next, errors' = 0, ~twice'
    PROVE  StoreOK' /\ StoreStep
<1>1. ASSUME NEW u \in Uids, NEW v \in Vals, NEW once \in CreateFlags, Set(u, v, once)
      PROVE  StoreOK' /\ StoreStep
  BY <1>1, SetStores
<1>2. ASSUME NEW u \in Uids, Remove(u) PROVE StoreOK' /\ StoreStep
  BY <1>2, RemoveStores
<1>3. ASSUME NEW u \in Uids, Get(u) PROVE StoreOK' /\ StoreStep
  BY <1>3, GetStores
<1>4. CASE FreeFile \/ StoreObject \/ IncrementNvc1 \/ WriteTable \/ AlignNvc
  BY <1>4, FreeFileStores, StoreObjectStores, IncrementStores, WriteStores, AlignStores
<1>5. CASE DropTable \/ DropObject \/ Boot \/ CleanTable
  BY <1>5, DropTableStores, DropObjectStores, BootStores, CleanStores
<1>6. CASE UndoStore
  BY <1>6, Points DEF UndoStore
<1>7. CASE TearFile \/ PowerFailure
  BY <1>7, TearStores, PowerFailureStores
<1> QED BY <1>1, <1>2, <1>3, <1>4, <1>5, <1>6, <1>7 DEF Next, Step

LEMMA StoreUnchanged ==
    ASSUME Sound, UNCHANGED vars
    PROVE  StoreOK' /\ StoreStep
<1>1. UNCHANGED <<obj, tab, nvc, table, swap, active, pc, call, result, crashes>>
  BY DEF vars
<1>2. /\ (ActiveTable({}))' = ActiveTable({})
      /\ \A t \in {0, 1} : (IsTab(t)' <=> IsTab(t)) /\ tab'[t] = tab[t]
      /\ (Starting' <=> Starting) /\ (NoTables' <=> NoTables) /\ scratch' = scratch
      /\ ((IsTab(active))' <=> IsTab(active)) /\ ((IsTab(scratch))' <=> IsTab(scratch))
      /\ EmptyTable' = EmptyTable
  BY <1>1, ChoiceKept DEF Starting, NoTables, scratch, IsTab, EmptyTable
<1>3. VersionsOK' /\ CreatingOK' /\ ChoiceOK' /\ LatestOK' /\ AlignedOK'
  <2>1. CurrentTable' = CurrentTable
    BY <1>1, <1>2 DEF CurrentTable
  <2> QED BY <1>1, <1>2, <2>1
          DEF Sound, StoreOK, VersionsOK, CreatingOK, ChoiceOK, LatestOK, AlignedOK, Swaps
<1>4. PreparedOK' /\ SavingOK' /\ SavedOK'
  BY <1>1 DEF Sound, StoreOK, PreparedOK, SavingOK, SavedOK, SavesSet, SavesAgain, SavesRemove,
              LeftToDrop, Refused
<1>5. CurrentDb' = CurrentDb
  BY <1>1, <1>2 DEF CurrentDb, CurrentTable
<1>6. Objects' = Objects /\ StoreCall' = StoreCall
  BY <1>1, <1>5, ObjectsAre DEF StoreCall
<1> QED BY <1>1, <1>3, <1>4, <1>6 DEF StoreOK, StoreStep

LEMMA StoreBegins ==
    ASSUME Init
    PROVE  Store!Init /\ CrashesOK /\ StoreOK
<1>1. /\ tab = [t \in {0, 1} |-> None] /\ pc = "boot" /\ call.op = "init" /\ swap = 0
      /\ nvc = [i \in 1 .. 3 |-> 0] /\ crashes = 0 /\ twice = FALSE
      /\ result = [status |-> "none", value |-> None]
  BY DEF Init, InitCall
<1>2. NoTables /\ Starting /\ \A t \in {0, 1} : ~IsTab(t)
  BY <1>1 DEF NoTables, Starting, IsTab
<1>3. CrashesOK
  <2>1. twice \in BOOLEAN
    BY <1>1, Zenon
  <2> QED BY <1>1, <2>1 DEF CrashesOK
<1>4. StoreOK
  <2>1. 0 \in Swaps
    BY PsAssumption DEF Swaps
  <2>2. VersionsOK /\ AlignedOK
    BY <1>1, <1>2, <2>1 DEF VersionsOK, AlignedOK, Ends
  <2> QED BY <1>1, <1>2, <2>2
          DEF StoreOK, CreatingOK, ChoiceOK, LatestOK, PreparedOK, SavingOK, SavedOK
<1>5. Objects = [u \in Uids |-> None]
  <2>1. CurrentDb = EmptyTable
    BY <1>2, DbInForce DEF Blank, InForce
  <2>2. ASSUME NEW u \in Uids PROVE View(EmptyTable, obj)[u] = None
    <3>1. EntryIdx(EmptyTable, u) = None
      <4>1. PICK d : d = EmptyTable
        OBVIOUS
      <4>2. \A i \in Idx : d[i] = None
        BY <4>1 DEF EmptyTable
      <4>3. EntryIdx(d, u) = None
        BY <4>2, EntryIdxIs
      <4> QED BY <4>1, <4>3
    <3> QED BY <3>1 DEF View
  <2>3. View(EmptyTable, obj) = [u \in Uids |-> None]
    BY <2>2 DEF View
  <2> QED BY <2>1, <2>3, ObjectsAre
<1> QED BY <1>1, <1>3, <1>4, <1>5 DEF Store!Init, StoreCall

(* The inductive invariant of the refinement.                              *)
StoreInv == IndInv /\ CountersInOrder /\ CrashesOK /\ (errors = 0 /\ ~twice => StoreOK)

LEMMA StoreInvKept ==
    ASSUME StoreInv, [Next]_vars
    PROVE  /\ StoreInv'
           /\ [errors' = 0 /\ ~twice' => Store!Next]_<<Objects, StoreCall, result>>
<1>1. IndInv' /\ CountersInOrder' /\ CrashesOK' /\ (~twice' => ~twice)
  BY NextHolds, OrderPreserved, CrashesKept DEF StoreInv
<1>2. ASSUME errors' = 0, ~twice' PROVE StoreOK' /\ StoreStep
  <2>1. errors = 0
    BY <1>2, ErrorsKept DEF StoreInv, IndInv, TypeOK
  <2>2. Sound
    BY <1>1, <1>2, <2>1 DEF Sound, StoreInv, IndInv
  <2> QED BY <1>2, <2>2, StepStores, StoreUnchanged
<1> QED BY <1>1, <1>2 DEF StoreInv, StoreStep

(* Protected Storage implements the store that a client sees: a set or a   *)
(* remove takes effect with the write of the new table or not at all, and  *)
(* a restart after a power failure at any moment finds what the last       *)
(* completed change left, for every number of objects, restarts, table     *)
(* saves and roll overs of the swap count, until a call fails or, with     *)
(* rollback protection, power fails during the save that follows an        *)
(* interrupted one (ps_object_create, ps_object_delete,                    *)
(* ps_object_table_save_table, ps_set_active_object_table).                *)
THEOREM StoreImplemented == Spec => ImplementsStore
<1>1. Init => StoreInv /\ Store!Init
  <2>1. Init => CountersInOrder
    BY DEF Init, CountersInOrder
  <2> QED BY <2>1, InitHolds, StoreBegins DEF StoreInv
<1>2. StoreInv /\ [Next]_vars
          => /\ StoreInv'
             /\ [errors' = 0 /\ ~twice' => Store!Next]_<<Objects, StoreCall, result>>
  BY StoreInvKept
<1> QED BY <1>1, <1>2, PTL DEF Spec, ImplementsStore

=============================================================================
