----------------------- MODULE NvCountersFlashProofs -----------------------
(***************************************************************************)
(* Crash safety of the NV counters in flash, for any items, sectors,       *)
(* numbers of power failures and failing accesses.  The theorems are about *)
(* users that reset after a failed access: without the reset a later write *)
(* may lose counters (a finding of its own).                               *)
(***************************************************************************)
EXTENDS NvCountersFlash, TLAPS, SequenceTheorems

-----------------------------------------------------------------------------
(* The accesses that are left, read from the front.                        *)

AccessOps == {"erase", "zero", "data", "mark", "count", "swap"}

Accesses ==
    [op : AccessOps, area : Areas, sector : Sectors]
        \cup [op : {"set"}, area : {"main"}, sector : Sectors, item : Items,
              value : 0 .. MaxValue]

Cons(x, rest) == <<x>> \o rest

(* An operation op of area a in all sectors after the first n, then rest.  *)
Loop(op, a, n, rest) == [j \in 1 .. Last - n |-> Access(op, a, n + j)] \o rest

ThenSwap(a, rest) == Cons(Access("swap", a, Last), rest)
ThenCopy(a, rest) == Loop("data", a, 0, ThenSwap(a, rest))
ThenBackup(rest) == Loop("erase", "backup", 0, ThenCopy("backup", rest))
ThenCount(rest) == Cons(Access("count", "main", Last), ThenBackup(rest))
AfterProgram(s, rest) ==
    IF s < Last THEN Cons(Access("data", "main", Last), ThenCount(rest)) ELSE ThenCount(rest)
ThenProgram(s, p, rest) == Cons(Access("erase", "main", s), Cons(p, AfterProgram(s, rest)))
ThenWrite(s, p, rest) ==
    IF s < Last THEN Cons(Access("erase", "main", Last), ThenProgram(s, p, rest))
    ELSE ThenProgram(s, p, rest)

SecondWrite == ThenWrite(Last, Access("data", "main", Last), << >>)
FirstWrite == ThenWrite(1, Access("mark", "main", 1), SecondWrite)

-----------------------------------------------------------------------------
(* The inductive invariant.                                                *)

AreaState == [init : {"erased", "zero", "ok"}, item : [Items -> 0 .. MaxValue],
              swap : 0 .. MaxSwap]

TypeOK == area \in [Areas -> AreaState]

Main == area["main"]
Backup == area["backup"]

(* Whenever the power fails, a backup that does not count as stale is that *)
(* of the area in use.                                                     *)
Current == Valid("main") /\ ~BackupIsStale => Main = Backup

ErasedTo(a, n) == (n > 0 => a.init = "erased") /\ (n = Last => a.swap = MaxSwap)

CopiedTo(a, from, n) ==
    /\ a.swap = MaxSwap
    /\ n > 0 => a.init = from.init
    /\ \A i \in Items : SectorOf[i] <= n => a.item[i] = from.item[i]

ZeroTo(a, n) ==
    /\ n > 0 => a.init = "zero"
    /\ a.swap = IF n = Last THEN 0 ELSE MaxSwap
    /\ \A i \in Items : SectorOf[i] <= n => a.item[i] = 0

(* restore_backup: the backup is whole until the area in use is.           *)
RestoreErases(n) ==
    /\ todo = Loop("erase", "main", n, ThenCopy("main", << >>))
    /\ ~Valid("main") /\ Valid("backup") /\ ErasedTo(Main, n)

RestoreCopies(n) ==
    /\ todo = Loop("data", "main", n, ThenSwap("main", << >>))
    /\ Valid("backup") /\ CopiedTo(Main, Backup, n)

(* make_backup: the area in use is whole and the backup stale.             *)
BackupErases(n, rest) ==
    /\ todo = Loop("erase", "backup", n, ThenCopy("backup", rest))
    /\ Valid("main") /\ BackupIsStale /\ ErasedTo(Backup, n)

BackupCopies(n, rest) ==
    /\ todo = Loop("data", "backup", n, ThenSwap("backup", rest))
    /\ Valid("main") /\ CopiedTo(Backup, Main, n)

(* create_or_restore_layout: no area is valid before the first write.      *)
CreateErases(n) ==
    /\ todo = Loop("erase", "main", n, Loop("zero", "main", 0, ThenBackup(FirstWrite)))
    /\ ~Valid("main") /\ ~Valid("backup") /\ ErasedTo(Main, n)

CreateZeroes(n) ==
    /\ todo = Loop("zero", "main", n, ThenBackup(FirstWrite))
    /\ ~Valid("backup") /\ ZeroTo(Main, n)

CreateBackupErases(n) ==
    /\ todo = Loop("erase", "backup", n, ThenCopy("backup", FirstWrite))
    /\ ZeroTo(Main, Last) /\ ~Valid("backup") /\ ErasedTo(Backup, n)

CreateBackupCopies(n) ==
    /\ todo = Loop("data", "backup", n, ThenSwap("backup", FirstWrite))
    /\ ZeroTo(Main, Last) /\ CopiedTo(Backup, Main, n)

(* write_otp_nv_counters_flash: the area in use differs from its backup    *)
(* only in the sectors that were erased, until it has a count again.       *)
WriteKind(s, p, rest) ==
    \/ /\ p.op = "set" /\ s = p.sector /\ s = SectorOf[p.item] /\ rest = << >>
       /\ Valid("backup") /\ p.value >= Backup.item[p.item]
    \/ p = Access("data", "main", Last) /\ s = Last /\ rest = << >> /\ Valid("backup")
    \/ p = Access("mark", "main", 1) /\ s = 1 /\ rest = SecondWrite /\ ZeroTo(Backup, Last)

Goal(p) == IF p.op = "set" THEN [Backup.item EXCEPT ![p.item] = p.value] ELSE Backup.item

WriteBegins(s, p, rest) ==
    todo = ThenWrite(s, p, rest) /\ WriteKind(s, p, rest) /\ Main = Backup

WriteErases(s, p, rest) ==
    /\ s < Last
    /\ todo = ThenProgram(s, p, rest) /\ WriteKind(s, p, rest)
    /\ Main.swap = MaxSwap /\ Main.init = Backup.init
    /\ \A i \in Items : SectorOf[i] # Last => Main.item[i] = Backup.item[i]

WritePrograms(s, p, rest) ==
    /\ todo = Cons(p, AfterProgram(s, rest)) /\ WriteKind(s, p, rest)
    /\ Main.swap = MaxSwap /\ (s # 1 => Main.init = Backup.init)
    /\ \A i \in Items : SectorOf[i] \notin {s, Last} => Main.item[i] = Backup.item[i]

WriteRestoresLast(s, p, rest) ==
    /\ s < Last
    /\ todo = AfterProgram(s, rest) /\ WriteKind(s, p, rest)
    /\ Main.swap = MaxSwap /\ Main.init = "ok"
    /\ \A i \in Items : SectorOf[i] # Last => Main.item[i] = Goal(p)[i]

WriteCounts(s, p, rest) ==
    /\ todo = ThenCount(rest) /\ WriteKind(s, p, rest)
    /\ Main.swap = MaxSwap /\ Main.init = "ok" /\ Main.item = Goal(p)

Writing(s, p, rest) ==
    \/ WriteBegins(s, p, rest) \/ WriteErases(s, p, rest) \/ WritePrograms(s, p, rest)
    \/ WriteRestoresLast(s, p, rest) \/ WriteCounts(s, p, rest)

Progress ==
    \/ \E n \in 0 .. Last : RestoreErases(n) \/ RestoreCopies(n)
    \/ \E n \in 0 .. Last, rest \in {<< >>, SecondWrite} :
           BackupErases(n, rest) \/ BackupCopies(n, rest)
    \/ \E n \in 0 .. Last :
           CreateErases(n) \/ CreateZeroes(n) \/ CreateBackupErases(n) \/ CreateBackupCopies(n)
    \/ \E s \in Sectors, p \in Accesses, rest \in {<< >>, SecondWrite} : Writing(s, p, rest)

Agree == up /\ ~failed /\ todo = << >> => Valid("main") /\ area["main"] = area["backup"]

IndInv == TypeOK /\ Current /\ Agree /\ (todo # << >> => Progress)

-----------------------------------------------------------------------------
(* Lists of accesses.                                                      *)

LEMMA ConsFacts ==
    ASSUME NEW x \in Accesses, NEW rest \in Seq(Accesses)
    PROVE  /\ Cons(x, rest) \in Seq(Accesses) /\ Cons(x, rest) # << >>
           /\ Head(Cons(x, rest)) = x /\ Tail(Cons(x, rest)) = rest
<1>1. <<x>> \in Seq(Accesses) /\ Len(<<x>>) = 1 /\ <<x>>[1] = x
  OBVIOUS
<1>2. /\ Cons(x, rest) \in Seq(Accesses) /\ Len(Cons(x, rest)) = Len(rest) + 1
      /\ Len(rest) \in Nat
      /\ \A j \in 1 .. Len(rest) + 1 :
             Cons(x, rest)[j] = IF j <= 1 THEN x ELSE rest[j - 1]
  BY <1>1, ConcatProperties DEF Cons
<1>3. Cons(x, rest) # << >> /\ Head(Cons(x, rest)) = x
  BY <1>2
<1>4. /\ Tail(Cons(x, rest)) \in Seq(Accesses) /\ Len(Tail(Cons(x, rest))) = Len(rest)
      /\ \A j \in 1 .. Len(rest) : Tail(Cons(x, rest))[j] = Cons(x, rest)[j + 1]
  BY <1>2, <1>3, HeadTailProperties
<1>5. \A j \in 1 .. Len(rest) : Tail(Cons(x, rest))[j] = rest[j]
  BY <1>2, <1>4
<1>6. Tail(Cons(x, rest)) = rest
  BY <1>4, <1>5, SeqEqual
<1> QED BY <1>2, <1>3, <1>6

LEMMA AccessType ==
    ASSUME NEW op \in AccessOps, NEW a \in Areas, NEW n \in Sectors
    PROVE  /\ Access(op, a, n) \in Accesses
           /\ Access(op, a, n).op = op /\ Access(op, a, n).area = a
           /\ Access(op, a, n).sector = n
BY DEF Access, Accesses

(* What is left of a loop after n sectors.                                 *)
Sweep(op, a, n) == [j \in 1 .. Last - n |-> Access(op, a, n + j)]

LEMMA SweepFacts ==
    ASSUME NEW op \in AccessOps, NEW a \in Areas, NEW n \in 0 .. Last
    PROVE  /\ Sweep(op, a, n) \in Seq(Accesses) /\ Len(Sweep(op, a, n)) = Last - n
           /\ n < Last => Sweep(op, a, n) = Cons(Access(op, a, n + 1), Sweep(op, a, n + 1))
           /\ n = Last => Sweep(op, a, n) = << >>
<1> USE NvAssumption
<1>0. Last \in Nat \ {0} /\ Sectors = 1 .. Last
  BY DEF Last, Sectors
<1>1. ASSUME NEW m \in 0 .. Last
      PROVE  /\ Sweep(op, a, m) \in Seq(Accesses) /\ Len(Sweep(op, a, m)) = Last - m
             /\ \A j \in 1 .. Last - m : Sweep(op, a, m)[j] = Access(op, a, m + j)
  <2>1. \A j \in 1 .. Last - m : Access(op, a, m + j) \in Accesses
    BY <1>0, AccessType
  <2>2. Last - m \in Nat
    BY <1>0
  <2> QED BY <2>1, <2>2 DEF Sweep
<1>2. ASSUME n < Last
      PROVE  Sweep(op, a, n) = Cons(Access(op, a, n + 1), Sweep(op, a, n + 1))
  <2>1. n + 1 \in 0 .. Last /\ n + 1 \in Sectors
    BY <1>0, <1>2
  <2>2. Access(op, a, n + 1) \in Accesses
    BY <2>1, AccessType
  <2> PICK x : x = Access(op, a, n + 1)
    OBVIOUS
  <2> PICK r : r = Sweep(op, a, n + 1)
    OBVIOUS
  <2>3. /\ r \in Seq(Accesses) /\ Len(r) = Last - (n + 1)
        /\ \A j \in 1 .. Last - (n + 1) : r[j] = Access(op, a, n + 1 + j)
    BY <1>1, <2>1
  <2>4. /\ Cons(x, r) \in Seq(Accesses) /\ Len(Cons(x, r)) = 1 + Len(r)
        /\ \A j \in 1 .. 1 + Len(r) : Cons(x, r)[j] = IF j <= 1 THEN x ELSE r[j - 1]
    <3>1. <<x>> \in Seq(Accesses) /\ Len(<<x>>) = 1 /\ <<x>>[1] = x
      BY <2>2
    <3> QED BY <2>3, <3>1, ConcatProperties DEF Cons
  <2>5. Len(Cons(x, r)) = Last - n
    <3>1. Len(r) = Last - (n + 1) /\ Len(Cons(x, r)) = 1 + Len(r)
      BY <2>3, <2>4
    <3>2. 1 + (Last - (n + 1)) = Last - n
      BY <1>0
    <3> QED BY <3>1, <3>2, Zenon
  <2>6. ASSUME NEW j \in 1 .. Last - n PROVE Sweep(op, a, n)[j] = Cons(x, r)[j]
    <3>1. Sweep(op, a, n)[j] = Access(op, a, n + j)
      BY <1>1
    <3>2. CASE j = 1
      <4>1. 1 \in 1 .. 1 + Len(r)
        BY <1>0, <1>2, <2>3
      <4> QED BY <2>4, <3>1, <3>2, <4>1
    <3>3. CASE j # 1
      <4>1. j - 1 \in 1 .. Last - (n + 1) /\ n + 1 + (j - 1) = n + j
        BY <1>0, <3>3
      <4>2. Cons(x, r)[j] = r[j - 1]
        <5>1. j \in 1 .. 1 + Len(r) /\ ~(j <= 1)
          BY <1>0, <2>3, <3>3
        <5> QED BY <2>4, <5>1
      <4>3. r[j - 1] = Access(op, a, n + j)
        BY <2>3, <4>1
      <4> QED BY <3>1, <4>2, <4>3
    <3> QED BY <3>2, <3>3
  <2>7. Sweep(op, a, n) \in Seq(Accesses) /\ Len(Sweep(op, a, n)) = Last - n
    BY <1>1
  <2> QED BY <2>4, <2>5, <2>6, <2>7, SeqEqual
<1>3. ASSUME n = Last PROVE Sweep(op, a, n) = << >>
  <2>1. Sweep(op, a, n) \in Seq(Accesses) /\ Len(Sweep(op, a, n)) = 0
    BY <1>0, <1>1, <1>3
  <2> QED BY <2>1, EmptySeq
<1> QED BY <1>1, <1>2, <1>3

LEMMA LoopFacts ==
    ASSUME NEW op \in AccessOps, NEW a \in Areas, NEW n \in 0 .. Last,
           NEW rest \in Seq(Accesses)
    PROVE  /\ Loop(op, a, n, rest) \in Seq(Accesses)
           /\ n < Last => Loop(op, a, n, rest)
                              = Cons(Access(op, a, n + 1), Loop(op, a, n + 1, rest))
           /\ n = Last => Loop(op, a, n, rest) = rest
<1> USE NvAssumption
<1>0. Last \in Nat \ {0} /\ Sectors = 1 .. Last
  BY DEF Last, Sectors
<1>1. \A m \in 0 .. Last : Loop(op, a, m, rest) = Sweep(op, a, m) \o rest
  BY DEF Loop, Sweep
<1>2. Loop(op, a, n, rest) \in Seq(Accesses)
  <2>1. Sweep(op, a, n) \in Seq(Accesses) /\ Loop(op, a, n, rest) = Sweep(op, a, n) \o rest
    BY <1>1, SweepFacts
  <2> QED BY <2>1, ConcatProperties
<1>3. ASSUME n < Last
      PROVE  Loop(op, a, n, rest) = Cons(Access(op, a, n + 1), Loop(op, a, n + 1, rest))
  <2>1. n + 1 \in 0 .. Last /\ n + 1 \in Sectors
    BY <1>0, <1>3
  <2> PICK x : x = Access(op, a, n + 1)
    OBVIOUS
  <2>2. x \in Accesses /\ <<x>> \in Seq(Accesses)
    BY <2>1, AccessType
  <2> PICK r : r = Sweep(op, a, n + 1)
    OBVIOUS
  <2>3. r \in Seq(Accesses) /\ Sweep(op, a, n) = <<x>> \o r
    BY <1>3, <2>1, SweepFacts DEF Cons
  <2>4. (<<x>> \o r) \o rest = <<x>> \o (r \o rest)
    BY <2>2, <2>3, ConcatAssociative
  <2> QED BY <1>1, <2>1, <2>3, <2>4 DEF Cons
<1>4. ASSUME n = Last PROVE Loop(op, a, n, rest) = rest
  BY <1>1, <1>4, SweepFacts, ConcatEmptySeq
<1> QED BY <1>2, <1>3, <1>4

LEMMA ListTypes ==
    ASSUME NEW rest \in Seq(Accesses)
    PROVE  /\ \A a \in Areas : /\ ThenSwap(a, rest) \in Seq(Accesses)
                               /\ ThenCopy(a, rest) \in Seq(Accesses)
           /\ ThenBackup(rest) \in Seq(Accesses)
           /\ ThenCount(rest) \in Seq(Accesses)
           /\ \A s \in Sectors : /\ AfterProgram(s, rest) \in Seq(Accesses)
                                 /\ \A p \in Accesses :
                                       /\ ThenProgram(s, p, rest) \in Seq(Accesses)
                                       /\ ThenWrite(s, p, rest) \in Seq(Accesses)
<1> USE NvAssumption
<1>0. Last \in Sectors /\ 0 \in 0 .. Last /\ "main" \in Areas /\ "backup" \in Areas
  BY DEF Last, Sectors, Areas
<1>1. \A op \in AccessOps, a \in Areas, n \in Sectors : Access(op, a, n) \in Accesses
  BY AccessType
<1>2. \A x \in Accesses, r \in Seq(Accesses) : Cons(x, r) \in Seq(Accesses)
  BY ConsFacts
<1>3. \A op \in AccessOps, a \in Areas, r \in Seq(Accesses) : Loop(op, a, 0, r) \in Seq(Accesses)
  BY <1>0, LoopFacts
<1>4. {"erase", "zero", "data", "mark", "count", "swap"} \subseteq AccessOps
  BY DEF AccessOps
<1>5. ASSUME NEW a \in Areas, NEW r \in Seq(Accesses)
      PROVE  ThenSwap(a, r) \in Seq(Accesses) /\ ThenCopy(a, r) \in Seq(Accesses)
  BY <1>0, <1>1, <1>2, <1>3, <1>4 DEF ThenSwap, ThenCopy
<1>6. ThenBackup(rest) \in Seq(Accesses)
  BY <1>0, <1>3, <1>4, <1>5 DEF ThenBackup
<1>7. ThenCount(rest) \in Seq(Accesses)
  BY <1>0, <1>1, <1>2, <1>4, <1>6 DEF ThenCount
<1>8. ASSUME NEW s \in Sectors PROVE AfterProgram(s, rest) \in Seq(Accesses)
  BY <1>0, <1>1, <1>2, <1>4, <1>7 DEF AfterProgram
<1>9. ASSUME NEW s \in Sectors, NEW p \in Accesses
      PROVE  ThenProgram(s, p, rest) \in Seq(Accesses) /\ ThenWrite(s, p, rest) \in Seq(Accesses)
  BY <1>0, <1>1, <1>2, <1>4, <1>8 DEF ThenProgram, ThenWrite
<1> QED BY <1>5, <1>6, <1>7, <1>8, <1>9

(* The accesses of three loops, one after the other.                       *)
LEMMA ThreeLists ==
    ASSUME NEW f \in Seq(Accesses), NEW g \in Seq(Accesses), NEW h \in Seq(Accesses)
    PROVE  (f \o g) \o h = f \o (g \o h)
BY ConcatAssociative

(* The operations of the code are these lists.                             *)
LEMMA EraseThenCopyIs ==
    ASSUME NEW a \in Areas, NEW rest \in Seq(Accesses)
    PROVE  /\ EraseThenCopy(a) \in Seq(Accesses)
           /\ EraseThenCopy(a) \o rest = Loop("erase", a, 0, ThenCopy(a, rest))
           /\ EraseThenCopy(a) = Loop("erase", a, 0, ThenCopy(a, << >>))
<1> USE NvAssumption
<1>0. Last \in Sectors /\ 0 \in 0 .. Last /\ {"erase", "data", "swap"} \subseteq AccessOps
      /\ Last \in Nat
  BY DEF Last, Sectors, AccessOps
<1> PICK E : E = Sweep("erase", a, 0)
  OBVIOUS
<1> PICK D : D = Sweep("data", a, 0)
  OBVIOUS
<1> PICK x : x = Access("swap", a, Last)
  OBVIOUS
<1>1. E \in Seq(Accesses) /\ D \in Seq(Accesses) /\ x \in Accesses /\ <<x>> \in Seq(Accesses)
  BY <1>0, SweepFacts, AccessType
<1>2. ForSectors("erase", a) = E /\ ForSectors("data", a) = D
  BY <1>0 DEF ForSectors, Sweep, Sectors, Last
<1>3. EraseThenCopy(a) = (E \o D) \o <<x>>
  BY <1>2 DEF EraseThenCopy
<1>4. E \o D \in Seq(Accesses) /\ D \o <<x>> \in Seq(Accesses)
  BY <1>1, ConcatProperties
<1>5. EraseThenCopy(a) = E \o (D \o <<x>>)
  BY <1>1, <1>3, ConcatAssociative, SMTT(40)
<1>6. EraseThenCopy(a) \in Seq(Accesses)
  BY <1>1, <1>4, <1>5, ConcatProperties
<1>7. ASSUME NEW r \in Seq(Accesses)
      PROVE  EraseThenCopy(a) \o r = Loop("erase", a, 0, ThenCopy(a, r))
  <2>1. <<x>> \o r \in Seq(Accesses)
    BY <1>1, ConcatProperties
  <2>2. (D \o <<x>>) \o r = D \o (<<x>> \o r)
    BY <1>1, <2>1, ConcatAssociative
  <2>3. (E \o (D \o <<x>>)) \o r = E \o ((D \o <<x>>) \o r)
    <3>1. PICK g \in Seq(Accesses) : g = D \o <<x>>
      BY <1>4
    <3>2. (E \o g) \o r = E \o (g \o r)
      BY <1>1, ThreeLists
    <3> QED BY <3>1, <3>2, Zenon
  <2>4. Loop("erase", a, 0, ThenCopy(a, r)) = E \o (D \o (<<x>> \o r))
    BY DEF Loop, Sweep, ThenCopy, ThenSwap, Cons
  <2> QED BY <1>5, <2>2, <2>3, <2>4
<1>8. << >> \in Seq(Accesses)
  BY EmptySeq
<1>9. EraseThenCopy(a) \o << >> = EraseThenCopy(a)
  BY <1>6, ConcatEmptySeq
<1> QED BY <1>6, <1>7, <1>8, <1>9

LEMMA WriteFlashIs ==
    ASSUME NEW s \in Sectors, NEW p \in Accesses, NEW rest \in Seq(Accesses)
    PROVE  /\ WriteFlash(s, p) \in Seq(Accesses)
           /\ WriteFlash(s, p) \o rest = ThenWrite(s, p, rest)
           /\ WriteFlash(s, p) = ThenWrite(s, p, << >>)
<1> USE NvAssumption
<1>0. Last \in Sectors /\ {"erase", "data", "count"} \subseteq AccessOps
      /\ {"main", "backup"} \subseteq Areas
  BY DEF Last, Sectors, AccessOps, Areas
<1> PICK x : x = Access("erase", "main", Last)
  OBVIOUS
<1> PICK y : y = Access("erase", "main", s)
  OBVIOUS
<1> PICK d : d = Access("data", "main", Last)
  OBVIOUS
<1> PICK n : n = Access("count", "main", Last)
  OBVIOUS
<1>1. x \in Accesses /\ y \in Accesses /\ d \in Accesses /\ n \in Accesses
  BY <1>0, AccessType
<1>2. MakeBackup \in Seq(Accesses)
      /\ \A r \in Seq(Accesses) : MakeBackup \o r = ThenBackup(r)
  BY <1>0, EraseThenCopyIs DEF MakeBackup, ThenBackup
<1>3. ASSUME NEW S \in Seq(Accesses), NEW T \in Seq(Accesses), NEW U \in Seq(Accesses)
      PROVE  (S \o T) \o U = S \o (T \o U) /\ S \o T \in Seq(Accesses)
  BY ConcatAssociative, ConcatProperties, SMTT(40)
<1>4. << >> \in Seq(Accesses) /\ \A S \in Seq(Accesses) : << >> \o S = S /\ S \o << >> = S
  BY EmptySeq, ConcatEmptySeq
<1>5. /\ <<x>> \in Seq(Accesses) /\ <<y>> \in Seq(Accesses) /\ <<p>> \in Seq(Accesses)
      /\ <<d>> \in Seq(Accesses) /\ <<n>> \in Seq(Accesses) /\ <<y, p>> \in Seq(Accesses)
      /\ <<y, p>> = <<y>> \o <<p>>
  BY <1>1
<1>6. CASE s < Last
  <2>1. WriteFlash(s, p) = (((<<x>> \o <<y, p>>) \o <<d>>) \o <<n>>) \o MakeBackup
    BY <1>6 DEF WriteFlash
  <2>2. WriteFlash(s, p) \in Seq(Accesses)
    BY <1>2, <1>3, <1>5, <2>1
  <2>3. ASSUME NEW r \in Seq(Accesses)
        PROVE  WriteFlash(s, p) \o r = ThenWrite(s, p, r)
    <3>0. ThenBackup(r) \in Seq(Accesses)
      BY ListTypes
    <3>1. WriteFlash(s, p) \o r = (((<<x>> \o <<y, p>>) \o <<d>>) \o <<n>>) \o ThenBackup(r)
      <4> PICK W : W = ((<<x>> \o <<y, p>>) \o <<d>>) \o <<n>>
        OBVIOUS
      <4> PICK V : V = <<x>> \o <<y, p>>
        OBVIOUS
      <4> PICK V2 : V2 = V \o <<d>>
        OBVIOUS
      <4>a. V \in Seq(Accesses)
        BY <1>5, ConcatProperties
      <4>b. V2 \in Seq(Accesses)
        BY <1>5, <4>a, ConcatProperties
      <4>c. W = V2 \o <<n>>
        OBVIOUS
      <4>1. W \in Seq(Accesses)
        BY <1>5, <4>b, <4>c, ConcatProperties
      <4>2. (W \o MakeBackup) \o r = W \o (MakeBackup \o r)
        BY <1>2, <1>3, <4>1, SMTT(40)
      <4> QED BY <1>2, <2>1, <4>2
    <3>2. @ = ((<<x>> \o <<y, p>>) \o <<d>>) \o ThenCount(r)
      BY <3>0, <1>3, <1>5 DEF ThenCount, Cons
    <3>3. ThenCount(r) \in Seq(Accesses)
      BY ListTypes
    <3>4. ((<<x>> \o <<y, p>>) \o <<d>>) \o ThenCount(r) = (<<x>> \o <<y, p>>) \o AfterProgram(s, r)
      BY <1>3, <1>5, <1>6, <3>3 DEF AfterProgram, Cons
    <3>5. AfterProgram(s, r) \in Seq(Accesses)
      BY ListTypes
    <3>6. (<<x>> \o <<y, p>>) \o AfterProgram(s, r) = <<x>> \o (<<y, p>> \o AfterProgram(s, r))
      BY <1>3, <1>5, <3>5
    <3>7. <<y, p>> \o AfterProgram(s, r) = ThenProgram(s, p, r)
      BY <1>3, <1>5, <3>5 DEF ThenProgram, Cons
    <3> QED BY <1>6, <3>1, <3>2, <3>4, <3>6, <3>7 DEF ThenWrite, Cons
  <2> QED BY <2>2, <2>3, <1>4
<1>7. CASE ~(s < Last)
  <2>1. WriteFlash(s, p) = (<<y, p>> \o <<n>>) \o MakeBackup
    <3>1. WriteFlash(s, p) = (((<< >> \o <<y, p>>) \o << >>) \o <<n>>) \o MakeBackup
      BY <1>7 DEF WriteFlash
    <3> QED BY <3>1, <1>4, <1>5
  <2>2. WriteFlash(s, p) \in Seq(Accesses)
    BY <1>2, <1>3, <1>5, <2>1
  <2>3. ASSUME NEW r \in Seq(Accesses)
        PROVE  WriteFlash(s, p) \o r = ThenWrite(s, p, r)
    <3>0. ThenBackup(r) \in Seq(Accesses) /\ ThenCount(r) \in Seq(Accesses)
      BY ListTypes
    <3>1. WriteFlash(s, p) \o r = (<<y, p>> \o <<n>>) \o ThenBackup(r)
      <4> PICK W : W = <<y, p>> \o <<n>>
        OBVIOUS
      <4>1. W \in Seq(Accesses)
        BY <1>3, <1>5
      <4>2. (W \o MakeBackup) \o r = W \o (MakeBackup \o r)
        BY <1>2, <1>3, <4>1, SMTT(40)
      <4> QED BY <1>2, <2>1, <4>2
    <3>2. (<<y, p>> \o <<n>>) \o ThenBackup(r) = <<y, p>> \o AfterProgram(s, r)
      BY <3>0, <1>3, <1>5, <1>7 DEF AfterProgram, ThenCount, Cons
    <3>5. AfterProgram(s, r) \in Seq(Accesses)
      BY ListTypes
    <3>7. <<y, p>> \o AfterProgram(s, r) = ThenProgram(s, p, r)
      BY <1>3, <1>5, <3>5 DEF ThenProgram, Cons
    <3> QED BY <1>7, <3>1, <3>2, <3>7 DEF ThenWrite
  <2> QED BY <2>2, <2>3, <1>4
<1> QED BY <1>6, <1>7

Lists == Seq(Accesses)
Cat(S, T) == S \o T

LEMMA CatFacts ==
    ASSUME NEW A \in Lists, NEW B \in Lists
    PROVE  /\ Cat(A, B) \in Lists
           /\ \A C \in Lists : Cat(Cat(A, B), C) = Cat(A, Cat(B, C))
<1>1. Cat(A, B) \in Lists
  BY ConcatProperties DEF Cat, Lists
<1>2. ASSUME NEW C \in Lists PROVE Cat(Cat(A, B), C) = Cat(A, Cat(B, C))
  BY ConcatAssociative DEF Cat, Lists
<1> QED BY <1>1, <1>2

LEMMA CreateLayoutIs ==
    /\ SecondWrite \in Seq(Accesses) /\ FirstWrite \in Seq(Accesses)
    /\ CreateLayout = Loop("erase", "main", 0, Loop("zero", "main", 0, ThenBackup(FirstWrite)))
<1> USE NvAssumption
<1>0. Last \in Sectors /\ 1 \in Sectors /\ {"erase", "data", "mark", "zero"} \subseteq AccessOps
      /\ {"main", "backup"} \subseteq Areas /\ 0 \in 0 .. Last
  BY DEF Last, Sectors, AccessOps, Areas
<1> PICK d : d = Access("data", "main", Last)
  OBVIOUS
<1> PICK m : m = Access("mark", "main", 1)
  OBVIOUS
<1>1. d \in Accesses /\ m \in Accesses /\ << >> \in Seq(Accesses)
  BY <1>0, AccessType, EmptySeq
<1>2. WriteFlash(Last, d) = SecondWrite /\ SecondWrite \in Seq(Accesses)
  BY <1>0, <1>1, WriteFlashIs DEF SecondWrite
<1>3. WriteFlash(1, m) \o SecondWrite = FirstWrite /\ WriteFlash(1, m) \in Seq(Accesses)
  BY <1>0, <1>1, <1>2, WriteFlashIs DEF FirstWrite
<1>4. FirstWrite \in Seq(Accesses)
  BY <1>2, <1>3, ConcatProperties
<1>5. MakeBackup \in Seq(Accesses) /\ MakeBackup \o FirstWrite = ThenBackup(FirstWrite)
  BY <1>0, <1>4, EraseThenCopyIs DEF MakeBackup, ThenBackup
<1> PICK E : E = Sweep("erase", "main", 0)
  OBVIOUS
<1> PICK Z : Z = Sweep("zero", "main", 0)
  OBVIOUS
<1>6. E \in Seq(Accesses) /\ Z \in Seq(Accesses)
  BY <1>0, SweepFacts
<1>7. ForSectors("erase", "main") = E /\ ForSectors("zero", "main") = Z
  BY DEF ForSectors, Sweep, Sectors, Last
<1>8. CreateLayout = (((E \o Z) \o MakeBackup) \o WriteFlash(1, m)) \o SecondWrite
  BY <1>2, <1>7 DEF CreateLayout
<1>9. CreateLayout = Cat(Cat(Cat(Cat(E, Z), MakeBackup), WriteFlash(1, m)), SecondWrite)
  BY <1>8 DEF Cat
<1>10. E \in Lists /\ Z \in Lists /\ MakeBackup \in Lists /\ WriteFlash(1, m) \in Lists
       /\ SecondWrite \in Lists
  BY <1>2, <1>3, <1>5, <1>6 DEF Lists
<1>11. CreateLayout = Cat(E, Cat(Z, Cat(MakeBackup, Cat(WriteFlash(1, m), SecondWrite))))
  <2> PICK F : F = WriteFlash(1, m)
    OBVIOUS
  <2>0. F \in Lists
    BY <1>10
  <2>1. Cat(E, Z) \in Lists /\ Cat(F, SecondWrite) \in Lists
        /\ Cat(MakeBackup, Cat(F, SecondWrite)) \in Lists
    BY <1>10, <2>0, CatFacts
  <2>2. Cat(Cat(E, Z), MakeBackup) \in Lists
    BY <1>10, <2>1, CatFacts
  <2>3. Cat(Cat(Cat(Cat(E, Z), MakeBackup), F), SecondWrite)
            = Cat(Cat(Cat(E, Z), MakeBackup), Cat(F, SecondWrite))
    BY <1>10, <2>0, <2>2, CatFacts
  <2>4. Cat(Cat(Cat(E, Z), MakeBackup), Cat(F, SecondWrite))
            = Cat(Cat(E, Z), Cat(MakeBackup, Cat(F, SecondWrite)))
    BY <1>10, <2>1, CatFacts
  <2>5. Cat(Cat(E, Z), Cat(MakeBackup, Cat(F, SecondWrite)))
            = Cat(E, Cat(Z, Cat(MakeBackup, Cat(F, SecondWrite))))
    BY <1>10, <2>1, CatFacts
  <2> QED BY <1>9, <2>3, <2>4, <2>5
<1>12. CreateLayout = E \o (Z \o (MakeBackup \o (WriteFlash(1, m) \o SecondWrite)))
  BY <1>11 DEF Cat
<1> QED BY <1>2, <1>3, <1>4, <1>5, <1>12 DEF Loop, Sweep

-----------------------------------------------------------------------------
(* What the accesses do to an area.                                        *)

LEMMA EraseIs ==
    ASSUME NEW a \in AreaState, NEW s \in Sectors
    PROVE  /\ Erase(a, s) \in AreaState
           /\ Erase(a, s).init = IF s = 1 THEN "erased" ELSE a.init
           /\ Erase(a, s).swap = IF s = Last THEN MaxSwap ELSE a.swap
           /\ \A i \in Items :
                  Erase(a, s).item[i] = IF SectorOf[i] = s THEN MaxValue ELSE a.item[i]
<1> USE NvAssumption
<1> PICK f : f = In(s, [i \in Items |-> MaxValue], a.item)
  OBVIOUS
<1>1. f \in [Items -> 0 .. MaxValue]
      /\ \A i \in Items : f[i] = IF SectorOf[i] = s THEN MaxValue ELSE a.item[i]
  BY DEF In, AreaState
<1>2. Erase(a, s) = [a EXCEPT !.item = f, !.init = IF s = 1 THEN "erased" ELSE a.init,
                         !.swap = IF s = Last THEN MaxSwap ELSE a.swap]
  BY DEF Erase
<1>3. Erase(a, s) = [init |-> IF s = 1 THEN "erased" ELSE a.init, item |-> f,
                    swap |-> IF s = Last THEN MaxSwap ELSE a.swap]
  BY <1>2 DEF AreaState
<1>4. MaxSwap \in 0 .. MaxSwap
  OBVIOUS
<1>5. Erase(a, s) \in AreaState
  BY <1>1, <1>3, <1>4 DEF AreaState
<1> QED BY <1>1, <1>3, <1>5

LEMMA CopyDataIs ==
    ASSUME NEW a \in AreaState, NEW from \in AreaState, NEW s \in Sectors
    PROVE  /\ CopyData(from, a, s) \in AreaState
           /\ CopyData(from, a, s).init = IF s = 1 THEN from.init ELSE a.init
           /\ CopyData(from, a, s).swap = a.swap
           /\ \A i \in Items : CopyData(from, a, s).item[i]
                                   = IF SectorOf[i] = s THEN from.item[i] ELSE a.item[i]
BY NvAssumption DEF CopyData, In, AreaState

LEMMA ZeroIs ==
    ASSUME NEW a \in AreaState, NEW s \in Sectors
    PROVE  /\ Zero(a, s) \in AreaState
           /\ Zero(a, s).init = IF s = 1 THEN "zero" ELSE a.init
           /\ Zero(a, s).swap = IF s = Last THEN 0 ELSE a.swap
           /\ \A i \in Items :
                  Zero(a, s).item[i] = IF SectorOf[i] = s THEN 0 ELSE a.item[i]
<1> USE NvAssumption
<1> PICK f : f = In(s, [i \in Items |-> 0], a.item)
  OBVIOUS
<1>1. f \in [Items -> 0 .. MaxValue]
      /\ \A i \in Items : f[i] = IF SectorOf[i] = s THEN 0 ELSE a.item[i]
  BY DEF In, AreaState
<1>2. Zero(a, s) = [a EXCEPT !.item = f, !.init = IF s = 1 THEN "zero" ELSE a.init,
                         !.swap = IF s = Last THEN 0 ELSE a.swap]
  BY DEF Zero
<1>3. Zero(a, s) = [init |-> IF s = 1 THEN "zero" ELSE a.init, item |-> f,
                    swap |-> IF s = Last THEN 0 ELSE a.swap]
  BY <1>2 DEF AreaState
<1>4. 0 \in 0 .. MaxSwap
  OBVIOUS
<1>5. Zero(a, s) \in AreaState
  BY <1>1, <1>3, <1>4 DEF AreaState
<1> QED BY <1>1, <1>3, <1>5

LEMMA NextSwapIs ==
    ASSUME NEW n \in 0 .. MaxSwap
    PROVE  /\ NextSwap(n) \in 0 .. MaxSwap
           /\ n # MaxSwap => ValidCount(NextSwap(n))
           /\ n \notin {MaxSwap, MaxSwap - 1} => n < NextSwap(n)
           /\ n = MaxSwap - 1 => NextSwap(n) = 1
<1> USE NvAssumption
<1>1. CASE n = MaxSwap
  <2>1. (n + 1) % (MaxSwap + 1) = 0
    BY <1>1
  <2> QED BY <1>1, <2>1 DEF NextSwap
<1>2. CASE n # MaxSwap
  <2>1. (n + 1) % (MaxSwap + 1) = n + 1
    BY <1>2
  <2> QED BY <1>2, <2>1 DEF NextSwap, ValidCount
<1> QED BY <1>1, <1>2

LEMMA SameArea ==
    ASSUME NEW a \in AreaState, NEW b \in AreaState, a.init = b.init, a.swap = b.swap,
           \A i \in Items : a.item[i] = b.item[i]
    PROVE  a = b
<1>1. a.item = b.item
  BY DEF AreaState
<1> QED BY <1>1 DEF AreaState

LEMMA AfterType ==
    ASSUME TypeOK, NEW x \in Accesses
    PROVE  After(x) \in AreaState
<1> USE NvAssumption
<1> PICK a : a = area[x.area]
  OBVIOUS
<1> PICK from : from = area[Other(x.area)]
  OBVIOUS
<1>0. x.area \in Areas /\ Other(x.area) \in Areas /\ x.sector \in Sectors /\ 1 \in Sectors
      /\ x.op \in AccessOps \cup {"set"}
  BY DEF Accesses, Other, Areas, Sectors
<1>1. a \in AreaState /\ from \in AreaState
  BY <1>0 DEF TypeOK
<1>2. CASE x.op = "erase"
  BY <1>0, <1>1, <1>2, EraseIs DEF After
<1>3. CASE x.op = "zero"
  BY <1>0, <1>1, <1>3, ZeroIs DEF After
<1>4. CASE x.op = "data"
  BY <1>0, <1>1, <1>4, CopyDataIs DEF After
<1>5. CASE x.op = "set"
  <2>1. x.item \in Items /\ x.value \in 0 .. MaxValue
    BY <1>5 DEF Accesses, AccessOps
  <2>2. After(x) = [CopyData(from, a, x.sector) EXCEPT !.item[x.item] = x.value]
    BY <1>5 DEF After
  <2>3. CopyData(from, a, x.sector) \in AreaState
    BY <1>0, <1>1, CopyDataIs
  <2> QED BY <2>1, <2>2, <2>3 DEF AreaState
<1>6. CASE x.op = "mark"
  <2>1. After(x) = [CopyData(from, a, 1) EXCEPT !.init = "ok"]
    BY <1>6 DEF After
  <2>2. CopyData(from, a, 1) \in AreaState
    BY <1>0, <1>1, CopyDataIs
  <2> QED BY <2>1, <2>2 DEF AreaState
<1>7. CASE x.op = "count"
  <2>1. After(x) = [a EXCEPT !.swap = NextSwap(from.swap)]
    BY <1>7 DEF After
  <2>2. NextSwap(from.swap) \in 0 .. MaxSwap
    BY <1>1, NextSwapIs DEF AreaState
  <2> QED BY <1>1, <2>1, <2>2 DEF AreaState
<1>8. CASE x.op = "swap"
  <2>1. After(x) = [a EXCEPT !.swap = from.swap]
    BY <1>8 DEF After
  <2> QED BY <1>1, <2>1 DEF AreaState
<1> QED BY <1>0, <1>2, <1>3, <1>4, <1>5, <1>6, <1>7, <1>8 DEF AccessOps

(* An access to the flash takes the first of the list and changes its area.*)
LEMMA AccessStep ==
    ASSUME TypeOK, FlashAccess, NEW x \in Accesses, NEW rest \in Seq(Accesses),
           todo = Cons(x, rest)
    PROVE  /\ todo' = rest /\ After(x) \in AreaState
           /\ TypeOK'
           /\ x.area = "main" => Main' = After(x) /\ Backup' = Backup
           /\ x.area = "backup" => Backup' = After(x) /\ Main' = Main
<1>1. Head(todo) = x /\ todo' = rest
  BY ConsFacts DEF FlashAccess
<1>2. area' = [area EXCEPT ![x.area] = After(x)] /\ x.area \in Areas
  BY <1>1 DEF FlashAccess, Accesses, Areas
<1>3. After(x) \in AreaState
  BY AfterType
<1>4. TypeOK'
  BY <1>2, <1>3 DEF TypeOK
<1> QED BY <1>1, <1>2, <1>3, <1>4 DEF TypeOK, Areas, Main, Backup

LEMMA LoopStep ==
    ASSUME TypeOK, FlashAccess, NEW op \in {"erase", "zero", "data"}, NEW a \in Areas,
           NEW n \in 0 .. Last, n < Last, NEW rest \in Seq(Accesses),
           todo = Loop(op, a, n, rest)
    PROVE  /\ todo' = Loop(op, a, n + 1, rest) /\ TypeOK' /\ n + 1 \in Sectors
           /\ n + 1 \in 0 .. Last
           /\ area'[a] = CASE op = "erase" -> Erase(area[a], n + 1)
                           [] op = "zero" -> Zero(area[a], n + 1)
                           [] op = "data" -> CopyData(area[Other(a)], area[a], n + 1)
           /\ area'[Other(a)] = area[Other(a)]
<1> USE NvAssumption
<1>1. n + 1 \in Sectors /\ n + 1 \in 0 .. Last /\ op \in AccessOps
  BY DEF Sectors, Last, AccessOps
<1> PICK x : x = Access(op, a, n + 1)
  OBVIOUS
<1>2. x \in Accesses /\ x.op = op /\ x.area = a /\ x.sector = n + 1
  BY <1>1, AccessType
<1> PICK r : r = Loop(op, a, n + 1, rest)
  OBVIOUS
<1>3. r \in Seq(Accesses) /\ todo = Cons(x, r)
  BY <1>1, LoopFacts
<1>4. /\ todo' = r /\ TypeOK'
      /\ x.area = "main" => Main' = After(x) /\ Backup' = Backup
      /\ x.area = "backup" => Backup' = After(x) /\ Main' = Main
  BY <1>2, <1>3, AccessStep
<1>5. area'[a] = After(x) /\ area'[Other(a)] = area[Other(a)]
  BY <1>2, <1>4 DEF Main, Backup, Areas, Other
<1>6. After(x) = CASE op = "erase" -> Erase(area[a], n + 1)
                   [] op = "zero" -> Zero(area[a], n + 1)
                   [] op = "data" -> CopyData(area[Other(a)], area[a], n + 1)
  BY <1>2 DEF After
<1> QED BY <1>1, <1>4, <1>5, <1>6

LEMMA LoopNotEmpty ==
    ASSUME NEW op \in AccessOps, NEW a \in Areas, NEW n \in 0 .. Last,
           NEW rest \in Seq(Accesses), rest # << >>
    PROVE  Loop(op, a, n, rest) # << >>
<1> USE NvAssumption
<1>1. CASE n = Last
  BY <1>1, LoopFacts
<1>2. CASE n < Last
  <2>1. n + 1 \in Sectors /\ n + 1 \in 0 .. Last
    BY <1>2 DEF Sectors, Last
  <2>2. Access(op, a, n + 1) \in Accesses
    BY <2>1, AccessType
  <2>3. Loop(op, a, n + 1, rest) \in Seq(Accesses)
    BY <2>1, LoopFacts
  <2>4. Loop(op, a, n, rest) = Cons(Access(op, a, n + 1), Loop(op, a, n + 1, rest))
    BY <1>2, LoopFacts
  <2> QED BY <2>2, <2>3, <2>4, ConsFacts
<1>3. n < Last \/ n = Last
  BY DEF Last
<1> QED BY <1>1, <1>2, <1>3

LEMMA ListsNotEmpty ==
    ASSUME NEW rest \in Seq(Accesses)
    PROVE  /\ \A a \in Areas : ThenSwap(a, rest) # << >> /\ ThenCopy(a, rest) # << >>
           /\ ThenBackup(rest) # << >> /\ ThenCount(rest) # << >>
           /\ \A s \in Sectors : /\ AfterProgram(s, rest) # << >>
                                 /\ \A p \in Accesses : /\ ThenProgram(s, p, rest) # << >>
                                                       /\ ThenWrite(s, p, rest) # << >>
<1> USE NvAssumption
<1>0. Last \in Sectors /\ 0 \in 0 .. Last /\ "main" \in Areas /\ "backup" \in Areas
      /\ {"erase", "zero", "data", "mark", "count", "swap"} \subseteq AccessOps
  BY DEF Last, Sectors, Areas, AccessOps
<1>1. \A op \in AccessOps, a \in Areas, n \in Sectors : Access(op, a, n) \in Accesses
  BY AccessType
<1>2. \A x \in Accesses, r \in Seq(Accesses) : Cons(x, r) # << >> /\ Cons(x, r) \in Seq(Accesses)
  BY ConsFacts
<1>3. \A op \in AccessOps, a \in Areas, r \in Seq(Accesses) :
          r # << >> => Loop(op, a, 0, r) # << >>
  BY <1>0, LoopNotEmpty
<1>4. ASSUME NEW a \in Areas PROVE ThenSwap(a, rest) # << >> /\ ThenSwap(a, rest) \in Seq(Accesses)
  BY <1>0, <1>1, <1>2 DEF ThenSwap
<1>5. ASSUME NEW a \in Areas PROVE ThenCopy(a, rest) # << >> /\ ThenCopy(a, rest) \in Seq(Accesses)
  BY <1>0, <1>3, <1>4, ListTypes DEF ThenCopy
<1>6. ThenBackup(rest) # << >> /\ ThenBackup(rest) \in Seq(Accesses)
  BY <1>0, <1>3, <1>5, ListTypes DEF ThenBackup
<1>7. ThenCount(rest) # << >> /\ ThenCount(rest) \in Seq(Accesses)
  BY <1>0, <1>1, <1>2, <1>6 DEF ThenCount
<1>8. ASSUME NEW s \in Sectors
      PROVE  AfterProgram(s, rest) # << >> /\ AfterProgram(s, rest) \in Seq(Accesses)
  BY <1>0, <1>1, <1>2, <1>7 DEF AfterProgram
<1>9. ASSUME NEW s \in Sectors, NEW p \in Accesses
      PROVE  ThenProgram(s, p, rest) # << >> /\ ThenProgram(s, p, rest) \in Seq(Accesses)
  BY <1>0, <1>1, <1>2, <1>8 DEF ThenProgram
<1>10. ASSUME NEW s \in Sectors, NEW p \in Accesses PROVE ThenWrite(s, p, rest) # << >>
  BY <1>0, <1>1, <1>2, <1>9 DEF ThenWrite
<1> QED BY <1>4, <1>5, <1>6, <1>7, <1>8, <1>9, <1>10

-----------------------------------------------------------------------------
(* What the next boot finds.                                               *)

Same == (Exists' <=> Exists) /\ Shown' = Shown

(* What each access must do but for the count that ends a write, ...       *)
Moves ==
    /\ TypeOK' /\ Current' /\ Same
    /\ todo' # << >> => Progress'
    /\ todo' = << >> => Valid("main")' /\ Main' = Backup'

(* ... and what the count does.                                            *)
Commits ==
    /\ TypeOK' /\ Current' /\ (Same \/ Store!Next)
    /\ todo' # << >> /\ Progress'

LEMMA BackupKept ==
    ASSUME ~Valid("main") \/ Main = Backup, ~Valid("main")', Backup' = Backup
    PROVE  Same /\ Current'
<1>1. Current'
  BY DEF Current
<1>2. Valid("backup")' <=> Valid("backup")
  BY DEF Valid, Backup
<1>3. Valid("main") => Main = Backup /\ Valid("backup")
  BY DEF Valid, Main, Backup
<1>4. Exists' <=> Exists
  BY <1>2, <1>3 DEF Exists
<1>5. Shown' = Shown
  <2>1. CASE Valid("backup")
    <3>1. Shown = Backup.item
      <4>1. CASE Valid("main")
        BY <1>3, <4>1 DEF Shown, Exists, Holds, Main, Backup
      <4>2. CASE ~Valid("main")
        BY <2>1, <4>2 DEF Shown, Exists, Holds, Backup
      <4> QED BY <4>1, <4>2
    <3>2. Shown' = Backup'.item
      BY <1>2, <2>1 DEF Shown, Exists, Holds, Backup
    <3> QED BY <3>1, <3>2
  <2>2. CASE ~Valid("backup")
    <3>1. ~Exists /\ ~Exists'
      BY <1>2, <1>3, <2>2 DEF Exists
    <3> QED BY <3>1 DEF Shown
  <2> QED BY <2>1, <2>2
<1> QED BY <1>1, <1>4, <1>5 DEF Same

LEMMA MainKept ==
    ASSUME Valid("main"), Main' = Main, BackupIsStale' \/ Main' = Backup'
    PROVE  Same /\ Current' /\ Valid("main")'
<1>1. Valid("main")'
  BY DEF Valid, Main
<1>2. Current'
  BY DEF Current
<1>3. Shown' = Shown
  BY <1>1 DEF Shown, Exists, Holds, Main
<1> QED BY <1>1, <1>2, <1>3 DEF Same, Exists

LEMMA NothingKept ==
    ASSUME ~Exists, ~Exists'
    PROVE  Same /\ Current'
BY DEF Same, Current, Shown, Exists

-----------------------------------------------------------------------------
(* The phases of restore_backup, make_backup and create_or_restore_layout. *)

LEMMA Bounds ==
    /\ Last \in Nat \ {0} /\ Sectors = 1 .. Last /\ 0 \in 0 .. Last /\ Last \in Sectors
    /\ 1 \in Sectors /\ << >> \in Seq(Accesses) /\ SecondWrite \in Seq(Accesses)
    /\ FirstWrite \in Seq(Accesses)
    /\ "main" \in Areas /\ "backup" \in Areas /\ Other("main") = "backup"
    /\ Other("backup") = "main" /\ AccessOps = {"erase", "zero", "data", "mark", "count", "swap"}
BY NvAssumption, CreateLayoutIs, EmptySeq DEF Last, Sectors, Areas, Other, AccessOps

(* The swap that ends a copy makes the two areas the same.                 *)
LEMMA SwapStep ==
    ASSUME TypeOK, FlashAccess, NEW a \in Areas, NEW rest \in Seq(Accesses),
           todo = Loop("data", a, Last, ThenSwap(a, rest)),
           CopiedTo(area[a], area[Other(a)], Last)
    PROVE  /\ todo' = rest /\ TypeOK'
           /\ area'[a] = area[Other(a)] /\ area'[Other(a)] = area[Other(a)]
<1> USE NvAssumption
<1> PICK x : x = Access("swap", a, Last)
  OBVIOUS
<1>1. x \in Accesses /\ x.op = "swap" /\ x.area = a
  BY Bounds, AccessType
<1>2. ThenSwap(a, rest) \in Seq(Accesses) /\ Last \in 0 .. Last /\ "data" \in AccessOps
  <2>1. ThenSwap(a, rest) \in Seq(Accesses)
    BY ListTypes
  <2> QED BY <2>1, Bounds
<1>3. todo = Cons(x, rest)
  BY <1>2, LoopFacts DEF ThenSwap
<1>4. /\ todo' = rest /\ TypeOK' /\ After(x) \in AreaState
      /\ x.area = "main" => Main' = After(x) /\ Backup' = Backup
      /\ x.area = "backup" => Backup' = After(x) /\ Main' = Main
  BY <1>1, <1>3, AccessStep
<1>5. area'[a] = After(x) /\ area'[Other(a)] = area[Other(a)]
  BY <1>1, <1>4 DEF Main, Backup, Areas, Other
<1> PICK m : m = area[a]
  OBVIOUS
<1> PICK b : b = area[Other(a)]
  OBVIOUS
<1>6. m \in AreaState /\ b \in AreaState
  BY DEF TypeOK, Areas, Other
<1>7. After(x) = [m EXCEPT !.swap = b.swap]
  BY <1>1 DEF After
<1>8. After(x).init = m.init /\ After(x).item = m.item /\ After(x).swap = b.swap
  BY <1>6, <1>7 DEF AreaState
<1>9. m.init = b.init /\ \A i \in Items : m.item[i] = b.item[i]
  BY Bounds DEF CopiedTo
<1>10. After(x) = b
  BY <1>4, <1>6, <1>8, <1>9, SameArea
<1> QED BY <1>4, <1>5, <1>10

(* Erasing or copying one more sector.                                     *)
LEMMA ErasedMore ==
    ASSUME NEW a \in AreaState, NEW n \in 0 .. Last, n + 1 \in Sectors, ErasedTo(a, n)
    PROVE  ErasedTo(Erase(a, n + 1), n + 1)
<1>1. Erase(a, n + 1).init = "erased"
  <2>1. CASE n = 0
    BY <2>1, EraseIs
  <2>2. CASE n # 0
    BY <2>2, EraseIs DEF ErasedTo
  <2> QED BY <2>1, <2>2
<1> QED BY <1>1, EraseIs DEF ErasedTo

LEMMA CopiedMore ==
    ASSUME NEW a \in AreaState, NEW b \in AreaState, NEW n \in 0 .. Last, n + 1 \in Sectors,
           CopiedTo(a, b, n)
    PROVE  CopiedTo(CopyData(b, a, n + 1), b, n + 1)
<1> PICK k \in Sectors : k = n + 1
  OBVIOUS
<1> PICK c : c = CopyData(b, a, k)
  OBVIOUS
<1>0. /\ c.init = IF k = 1 THEN b.init ELSE a.init
      /\ c.swap = a.swap
      /\ \A i \in Items : c.item[i] = IF SectorOf[i] = k THEN b.item[i] ELSE a.item[i]
  <2>1. ASSUME NEW s \in Sectors
        PROVE  /\ CopyData(b, a, s).init = IF s = 1 THEN b.init ELSE a.init
               /\ CopyData(b, a, s).swap = a.swap
               /\ \A i \in Items : CopyData(b, a, s).item[i]
                                       = IF SectorOf[i] = s THEN b.item[i] ELSE a.item[i]
    BY CopyDataIs
  <2> QED BY <2>1
<1>1. c.init = b.init
  <2>1. CASE n = 0
    BY <1>0, <2>1
  <2>2. CASE n # 0
    BY <1>0, <2>2 DEF CopiedTo
  <2> QED BY <2>1, <2>2
<1>2. ASSUME NEW i \in Items, SectorOf[i] <= n + 1 PROVE c.item[i] = b.item[i]
  <2>1. SectorOf[i] \in Nat
    BY NvAssumption DEF Sectors
  <2>2. SectorOf[i] = n + 1 \/ SectorOf[i] <= n
    BY <1>2, <2>1
  <2> QED BY <1>0, <2>2 DEF CopiedTo
<1> QED BY <1>0, <1>1, <1>2 DEF CopiedTo

LEMMA RestoreErasesMoves ==
    ASSUME TypeOK, FlashAccess, NEW n \in 0 .. Last, n < Last, RestoreErases(n)
    PROVE  Moves
<1> USE NvAssumption
<1> PICK r : r = ThenCopy("main", << >>)
  OBVIOUS
<1>1. r \in Seq(Accesses) /\ r # << >> /\ todo = Loop("erase", "main", n, r)
  BY Bounds, ListTypes, ListsNotEmpty DEF RestoreErases
<1>2. /\ todo' = Loop("erase", "main", n + 1, r) /\ TypeOK' /\ n + 1 \in Sectors
      /\ n + 1 \in 0 .. Last
      /\ Main' = Erase(Main, n + 1) /\ Backup' = Backup
  BY <1>1, Bounds, LoopStep DEF Main, Backup
<1>3. todo' # << >>
  BY <1>1, <1>2, Bounds, LoopNotEmpty
<1>4. Main \in AreaState
  BY Bounds DEF TypeOK, Main
<1>5. ErasedTo(Main', n + 1)
  BY <1>2, <1>4, ErasedMore DEF RestoreErases
<1>6. Main'.init = "erased"
  BY <1>2, <1>5 DEF ErasedTo, Sectors
<1>7. ~Valid("main")' /\ (Valid("backup")' <=> Valid("backup"))
  BY <1>2, <1>6 DEF Valid, Main, Backup
<1>8. RestoreErases(n + 1)'
  BY <1>2, <1>5, <1>7 DEF RestoreErases
<1>9. Progress'
  BY <1>2, <1>8 DEF Progress
<1>10. Same /\ Current'
  BY <1>2, <1>7, BackupKept DEF RestoreErases
<1> QED BY <1>2, <1>3, <1>9, <1>10 DEF Moves

LEMMA RestoreCopiesMoves ==
    ASSUME TypeOK, FlashAccess, NEW n \in 0 .. Last, RestoreCopies(n)
    PROVE  Moves
<1> USE NvAssumption
<1> PICK r : r = ThenSwap("main", << >>)
  OBVIOUS
<1>1. r \in Seq(Accesses) /\ r # << >> /\ todo = Loop("data", "main", n, r)
  BY Bounds, ListTypes, ListsNotEmpty DEF RestoreCopies
<1>2. ~Valid("main") /\ Main \in AreaState /\ Backup \in AreaState
  BY Bounds DEF RestoreCopies, CopiedTo, Valid, ValidCount, Main, Backup, TypeOK
<1>3. CASE n < Last
  <2>2. /\ todo' = Loop("data", "main", n + 1, r) /\ TypeOK' /\ n + 1 \in Sectors
        /\ n + 1 \in 0 .. Last
        /\ Main' = CopyData(Backup, Main, n + 1) /\ Backup' = Backup
    BY <1>1, <1>3, Bounds, LoopStep DEF Main, Backup
  <2>3. todo' # << >>
    BY <1>1, <2>2, Bounds, LoopNotEmpty
  <2>4. CopiedTo(Main', Backup', n + 1)
    BY <1>2, <2>2, CopiedMore DEF RestoreCopies
  <2>5. ~Valid("main")'
    BY <2>4 DEF CopiedTo, Valid, ValidCount, Main
  <2>6. Valid("backup")' <=> Valid("backup")
    BY <2>2 DEF Valid, Backup
  <2>7. RestoreCopies(n + 1)'
    BY <2>2, <2>4, <2>6 DEF RestoreCopies
  <2>8. Progress'
    BY <2>2, <2>7 DEF Progress
  <2>9. Same /\ Current'
    BY <1>2, <2>2, <2>5, BackupKept
  <2> QED BY <2>2, <2>3, <2>8, <2>9 DEF Moves
<1>4. CASE n = Last
  <2>1. todo' = << >> /\ TypeOK' /\ Main' = Backup /\ Backup' = Backup
    BY <1>4, Bounds, SwapStep DEF RestoreCopies, Main, Backup
  <2>2. Valid("main")' /\ Valid("backup") /\ Valid("backup")'
    BY <2>1 DEF RestoreCopies, Valid, Main, Backup
  <2>3. Current'
    BY <2>1 DEF Current
  <2>4. Shown = Backup.item
    BY <1>2, <2>2 DEF Shown, Exists, Holds, Backup
  <2>5. Shown' = Main'.item
    BY <2>2 DEF Shown, Exists, Holds, Main
  <2>6. Same
    BY <2>1, <2>2, <2>4, <2>5 DEF Same, Exists
  <2> QED BY <2>1, <2>2, <2>3, <2>6 DEF Moves
<1> QED BY <1>3, <1>4, Bounds

LEMMA BackupErasesMoves ==
    ASSUME TypeOK, FlashAccess, NEW n \in 0 .. Last, n < Last,
           NEW rest \in {<< >>, SecondWrite}, BackupErases(n, rest)
    PROVE  Moves
<1> USE NvAssumption
<1> PICK r : r = ThenCopy("backup", rest)
  OBVIOUS
<1>0. rest \in Seq(Accesses)
  BY Bounds
<1>1. r \in Seq(Accesses) /\ r # << >> /\ todo = Loop("erase", "backup", n, r)
  BY <1>0, Bounds, ListTypes, ListsNotEmpty DEF BackupErases
<1>2. /\ todo' = Loop("erase", "backup", n + 1, r) /\ TypeOK' /\ n + 1 \in Sectors
      /\ n + 1 \in 0 .. Last
      /\ Backup' = Erase(Backup, n + 1) /\ Main' = Main
  BY <1>1, Bounds, LoopStep DEF Main, Backup
<1>3. todo' # << >>
  BY <1>1, <1>2, Bounds, LoopNotEmpty
<1>4. Backup \in AreaState
  BY Bounds DEF TypeOK, Backup
<1>5. ErasedTo(Backup', n + 1)
  BY <1>2, <1>4, ErasedMore DEF BackupErases
<1>6. Backup'.swap = MaxSwap \/ Backup'.swap = Backup.swap
  BY <1>2, <1>4, EraseIs
<1>7. BackupIsStale'
  <2>1. CASE Backup'.swap = MaxSwap
    BY <2>1 DEF BackupIsStale, ValidCount, Backup
  <2>2. CASE Backup'.swap = Backup.swap
    BY <1>2, <2>2 DEF BackupErases, BackupIsStale, Main, Backup
  <2> QED BY <1>6, <2>1, <2>2
<1>8. Same /\ Current' /\ Valid("main")'
  BY <1>2, <1>7, MainKept DEF BackupErases
<1>9. BackupErases(n + 1, rest)'
  BY <1>2, <1>5, <1>7, <1>8 DEF BackupErases
<1>10. Progress'
  BY <1>2, <1>9 DEF Progress
<1> QED BY <1>2, <1>3, <1>8, <1>10 DEF Moves

LEMMA BackupCopiesMoves ==
    ASSUME TypeOK, FlashAccess, NEW n \in 0 .. Last,
           NEW rest \in {<< >>, SecondWrite}, BackupCopies(n, rest)
    PROVE  Moves
<1> USE NvAssumption
<1> PICK r : r = ThenSwap("backup", rest)
  OBVIOUS
<1>0. rest \in Seq(Accesses)
  BY Bounds
<1>1. r \in Seq(Accesses) /\ r # << >> /\ todo = Loop("data", "backup", n, r)
  BY <1>0, Bounds, ListTypes, ListsNotEmpty DEF BackupCopies
<1>2. Valid("main") /\ Main \in AreaState /\ Backup \in AreaState
  BY Bounds DEF BackupCopies, Main, Backup, TypeOK
<1>3. CASE n < Last
  <2>2. /\ todo' = Loop("data", "backup", n + 1, r) /\ TypeOK' /\ n + 1 \in Sectors
        /\ n + 1 \in 0 .. Last
        /\ Backup' = CopyData(Main, Backup, n + 1) /\ Main' = Main
    BY <1>1, <1>3, Bounds, LoopStep DEF Main, Backup
  <2>3. todo' # << >>
    BY <1>1, <2>2, Bounds, LoopNotEmpty
  <2>4. CopiedTo(Backup', Main', n + 1)
    BY <1>2, <2>2, CopiedMore DEF BackupCopies
  <2>5. BackupIsStale'
    BY <2>4 DEF CopiedTo, BackupIsStale, ValidCount, Backup
  <2>6. Same /\ Current' /\ Valid("main")'
    BY <1>2, <2>2, <2>5, MainKept
  <2>7. BackupCopies(n + 1, rest)'
    BY <2>2, <2>4, <2>6 DEF BackupCopies
  <2>8. Progress'
    BY <2>2, <2>7 DEF Progress
  <2> QED BY <2>2, <2>3, <2>6, <2>8 DEF Moves
<1>4. CASE n = Last
  <2>1. todo' = rest /\ TypeOK' /\ Backup' = Main /\ Main' = Main
    BY <1>0, <1>4, Bounds, SwapStep DEF BackupCopies, Main, Backup
  <2>2. Same /\ Current' /\ Valid("main")'
    BY <1>2, <2>1, MainKept
  <2>3. ASSUME rest # << >> PROVE Progress'
    <3> PICK d : d = Access("data", "main", Last)
      OBVIOUS
    <3>1. d \in Accesses
      BY Bounds, AccessType
    <3>2. todo' = ThenWrite(Last, d, << >>)
      BY <2>1, <2>3 DEF SecondWrite
    <3>3. Valid("backup")'
      BY <2>1, <2>2 DEF Valid, Main, Backup
    <3>4. WriteKind(Last, d, << >>)'
      BY <3>3 DEF WriteKind
    <3>5. WriteBegins(Last, d, << >>)'
      BY <2>1, <3>2, <3>4 DEF WriteBegins
    <3>6. Writing(Last, d, << >>)'
      BY <3>5 DEF Writing
    <3> QED BY <3>1, <3>6, Bounds DEF Progress
  <2>4. rest = << >> => Main' = Backup'
    BY <2>1
  <2> QED BY <2>1, <2>2, <2>3, <2>4 DEF Moves
<1> QED BY <1>3, <1>4, Bounds

LEMMA ZeroedMore ==
    ASSUME NEW a \in AreaState, NEW n \in 0 .. Last, n < Last, ZeroTo(a, n)
    PROVE  ZeroTo(Zero(a, n + 1), n + 1)
<1> USE NvAssumption
<1> PICK k \in Sectors : k = n + 1
  BY Bounds
<1> PICK c : c = Zero(a, k)
  OBVIOUS
<1>0. /\ c.init = IF k = 1 THEN "zero" ELSE a.init
      /\ c.swap = IF k = Last THEN 0 ELSE a.swap
      /\ \A i \in Items : c.item[i] = IF SectorOf[i] = k THEN 0 ELSE a.item[i]
  <2>1. ASSUME NEW s \in Sectors
        PROVE  /\ Zero(a, s).init = IF s = 1 THEN "zero" ELSE a.init
               /\ Zero(a, s).swap = IF s = Last THEN 0 ELSE a.swap
               /\ \A i \in Items : Zero(a, s).item[i] = IF SectorOf[i] = s THEN 0 ELSE a.item[i]
    BY ZeroIs
  <2> QED BY <2>1
<1>1. c.init = "zero"
  <2>1. CASE n = 0
    BY <1>0, <2>1
  <2>2. CASE n # 0
    BY <1>0, <2>2 DEF ZeroTo
  <2> QED BY <2>1, <2>2
<1>2. ASSUME NEW i \in Items, SectorOf[i] <= n + 1 PROVE c.item[i] = 0
  <2>1. SectorOf[i] \in Nat
    BY DEF Sectors
  <2>2. SectorOf[i] = n + 1 \/ SectorOf[i] <= n
    BY <1>2, <2>1
  <2> QED BY <1>0, <2>2 DEF ZeroTo
<1>3. c.swap = IF n + 1 = Last THEN 0 ELSE MaxSwap
  BY <1>0 DEF ZeroTo
<1> QED BY <1>1, <1>2, <1>3 DEF ZeroTo

LEMMA CreateErasesMoves ==
    ASSUME TypeOK, FlashAccess, NEW n \in 0 .. Last, n < Last, CreateErases(n)
    PROVE  Moves
<1> USE NvAssumption
<1> PICK r : r = Loop("zero", "main", 0, ThenBackup(FirstWrite))
  OBVIOUS
<1>1. r \in Seq(Accesses) /\ r # << >> /\ todo = Loop("erase", "main", n, r)
  <2>1. ThenBackup(FirstWrite) \in Seq(Accesses) /\ ThenBackup(FirstWrite) # << >>
    BY Bounds, ListTypes, ListsNotEmpty
  <2> QED BY <2>1, Bounds, LoopFacts, LoopNotEmpty DEF CreateErases
<1>2. /\ todo' = Loop("erase", "main", n + 1, r) /\ TypeOK' /\ n + 1 \in Sectors
      /\ n + 1 \in 0 .. Last
      /\ Main' = Erase(Main, n + 1) /\ Backup' = Backup
  BY <1>1, Bounds, LoopStep DEF Main, Backup
<1>3. todo' # << >>
  BY <1>1, <1>2, Bounds, LoopNotEmpty
<1>4. Main \in AreaState
  BY Bounds DEF TypeOK, Main
<1>5. ErasedTo(Main', n + 1)
  BY <1>2, <1>4, ErasedMore DEF CreateErases
<1>6. Main'.init = "erased"
  BY <1>2, <1>5 DEF ErasedTo, Sectors
<1>7. ~Valid("main")' /\ (Valid("backup")' <=> Valid("backup"))
  BY <1>2, <1>6 DEF Valid, Main, Backup
<1>8. CreateErases(n + 1)'
  BY <1>2, <1>5, <1>7 DEF CreateErases
<1>9. Progress'
  BY <1>2, <1>8 DEF Progress
<1>10. Same /\ Current'
  BY <1>2, <1>7, BackupKept DEF CreateErases
<1> QED BY <1>2, <1>3, <1>9, <1>10 DEF Moves

LEMMA CreateZeroesMoves ==
    ASSUME TypeOK, FlashAccess, NEW n \in 0 .. Last, n < Last, CreateZeroes(n)
    PROVE  Moves
<1> USE NvAssumption
<1> PICK r : r = ThenBackup(FirstWrite)
  OBVIOUS
<1>1. r \in Seq(Accesses) /\ r # << >> /\ todo = Loop("zero", "main", n, r)
  BY Bounds, ListTypes, ListsNotEmpty DEF CreateZeroes
<1>2. /\ todo' = Loop("zero", "main", n + 1, r) /\ TypeOK' /\ n + 1 \in Sectors
      /\ n + 1 \in 0 .. Last
      /\ Main' = Zero(Main, n + 1) /\ Backup' = Backup
  BY <1>1, Bounds, LoopStep DEF Main, Backup
<1>3. todo' # << >>
  BY <1>1, <1>2, Bounds, LoopNotEmpty
<1>4. Main \in AreaState
  BY Bounds DEF TypeOK, Main
<1>5. ZeroTo(Main, n) /\ ZeroTo(Main', n + 1)
  BY <1>2, <1>4, ZeroedMore DEF CreateZeroes
<1>6. ~Valid("main") /\ ~Valid("main")'
  BY <1>5 DEF ZeroTo, Valid, ValidCount, Main
<1>7. Valid("backup")' <=> Valid("backup")
  BY <1>2 DEF Valid, Backup
<1>8. CreateZeroes(n + 1)'
  BY <1>2, <1>5, <1>7 DEF CreateZeroes
<1>9. Progress'
  BY <1>2, <1>8 DEF Progress
<1>10. Same /\ Current'
  BY <1>2, <1>6, BackupKept
<1> QED BY <1>2, <1>3, <1>9, <1>10 DEF Moves

LEMMA CreateBackupErasesMoves ==
    ASSUME TypeOK, FlashAccess, NEW n \in 0 .. Last, n < Last, CreateBackupErases(n)
    PROVE  Moves
<1> USE NvAssumption
<1> PICK r : r = ThenCopy("backup", FirstWrite)
  OBVIOUS
<1>1. r \in Seq(Accesses) /\ r # << >> /\ todo = Loop("erase", "backup", n, r)
  BY Bounds, ListTypes, ListsNotEmpty DEF CreateBackupErases
<1>2. /\ todo' = Loop("erase", "backup", n + 1, r) /\ TypeOK' /\ n + 1 \in Sectors
      /\ n + 1 \in 0 .. Last
      /\ Backup' = Erase(Backup, n + 1) /\ Main' = Main
  BY <1>1, Bounds, LoopStep DEF Main, Backup
<1>3. todo' # << >>
  BY <1>1, <1>2, Bounds, LoopNotEmpty
<1>4. Backup \in AreaState
  BY Bounds DEF TypeOK, Backup
<1>5. ErasedTo(Backup', n + 1)
  BY <1>2, <1>4, ErasedMore DEF CreateBackupErases
<1>6. Backup'.init = "erased"
  BY <1>2, <1>5 DEF ErasedTo, Sectors
<1>7. ~Valid("backup")' /\ ~Valid("backup")
  BY <1>6 DEF Valid, Backup, CreateBackupErases
<1>8. ~Valid("main") /\ ~Valid("main")'
  BY <1>2 DEF CreateBackupErases, ZeroTo, Valid, ValidCount, Main
<1>9. CreateBackupErases(n + 1)'
  BY <1>2, <1>5, <1>7 DEF CreateBackupErases
<1>10. Progress'
  BY <1>2, <1>9 DEF Progress
<1>11. Same /\ Current'
  BY <1>7, <1>8, NothingKept DEF Exists
<1> QED BY <1>2, <1>3, <1>10, <1>11 DEF Moves

LEMMA CreateBackupCopiesMoves ==
    ASSUME TypeOK, FlashAccess, NEW n \in 0 .. Last, CreateBackupCopies(n)
    PROVE  Moves
<1> USE NvAssumption
<1> PICK r : r = ThenSwap("backup", FirstWrite)
  OBVIOUS
<1>1. r \in Seq(Accesses) /\ r # << >> /\ todo = Loop("data", "backup", n, r)
  BY Bounds, ListTypes, ListsNotEmpty DEF CreateBackupCopies
<1>2. Main \in AreaState /\ Backup \in AreaState
  BY Bounds DEF Main, Backup, TypeOK
<1>3. ~Valid("main") /\ ~Valid("backup")
  BY DEF CreateBackupCopies, CopiedTo, ZeroTo, Valid, ValidCount, Main, Backup
<1>4. CASE n < Last
  <2>2. /\ todo' = Loop("data", "backup", n + 1, r) /\ TypeOK' /\ n + 1 \in Sectors
        /\ n + 1 \in 0 .. Last
        /\ Backup' = CopyData(Main, Backup, n + 1) /\ Main' = Main
    BY <1>1, <1>4, Bounds, LoopStep DEF Main, Backup
  <2>3. todo' # << >>
    BY <1>1, <2>2, Bounds, LoopNotEmpty
  <2>4. CopiedTo(Backup', Main', n + 1)
    BY <1>2, <2>2, CopiedMore DEF CreateBackupCopies
  <2>5. ~Valid("backup")'
    BY <2>4 DEF CopiedTo, Valid, ValidCount, Backup
  <2>6. ~Valid("main")'
    BY <1>3, <2>2 DEF Valid, Main
  <2>7. CreateBackupCopies(n + 1)'
    BY <2>2, <2>4 DEF CreateBackupCopies
  <2>8. Progress'
    BY <2>2, <2>7 DEF Progress
  <2>9. Same /\ Current'
    BY <1>3, <2>5, <2>6, NothingKept DEF Exists
  <2> QED BY <2>2, <2>3, <2>8, <2>9 DEF Moves
<1>5. CASE n = Last
  <2>1. todo' = FirstWrite /\ TypeOK' /\ Backup' = Main /\ Main' = Main
    BY <1>5, Bounds, SwapStep DEF CreateBackupCopies, Main, Backup
  <2>2. ~Valid("main")' /\ ~Valid("backup")'
    BY <1>3, <2>1 DEF Valid, Main, Backup
  <2>3. Same /\ Current'
    BY <1>3, <2>2, NothingKept DEF Exists
  <2> PICK m : m = Access("mark", "main", 1)
    OBVIOUS
  <2>4. m \in Accesses
    BY Bounds, AccessType
  <2>5. todo' = ThenWrite(1, m, SecondWrite) /\ todo' # << >>
    BY <2>1, <2>4, Bounds, ListsNotEmpty DEF FirstWrite
  <2>6. WriteKind(1, m, SecondWrite)'
    BY <2>1 DEF WriteKind, CreateBackupCopies
  <2>7. WriteBegins(1, m, SecondWrite)'
    BY <2>1, <2>5, <2>6 DEF WriteBegins
  <2>8. Writing(1, m, SecondWrite)'
    BY <2>7 DEF Writing
  <2>9. Progress'
    BY <2>4, <2>8, Bounds DEF Progress
  <2> QED BY <2>1, <2>3, <2>5, <2>9 DEF Moves
<1> QED BY <1>4, <1>5, Bounds

-----------------------------------------------------------------------------
(* The phases of write_otp_nv_counters_flash.                              *)

LEMMA KindKept ==
    ASSUME NEW s \in Sectors, NEW p \in Accesses, NEW rest, WriteKind(s, p, rest),
           Backup' = Backup
    PROVE  WriteKind(s, p, rest)' /\ Goal(p)' = Goal(p)
<1>1. Valid("backup")' <=> Valid("backup")
  BY DEF Valid, Backup
<1>2. Goal(p)' = Goal(p)
  BY DEF Goal
<1> QED BY <1>1, <1>2 DEF WriteKind

(* What is programmed.                                                     *)
LEMMA KindFacts ==
    ASSUME TypeOK, NEW s \in Sectors, NEW p \in Accesses, NEW rest, WriteKind(s, p, rest)
    PROVE  /\ p.area = "main" /\ p.op \in {"set", "data", "mark"} /\ p.sector = s
           /\ p.op = "set" => /\ p.item \in Items /\ p.value \in 0 .. MaxValue
                              /\ s = SectorOf[p.item] /\ Valid("backup") /\ rest = << >>
                              /\ p.value >= Backup.item[p.item]
           /\ p.op = "data" => Valid("backup") /\ s = Last
           /\ p.op = "mark" => s = 1 /\ ZeroTo(Backup, Last)
           /\ Backup.swap # MaxSwap
<1> USE NvAssumption
<1>1. CASE p.op = "set" /\ s = p.sector /\ s = SectorOf[p.item] /\ rest = << >>
           /\ Valid("backup") /\ p.value >= Backup.item[p.item]
  <2>1. p \in [op : {"set"}, area : {"main"}, sector : Sectors, item : Items,
                value : 0 .. MaxValue]
    BY <1>1 DEF Accesses, AccessOps
  <2>2. Backup.swap # MaxSwap
    BY <1>1 DEF Valid, ValidCount, Backup
  <2> QED BY <1>1, <2>1, <2>2
<1>2. CASE p = Access("data", "main", Last) /\ s = Last /\ Valid("backup")
  BY <1>2 DEF Access, Valid, ValidCount, Backup
<1>3. CASE p = Access("mark", "main", 1) /\ s = 1 /\ ZeroTo(Backup, Last)
  BY <1>3 DEF Access, ZeroTo
<1> QED BY <1>1, <1>2, <1>3 DEF WriteKind

(* An erase, a program or a copy in the area in use keeps what the next    *)
(* boot finds: the backup.                                                 *)
LEMMA WriteStep ==
    ASSUME TypeOK, FlashAccess, NEW s \in Sectors, NEW p \in Accesses,
           NEW rest \in {<< >>, SecondWrite}, WriteKind(s, p, rest),
           Main.swap = MaxSwap \/ Main = Backup, Main'.swap = MaxSwap, Backup' = Backup,
           TypeOK', todo' # << >>, Writing(s, p, rest)'
    PROVE  Moves
<1>1. ~Valid("main") \/ Main = Backup
  BY DEF Valid, ValidCount, Main
<1>2. ~Valid("main")'
  BY DEF Valid, ValidCount, Main
<1>3. Same /\ Current'
  BY <1>1, <1>2, BackupKept
<1>4. Progress'
  BY DEF Progress
<1> QED BY <1>3, <1>4 DEF Moves

LEMMA WriteBeginsMoves ==
    ASSUME TypeOK, FlashAccess, NEW s \in Sectors, NEW p \in Accesses,
           NEW rest \in {<< >>, SecondWrite}, WriteBegins(s, p, rest)
    PROVE  Moves
<1> USE NvAssumption
<1>0. rest \in Seq(Accesses) /\ Main \in AreaState
  BY Bounds DEF TypeOK, Main
<1> PICK x : x = Access("erase", "main", Last)
  OBVIOUS
<1>1. x \in Accesses /\ x.op = "erase" /\ x.area = "main" /\ x.sector = Last
  BY Bounds, AccessType
<1>2. After(x) = Erase(Main, Last)
  BY <1>1 DEF After, Main
<1> PICK r : r = IF s < Last THEN ThenProgram(s, p, rest) ELSE Cons(p, AfterProgram(s, rest))
  OBVIOUS
<1>3. r \in Seq(Accesses) /\ r # << >>
  BY <1>0, ListTypes, ListsNotEmpty, ConsFacts
<1>4. todo = Cons(x, r)
  <2>1. CASE s < Last
    BY <2>1 DEF WriteBegins, ThenWrite
  <2>2. CASE ~(s < Last)
    <3>1. s = Last
      BY <2>2, Bounds
    <3> QED BY <2>2, <3>1 DEF WriteBegins, ThenWrite, ThenProgram
  <2> QED BY <2>1, <2>2
<1>5. todo' = r /\ TypeOK' /\ Main' = Erase(Main, Last) /\ Backup' = Backup
  BY <1>1, <1>2, <1>3, <1>4, AccessStep
<1>6. WriteKind(s, p, rest) /\ WriteKind(s, p, rest)'
  BY <1>5, KindKept DEF WriteBegins
<1>7. /\ Main'.swap = MaxSwap /\ (Last # 1 => Main'.init = Backup'.init)
      /\ \A i \in Items : SectorOf[i] # Last => Main'.item[i] = Backup'.item[i]
  BY <1>0, <1>5, EraseIs, Bounds DEF WriteBegins
<1>8. Writing(s, p, rest)'
  <2>1. CASE s < Last
    <3>1. Last # 1
      BY <2>1, Bounds
    <3>2. WriteErases(s, p, rest)'
      BY <1>5, <1>6, <1>7, <2>1, <3>1 DEF WriteErases
    <3> QED BY <3>2 DEF Writing
  <2>2. CASE ~(s < Last)
    <3>1. s = Last
      BY <2>2, Bounds
    <3>2. WritePrograms(s, p, rest)'
      BY <1>5, <1>6, <1>7, <2>2, <3>1 DEF WritePrograms
    <3> QED BY <3>2 DEF Writing
  <2> QED BY <2>1, <2>2
<1>9. Main = Backup
  BY DEF WriteBegins
<1> QED BY <1>3, <1>5, <1>6, <1>7, <1>8, <1>9, WriteStep

LEMMA WriteErasesMoves ==
    ASSUME TypeOK, FlashAccess, NEW s \in Sectors, NEW p \in Accesses,
           NEW rest \in {<< >>, SecondWrite}, WriteErases(s, p, rest)
    PROVE  Moves
<1> USE NvAssumption
<1>0. rest \in Seq(Accesses) /\ Main \in AreaState
  BY Bounds DEF TypeOK, Main
<1> PICK x : x = Access("erase", "main", s)
  OBVIOUS
<1>1. x \in Accesses /\ x.op = "erase" /\ x.area = "main" /\ x.sector = s
  BY Bounds, AccessType
<1>2. After(x) = Erase(Main, s)
  BY <1>1 DEF After, Main
<1> PICK r : r = Cons(p, AfterProgram(s, rest))
  OBVIOUS
<1>3. r \in Seq(Accesses) /\ r # << >>
  BY <1>0, ListTypes, ConsFacts
<1>4. todo = Cons(x, r)
  BY DEF WriteErases, ThenProgram
<1>5. todo' = r /\ TypeOK' /\ Main' = Erase(Main, s) /\ Backup' = Backup
  BY <1>1, <1>2, <1>3, <1>4, AccessStep
<1>6. WriteKind(s, p, rest) /\ WriteKind(s, p, rest)'
  BY <1>5, KindKept DEF WriteErases
<1>7. /\ Main'.swap = MaxSwap /\ (s # 1 => Main'.init = Backup'.init)
      /\ \A i \in Items : SectorOf[i] \notin {s, Last} => Main'.item[i] = Backup'.item[i]
  BY <1>0, <1>5, EraseIs, Bounds, SMTT(40) DEF WriteErases
<1>8. WritePrograms(s, p, rest)'
  BY <1>5, <1>6, <1>7 DEF WritePrograms
<1>9. Main.swap = MaxSwap
  BY DEF WriteErases
<1>10. Writing(s, p, rest)'
  BY <1>8 DEF Writing
<1> QED BY <1>3, <1>5, <1>6, <1>7, <1>9, <1>10, WriteStep

LEMMA GoalFacts ==
    ASSUME TypeOK, NEW s \in Sectors, NEW p \in Accesses, NEW rest, WriteKind(s, p, rest)
    PROVE  /\ Goal(p) \in [Items -> 0 .. MaxValue]
           /\ \A i \in Items : Goal(p)[i] = IF p.op = "set" /\ i = p.item THEN p.value
                                            ELSE Backup.item[i]
<1>1. Backup.item \in [Items -> 0 .. MaxValue]
  BY Bounds DEF TypeOK, AreaState, Backup
<1>2. p.op = "set" => p.item \in Items /\ p.value \in 0 .. MaxValue
  BY KindFacts
<1>3. CASE p.op = "set"
  <2>1. Goal(p) = [Backup.item EXCEPT ![p.item] = p.value]
    BY <1>3 DEF Goal
  <2> QED BY <1>1, <1>2, <1>3, <2>1
<1>4. CASE p.op # "set"
  BY <1>1, <1>4 DEF Goal
<1> QED BY <1>3, <1>4

LEMMA WriteProgramsMoves ==
    ASSUME TypeOK, FlashAccess, NEW s \in Sectors, NEW p \in Accesses,
           NEW rest \in {<< >>, SecondWrite}, WritePrograms(s, p, rest)
    PROVE  Moves
<1> USE NvAssumption
<1>0. rest \in Seq(Accesses) /\ Main \in AreaState /\ Backup \in AreaState
  BY Bounds DEF TypeOK, Main, Backup
<1> PICK r : r = AfterProgram(s, rest)
  OBVIOUS
<1>1. r \in Seq(Accesses) /\ r # << >> /\ todo = Cons(p, r)
  BY <1>0, ListTypes, ListsNotEmpty DEF WritePrograms
<1>2. WriteKind(s, p, rest)
  BY DEF WritePrograms
<1>3. /\ p.area = "main" /\ p.op \in {"set", "data", "mark"} /\ p.sector = s
      /\ p.op = "set" => p.item \in Items /\ p.value \in 0 .. MaxValue /\ Valid("backup")
                         /\ s = SectorOf[p.item]
      /\ p.op = "data" => Valid("backup") /\ s = Last
      /\ p.op = "mark" => s = 1
  BY <1>2, KindFacts
<1>4. todo' = r /\ TypeOK' /\ Main' = After(p) /\ Main' \in AreaState /\ Backup' = Backup
  BY <1>1, <1>3, AccessStep
<1>5. WriteKind(s, p, rest)' /\ Goal(p)' = Goal(p)
  BY <1>2, <1>4, KindKept
<1> PICK c : c = CopyData(Backup, Main, s)
  OBVIOUS
<1>6. /\ c \in AreaState
      /\ c.init = IF s = 1 THEN Backup.init ELSE Main.init
      /\ c.swap = Main.swap
      /\ \A i \in Items : c.item[i] = IF SectorOf[i] = s THEN Backup.item[i] ELSE Main.item[i]
  <2>1. ASSUME NEW k \in Sectors
        PROVE  /\ CopyData(Backup, Main, k) \in AreaState
               /\ CopyData(Backup, Main, k).init = IF k = 1 THEN Backup.init ELSE Main.init
               /\ CopyData(Backup, Main, k).swap = Main.swap
               /\ \A i \in Items : CopyData(Backup, Main, k).item[i]
                                       = IF SectorOf[i] = k THEN Backup.item[i] ELSE Main.item[i]
    BY <1>0, CopyDataIs
  <2> QED BY <2>1
<1>7. c.swap = MaxSwap /\ c.init = Backup.init
  BY <1>6 DEF WritePrograms
<1>8. \A i \in Items : SectorOf[i] = s \/ SectorOf[i] # Last => c.item[i] = Backup.item[i]
  BY <1>6 DEF WritePrograms
<1>9. /\ Main'.swap = MaxSwap /\ Main'.init = "ok"
      /\ \A i \in Items : SectorOf[i] = s \/ SectorOf[i] # Last => Main'.item[i] = Goal(p)[i]
  <2>0. \A i \in Items : Goal(p)[i] = IF p.op = "set" /\ i = p.item THEN p.value
                                     ELSE Backup.item[i]
    BY <1>2, GoalFacts
  <2>1. CASE p.op = "set"
    <3>1. Main' = [c EXCEPT !.item[p.item] = p.value]
      BY <1>3, <1>4, <2>1 DEF After, Main, Backup, Other
    <3>2. Main'.swap = c.swap /\ Main'.init = c.init
          /\ Main'.item = [c.item EXCEPT ![p.item] = p.value]
      BY <1>6, <3>1 DEF AreaState
    <3>3. c.item \in [Items -> 0 .. MaxValue]
      BY <1>6 DEF AreaState
    <3>4. \A i \in Items : Main'.item[i] = IF i = p.item THEN p.value ELSE c.item[i]
      BY <1>3, <2>1, <3>2, <3>3
    <3>5. Backup.init = "ok"
      BY <1>3, <2>1 DEF Valid, Backup
    <3> QED BY <1>7, <1>8, <2>0, <2>1, <3>2, <3>4, <3>5
  <2>2. CASE p.op = "data"
    <3>1. Main' = c
      BY <1>3, <1>4, <2>2 DEF After, Main, Backup, Other
    <3>2. Backup.init = "ok"
      BY <1>3, <2>2 DEF Valid, Backup
    <3> QED BY <1>7, <1>8, <2>0, <2>2, <3>1, <3>2
  <2>3. CASE p.op = "mark"
    <3>1. Main' = [c EXCEPT !.init = "ok"]
      BY <1>3, <1>4, <2>3 DEF After, Main, Backup, Other
    <3>2. Main'.swap = c.swap /\ Main'.init = "ok" /\ Main'.item = c.item
      BY <1>6, <3>1 DEF AreaState
    <3> QED BY <1>7, <1>8, <2>0, <2>3, <3>2
  <2> QED BY <1>3, <2>1, <2>2, <2>3
<1>10. Writing(s, p, rest)'
  <2>1. CASE s < Last
    <3>1. WriteRestoresLast(s, p, rest)'
      BY <1>4, <1>5, <1>9, <2>1 DEF WriteRestoresLast
    <3> QED BY <3>1 DEF Writing
  <2>2. CASE ~(s < Last)
    <3>1. s = Last
      BY <2>2, Bounds
    <3>2. Main'.item = Goal(p)
      <4>1. Main'.item \in [Items -> 0 .. MaxValue] /\ Goal(p) \in [Items -> 0 .. MaxValue]
        BY <1>2, <1>4, GoalFacts DEF AreaState
      <4>2. \A i \in Items : Main'.item[i] = Goal(p)[i]
        BY <1>9, <3>1
      <4> QED BY <4>1, <4>2
    <3>3. todo' = ThenCount(rest)
      BY <1>4, <2>2 DEF AfterProgram
    <3>4. WriteCounts(s, p, rest)'
      BY <1>5, <1>9, <3>2, <3>3 DEF WriteCounts
    <3> QED BY <3>4 DEF Writing
  <2> QED BY <2>1, <2>2
<1>11. Main.swap = MaxSwap
  BY DEF WritePrograms
<1> QED BY <1>1, <1>2, <1>4, <1>9, <1>10, <1>11, WriteStep

LEMMA WriteRestoresLastMoves ==
    ASSUME TypeOK, FlashAccess, NEW s \in Sectors, NEW p \in Accesses,
           NEW rest \in {<< >>, SecondWrite}, WriteRestoresLast(s, p, rest)
    PROVE  Moves
<1> USE NvAssumption
<1>0. rest \in Seq(Accesses) /\ Main \in AreaState /\ Backup \in AreaState /\ s < Last
  BY Bounds DEF TypeOK, Main, Backup, WriteRestoresLast
<1> PICK r : r = ThenCount(rest)
  OBVIOUS
<1> PICK x : x = Access("data", "main", Last)
  OBVIOUS
<1>1. x \in Accesses /\ x.op = "data" /\ x.area = "main" /\ x.sector = Last
  BY Bounds, AccessType
<1>2. r \in Seq(Accesses) /\ r # << >> /\ todo = Cons(x, r)
  BY <1>0, ListTypes, ListsNotEmpty DEF WriteRestoresLast, AfterProgram
<1>3. WriteKind(s, p, rest)
  BY DEF WriteRestoresLast
<1>4. todo' = r /\ TypeOK' /\ Main' = After(x) /\ Main' \in AreaState /\ Backup' = Backup
  BY <1>1, <1>2, AccessStep
<1>5. WriteKind(s, p, rest)' /\ Goal(p)' = Goal(p)
  BY <1>3, <1>4, KindKept
<1>6. Main' = CopyData(Backup, Main, Last)
  BY <1>1, <1>4 DEF After, Main, Backup, Other
<1>7. /\ Main'.init = Main.init /\ Main'.swap = Main.swap
      /\ \A i \in Items : Main'.item[i]
                              = IF SectorOf[i] = Last THEN Backup.item[i] ELSE Main.item[i]
  <2>1. Last # 1
    BY <1>0, Bounds
  <2>2. ASSUME NEW k \in Sectors
        PROVE  /\ CopyData(Backup, Main, k) \in AreaState
               /\ CopyData(Backup, Main, k).init = IF k = 1 THEN Backup.init ELSE Main.init
               /\ CopyData(Backup, Main, k).swap = Main.swap
               /\ \A i \in Items : CopyData(Backup, Main, k).item[i]
                                       = IF SectorOf[i] = k THEN Backup.item[i] ELSE Main.item[i]
    BY <1>0, CopyDataIs
  <2>3. Last \in Sectors
    BY Bounds
  <2> QED BY <1>6, <2>1, <2>2, <2>3
<1>8. Main'.item = Goal(p)
  <2>1. Main'.item \in [Items -> 0 .. MaxValue] /\ Goal(p) \in [Items -> 0 .. MaxValue]
    BY <1>3, <1>4, GoalFacts DEF AreaState
  <2>2. ASSUME NEW i \in Items PROVE Main'.item[i] = Goal(p)[i]
    <3>1. CASE SectorOf[i] = Last
      <4>1. p.op = "set" => SectorOf[p.item] = s
        BY <1>3, KindFacts
      <4>2. ~(p.op = "set" /\ i = p.item)
        BY <1>0, <3>1, <4>1, Bounds
      <4>3. Goal(p)[i] = Backup.item[i]
        BY <1>3, <4>2, GoalFacts
      <4> QED BY <1>7, <3>1, <4>3
    <3>2. CASE SectorOf[i] # Last
      BY <1>7, <3>2 DEF WriteRestoresLast
    <3> QED BY <3>1, <3>2
  <2> QED BY <2>1, <2>2
<1>9. Main'.swap = MaxSwap /\ Main.swap = MaxSwap /\ Main'.init = "ok"
  BY <1>7 DEF WriteRestoresLast
<1>10. WriteCounts(s, p, rest)'
  BY <1>4, <1>5, <1>8, <1>9 DEF WriteCounts
<1>11. Writing(s, p, rest)'
  BY <1>10 DEF Writing
<1> QED BY <1>2, <1>3, <1>4, <1>9, <1>11, WriteStep

(* The count makes the area in use valid and its backup stale: what was    *)
(* written is now what the next boot finds.                                *)
LEMMA WriteCountsCommits ==
    ASSUME TypeOK, FlashAccess, NEW s \in Sectors, NEW p \in Accesses,
           NEW rest \in {<< >>, SecondWrite}, WriteCounts(s, p, rest)
    PROVE  Commits
<1> USE NvAssumption
<1>0. rest \in Seq(Accesses) /\ Main \in AreaState /\ Backup \in AreaState
  BY Bounds DEF TypeOK, Main, Backup
<1> PICK r : r = ThenBackup(rest)
  OBVIOUS
<1> PICK x : x = Access("count", "main", Last)
  OBVIOUS
<1>1. x \in Accesses /\ x.op = "count" /\ x.area = "main" /\ x.sector = Last
  BY Bounds, AccessType
<1>2. r \in Seq(Accesses) /\ r # << >> /\ todo = Cons(x, r)
  BY <1>0, ListTypes, ListsNotEmpty DEF WriteCounts, ThenCount
<1>3. WriteKind(s, p, rest)
  BY DEF WriteCounts
<1>4. todo' = r /\ TypeOK' /\ Main' = After(x) /\ Main' \in AreaState /\ Backup' = Backup
  BY <1>1, <1>2, AccessStep
<1> PICK n \in 0 .. MaxSwap : n = Backup.swap
  BY <1>0 DEF AreaState
<1>5. Main' = [Main EXCEPT !.swap = NextSwap(n)]
  BY <1>1, <1>4 DEF After, Main, Backup, Other
<1>6. Main'.init = "ok" /\ Main'.item = Goal(p) /\ Main'.swap = NextSwap(n)
  BY <1>0, <1>5 DEF AreaState, WriteCounts
<1>7. n # MaxSwap
  BY <1>3, KindFacts
<1>8. Valid("main")'
  <2>1. ValidCount(NextSwap(n))
    BY <1>7, NextSwapIs
  <2> QED BY <1>6, <2>1 DEF Valid, Main
<1>9. BackupIsStale'
  <2>1. n = MaxSwap - 1 \/ n < NextSwap(n)
    BY <1>7, NextSwapIs
  <2>2. n = MaxSwap - 1 => NextSwap(n) = 1
    BY NextSwapIs
  <2> QED BY <1>4, <1>6, <2>1, <2>2 DEF BackupIsStale, Main, Backup
<1>10. Current'
  BY <1>9 DEF Current
<1>11. Progress'
  <2>1. ErasedTo(Backup', 0)
    BY Bounds DEF ErasedTo
  <2>2. BackupErases(0, rest)'
    BY <1>4, <1>8, <1>9, <2>1 DEF BackupErases, ThenBackup
  <2> QED BY <2>2, Bounds DEF Progress
<1>12. ~Valid("main")
  BY DEF WriteCounts, Valid, ValidCount, Main
<1>13. Exists' /\ Shown' = Goal(p)
  BY <1>6, <1>8 DEF Exists, Shown, Holds, Main
<1>14. Same \/ Store!Next
  <2>1. CASE p.op = "set"
    <3>1. /\ p.item \in Items /\ p.value \in 0 .. MaxValue /\ Valid("backup")
          /\ p.value >= Backup.item[p.item]
      BY <1>3, <2>1, KindFacts
    <3>2. Exists /\ Shown = Backup.item
      BY <1>12, <3>1 DEF Exists, Shown, Holds, Backup
    <3>3. Shown' = [Shown EXCEPT ![p.item] = p.value]
      BY <1>13, <2>1, <3>2 DEF Goal
    <3>4. Store!Set(p.item, p.value)
      BY <1>13, <3>1, <3>2, <3>3 DEF Store!Set, Shown
    <3> QED BY <3>1, <3>4 DEF Store!Next
  <2>2. CASE p.op = "data"
    <3>1. Valid("backup")
      BY <1>3, <2>2, KindFacts
    <3>2. Exists /\ Shown = Backup.item
      BY <1>12, <3>1 DEF Exists, Shown, Holds, Backup
    <3> QED BY <1>13, <2>2, <3>2 DEF Goal, Same
  <2>3. CASE p.op = "mark"
    <3>1. ZeroTo(Backup, Last)
      BY <1>3, <2>3, KindFacts
    <3>2. ~Exists
      BY <1>12, <3>1 DEF Exists, ZeroTo, Valid, ValidCount, Backup
    <3>3. Backup.item = [i \in Items |-> 0]
      <4>1. \A i \in Items : SectorOf[i] <= Last
        BY DEF Sectors, Last
      <4>2. \A i \in Items : Backup.item[i] = 0
        BY <3>1, <4>1 DEF ZeroTo
      <4>3. Backup.item \in [Items -> 0 .. MaxValue]
        BY <1>0 DEF AreaState
      <4> QED BY <4>2, <4>3
    <3>4. Store!Create
      BY <1>13, <2>3, <3>2, <3>3 DEF Store!Create, Shown, Goal
    <3> QED BY <3>4 DEF Store!Next
  <2>4. p.op \in {"set", "data", "mark"}
    BY <1>3, KindFacts
  <2> QED BY <2>1, <2>2, <2>3, <2>4
<1> QED BY <1>2, <1>4, <1>10, <1>11, <1>14 DEF Commits

-----------------------------------------------------------------------------
(* Every step.                                                             *)

LEMMA CopyFollows ==
    ASSUME NEW a \in Areas, NEW rest \in Seq(Accesses)
    PROVE  Loop("erase", a, Last, ThenCopy(a, rest)) = Loop("data", a, 0, ThenSwap(a, rest))
<1>1. ThenCopy(a, rest) \in Seq(Accesses)
  BY ListTypes
<1>2. Last \in 0 .. Last /\ "erase" \in AccessOps
  BY Bounds
<1>3. Loop("erase", a, Last, ThenCopy(a, rest)) = ThenCopy(a, rest)
  BY <1>1, <1>2, LoopFacts
<1> QED BY <1>3 DEF ThenCopy

LEMMA FlashAccessSteps ==
    ASSUME TypeOK, Progress, FlashAccess
    PROVE  Moves \/ Commits
<1> USE NvAssumption
<1>0. 0 \in 0 .. Last /\ 0 < Last /\ Last \in 0 .. Last
  BY Bounds
<1>1. ASSUME NEW n \in 0 .. Last, RestoreErases(n) \/ RestoreCopies(n) PROVE Moves
  <2>1. CASE RestoreErases(n) /\ n < Last
    BY <2>1, RestoreErasesMoves
  <2>2. CASE RestoreErases(n) /\ n = Last
    <3>1. todo = Loop("data", "main", 0, ThenSwap("main", << >>))
      BY <2>2, Bounds, CopyFollows DEF RestoreErases
    <3>2. RestoreCopies(0)
      BY <2>2, <3>1, Bounds DEF RestoreErases, RestoreCopies, ErasedTo, CopiedTo, Sectors
    <3> QED BY <1>0, <3>2, RestoreCopiesMoves
  <2>3. CASE RestoreCopies(n)
    BY <2>3, RestoreCopiesMoves
  <2>4. n < Last \/ n = Last
    BY Bounds
  <2> QED BY <1>1, <2>1, <2>2, <2>3, <2>4
<1>2. ASSUME NEW n \in 0 .. Last, NEW rest \in {<< >>, SecondWrite},
             BackupErases(n, rest) \/ BackupCopies(n, rest)
      PROVE  Moves
  <2>1. CASE BackupErases(n, rest) /\ n < Last
    BY <2>1, BackupErasesMoves
  <2>2. CASE BackupErases(n, rest) /\ n = Last
    <3>0. rest \in Seq(Accesses)
      BY Bounds
    <3>1. todo = Loop("data", "backup", 0, ThenSwap("backup", rest))
      BY <2>2, <3>0, Bounds, CopyFollows DEF BackupErases
    <3>2. BackupCopies(0, rest)
      BY <2>2, <3>1, Bounds DEF BackupErases, BackupCopies, ErasedTo, CopiedTo, Sectors
    <3> QED BY <1>0, <3>2, BackupCopiesMoves
  <2>3. CASE BackupCopies(n, rest)
    BY <2>3, BackupCopiesMoves
  <2>4. n < Last \/ n = Last
    BY Bounds
  <2> QED BY <1>2, <2>1, <2>2, <2>3, <2>4
<1>3. ASSUME NEW n \in 0 .. Last, CreateBackupCopies(n) PROVE Moves
  BY <1>3, CreateBackupCopiesMoves
<1>4. ASSUME NEW n \in 0 .. Last, CreateBackupErases(n) PROVE Moves
  <2>1. CASE n < Last
    BY <1>4, <2>1, CreateBackupErasesMoves
  <2>2. CASE n = Last
    <3>1. todo = Loop("data", "backup", 0, ThenSwap("backup", FirstWrite))
      BY <1>4, <2>2, Bounds, CopyFollows DEF CreateBackupErases
    <3>2. CreateBackupCopies(0)
      BY <1>4, <2>2, <3>1, Bounds DEF CreateBackupErases, CreateBackupCopies, ErasedTo, CopiedTo, Sectors
    <3> QED BY <1>0, <1>3, <3>2
  <2> QED BY <2>1, <2>2, Bounds
<1>5. ASSUME NEW n \in 0 .. Last, CreateZeroes(n) PROVE Moves
  <2>1. CASE n < Last
    BY <1>5, <2>1, CreateZeroesMoves
  <2>2. CASE n = Last
    <3>1. todo = Loop("erase", "backup", 0, ThenCopy("backup", FirstWrite))
      BY <1>0, <1>5, <2>2, Bounds, ListTypes, LoopFacts DEF CreateZeroes, ThenBackup
    <3>2. CreateBackupErases(0)
      BY <1>5, <2>2, <3>1, Bounds DEF CreateZeroes, CreateBackupErases, ErasedTo
    <3> QED BY <1>0, <1>4, <3>2
  <2> QED BY <2>1, <2>2, Bounds
<1>6. ASSUME NEW n \in 0 .. Last, CreateErases(n) PROVE Moves
  <2>1. CASE n < Last
    BY <1>6, <2>1, CreateErasesMoves
  <2>2. CASE n = Last
    <3>0. Loop("zero", "main", 0, ThenBackup(FirstWrite)) \in Seq(Accesses)
      BY Bounds, ListTypes, LoopFacts
    <3>1. todo = Loop("zero", "main", 0, ThenBackup(FirstWrite))
      BY <1>0, <1>6, <2>2, <3>0, Bounds, LoopFacts DEF CreateErases
    <3>2. CreateZeroes(0)
      BY <1>6, <2>2, <3>1, Bounds DEF CreateErases, CreateZeroes, ErasedTo, ZeroTo, Sectors
    <3> QED BY <1>0, <1>5, <3>2
  <2> QED BY <2>1, <2>2, Bounds
<1>7. ASSUME NEW s \in Sectors, NEW p \in Accesses, NEW rest \in {<< >>, SecondWrite},
             Writing(s, p, rest)
      PROVE  Moves \/ Commits
  <2>1. CASE WriteBegins(s, p, rest)
    BY <2>1, WriteBeginsMoves
  <2>2. CASE WriteErases(s, p, rest)
    BY <2>2, WriteErasesMoves
  <2>3. CASE WritePrograms(s, p, rest)
    BY <2>3, WriteProgramsMoves
  <2>4. CASE WriteRestoresLast(s, p, rest)
    BY <2>4, WriteRestoresLastMoves
  <2>5. CASE WriteCounts(s, p, rest)
    BY <2>5, WriteCountsCommits
  <2> QED BY <1>7, <2>1, <2>2, <2>3, <2>4, <2>5 DEF Writing
<1> QED BY <1>1, <1>2, <1>3, <1>4, <1>5, <1>6, <1>7 DEF Progress

LEMMA BootSteps ==
    ASSUME IndInv, Boot
    PROVE  IndInv' /\ Same
<1> USE NvAssumption
<1>0. area' = area /\ failed' = failed /\ todo = << >> /\ Main' = Main /\ Backup' = Backup
  BY DEF Boot, Main, Backup
<1>1. TypeOK' /\ Current' /\ (Valid("main")' <=> Valid("main"))
      /\ (Valid("backup")' <=> Valid("backup")) /\ (BackupIsStale' <=> BackupIsStale)
  BY <1>0 DEF IndInv, TypeOK, Current, Valid, BackupIsStale, Main, Backup
<1>2. Same
  BY <1>0 DEF Same, Shown, Exists, Holds, Valid
<1>3. ErasedTo(Main', 0) /\ ErasedTo(Backup', 0) /\ 0 \in 0 .. Last /\ << >> \in Seq(Accesses)
  BY Bounds DEF ErasedTo
<1>4. CASE ~Valid("main") /\ Valid("backup")
  <2>1. todo' = Loop("erase", "main", 0, ThenCopy("main", << >>)) /\ up' = FALSE
    BY <1>3, <1>4, Bounds, EraseThenCopyIs DEF Boot, RestoreBackup
  <2>2. RestoreErases(0)'
    BY <1>1, <1>3, <1>4, <2>1 DEF RestoreErases
  <2>3. Progress' /\ Agree'
    BY <1>3, <2>1, <2>2 DEF Progress, Agree
  <2> QED BY <1>1, <1>2, <2>3 DEF IndInv
<1>5. CASE ~Valid("main") /\ ~Valid("backup")
  <2>1. todo' = Loop("erase", "main", 0, Loop("zero", "main", 0, ThenBackup(FirstWrite)))
        /\ up' = FALSE
    BY <1>5, CreateLayoutIs DEF Boot
  <2>2. CreateErases(0)'
    BY <1>1, <1>3, <1>5, <2>1 DEF CreateErases
  <2>3. Progress' /\ Agree'
    BY <1>3, <2>1, <2>2 DEF Progress, Agree
  <2> QED BY <1>1, <1>2, <2>3 DEF IndInv
<1>6. CASE Valid("main") /\ BackupIsStale
  <2>1. todo' = Loop("erase", "backup", 0, ThenCopy("backup", << >>)) /\ up' = FALSE
    BY <1>3, <1>6, Bounds, EraseThenCopyIs DEF Boot, MakeBackup
  <2>2. BackupErases(0, << >>)'
    BY <1>1, <1>3, <1>6, <2>1 DEF BackupErases
  <2>3. Progress' /\ Agree'
    BY <1>3, <2>1, <2>2 DEF Progress, Agree
  <2> QED BY <1>1, <1>2, <2>3 DEF IndInv
<1>7. CASE Valid("main") /\ ~BackupIsStale
  <2>1. todo' = << >>
    BY <1>7 DEF Boot
  <2>2. Agree'
    BY <1>0, <1>1, <1>7 DEF Agree, Current, Main, Backup
  <2> QED BY <1>1, <1>2, <2>1, <2>2 DEF IndInv
<1> QED BY <1>4, <1>5, <1>6, <1>7

LEMMA SetCounterSteps ==
    ASSUME IndInv, ~failed, NEW i \in Items, NEW v \in 0 .. MaxValue, SetCounter(i, v)
    PROVE  IndInv' /\ Same
<1> USE NvAssumption
<1>0. area' = area /\ Main' = Main /\ Backup' = Backup /\ todo = << >> /\ up /\ ~failed
  BY DEF SetCounter, Main, Backup
<1>1. TypeOK' /\ Current' /\ (Valid("backup")' <=> Valid("backup"))
  BY <1>0 DEF IndInv, TypeOK, Current, Valid, BackupIsStale, Main, Backup
<1>2. Same
  BY <1>0 DEF Same, Shown, Exists, Holds, Valid
<1>3. Valid("main") /\ Main = Backup
  BY <1>0 DEF IndInv, Agree, Main, Backup
<1>4. Valid("backup")
  BY <1>3 DEF Valid, Main, Backup
<1> PICK p : p = [op |-> "set", area |-> "main", sector |-> SectorOf[i], item |-> i, value |-> v]
  OBVIOUS
<1> PICK s \in Sectors : s = SectorOf[i]
  OBVIOUS
<1>5. p \in Accesses /\ p.op = "set" /\ p.sector = s /\ p.item = i /\ p.value = v
  BY DEF Accesses
<1>6. todo' = WriteFlash(s, p) /\ MaySet(i, v)
  BY DEF SetCounter
<1>7. todo' = ThenWrite(s, p, << >>) /\ todo' # << >>
  <2>1. \A q \in Accesses, k \in Sectors : WriteFlash(k, q) = ThenWrite(k, q, << >>)
    BY Bounds, WriteFlashIs
  <2>2. \A q \in Accesses, k \in Sectors : ThenWrite(k, q, << >>) # << >>
    BY Bounds, ListsNotEmpty
  <2> QED BY <1>5, <1>6, <2>1, <2>2
<1>8. WriteKind(s, p, << >>)'
  <2>1. p.value >= Backup'.item[p.item]
    BY <1>0, <1>3, <1>5, <1>6 DEF MaySet, Main, Backup
  <2> QED BY <1>1, <1>4, <1>5, <2>1 DEF WriteKind
<1>9. WriteBegins(s, p, << >>)'
  BY <1>0, <1>3, <1>7, <1>8 DEF WriteBegins
<1>10. Progress'
  BY <1>5, <1>9 DEF Progress, Writing
<1>11. Agree'
  BY <1>7 DEF Agree
<1> QED BY <1>1, <1>2, <1>10, <1>11 DEF IndInv

LEMMA InitHolds ==
    ASSUME Init PROVE IndInv /\ Store!Init
<1> USE NvAssumption
<1>1. TypeOK
  <2>1. ErasedArea \in AreaState
    BY DEF ErasedArea, AreaState
  <2> QED BY <2>1 DEF Init, TypeOK
<1>2. ~Valid("main") /\ ~Valid("backup")
  BY DEF Init, Valid, ErasedArea, Areas
<1>3. IndInv
  BY <1>1, <1>2 DEF IndInv, Init, Current, Agree
<1>4. Store!Init
  BY <1>2 DEF Store!Init, Exists, Shown
<1> QED BY <1>3, <1>4

LEMMA StepHolds ==
    ASSUME IndInv, resumed \in BOOLEAN, ~resumed', [Next]_vars
    PROVE  IndInv' /\ (Same \/ Store!Next)
<1> USE NvAssumption
<1>1. CASE Boot
  BY <1>1, BootSteps
<1>2. CASE FlashAccess
  <2>1. TypeOK /\ Progress
    BY <1>2 DEF IndInv, FlashAccess
  <2>2. Moves \/ Commits
    BY <1>2, <2>1, FlashAccessSteps
  <2>3. CASE Moves
    <3>1. Agree'
      BY <2>3 DEF Moves, Agree, Main, Backup
    <3> QED BY <2>3, <3>1 DEF Moves, IndInv
  <2>4. CASE Commits
    BY <2>4 DEF Commits, IndInv, Agree
  <2> QED BY <2>2, <2>3, <2>4
<1>3. ASSUME area' = area, todo' = << >>, failed' \/ ~up' PROVE IndInv' /\ Same
  <2>1. TypeOK' /\ Current'
    BY <1>3 DEF IndInv, TypeOK, Current, Valid, BackupIsStale, Main, Backup
  <2>2. Same
    BY <1>3 DEF Same, Shown, Exists, Holds, Valid
  <2> QED BY <1>3, <2>1, <2>2 DEF IndInv, Agree
<1>4. CASE AccessFails
  BY <1>3, <1>4 DEF AccessFails
<1>5. CASE \E i \in Items, v \in 0 .. MaxValue : SetCounter(i, v)
  <2>1. ~failed
    BY <1>5 DEF SetCounter
  <2> QED BY <1>5, <2>1, SetCounterSteps
<1>6. CASE Crash
  BY <1>3, <1>6 DEF Crash
<1>7. CASE UNCHANGED vars
  <2>1. area' = area /\ todo' = todo /\ up' = up /\ failed' = failed
    BY <1>7 DEF vars
  <2>3. Same
    BY <2>1 DEF Same, Shown, Exists, Holds, Valid
  <2>4. IndInv'
    BY <1>7, SMTT(40) DEF vars, IndInv, TypeOK, Current, Agree, Valid, BackupIsStale, Main, Backup,
        Progress, RestoreErases, RestoreCopies, BackupErases, BackupCopies, CreateErases,
        CreateZeroes, CreateBackupErases, CreateBackupCopies, Writing, WriteBegins, WriteErases,
        WritePrograms, WriteRestoresLast, WriteCounts, WriteKind, Goal
  <2> QED BY <2>3, <2>4
<1> QED BY <1>1, <1>2, <1>4, <1>5, <1>6, <1>7 DEF Next

-----------------------------------------------------------------------------
(* The inductive invariant: what each point of each operation has already  *)
(* done to the two areas (restore_backup, make_backup,                     *)
(* create_or_restore_layout and write_otp_nv_counters_flash), as long as   *)
(* no counter was set between a failed access and the next reset.          *)
NvInv == resumed \in BOOLEAN /\ (~resumed => IndInv)

LEMMA HistoryStep ==
    ASSUME NvInv, [Next]_vars
    PROVE  resumed' \in BOOLEAN /\ (~resumed' => ~resumed /\ IndInv)
<1>1. resumed' = resumed \/ resumed' = (resumed \/ failed)
  BY DEF Next, vars, Boot, FlashAccess, AccessFails, SetCounter, Crash
<1>2. resumed \in BOOLEAN /\ (~resumed => IndInv)
  BY DEF NvInv
<1>3. resumed' \in BOOLEAN /\ (~resumed' => ~resumed)
  BY <1>1, <1>2
<1> QED BY <1>2, <1>3

THEOREM NvInvariance == Spec => []NvInv
<1>1. Init => NvInv
  BY InitHolds DEF NvInv, Init
<1>2. NvInv /\ [Next]_vars => NvInv'
  <2> SUFFICES ASSUME NvInv, [Next]_vars PROVE NvInv'
    OBVIOUS
  <2>1. resumed \in BOOLEAN
    BY DEF NvInv
  <2> QED BY <2>1, HistoryStep, StepHolds DEF NvInv
<1> QED BY <1>1, <1>2, PTL DEF Spec

(* When init_otp_nv_counters_flash or a write has returned without an      *)
(* error, the area in use is valid and its backup the same, whichever      *)
(* accesses failed before, unless a counter was set between a failure and  *)
(* the next reset.                                                         *)
THEOREM AreasDoAgree == Spec => []AreasAgree
<1>1. NvInv => AreasAgree
  BY DEF NvInv, IndInv, Agree, AreasAgree
<1> QED BY <1>1, NvInvariance, PTL

(* Setting a counter is one step for the next boot, whenever the power     *)
(* fails and whichever access fails, for any items, sectors and bounds, up *)
(* to the first counter that is set between a failure and the next reset.  *)
THEOREM StoreImplemented == Spec => ImplementsStore
<1>1. Init => Store!Init
  BY InitHolds
<1>2. NvInv /\ [Next]_vars => [~resumed' => Store!Next]_<<Exists, Shown>>
  <2> SUFFICES ASSUME NvInv, [Next]_vars, ~resumed'
               PROVE  [Store!Next]_<<Exists, Shown>>
    OBVIOUS
  <2>1. Same \/ Store!Next
    <3>1. resumed \in BOOLEAN
      BY DEF NvInv
    <3> QED BY <3>1, HistoryStep, StepHolds
  <2>2. ASSUME Same PROVE Exists' = Exists /\ Shown' = Shown
    BY <2>2 DEF Same, Exists
  <2> QED BY <2>1, <2>2
<1> QED BY <1>1, <1>2, NvInvariance, PTL DEF Spec, ImplementsStore

=============================================================================
