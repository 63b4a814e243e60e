-------------------------- MODULE ItsFlashFsProofs --------------------------
(***************************************************************************)
(* Facts about ItsFlashFs for every configuration: which metadata block a  *)
(* restart takes, what holds of the metadata between requests, and that    *)
(* the file system implements the store of FileStore.                      *)
(*                                                                         *)
(* The invariant describes the plan.  A block update is a sequence pre of  *)
(* operations that leave metadata N and G in the scratch metadata block,   *)
(* the commit, and erases of blocks that are not live (Updating); after    *)
(* the commit only the erases are left (Erasing).  N and G satisfy what a  *)
(* restart relies on (BlocksOK, FilesOK) before they are written, and a    *)
(* metadata block with a valid header holds such metadata (Valid), so that *)
(* power may fail anywhere.  A plan is only looked at through Cat, IsSeq   *)
(* and Ops.  A second layer, FileInv, adds what a restart finds of each    *)
(* file before and after the commit.                                       *)
(***************************************************************************)
EXTENDS ItsFlashFs, FiniteSetTheorems, SequenceTheorems, TLAPS

(* The swap counts a metadata block header can hold.                       *)
Counts == (0 .. SwapMod - 1) \ {EraseVal}

First == IF EraseVal = 0 THEN 1 ELSE 0
Last == IF EraseVal = 0 THEN SwapMod - 1 ELSE SwapMod - 2

(* The increment and the test for the erase value together count from      *)
(* First to Last and around (its_mblock_write_scratch_meta_header).        *)
LEMMA NextCountCases ==
    ASSUME NEW n \in Counts
    PROVE  NextCount(n) = IF n = Last THEN First ELSE n + 1
<1> USE ConfigAssumption DEF Counts, First, Last
<1>1. CASE n = SwapMod - 1
  <2>1. (n + 1) % SwapMod = 0
    BY <1>1
  <2>2. EraseVal = 0 /\ 1 % SwapMod = 1
    BY <1>1
  <2> QED
    BY <1>1, <2>1, <2>2 DEF NextCount
<1>2. CASE n + 1 < SwapMod
  <2>1. (n + 1) % SwapMod = n + 1
    BY <1>2
  <2>2. (SwapMod - 1 + 1) % SwapMod = 0
    OBVIOUS
  <2> QED
    BY <1>2, <2>1, <2>2 DEF NextCount
<1> QED
  BY <1>1, <1>2

(* A count is never the value of erased flash, so a committed header is    *)
(* always recognised as one (its_mblock_validate_swap_count).              *)
LEMMA NextCountValid ==
    ASSUME NEW n \in Counts
    PROVE  NextCount(n) \in Counts
BY ConfigAssumption, NextCountCases DEF Counts, First, Last

(* Whatever the modulus and the erase value: when a power failure leaves   *)
(* two valid metadata blocks with consecutive swap counts, the block the   *)
(* restart takes is the one written last, also across the roll-over        *)
(* (its_mblock_latest_meta_block).                                         *)
THEOREM LatestIsLast ==
    ASSUME NEW n \in Counts
    PROVE  /\ LatestMetaBlock(n, NextCount(n)) = 1
           /\ LatestMetaBlock(NextCount(n), n) = 0
<1> USE ConfigAssumption DEF Counts, First, Last
<1>1. CASE n = Last
  BY <1>1, NextCountCases DEF LatestMetaBlock
<1>2. CASE n # Last
  BY <1>2, NextCountCases DEF LatestMetaBlock
<1> QED
  BY <1>1, <1>2

-----------------------------------------------------------------------------
(* The operations of a plan.                                               *)

IsSeq(p) == \E S : p \in Seq(S)
Ops(p) == {p[k] : k \in DOMAIN p}
Cat(p, q) == p \o q

LEMMA CatIs ==
    ASSUME NEW p, NEW q, IsSeq(p), IsSeq(q)
    PROVE  /\ IsSeq(Cat(p, q))
           /\ Ops(Cat(p, q)) = Ops(p) \cup Ops(q)
           /\ \A r : IsSeq(r) => Cat(Cat(p, q), r) = Cat(p, Cat(q, r))
           /\ p = << >> => Cat(p, q) = q
           /\ Cat(p, q) = << >> => p = << >> /\ q = << >>
<1>1. PICK S : p \in Seq(S)
  BY DEF IsSeq
<1>2. PICK T : q \in Seq(T)
  BY DEF IsSeq
<1> PICK U : U = S \cup T
  OBVIOUS
<1>3. p \in Seq(U) /\ q \in Seq(U)
  BY <1>1, <1>2, SeqMonotonic
<1> PICK c : c = p \o q
  OBVIOUS
<1> PICK m : m = Len(p)
  OBVIOUS
<1> PICK n : n = Len(q)
  OBVIOUS
<1>4. /\ c \in Seq(U) /\ Len(c) = m + n
      /\ \A i \in 1 .. m + n : c[i] = IF i <= m THEN p[i] ELSE q[i - m]
  BY <1>3, ConcatProperties
<1>5. /\ m \in Nat /\ n \in Nat /\ DOMAIN p = 1 .. m /\ DOMAIN q = 1 .. n
      /\ DOMAIN c = 1 .. m + n
  BY <1>3, <1>4, LenProperties
<1>6. Ops(c) \subseteq Ops(p) \cup Ops(q)
  <2> SUFFICES ASSUME NEW i \in 1 .. m + n PROVE c[i] \in Ops(p) \cup Ops(q)
    BY <1>5 DEF Ops
  <2>1. CASE i <= m
    BY <1>4, <1>5, <2>1 DEF Ops
  <2>2. CASE ~(i <= m)
    <3>1. i - m \in 1 .. n
      BY <1>5, <2>2
    <3> QED BY <1>4, <1>5, <2>2, <3>1 DEF Ops
  <2> QED BY <2>1, <2>2
<1>7. Ops(p) \subseteq Ops(c)
  <2> SUFFICES ASSUME NEW i \in 1 .. m PROVE p[i] \in Ops(c)
    BY <1>5 DEF Ops
  <2>1. i \in 1 .. m + n /\ i <= m
    BY <1>5
  <2> QED BY <1>4, <1>5, <2>1 DEF Ops
<1>8. Ops(q) \subseteq Ops(c)
  <2> SUFFICES ASSUME NEW i \in 1 .. n PROVE q[i] \in Ops(c)
    BY <1>5 DEF Ops
  <2> PICK j : j = m + i
    OBVIOUS
  <2>1. j \in 1 .. m + n /\ ~(j <= m) /\ j - m = i
    BY <1>5
  <2> QED BY <1>4, <1>5, <2>1 DEF Ops
<1>9. IsSeq(c)
  BY <1>4 DEF IsSeq
<1>10. ASSUME NEW r, IsSeq(r) PROVE Cat(Cat(p, q), r) = Cat(p, Cat(q, r))
  <2>1. PICK R : r \in Seq(R)
    BY <1>10 DEF IsSeq
  <2> PICK V : V = U \cup R
    OBVIOUS
  <2>2. p \in Seq(V) /\ q \in Seq(V) /\ r \in Seq(V)
    BY <1>3, <2>1, SeqMonotonic
  <2> QED BY <2>2, ConcatAssociative DEF Cat
<1>11. ASSUME p = << >> PROVE Cat(p, q) = q
  BY <1>3, <1>11, ConcatEmptySeq DEF Cat
<1>12. ASSUME Cat(p, q) = << >> PROVE p = << >> /\ q = << >>
  BY <1>3, <1>12, ConcatEqualIffEmpty DEF Cat
<1> QED BY <1>6, <1>7, <1>8, <1>9, <1>10, <1>11, <1>12 DEF Cat

LEMMA CatOps ==
    ASSUME NEW p, NEW q, IsSeq(p), IsSeq(q)
    PROVE  IsSeq(Cat(p, q)) /\ Ops(Cat(p, q)) = Ops(p) \cup Ops(q)
BY CatIs

LEMMA TailIs ==
    ASSUME NEW p, IsSeq(p), p # << >>
    PROVE  /\ IsSeq(Tail(p))
           /\ Ops(p) = {Head(p)} \cup Ops(Tail(p))
           /\ \A q : IsSeq(q) => /\ Cat(p, q) # << >>
                                 /\ Head(Cat(p, q)) = Head(p)
                                 /\ Tail(Cat(p, q)) = Cat(Tail(p), q)
<1>1. PICK S : p \in Seq(S)
  BY DEF IsSeq
<1> PICK n : n = Len(p)
  OBVIOUS
<1> PICK t : t = Tail(p)
  OBVIOUS
<1>2. /\ t \in Seq(S) /\ Len(t) = n - 1 /\ \A i \in 1 .. Len(t) : t[i] = p[i + 1]
  BY <1>1, HeadTailProperties
<1>3. n \in Nat \ {0} /\ DOMAIN p = 1 .. n /\ DOMAIN t = 1 .. n - 1
  BY <1>1, <1>2, LenProperties, EmptySeq
<1>4. Head(p) = p[1]
  BY <1>1
<1>5. Ops(p) \subseteq {Head(p)} \cup Ops(t)
  <2> SUFFICES ASSUME NEW i \in 1 .. n PROVE p[i] \in {Head(p)} \cup Ops(t)
    BY <1>3 DEF Ops
  <2>1. CASE i = 1
    BY <1>4, <2>1
  <2>2. CASE i # 1
    <3>1. i - 1 \in 1 .. n - 1 /\ i - 1 + 1 = i
      BY <1>3, <2>2
    <3>2. t[i - 1] = p[i]
      BY <1>2, <3>1
    <3> QED BY <1>3, <3>1, <3>2 DEF Ops
  <2> QED BY <2>1, <2>2
<1>6. Ops(t) \subseteq Ops(p)
  <2> SUFFICES ASSUME NEW i \in 1 .. n - 1 PROVE t[i] \in Ops(p)
    BY <1>3 DEF Ops
  <2>1. i + 1 \in 1 .. n /\ i \in 1 .. Len(t)
    BY <1>2, <1>3
  <2> QED BY <1>2, <1>3, <2>1 DEF Ops
<1>7. Head(p) \in Ops(p)
  BY <1>3, <1>4 DEF Ops
<1>8. IsSeq(t)
  BY <1>2 DEF IsSeq
<1>9. ASSUME NEW q, IsSeq(q)
      PROVE  Cat(p, q) # << >> /\ Head(Cat(p, q)) = Head(p) /\ Tail(Cat(p, q)) = Cat(t, q)
  <2>1. PICK T : q \in Seq(T)
    BY <1>9 DEF IsSeq
  <2> PICK U : U = S \cup T
    OBVIOUS
  <2>2. p \in Seq(U) /\ q \in Seq(U) /\ t \in Seq(U)
    BY <1>1, <1>2, <2>1, SeqMonotonic
  <2> PICK c : c = p \o q
    OBVIOUS
  <2> PICK d : d = t \o q
    OBVIOUS
  <2> PICK m : m = Len(q)
    OBVIOUS
  <2>3. m \in Nat
    BY <2>2, LenProperties
  <2>4. /\ c \in Seq(U) /\ Len(c) = n + m
        /\ \A i \in 1 .. n + m : c[i] = IF i <= n THEN p[i] ELSE q[i - n]
    BY <2>2, ConcatProperties
  <2>5. /\ d \in Seq(U) /\ Len(d) = n - 1 + m
        /\ \A i \in 1 .. n - 1 + m : d[i] = IF i <= n - 1 THEN t[i] ELSE q[i - (n - 1)]
    BY <1>2, <2>2, ConcatProperties
  <2>6. c # << >>
    BY <1>3, <2>3, <2>4
  <2>7. Head(c) = p[1]
    BY <1>3, <2>3, <2>4
  <2>8. Tail(c) \in Seq(U) /\ Len(Tail(c)) = n + m - 1
        /\ \A i \in 1 .. n + m - 1 : Tail(c)[i] = c[i + 1]
    BY <2>4, <2>6, HeadTailProperties
  <2>9. ASSUME NEW i \in 1 .. n + m - 1 PROVE Tail(c)[i] = d[i]
    <3>1. Tail(c)[i] = c[i + 1] /\ i + 1 \in 1 .. n + m /\ i \in 1 .. n - 1 + m
      BY <1>3, <2>3, <2>8
    <3>2. CASE i <= n - 1
      <4>1. i + 1 <= n /\ i \in 1 .. Len(t)
        BY <1>2, <1>3, <2>3, <3>2
      <4> QED BY <1>2, <2>4, <2>5, <3>1, <3>2, <4>1
    <3>3. CASE ~(i <= n - 1)
      <4>1. ~(i + 1 <= n) /\ i + 1 - n = i - (n - 1)
        BY <1>3, <2>3, <3>3
      <4> QED BY <2>4, <2>5, <3>1, <3>3, <4>1
    <3> QED BY <3>2, <3>3
  <2>10. Len(Tail(c)) = Len(d) /\ Len(d) = n + m - 1
    BY <1>3, <2>3, <2>5, <2>8
  <2>11. Tail(c) = d
    BY <2>5, <2>8, <2>9, <2>10, SeqEqual
  <2> QED BY <1>4, <2>6, <2>7, <2>11 DEF Cat
<1> QED BY <1>5, <1>6, <1>7, <1>8, <1>9

LEMMA Literals ==
    ASSUME NEW x, NEW y
    PROVE  /\ IsSeq(<< >>) /\ Ops(<< >>) = {}
           /\ IsSeq(<<x>>) /\ Ops(<<x>>) = {x} /\ <<x>> # << >>
           /\ Head(<<x>>) = x /\ Tail(<<x>>) = << >>
           /\ IsSeq(<<x, y>>) /\ Ops(<<x, y>>) = {x, y} /\ <<x, y>> = Cat(<<x>>, <<y>>)
<1>1. << >> \in Seq({}) /\ <<x>> \in Seq({x}) /\ <<x, y>> \in Seq({x, y})
  OBVIOUS
<1>2. Ops(<< >>) = {} /\ Ops(<<x>>) = {x} /\ Ops(<<x, y>>) = {x, y}
  <2>1. DOMAIN << >> = 1 .. 0 /\ DOMAIN <<x>> = 1 .. 1 /\ DOMAIN <<x, y>> = 1 .. 2
    BY <1>1, LenProperties
  <2>2. \A k : k \in 1 .. 0 <=> FALSE
    OBVIOUS
  <2>3. \A k : k \in 1 .. 1 <=> k = 1
    OBVIOUS
  <2>4. \A k : k \in 1 .. 2 <=> k = 1 \/ k = 2
    OBVIOUS
  <2>5. Ops(<< >>) = {}
    BY <2>1, <2>2 DEF Ops
  <2>6. Ops(<<x>>) = {x}
    BY <2>1, <2>3 DEF Ops
  <2>7. Ops(<<x, y>>) = {x, y}
    <3> PICK p : p = <<x, y>>
      OBVIOUS
    <3>1. DOMAIN p = 1 .. 2 /\ p[1] = x /\ p[2] = y
      BY <2>1
    <3> QED BY <2>4, <3>1 DEF Ops
  <2> QED BY <2>5, <2>6, <2>7
<1>3. <<x, y>> = Cat(<<x>>, <<y>>)
  <2> PICK S : S = {x, y}
    OBVIOUS
  <2> PICK p : p = <<x>>
    OBVIOUS
  <2> PICK q : q = <<y>>
    OBVIOUS
  <2> PICK r : r = <<x, y>>
    OBVIOUS
  <2>1. p \in Seq(S) /\ q \in Seq(S) /\ r \in Seq(S)
    OBVIOUS
  <2>2. Len(p) = 1 /\ Len(q) = 1 /\ Len(r) = 2 /\ p[1] = x /\ q[1] = y /\ r[1] = x /\ r[2] = y
    OBVIOUS
  <2>3. /\ p \o q \in Seq(S) /\ Len(p \o q) = 1 + 1
        /\ \A i \in 1 .. 1 + 1 : (p \o q)[i] = IF i <= 1 THEN p[i] ELSE q[i - 1]
    BY <2>1, <2>2, ConcatProperties
  <2>4. Len(p \o q) = Len(r) /\ \A i \in 1 .. Len(r) : r[i] = (p \o q)[i]
    BY <2>2, <2>3
  <2>5. r = p \o q
    BY <2>1, <2>3, <2>4, SeqEqual
  <2> QED BY <2>5 DEF Cat
<1> QED BY <1>1, <1>2, <1>3 DEF IsSeq

(* A first operation.                                                      *)
LEMMA ConsIs ==
    ASSUME NEW x, NEW q, IsSeq(q)
    PROVE  /\ IsSeq(Cat(<<x>>, q)) /\ Cat(<<x>>, q) # << >>
           /\ Head(Cat(<<x>>, q)) = x /\ Tail(Cat(<<x>>, q)) = q
           /\ Ops(Cat(<<x>>, q)) = {x} \cup Ops(q)
<1> PICK p : p = <<x>>
  OBVIOUS
<1>1. IsSeq(p) /\ Ops(p) = {x} /\ p # << >> /\ Head(p) = x /\ Tail(p) = << >>
  BY Literals
<1>2. IsSeq(Cat(p, q)) /\ Ops(Cat(p, q)) = Ops(p) \cup Ops(q)
  BY <1>1, CatIs
<1>3. Cat(p, q) # << >> /\ Head(Cat(p, q)) = Head(p) /\ Tail(Cat(p, q)) = Cat(Tail(p), q)
  BY <1>1, TailIs
<1>4. IsSeq(<< >>)
  BY Literals
<1>5. Cat(<< >>, q) = q
  BY <1>4, CatIs
<1> QED BY <1>1, <1>2, <1>3, <1>5

(* Plans made of single operations.                                        *)
LEMMA Single ==
    ASSUME NEW q, IsSeq(q)
    PROVE  /\ \A a : IsSeq(Cat(<<a>>, q)) /\ Ops(Cat(<<a>>, q)) = {a} \cup Ops(q)
           /\ \A a : IsSeq(Cat(q, <<a>>)) /\ Ops(Cat(q, <<a>>)) = Ops(q) \cup {a}
           /\ IsSeq(Cat(q, << >>)) /\ Ops(Cat(q, << >>)) = Ops(q)
<1>1. ASSUME NEW a
      PROVE  /\ IsSeq(Cat(<<a>>, q)) /\ Ops(Cat(<<a>>, q)) = {a} \cup Ops(q)
             /\ IsSeq(Cat(q, <<a>>)) /\ Ops(Cat(q, <<a>>)) = Ops(q) \cup {a}
  <2> PICK p : p = <<a>>
    OBVIOUS
  <2>1. IsSeq(p) /\ Ops(p) = {a}
    BY Literals
  <2>2. IsSeq(Cat(p, q)) /\ Ops(Cat(p, q)) = Ops(p) \cup Ops(q)
    BY <2>1, CatIs
  <2>3. IsSeq(Cat(q, p)) /\ Ops(Cat(q, p)) = Ops(q) \cup Ops(p)
    BY <2>1, CatIs
  <2> QED BY <2>1, <2>2, <2>3
<1>2. IsSeq(Cat(q, << >>)) /\ Ops(Cat(q, << >>)) = Ops(q)
  <2> PICK e : e = << >>
    OBVIOUS
  <2>1. IsSeq(e) /\ Ops(e) = {}
    BY Literals
  <2>2. IsSeq(Cat(q, e)) /\ Ops(Cat(q, e)) = Ops(q) \cup Ops(e)
    BY <2>1, CatIs
  <2>3. Ops(q) \cup Ops(e) = Ops(q)
    BY <2>1
  <2> QED BY <2>2, <2>3
<1> QED BY <1>1, <1>2

LEMMA PlanOf3 ==
    ASSUME NEW a, NEW b, NEW c
    PROVE  /\ IsSeq(Cat(Cat(<<a>>, <<b>>), <<c>>))
           /\ Ops(Cat(Cat(<<a>>, <<b>>), <<c>>)) = {a, b, c}
<1> PICK p : p = <<b>>
  OBVIOUS
<1>1. IsSeq(p) /\ Ops(p) = {b}
  BY Literals
<1> PICK q : q = Cat(<<a>>, p)
  OBVIOUS
<1>2. IsSeq(q) /\ Ops(q) = {a} \cup Ops(p)
  BY <1>1, Single
<1>3. IsSeq(Cat(q, <<c>>)) /\ Ops(Cat(q, <<c>>)) = Ops(q) \cup {c}
  BY <1>2, Single
<1>4. ({a} \cup {b}) \cup {c} = {a, b, c}
  OBVIOUS
<1> QED BY <1>1, <1>2, <1>3, <1>4

LEMMA PlanOf3Inner ==
    ASSUME NEW a, NEW b, NEW c, NEW x, x = Cat(Cat(<<b>>, << >>), <<c>>),
           NEW u, u = Cat(Cat(<<a>>, x), << >>)
    PROVE  IsSeq(u) /\ Ops(u) = {a, b, c}
<1> PICK p : p = <<b>>
  OBVIOUS
<1>1. IsSeq(p) /\ Ops(p) = {b}
  BY Literals
<1> PICK q : q = Cat(p, << >>)
  OBVIOUS
<1>2. IsSeq(q) /\ Ops(q) = Ops(p)
  BY <1>1, Single
<1> PICK r : r = Cat(q, <<c>>)
  OBVIOUS
<1>3. IsSeq(r) /\ Ops(r) = Ops(q) \cup {c}
  BY <1>2, Single
<1> PICK t : t = Cat(<<a>>, r)
  OBVIOUS
<1>4. IsSeq(t) /\ Ops(t) = {a} \cup Ops(r)
  BY <1>3, Single
<1>5. IsSeq(Cat(t, << >>)) /\ Ops(Cat(t, << >>)) = Ops(t)
  BY <1>4, Single
<1>6. {a} \cup ({b} \cup {c}) = {a, b, c}
  OBVIOUS
<1> QED BY <1>1, <1>2, <1>3, <1>4, <1>5, <1>6

LEMMA PlanOf5 ==
    ASSUME NEW a, NEW b, NEW c, NEW d, NEW e
    PROVE  LET p == Cat(Cat(<<a>>, Cat(Cat(<<b>>, <<c>>), <<d>>)), <<e>>)
           IN  IsSeq(p) /\ Ops(p) = {a, b, c, d, e}
<1> PICK q : q = Cat(Cat(<<b>>, <<c>>), <<d>>)
  OBVIOUS
<1>1. IsSeq(q) /\ Ops(q) = {b, c, d}
  BY PlanOf3
<1> PICK t : t = Cat(<<a>>, q)
  OBVIOUS
<1>2. IsSeq(t) /\ Ops(t) = {a} \cup Ops(q)
  BY <1>1, Single
<1>3. IsSeq(Cat(t, <<e>>)) /\ Ops(Cat(t, <<e>>)) = Ops(t) \cup {e}
  BY <1>2, Single
<1>4. ({a} \cup {b, c, d}) \cup {e} = {a, b, c, d, e}
  OBVIOUS
<1> QED BY <1>1, <1>2, <1>3, <1>4

LEMMA PlanOfWrite0 ==
    ASSUME NEW a, NEW b, NEW c, NEW u, u = Cat(Cat(<< >>, <<a, b>>), <<c>>)
    PROVE  IsSeq(u) /\ Ops(u) = {a, b, c}
<1> PICK p : p = <<a, b>>
  OBVIOUS
<1>1. IsSeq(p) /\ Ops(p) = {a, b} /\ IsSeq(<< >>)
  BY Literals
<1>2. Cat(<< >>, p) = p
  BY <1>1, CatIs
<1>3. IsSeq(Cat(p, <<c>>)) /\ Ops(Cat(p, <<c>>)) = Ops(p) \cup {c}
  BY <1>1, Single
<1>4. Ops(p) \cup {c} = {a, b, c}
  BY <1>1
<1> QED BY <1>2, <1>3, <1>4

LEMMA PlanOfWrite1 ==
    ASSUME NEW a, NEW b, NEW d, NEW u, u = Cat(Cat(Cat(<<d>>, << >>), <<a, b>>), << >>)
    PROVE  IsSeq(u) /\ Ops(u) = {d, a, b}
<1> PICK p : p = <<a, b>>
  OBVIOUS
<1>1. IsSeq(p) /\ Ops(p) = {a, b} /\ IsSeq(<<d>>) /\ Ops(<<d>>) = {d}
  BY Literals
<1> PICK q : q = Cat(<<d>>, << >>)
  OBVIOUS
<1>2. IsSeq(q) /\ Ops(q) = {d}
  BY <1>1, Single
<1> PICK r : r = Cat(q, p)
  OBVIOUS
<1>3. IsSeq(r) /\ Ops(r) = Ops(q) \cup Ops(p)
  BY <1>1, <1>2, CatOps
<1>4. IsSeq(Cat(r, << >>)) /\ Ops(Cat(r, << >>)) = Ops(r)
  BY <1>3, Single
<1>5. Ops(q) \cup Ops(p) = {d, a, b}
  BY <1>1, <1>2
<1> QED BY <1>3, <1>4, <1>5

LEMMA PlanOfWrite2 ==
    ASSUME NEW a, NEW b, NEW c, NEW d, NEW e, NEW u,
           u = Cat(Cat(Cat(<<d>>, <<e>>), <<a, b>>), <<c>>)
    PROVE  IsSeq(u) /\ Ops(u) = {d, e, a, b, c}
<1> PICK p : p = <<a, b>>
  OBVIOUS
<1>1. IsSeq(p) /\ Ops(p) = {a, b} /\ IsSeq(<<e>>) /\ Ops(<<e>>) = {e}
  BY Literals
<1> PICK t : t = Cat(<<d>>, <<e>>)
  OBVIOUS
<1>2. IsSeq(t) /\ Ops(t) = {d} \cup Ops(<<e>>)
  BY <1>1, Single
<1>3. IsSeq(t) /\ IsSeq(p)
  BY <1>1, <1>2
<1> PICK r : r = Cat(t, p)
  OBVIOUS
<1>4. IsSeq(r) /\ Ops(r) = Ops(t) \cup Ops(p)
  BY <1>3, CatOps
<1>5. IsSeq(Cat(r, <<c>>)) /\ Ops(Cat(r, <<c>>)) = Ops(r) \cup {c}
  BY <1>4, Single
<1>6. (({d} \cup {e}) \cup {a, b}) \cup {c} = {d, e, a, b, c}
  OBVIOUS
<1>7. Ops(r) \cup {c} = {d, e, a, b, c}
  BY <1>1, <1>2, <1>4, <1>6
<1> QED BY <1>5, <1>7

-----------------------------------------------------------------------------
(* The inductive invariant.                                                *)

FileMeta == [id : Fids, lb : LBlocks, data : Int, max : Int, cur : Int,
             once : BOOLEAN, del : BOOLEAN]
BlockMeta == [phy : Blocks, free : Int]
Header == [count : Nat, sdb : Nat]
Done == {"nothing", "some", "all"}
SetCalls == [op : {"set"}, fid : Fids, val : Vals, size : Int, once : BOOLEAN,
             off : Int, done : Done]
RemoveCalls == [op : {"remove"}, fid : Fids, done : Done]

BMetas == [LBlocks -> BlockMeta \cup {Erased}]
FMetas == [Idx -> FileMeta \cup {Free, Erased}]
BlockOf(D) == [header : Header \cup {Erased}, bmeta : BMetas, fmeta : FMetas, data : D]

FlashOK(f) == \E D : f \in [Blocks -> BlockOf(D)]

Types ==
    /\ FlashOK(flash)
    /\ active \in {0, 1} /\ count \in Nat /\ sdb \in Nat
    /\ mode = "busy" => call \in SetCalls \cup RemoveCalls
    /\ mode # "busy" => replaced = None

(* The blocks that are not metadata blocks.                                *)
DBlocks == 2 .. NumBlocks - 1

(* Metadata B of the logical blocks in metadata block a, s being the       *)
(* scratch data block: the physical blocks are shared out.                 *)
BlocksOK(B, a, s) ==
    /\ B \in [LBlocks -> BlockMeta]
    /\ B[0].phy = a
    /\ s \in Nat
    /\ NumBlocks > 2 => s \in DBlocks
    /\ \A l \in LBlocks \ {0} : B[l].phy \in DBlocks /\ B[l].phy # s
    /\ \A l, k \in LBlocks \ {0} : B[l].phy = B[k].phy => l = k

(* Metadata F of the files: a file has one entry, and at most one more     *)
(* that is marked for deletion; without a marked entry there is a free one. *)
Marked(F, i) == F[i] # Free /\ F[i].del
Clean(F) == \A i \in Idx : ~Marked(F, i)

FilesOK(F) ==
    /\ F \in [Idx -> FileMeta \cup {Free}]
    /\ \A i, j \in Idx : /\ F[i] # Free /\ F[j] # Free /\ F[i].id = F[j].id
                        /\ ~F[i].del /\ ~F[j].del
                        => i = j
    /\ \A i, j \in Idx : Marked(F, i) /\ Marked(F, j) => i = j
    /\ Clean(F) => \E i \in Idx : F[i] = Free

(* The files of a block lie one behind the other from its data start, what *)
(* is left is its free size, and a file holds no more than its size.       *)
Apart(m, n) == m.data + m.max <= n.data \/ n.data + n.max <= m.data
Occupies(m, lb, k) == m # Free /\ m.lb = lb /\ m.data <= k /\ k < m.data + m.max
Placed(B, m) ==
    /\ DataStart(m.lb) <= m.data /\ m.max >= 0 /\ m.data + m.max + B[m.lb].free <= BlockSize
    /\ m.cur >= 0 /\ m.cur <= m.max

FreeOK(B) == \A l \in LBlocks : B[l].free >= 0 /\ DataStart(l) + B[l].free <= BlockSize
PlacedOK(B, F) == \A i \in Idx : F[i] # Free => Placed(B, F[i])
ApartOK(F) ==
    \A i, j \in Idx : F[i] # Free /\ F[j] # Free /\ i # j /\ F[i].lb = F[j].lb => Apart(F[i], F[j])
FilledOK(B, F) ==
    \A l \in LBlocks, k \in Int :
        DataStart(l) <= k /\ k + B[l].free < BlockSize => \E i \in Idx : Occupies(F[i], l, k)

LayoutOK(B, F) == FreeOK(B) /\ PlacedOK(B, F) /\ ApartOK(F) /\ FilledOK(B, F)

(* A metadata block with a header can be the one a restart chooses.        *)
Valid ==
    \A b \in {0, 1} : ValidHeader(b) =>
        /\ BlocksOK(flash[b].bmeta, b, flash[b].header.sdb) /\ FilesOK(flash[b].fmeta)
        /\ LayoutOK(flash[b].bmeta, flash[b].fmeta)

(* The file of a set has room for all of it once its first chunk is        *)
(* written.                                                                *)
RoomKept(F) ==
    mode = "busy" /\ call.op = "set" =>
        /\ call.off \in 0 .. call.size
        /\ \E i \in Idx : /\ F[i] # Free /\ F[i].id = call.fid /\ ~F[i].del
                          /\ F[i].max = call.size

(* What the request in progress relies on in the metadata F that will be   *)
(* the active ones when the block update is over, and what is left to do   *)
(* about a marked entry.                                                   *)
Pending(F) ==
    /\ RoomKept(F)
    /\ mode \in {"idle", "recover"} \/ (mode = "busy" /\ replaced = None) => Clean(F)
    /\ mode = "busy" /\ replaced # None => replaced \in Idx /\ Marked(F, replaced)

Current == ValidHeader(active) /\ sdb = flash[active].header.sdb

(* After the commit: only erases are left, of blocks that are not live.    *)
Erasing ==
    /\ mode \in {"idle", "boot", "busy", "recover"} /\ Current
    /\ mode = "idle" => plan = << >>
    /\ IsSeq(plan) /\ \A op \in Ops(plan) : op.do = "erase" /\ op.blk \in Blocks \ {active}
    /\ (\E op \in Ops(plan) : op.do = "erase" /\ op.blk = scratch) \/ ~ValidHeader(scratch)
    /\ Pending(flash[active].fmeta)

(* The operations before the commit, which leave the metadata N, G and the *)
(* scratch data block z in the scratch metadata block.                     *)
OpOK(op, N, G, z) ==
    \/ op.do = "erase" /\ op.blk \in DBlocks /\ ~ValidHeader(active)
    \/ op.do = "scratch" /\ op.blk = z
    \/ op.do = "write" /\ op.part = "data" /\ op.blk \in Blocks
    \/ /\ op.do = "write" /\ op.part = "bmeta" /\ op.blk = scratch
       /\ \A l \in DOMAIN op.cells : l \in LBlocks /\ op.cells[l] = N[l]
    \/ /\ op.do = "write" /\ op.part = "fmeta" /\ op.blk = scratch
       /\ \A i \in DOMAIN op.cells : i \in Idx /\ op.cells[i] = G[i]

Writes(op, part, x) == op.do = "write" /\ op.part = part /\ x \in DOMAIN op.cells

PreOK(P, N, G, z) ==
    /\ \A op \in P : OpOK(op, N, G, z)
    /\ \A l \in LBlocks : (\E op \in P : Writes(op, "bmeta", l)) \/ flash[scratch].bmeta[l] = N[l]
    /\ \A i \in Idx : (\E op \in P : Writes(op, "fmeta", i)) \/ flash[scratch].fmeta[i] = G[i]
    /\ (\E op \in P : op.do = "scratch") \/ sdb = z

(* A plan p that makes N, G and z the current metadata and ends with the   *)
(* operations post.                                                        *)
Leads(p, pre, post, N, G, z) ==
    /\ IsSeq(pre) /\ IsSeq(post) /\ p = Cat(pre, Cat(<<Commit>>, post))
    /\ PreOK(Ops(pre), N, G, z)
    /\ BlocksOK(N, scratch, z) /\ FilesOK(G) /\ LayoutOK(N, G)

EndsWith(post) ==
    /\ \A op \in Ops(post) : op.do = "erase" /\ op.blk \in Blocks \ {scratch}
    /\ mode = "wipe" => post = << >>
    /\ mode # "wipe" => \E op \in Ops(post) : op.do = "erase" /\ op.blk = active

Updating ==
    /\ mode \in {"busy", "recover", "wipe"} /\ ~ValidHeader(scratch)
    /\ ValidHeader(active) <=> mode # "wipe"
    /\ \E pre, post, N, G, z :
        /\ Leads(plan, pre, post, N, G, z) /\ EndsWith(post)
        /\ Pending(G)

(* A replacement that is refused has marked the old file already.          *)
Failing ==
    /\ mode = "busy" /\ replaced = None /\ Current /\ ~ValidHeader(scratch)
    /\ Clean(flash[active].fmeta)
    /\ \E pre : /\ IsSeq(pre) /\ plan = Cat(pre, <<Fail>>)
                /\ \A op \in Ops(pre) :
                     /\ op.do = "write" /\ op.part = "fmeta" /\ op.blk = scratch
                     /\ \A i \in DOMAIN op.cells : i \in Idx /\ op.cells[i] \in FileMeta

(* its_flash_fs_mblock_reset_metablock.                                    *)
Wiping ==
    /\ mode = "wipe"
    /\ \/ plan = << >>
       \/ /\ plan \in {ResetMetaBlock, Tail(ResetMetaBlock)}
          /\ active = 0 /\ sdb = (IF NumBlocks = 2 THEN 1 ELSE 2)
          /\ ~ValidHeader(0) /\ ~ValidHeader(1)

Phases == (mode = "off" /\ plan = << >>) \/ Erasing \/ Updating \/ Failing \/ Wiping

Fine == Types /\ Valid /\ Phases

IndInv == errors \in Nat /\ (errors = 0 => Fine)

-----------------------------------------------------------------------------
(* Operators of the model.                                                 *)

LEMMA Numbers ==
    /\ NumBlocks \in Nat /\ NumBlocks >= 2 /\ NumBlocks # 3 /\ MaxFiles \in Nat
    /\ Blocks \subseteq Nat /\ Idx \subseteq Nat /\ LBlocks \subseteq Nat
    /\ 0 \in Blocks /\ 1 \in Blocks /\ 0 \in LBlocks /\ 0 # 1
    /\ DBlocks \subseteq Blocks /\ 0 \notin DBlocks /\ 1 \notin DBlocks
    /\ None \notin Nat /\ None \notin Idx /\ None \notin LBlocks
    /\ NumBlocks = 2 => LBlocks = {0}
    /\ SwapMod \in Nat /\ MetaSize \in Nat /\ BlockSize \in Nat /\ BufSize \in Nat
BY ConfigAssumption DEF Blocks, Idx, LBlocks, DBlocks

LEMMA ScratchIs ==
    ASSUME active \in {0, 1}
    PROVE  /\ scratch \in {0, 1} /\ scratch # active /\ scratch \in Blocks /\ active \in Blocks
           /\ Other(scratch) = active
           /\ \A b \in {0, 1} : b = active \/ b = scratch
BY Numbers DEF scratch, Other

LEMMA OverIs ==
    ASSUME NEW D, NEW C, NEW f \in [D -> C], NEW g, DOMAIN g \subseteq D,
           \A x \in DOMAIN g : g[x] \in C
    PROVE  /\ Over(g, f) \in [D -> C]
           /\ \A x \in D : Over(g, f)[x] = IF x \in DOMAIN g THEN g[x] ELSE f[x]
<1>1. DOMAIN g \cup DOMAIN f = D
  OBVIOUS
<1> QED BY <1>1 DEF Over

LEMMA OverBlocks ==
    ASSUME NEW f \in BMetas, NEW g, DOMAIN g \subseteq LBlocks,
           \A x \in DOMAIN g : g[x] \in BlockMeta
    PROVE  /\ Over(g, f) \in BMetas
           /\ \A x \in LBlocks : Over(g, f)[x] = IF x \in DOMAIN g THEN g[x] ELSE f[x]
<1> PICK C : C = BlockMeta \cup {Erased}
  OBVIOUS
<1>1. f \in [LBlocks -> C] /\ \A x \in DOMAIN g : g[x] \in C
  BY DEF BMetas
<1> QED BY <1>1, OverIs DEF BMetas

LEMMA OverFiles ==
    ASSUME NEW f \in FMetas, NEW g, DOMAIN g \subseteq Idx,
           \A x \in DOMAIN g : g[x] \in FileMeta \cup {Free}
    PROVE  /\ Over(g, f) \in FMetas
           /\ \A x \in Idx : Over(g, f)[x] = IF x \in DOMAIN g THEN g[x] ELSE f[x]
<1> PICK C : C = FileMeta \cup {Free, Erased}
  OBVIOUS
<1>1. f \in [Idx -> C] /\ \A x \in DOMAIN g : g[x] \in C
  BY DEF FMetas
<1> QED BY <1>1, OverIs DEF FMetas

LEMMA MinInSet ==
    ASSUME NEW S, S \subseteq Nat, S # {}
    PROVE  Min(S) \in S /\ \A y \in S : Min(S) <= y
<1> DEFINE R == {ss \in Nat \X Nat : ss[1] < ss[2]}
<1>1. IsWellFoundedOn(R, Nat)
  BY NatLessThanWellFounded, Zenon DEF OpToRel
<1>2. PICK x \in S : \A y \in S : ~(<<y, x>> \in R)
  <2> HIDE DEF R
  <2> QED BY <1>1, WFMin
<1>3. ASSUME NEW y \in S PROVE x <= y
  <2>1. x \in Nat /\ y \in Nat
    OBVIOUS
  <2>2. ~(<<y, x>> \in R)
    BY <1>2
  <2>3. ~(y < x)
    BY <2>1, <2>2
  <2> QED BY <2>1, <2>3
<1> QED BY <1>3 DEF Min

LEMMA FirstIdxIs ==
    ASSUME NEW S, S \subseteq Nat
    PROVE  /\ S = {} => FirstIdx(S) = None
           /\ S # {} => FirstIdx(S) \in S /\ FirstIdx(S) # None
BY Numbers, MinInSet DEF FirstIdx

(* its_flash_fs_mblock_get_file_idx_meta.                                  *)
LEMMA FileIdxIs ==
    ASSUME NEW f
    PROVE  /\ FileIdx(f) = None => \A i \in Idx : Used(i) => file(i).id # f
           /\ FileIdx(f) # None => /\ FileIdx(f) \in Idx /\ Used(FileIdx(f))
                                   /\ file(FileIdx(f)).id = f
<1> PICK S : S = {i \in Idx : Used(i) /\ file(i).id = f}
  OBVIOUS
<1>1. S \subseteq Nat /\ FileIdx(f) = FirstIdx(S)
  BY Numbers DEF FileIdx
<1>2. CASE S = {}
  BY <1>1, <1>2, FirstIdxIs
<1>3. CASE S # {}
  BY <1>1, <1>3, FirstIdxIs
<1> QED BY <1>2, <1>3

LEMMA DeletedIdxIs ==
    /\ DeletedIdx = None <=> \A i \in Idx : ~(Used(i) /\ file(i).del)
    /\ DeletedIdx # None => DeletedIdx \in Idx /\ Used(DeletedIdx) /\ file(DeletedIdx).del
<1> PICK S : S = {i \in Idx : Used(i) /\ file(i).del}
  OBVIOUS
<1>1. S \subseteq Nat /\ DeletedIdx = FirstIdx(S)
  BY Numbers DEF DeletedIdx
<1>2. CASE S = {}
  BY <1>1, <1>2, FirstIdxIs
<1>3. CASE S # {}
  BY <1>1, <1>3, FirstIdxIs
<1> QED BY <1>2, <1>3

(* its_get_free_file_index: another free entry remains, unless a file is   *)
(* replaced.                                                               *)
LEMMA FreeIdxIs ==
    ASSUME NEW S, S = {i \in Idx : ~Used(i)}
    PROVE  /\ FirstIdx(S) # None => FirstIdx(S) \in Idx /\ ~Used(FirstIdx(S))
           /\ S # {} /\ FirstIdx(S \ {Min(S)}) # None
                => /\ FirstIdx(S \ {Min(S)}) \in Idx /\ ~Used(FirstIdx(S \ {Min(S)}))
                   /\ \E i \in Idx \ {FirstIdx(S \ {Min(S)})} : ~Used(i)
<1>1. S \subseteq Nat
  BY Numbers
<1>2. FirstIdx(S) # None => FirstIdx(S) \in S
  BY <1>1, FirstIdxIs
<1>3. ASSUME S # {}, FirstIdx(S \ {Min(S)}) # None
      PROVE  /\ FirstIdx(S \ {Min(S)}) \in S /\ FirstIdx(S \ {Min(S)}) # Min(S)
             /\ Min(S) \in S
  <2> PICK T : T = S \ {Min(S)}
    OBVIOUS
  <2>1. T \subseteq Nat /\ Min(S) \in S
    BY <1>1, <1>3, MinInSet
  <2>2. FirstIdx(T) \in T
    BY <1>3, <2>1, FirstIdxIs
  <2> QED BY <2>1, <2>2
<1> QED BY <1>2, <1>3

LEMMA RoomForIs ==
    ASSUME NEW n, RoomFor(n) # None
    PROVE  RoomFor(n) \in LBlocks /\ block(RoomFor(n)).free >= n
<1> PICK S : S = {lb \in LBlocks : block(lb).free >= n}
  OBVIOUS
<1>1. S \subseteq Nat /\ RoomFor(n) = FirstIdx(S)
  BY Numbers DEF RoomFor
<1>2. S # {}
  BY <1>1, FirstIdxIs
<1> QED BY <1>1, <1>2, FirstIdxIs

LEMMA ChunkSizeIs ==
    ASSUME NEW c, c.size \in Int, c.off \in Int
    PROVE  /\ ChunkSize(c) \in Int
           /\ c.off <= c.size => ChunkSize(c) >= 0 /\ c.off + ChunkSize(c) <= c.size
<1> PICK a : a = c.size - c.off
  OBVIOUS
<1>1. a \in Int /\ BufSize \in Int
  BY Numbers
<1>2. \E x \in {a, BufSize} : \A y \in {a, BufSize} : x <= y
  BY <1>1
<1>3. Min({a, BufSize}) \in {a, BufSize} /\ Min({a, BufSize}) <= a
  BY <1>2 DEF Min
<1> PICK n : n = ChunkSize(c)
  OBVIOUS
<1>4. n \in {a, BufSize} /\ n <= a
  BY <1>3 DEF ChunkSize
<1> QED BY <1>1, <1>4, Numbers

LEMMA NextCountIs ==
    ASSUME NEW n \in Nat
    PROVE  NextCount(n) \in Nat
<1> PICK m : m = (n + 1) % SwapMod
  OBVIOUS
<1>1. SwapMod \in Nat \ {0}
  BY ConfigAssumption
<1>2. m \in Nat
  BY <1>1
<1>3. (m + 1) % SwapMod \in Nat
  BY <1>1, <1>2
<1> QED BY <1>2, <1>3 DEF NextCount

LEMMA HeaderNotErased ==
    ASSUME NEW h \in Header
    PROVE  h # Erased
BY ConfigAssumption DEF Header

LEMMA FileNotFree ==
    ASSUME NEW m \in FileMeta
    PROVE  m # Free
BY ConfigAssumption, Numbers DEF FileMeta

-----------------------------------------------------------------------------
(* What the flash operations change.                                       *)

MetaKept(b) ==
    /\ flash'[b].header = flash[b].header
    /\ flash'[b].bmeta = flash[b].bmeta /\ flash'[b].fmeta = flash[b].fmeta

LEMMA DataWrite ==
    ASSUME FlashOK(flash), NEW b \in Blocks, NEW cells,
           flash' = [flash EXCEPT ![b]["data"] = Over(cells, @)]
    PROVE  FlashOK(flash') /\ \A a \in Blocks : MetaKept(a)
<1>1. PICK D : flash \in [Blocks -> BlockOf(D)]
  BY DEF FlashOK
<1> PICK x : x = Over(cells, flash[b].data)
  OBVIOUS
<1> PICK E : E = D \cup {x}
  OBVIOUS
<1> PICK r : r = [flash[b] EXCEPT !.data = x]
  OBVIOUS
<1>2. r \in BlockOf(E) /\ r.header = flash[b].header /\ r.bmeta = flash[b].bmeta
      /\ r.fmeta = flash[b].fmeta
  BY <1>1 DEF BlockOf
<1>3. flash' = [flash EXCEPT ![b] = r]
  BY <1>1
<1>4. \A a \in Blocks : flash[a] \in BlockOf(E)
  BY <1>1 DEF BlockOf
<1>5. flash' \in [Blocks -> BlockOf(E)]
  BY <1>1, <1>2, <1>3, <1>4
<1>6. \A a \in Blocks : MetaKept(a)
  BY <1>1, <1>2, <1>3 DEF MetaKept
<1> QED BY <1>5, <1>6 DEF FlashOK

LEMMA BlockWrite ==
    ASSUME FlashOK(flash), NEW b \in Blocks, NEW cells, DOMAIN cells \subseteq LBlocks,
           \A l \in DOMAIN cells : cells[l] \in BlockMeta,
           flash' = [flash EXCEPT ![b]["bmeta"] = Over(cells, @)]
    PROVE  /\ FlashOK(flash')
           /\ \A a \in Blocks \ {b} : MetaKept(a)
           /\ flash'[b].header = flash[b].header /\ flash'[b].fmeta = flash[b].fmeta
           /\ \A l \in LBlocks : flash'[b].bmeta[l] = IF l \in DOMAIN cells THEN cells[l]
                                                     ELSE flash[b].bmeta[l]
<1>1. PICK D : flash \in [Blocks -> BlockOf(D)]
  BY DEF FlashOK
<1> PICK x : x = Over(cells, flash[b].bmeta)
  OBVIOUS
<1>2. flash[b].bmeta \in BMetas
  BY <1>1 DEF BlockOf
<1>3. x \in BMetas /\ \A l \in LBlocks : x[l] = IF l \in DOMAIN cells THEN cells[l]
                                                ELSE flash[b].bmeta[l]
  BY <1>2, OverBlocks
<1> PICK r : r = [flash[b] EXCEPT !.bmeta = x]
  OBVIOUS
<1>4. r \in BlockOf(D) /\ r.header = flash[b].header /\ r.bmeta = x /\ r.fmeta = flash[b].fmeta
  BY <1>1, <1>3 DEF BlockOf
<1>5. flash' = [flash EXCEPT ![b] = r]
  BY <1>1
<1>6. flash' \in [Blocks -> BlockOf(D)]
  BY <1>1, <1>4, <1>5
<1>7. \A a \in Blocks \ {b} : MetaKept(a)
  BY <1>1, <1>5 DEF MetaKept
<1>8. flash'[b] = r
  BY <1>1, <1>5
<1> QED BY <1>3, <1>4, <1>6, <1>7, <1>8 DEF FlashOK

LEMMA FileWrite ==
    ASSUME FlashOK(flash), NEW b \in Blocks, NEW cells, DOMAIN cells \subseteq Idx,
           \A i \in DOMAIN cells : cells[i] \in FileMeta \cup {Free},
           flash' = [flash EXCEPT ![b]["fmeta"] = Over(cells, @)]
    PROVE  /\ FlashOK(flash')
           /\ \A a \in Blocks \ {b} : MetaKept(a)
           /\ flash'[b].header = flash[b].header /\ flash'[b].bmeta = flash[b].bmeta
           /\ \A i \in Idx : flash'[b].fmeta[i] = IF i \in DOMAIN cells THEN cells[i]
                                                 ELSE flash[b].fmeta[i]
<1>1. PICK D : flash \in [Blocks -> BlockOf(D)]
  BY DEF FlashOK
<1> PICK x : x = Over(cells, flash[b].fmeta)
  OBVIOUS
<1>2. flash[b].fmeta \in FMetas
  BY <1>1 DEF BlockOf
<1>3. x \in FMetas /\ \A i \in Idx : x[i] = IF i \in DOMAIN cells THEN cells[i]
                                           ELSE flash[b].fmeta[i]
  BY <1>2, OverFiles
<1> PICK r : r = [flash[b] EXCEPT !.fmeta = x]
  OBVIOUS
<1>4. r \in BlockOf(D) /\ r.header = flash[b].header /\ r.fmeta = x /\ r.bmeta = flash[b].bmeta
  BY <1>1, <1>3 DEF BlockOf
<1>5. flash' = [flash EXCEPT ![b] = r]
  BY <1>1
<1>6. flash' \in [Blocks -> BlockOf(D)]
  BY <1>1, <1>4, <1>5
<1>7. \A a \in Blocks \ {b} : MetaKept(a)
  BY <1>1, <1>5 DEF MetaKept
<1>8. flash'[b] = r
  BY <1>1, <1>5
<1> QED BY <1>3, <1>4, <1>6, <1>7, <1>8 DEF FlashOK

LEMMA EraseWrite ==
    ASSUME FlashOK(flash), NEW b \in Blocks,
           flash' = [flash EXCEPT ![b] = ErasedBlock(b)]
    PROVE  /\ FlashOK(flash')
           /\ \A a \in Blocks \ {b} : MetaKept(a)
           /\ flash'[b].header = Erased
<1>1. PICK D : flash \in [Blocks -> BlockOf(D)]
  BY DEF FlashOK
<1> PICK r : r = ErasedBlock(b)
  OBVIOUS
<1> PICK E : E = D \cup {r.data}
  OBVIOUS
<1>2. r.header = Erased /\ r.bmeta = [l \in LBlocks |-> Erased]
      /\ r.fmeta = [i \in Idx |-> Erased]
  BY DEF ErasedBlock
<1>3. r.bmeta \in BMetas /\ r.fmeta \in FMetas
  BY <1>2 DEF BMetas, FMetas
<1>4. r = [header |-> r.header, bmeta |-> r.bmeta, fmeta |-> r.fmeta, data |-> r.data]
  BY DEF ErasedBlock
<1>5. r \in BlockOf(E)
  BY <1>2, <1>3, <1>4 DEF BlockOf
<1>6. \A a \in Blocks : flash[a] \in BlockOf(E)
  BY <1>1 DEF BlockOf
<1>7. flash' = [flash EXCEPT ![b] = r]
  OBVIOUS
<1>8. flash' \in [Blocks -> BlockOf(E)]
  BY <1>1, <1>5, <1>6, <1>7
<1>9. \A a \in Blocks \ {b} : MetaKept(a)
  BY <1>1, <1>7 DEF MetaKept
<1> QED BY <1>1, <1>2, <1>7, <1>8, <1>9 DEF FlashOK

LEMMA HeaderWrite ==
    ASSUME FlashOK(flash), NEW b \in Blocks, NEW h \in Header,
           flash' = [flash EXCEPT ![b].header = h]
    PROVE  /\ FlashOK(flash')
           /\ \A a \in Blocks \ {b} : MetaKept(a)
           /\ flash'[b].header = h /\ flash'[b].bmeta = flash[b].bmeta
           /\ flash'[b].fmeta = flash[b].fmeta
<1>1. PICK D : flash \in [Blocks -> BlockOf(D)]
  BY DEF FlashOK
<1> PICK r : r = [flash[b] EXCEPT !.header = h]
  OBVIOUS
<1>2. r \in BlockOf(D) /\ r.header = h /\ r.bmeta = flash[b].bmeta /\ r.fmeta = flash[b].fmeta
  BY <1>1 DEF BlockOf
<1>3. flash' = [flash EXCEPT ![b] = r]
  OBVIOUS
<1>4. flash' \in [Blocks -> BlockOf(D)]
  BY <1>1, <1>2, <1>3
<1>5. \A a \in Blocks \ {b} : MetaKept(a)
  BY <1>1, <1>3 DEF MetaKept
<1>6. flash'[b] = r
  BY <1>1, <1>3
<1> QED BY <1>2, <1>4, <1>5, <1>6 DEF FlashOK

-----------------------------------------------------------------------------
(* The steps that execute a plan.                                          *)

LEMMA ValidStays ==
    ASSUME Valid, \A b \in {0, 1} : ValidHeader(b)' => MetaKept(b)
    PROVE  Valid'
<1> SUFFICES ASSUME NEW b \in {0, 1}, ValidHeader(b)'
             PROVE  /\ BlocksOK(flash[b].bmeta, b, flash[b].header.sdb)'
                    /\ FilesOK(flash[b].fmeta)' /\ LayoutOK(flash[b].bmeta, flash[b].fmeta)'
  BY DEF Valid
<1>1. MetaKept(b)
  OBVIOUS
<1>2. ValidHeader(b)
  BY <1>1 DEF ValidHeader, MetaKept
<1>3. /\ BlocksOK(flash[b].bmeta, b, flash[b].header.sdb) /\ FilesOK(flash[b].fmeta)
      /\ LayoutOK(flash[b].bmeta, flash[b].fmeta)
  BY <1>2 DEF Valid
<1>4. LayoutOK(flash[b].bmeta, flash[b].fmeta)'
  BY <1>1, <1>3 DEF MetaKept
<1> QED BY <1>1, <1>3, <1>4 DEF MetaKept, BlocksOK, FilesOK, Clean, Marked

LEMMA LeadsBy ==
    ASSUME NEW p, NEW pre, NEW post, NEW N, NEW G, NEW z, Leads(p, pre, post, N, G, z)
    PROVE  /\ p # << >>
           /\ pre = << >> => Head(p) = Commit /\ Tail(p) = post
           /\ pre # << >> => /\ Head(p) = Head(pre) /\ OpOK(Head(pre), N, G, z)
                             /\ IsSeq(Tail(pre))
                             /\ Tail(p) = Cat(Tail(pre), Cat(<<Commit>>, post))
                             /\ Ops(pre) = {Head(pre)} \cup Ops(Tail(pre))
<1> PICK q : q = Cat(<<Commit>>, post)
  OBVIOUS
<1>1. IsSeq(pre) /\ IsSeq(post) /\ p = Cat(pre, q) /\ PreOK(Ops(pre), N, G, z)
  BY DEF Leads
<1>2. IsSeq(q) /\ q # << >> /\ Head(q) = Commit /\ Tail(q) = post
  BY <1>1, ConsIs
<1>3. CASE pre = << >>
  BY <1>1, <1>2, <1>3, CatIs
<1>4. CASE pre # << >>
  <2>1. IsSeq(Tail(pre)) /\ Ops(pre) = {Head(pre)} \cup Ops(Tail(pre))
    BY <1>1, <1>4, TailIs
  <2>2. p # << >> /\ Head(p) = Head(pre) /\ Tail(p) = Cat(Tail(pre), q)
    BY <1>1, <1>2, <1>4, TailIs
  <2>3. OpOK(Head(pre), N, G, z)
    BY <1>1, <2>1 DEF PreOK
  <2> QED BY <1>4, <2>1, <2>2, <2>3
<1> QED BY <1>3, <1>4

(* An operation before the commit is done.                                 *)
LEMMA PreStep ==
    ASSUME Updating, active \in {0, 1}, NEW pre, NEW post, NEW N, NEW G, NEW z,
           Leads(plan, pre, post, N, G, z), EndsWith(post), Pending(G), pre # << >>,
           UNCHANGED <<active, mode, replaced, call>>, plan' = Tail(plan),
           flash'[active].header = flash[active].header,
           flash'[scratch].header = flash[scratch].header,
           PreOK(Ops(Tail(pre)), N, G, z)'
    PROVE  Updating' /\ Leads(plan, Tail(pre), post, N, G, z)' /\ EndsWith(post)'
<1>1. scratch' = scratch
  BY DEF scratch
<1>2. (ValidHeader(active)' <=> ValidHeader(active)) /\ (ValidHeader(scratch)' <=> ValidHeader(scratch))
  BY <1>1 DEF ValidHeader
<1> PICK q : q = Tail(pre)
  OBVIOUS
<1>3. IsSeq(q) /\ Tail(plan) = Cat(q, Cat(<<Commit>>, post))
  BY LeadsBy
<1>4. IsSeq(post) /\ BlocksOK(N, scratch, z) /\ FilesOK(G) /\ LayoutOK(N, G)
  BY DEF Leads
<1>5. BlocksOK(N, scratch, z)' /\ FilesOK(G)' /\ LayoutOK(N, G)'
  BY <1>1, <1>4 DEF BlocksOK, FilesOK, Clean, Marked
<1>6. Leads(plan, q, post, N, G, z)'
  BY <1>3, <1>4, <1>5 DEF Leads
<1>7. EndsWith(post)'
  BY <1>1 DEF EndsWith
<1>8. Pending(G)'
  BY DEF Pending, RoomKept, Clean, Marked
<1>9. mode \in {"busy", "recover", "wipe"} /\ ~ValidHeader(scratch) /\ (ValidHeader(active) <=> mode # "wipe")
  BY DEF Updating
<1>10. Updating'
  BY <1>2, <1>6, <1>7, <1>8, <1>9 DEF Updating
<1> QED BY <1>6, <1>7, <1>10

(* A write before the commit.                                              *)
LEMMA PreWrite ==
    ASSUME Types, Valid, Updating, NEW pre, NEW post, NEW N, NEW G, NEW z,
           Leads(plan, pre, post, N, G, z), EndsWith(post), Pending(G), pre # << >>,
           WriteStep
    PROVE  Fine' /\ Leads(plan, Tail(pre), post, N, G, z)' /\ EndsWith(post)'
<1> PICK op : op = Head(pre)
  OBVIOUS
<1> PICK t : t = Tail(pre)
  OBVIOUS
<1>1. Head(plan) = op /\ OpOK(op, N, G, z) /\ Ops(pre) = {op} \cup Ops(t)
  BY LeadsBy
<1>2. /\ op.do = "write"
      /\ flash' = [flash EXCEPT ![op.blk][op.part] = Over(op.cells, @)]
      /\ plan' = Tail(plan)
      /\ UNCHANGED <<active, count, sdb, mode, call, replaced, result, errors>>
  BY <1>1 DEF WriteStep, NextOp
<1>3. FlashOK(flash) /\ active \in {0, 1}
  BY DEF Types
<1>4. scratch \in Blocks /\ active \in Blocks /\ scratch # active /\ scratch' = scratch
      /\ \A b \in {0, 1} : b = active \/ b = scratch
  BY <1>2, <1>3, ScratchIs DEF scratch
<1>5. PreOK(Ops(pre), N, G, z) /\ BlocksOK(N, scratch, z) /\ FilesOK(G)
  BY DEF Leads
<1>6. ~ValidHeader(scratch)
  BY DEF Updating
<1>8. (\E o \in Ops(t) : o.do = "scratch") \/ sdb' = z
  <2>1. (\E o \in Ops(pre) : o.do = "scratch") \/ sdb = z
    BY <1>5 DEF PreOK
  <2> QED BY <1>1, <1>2, <2>1
<1>9. \A l \in LBlocks : (\E o \in Ops(pre) : Writes(o, "bmeta", l)) \/ flash[scratch].bmeta[l] = N[l]
  BY <1>5 DEF PreOK
<1>10. \A l \in Idx : (\E o \in Ops(pre) : Writes(o, "fmeta", l)) \/ flash[scratch].fmeta[l] = G[l]
  BY <1>5 DEF PreOK
<1>11. SUFFICES /\ FlashOK(flash') /\ MetaKept(active)
                /\ flash'[scratch].header = flash[scratch].header
                /\ \A l \in LBlocks : (\E o \in Ops(t) : Writes(o, "bmeta", l))
                                      \/ flash'[scratch].bmeta[l] = N[l]
                /\ \A l \in Idx : (\E o \in Ops(t) : Writes(o, "fmeta", l))
                                  \/ flash'[scratch].fmeta[l] = G[l]
  <2>0. \A o \in Ops(t) : OpOK(o, N, G, z)'
    <3> SUFFICES ASSUME NEW o \in Ops(t) PROVE OpOK(o, N, G, z)'
      OBVIOUS
    <3>1. OpOK(o, N, G, z)
      BY <1>1, <1>5 DEF PreOK
    <3>2. ValidHeader(active)' <=> ValidHeader(active)
      BY <1>2, <1>11 DEF ValidHeader, MetaKept
    <3> QED BY <1>4, <3>1, <3>2 DEF OpOK
  <2>1. PreOK(Ops(t), N, G, z)'
    BY <1>4, <1>8, <1>11, <2>0 DEF PreOK
  <2>2. Updating' /\ Leads(plan, Tail(pre), post, N, G, z)' /\ EndsWith(post)'
    BY <1>2, <1>3, <1>11, <2>1, PreStep DEF MetaKept
  <2>3. Valid'
    BY <1>4, <1>6, <1>11, ValidStays DEF ValidHeader
  <2>4. Types'
    BY <1>2, <1>11 DEF Types
  <2> QED BY <2>2, <2>3, <2>4 DEF Fine, Phases
<1>12. CASE op.part = "data" /\ op.blk \in Blocks
  <2>1. FlashOK(flash') /\ MetaKept(active) /\ MetaKept(scratch)
    BY <1>2, <1>3, <1>4, <1>12, DataWrite
  <2>2. \A x : ~Writes(op, "bmeta", x) /\ ~Writes(op, "fmeta", x)
    BY <1>12 DEF Writes
  <2> QED BY <1>1, <1>9, <1>10, <2>1, <2>2 DEF MetaKept
<1>13. CASE op.part = "bmeta" /\ op.blk = scratch
  <2>1. \A l \in DOMAIN op.cells : l \in LBlocks /\ op.cells[l] = N[l]
    BY <1>1, <1>2, <1>13 DEF OpOK
  <2>2. \A l \in DOMAIN op.cells : op.cells[l] \in BlockMeta
    BY <1>5, <2>1 DEF BlocksOK
  <2>3. /\ FlashOK(flash') /\ MetaKept(active)
        /\ flash'[scratch].header = flash[scratch].header
        /\ flash'[scratch].fmeta = flash[scratch].fmeta
        /\ \A l \in LBlocks : flash'[scratch].bmeta[l] = IF l \in DOMAIN op.cells THEN op.cells[l]
                                                        ELSE flash[scratch].bmeta[l]
    BY <1>2, <1>3, <1>4, <1>13, <2>1, <2>2, BlockWrite, ZenonT(60)
  <2>4. \A x : ~Writes(op, "fmeta", x)
    BY <1>13 DEF Writes
  <2>5. \A x : Writes(op, "bmeta", x) => x \in DOMAIN op.cells
    BY DEF Writes
  <2> QED BY <1>1, <1>9, <1>10, <2>1, <2>3, <2>4, <2>5
<1>14. CASE op.part = "fmeta" /\ op.blk = scratch
  <2>1. \A l \in DOMAIN op.cells : l \in Idx /\ op.cells[l] = G[l]
    BY <1>1, <1>2, <1>14 DEF OpOK
  <2>2. \A l \in DOMAIN op.cells : op.cells[l] \in FileMeta \cup {Free}
    BY <1>5, <2>1 DEF FilesOK
  <2>3. /\ FlashOK(flash') /\ MetaKept(active)
        /\ flash'[scratch].header = flash[scratch].header
        /\ flash'[scratch].bmeta = flash[scratch].bmeta
        /\ \A l \in Idx : flash'[scratch].fmeta[l] = IF l \in DOMAIN op.cells THEN op.cells[l]
                                                    ELSE flash[scratch].fmeta[l]
    BY <1>2, <1>3, <1>4, <1>14, <2>1, <2>2, FileWrite, ZenonT(60)
  <2>4. \A x : ~Writes(op, "bmeta", x)
    BY <1>14 DEF Writes
  <2>5. \A x : Writes(op, "fmeta", x) => x \in DOMAIN op.cells
    BY DEF Writes
  <2> QED BY <1>1, <1>9, <1>10, <2>1, <2>3, <2>4, <2>5
<1> QED BY <1>1, <1>2, <1>12, <1>13, <1>14 DEF OpOK

(* The exchange of the scratch data block before the commit.               *)
LEMMA PreScratch ==
    ASSUME Types, Valid, Updating, NEW pre, NEW post, NEW N, NEW G, NEW z,
           Leads(plan, pre, post, N, G, z), EndsWith(post), Pending(G), pre # << >>,
           ScratchStep
    PROVE  Fine' /\ Leads(plan, Tail(pre), post, N, G, z)' /\ EndsWith(post)'
<1> PICK op : op = Head(pre)
  OBVIOUS
<1> PICK t : t = Tail(pre)
  OBVIOUS
<1>1. Head(plan) = op /\ OpOK(op, N, G, z) /\ Ops(pre) = {op} \cup Ops(t)
  BY LeadsBy
<1>2. /\ op.do = "scratch" /\ sdb' = op.blk
      /\ plan' = Tail(plan)
      /\ UNCHANGED <<flash, active, count, mode, call, replaced, result, errors>>
  BY <1>1 DEF ScratchStep, NextOp
<1>3. sdb' = z
  BY <1>1, <1>2 DEF OpOK
<1>4. PreOK(Ops(pre), N, G, z) /\ BlocksOK(N, scratch, z)
  BY DEF Leads
<1>5. scratch' = scratch
  BY <1>2 DEF scratch
<1>6. \A x : ~Writes(op, "bmeta", x) /\ ~Writes(op, "fmeta", x)
  BY <1>2 DEF Writes
<1>7. \A o \in Ops(t) : OpOK(o, N, G, z)'
  <2> SUFFICES ASSUME NEW o \in Ops(t) PROVE OpOK(o, N, G, z)'
    OBVIOUS
  <2>1. OpOK(o, N, G, z)
    BY <1>1, <1>4 DEF PreOK
  <2>2. ValidHeader(active)' <=> ValidHeader(active)
    BY <1>2 DEF ValidHeader
  <2> QED BY <1>5, <2>1, <2>2 DEF OpOK
<1>8. \A l \in LBlocks : (\E o \in Ops(t) : Writes(o, "bmeta", l)) \/ flash[scratch].bmeta[l] = N[l]
  BY <1>1, <1>4, <1>6 DEF PreOK
<1>9. \A l \in Idx : (\E o \in Ops(t) : Writes(o, "fmeta", l)) \/ flash[scratch].fmeta[l] = G[l]
  BY <1>1, <1>4, <1>6 DEF PreOK
<1>10. PreOK(Ops(t), N, G, z)'
  BY <1>2, <1>3, <1>5, <1>7, <1>8, <1>9 DEF PreOK
<1>11. Updating' /\ Leads(plan, Tail(pre), post, N, G, z)' /\ EndsWith(post)'
  BY <1>2, <1>10, PreStep DEF Types
<1>12. Valid'
  BY <1>2, ValidStays DEF MetaKept
<1>13. Types'
  BY <1>2, <1>3, <1>4 DEF Types, BlocksOK
<1> QED BY <1>11, <1>12, <1>13 DEF Fine, Phases

(* The erase of a data block before the commit (reset of the metadata).    *)
LEMMA PreErase ==
    ASSUME Types, Valid, Updating, NEW pre, NEW post, NEW N, NEW G, NEW z,
           Leads(plan, pre, post, N, G, z), EndsWith(post), Pending(G), pre # << >>,
           EraseStep
    PROVE  Fine' /\ Leads(plan, Tail(pre), post, N, G, z)' /\ EndsWith(post)'
<1> PICK op : op = Head(pre)
  OBVIOUS
<1> PICK t : t = Tail(pre)
  OBVIOUS
<1>1. Head(plan) = op /\ OpOK(op, N, G, z) /\ Ops(pre) = {op} \cup Ops(t)
  BY LeadsBy
<1>2. /\ op.do = "erase" /\ flash' = [flash EXCEPT ![op.blk] = ErasedBlock(op.blk)]
      /\ plan' = Tail(plan)
      /\ UNCHANGED <<active, count, sdb, mode, call, replaced, result, errors>>
  BY <1>1 DEF EraseStep, NextOp
<1>3. op.blk \in DBlocks
  BY <1>1, <1>2 DEF OpOK
<1>4. FlashOK(flash) /\ active \in {0, 1}
  BY DEF Types
<1>5. scratch \in {0, 1} /\ scratch' = scratch /\ 0 \in Blocks /\ 1 \in Blocks
      /\ 0 \notin DBlocks /\ 1 \notin DBlocks /\ op.blk \in Blocks
  BY <1>2, <1>3, <1>4, ScratchIs, Numbers DEF scratch
<1>6. FlashOK(flash') /\ MetaKept(0) /\ MetaKept(1)
  BY <1>2, <1>3, <1>4, <1>5, EraseWrite
<1>7. MetaKept(active) /\ MetaKept(scratch)
  BY <1>4, <1>5, <1>6
<1>8. PreOK(Ops(pre), N, G, z)
  BY DEF Leads
<1>9. \A x : ~Writes(op, "bmeta", x) /\ ~Writes(op, "fmeta", x)
  BY <1>2 DEF Writes
<1>10. \A o \in Ops(t) : OpOK(o, N, G, z)'
  <2> SUFFICES ASSUME NEW o \in Ops(t) PROVE OpOK(o, N, G, z)'
    OBVIOUS
  <2>1. OpOK(o, N, G, z)
    BY <1>1, <1>8 DEF PreOK
  <2>2. ValidHeader(active)' <=> ValidHeader(active)
    BY <1>2, <1>7 DEF ValidHeader, MetaKept
  <2> QED BY <1>5, <2>1, <2>2 DEF OpOK
<1>11. \A l \in LBlocks : (\E o \in Ops(t) : Writes(o, "bmeta", l)) \/ flash[scratch].bmeta[l] = N[l]
  BY <1>1, <1>8, <1>9 DEF PreOK
<1>12. \A l \in Idx : (\E o \in Ops(t) : Writes(o, "fmeta", l)) \/ flash[scratch].fmeta[l] = G[l]
  BY <1>1, <1>8, <1>9 DEF PreOK
<1>13. (\E o \in Ops(t) : o.do = "scratch") \/ sdb = z
  BY <1>1, <1>2, <1>8 DEF PreOK
<1>14. PreOK(Ops(t), N, G, z)'
  BY <1>2, <1>5, <1>7, <1>10, <1>11, <1>12, <1>13 DEF PreOK, MetaKept
<1>15. Updating' /\ Leads(plan, Tail(pre), post, N, G, z)' /\ EndsWith(post)'
  BY <1>2, <1>4, <1>7, <1>14, PreStep DEF MetaKept
<1>16. Valid'
  BY <1>6, ValidStays
<1>17. Types'
  BY <1>2, <1>6 DEF Types
<1> QED BY <1>15, <1>16, <1>17 DEF Fine, Phases

LEMMA DoneIs ==
    ASSUME call \in SetCalls \cup RemoveCalls
    PROVE  /\ DoneAfterCommit \in SetCalls \cup RemoveCalls
           /\ DoneAfterCommit.op = call.op
           /\ call.op = "set" => /\ DoneAfterCommit.off = call.off /\ DoneAfterCommit.size = call.size
                                 /\ DoneAfterCommit.fid = call.fid
<1> PICK d : d = IF Finished THEN "all" ELSE "some"
  OBVIOUS
<1>1. d \in Done
  BY DEF Done
<1> PICK r : r = [call EXCEPT !.done = d]
  OBVIOUS
<1>2. CASE call \in SetCalls
  <2>1. /\ r \in SetCalls /\ r.op = call.op /\ r.off = call.off /\ r.size = call.size
        /\ r.fid = call.fid
    BY <1>1, <1>2 DEF SetCalls
  <2> QED BY <1>2, <2>1 DEF DoneAfterCommit
<1>3. CASE call \in RemoveCalls
  <2>1. r \in RemoveCalls /\ r.op = call.op /\ call.op # "set"
    BY <1>1, <1>3 DEF RemoveCalls
  <2> QED BY <1>3, <2>1 DEF DoneAfterCommit
<1> QED BY <1>2, <1>3

(* The commit makes the new metadata the active ones.                      *)
LEMMA CommitUpdate ==
    ASSUME Types, Valid, Updating, NEW post, NEW N, NEW G, NEW z,
           Leads(plan, << >>, post, N, G, z), EndsWith(post), Pending(G),
           CommitStep
    PROVE  Fine'
<1>1. Tail(plan) = post /\ IsSeq(post)
  BY LeadsBy DEF Leads
<1> PICK h : h = [count |-> NextCount(count), sdb |-> sdb]
  OBVIOUS
<1>2. /\ flash' = [flash EXCEPT ![scratch].header = h]
      /\ count' = NextCount(count) /\ active' = scratch /\ call' = DoneAfterCommit
      /\ plan' = post /\ UNCHANGED <<sdb, mode, replaced, result, errors>>
  BY <1>1 DEF CommitStep
<1>3. FlashOK(flash) /\ active \in {0, 1} /\ count \in Nat /\ sdb \in Nat
  BY DEF Types
<1>4. scratch \in {0, 1} /\ scratch \in Blocks /\ active \in Blocks /\ scratch # active
      /\ \A b \in {0, 1} : b = active \/ b = scratch
  BY <1>3, ScratchIs
<1>5. scratch' = active
  BY <1>2, <1>3, ScratchIs DEF scratch, Other
<1>6. h \in Header /\ h.sdb = sdb /\ h # Erased
  BY <1>3, NextCountIs, HeaderNotErased DEF Header
<1>7. /\ FlashOK(flash') /\ MetaKept(active) /\ flash'[scratch].header = h
      /\ flash'[scratch].bmeta = flash[scratch].bmeta
      /\ flash'[scratch].fmeta = flash[scratch].fmeta
  BY <1>2, <1>3, <1>4, <1>6, HeaderWrite
<1>8. PreOK({}, N, G, z) /\ BlocksOK(N, scratch, z) /\ FilesOK(G) /\ LayoutOK(N, G)
  BY Literals DEF Leads
<1>9. sdb = z /\ (\A l \in LBlocks : flash[scratch].bmeta[l] = N[l])
      /\ \A l \in Idx : flash[scratch].fmeta[l] = G[l]
  BY <1>8 DEF PreOK
<1>10. flash[scratch].bmeta \in BMetas /\ flash[scratch].fmeta \in FMetas
  BY <1>3, <1>4 DEF FlashOK, BlockOf
<1>11. flash[scratch].bmeta = N
  <2>1. N \in [LBlocks -> BlockMeta]
    BY <1>8 DEF BlocksOK
  <2> QED BY <1>9, <1>10, <2>1 DEF BMetas
<1>12. flash[scratch].fmeta = G
  <2>1. G \in [Idx -> FileMeta \cup {Free}]
    BY <1>8 DEF FilesOK
  <2> QED BY <1>9, <1>10, <2>1 DEF FMetas
<1>13. Valid'
  <2> SUFFICES ASSUME NEW b \in {0, 1}, ValidHeader(b)'
               PROVE  BlocksOK(flash'[b].bmeta, b, flash'[b].header.sdb)
                      /\ FilesOK(flash'[b].fmeta) /\ LayoutOK(flash'[b].bmeta, flash'[b].fmeta)
    BY DEF Valid, BlocksOK, FilesOK, Clean, Marked
  <2>1. CASE b = scratch
    BY <1>2, <1>6, <1>7, <1>8, <1>9, <1>11, <1>12, <2>1
  <2>2. CASE b = active
    <3>1. ValidHeader(active)
      BY <1>7, <2>2 DEF ValidHeader, MetaKept
    <3>2. BlocksOK(flash[active].bmeta, active, flash[active].header.sdb)
          /\ FilesOK(flash[active].fmeta) /\ LayoutOK(flash[active].bmeta, flash[active].fmeta)
      BY <1>3, <3>1 DEF Valid
    <3> QED BY <1>7, <2>2, <3>2 DEF MetaKept
  <2> QED BY <1>4, <2>1, <2>2
<1>14. Types'
  <2>1. mode = "busy" => call' \in SetCalls \cup RemoveCalls
    BY <1>2, DoneIs DEF Types
  <2> QED BY <1>2, <1>3, <1>4, <1>7, <2>1, NextCountIs DEF Types
<1>15. CASE mode = "wipe"
  <2>1. Wiping'
    BY <1>2, <1>15 DEF Wiping, EndsWith
  <2> QED BY <1>13, <1>14, <2>1 DEF Fine, Phases
<1>16. CASE mode # "wipe"
  <2>1. mode' \in {"boot", "busy", "recover"}
    BY <1>2, <1>16 DEF Updating
  <2>2. Current'
    BY <1>2, <1>6, <1>7 DEF Current, ValidHeader
  <2>3. Pending(flash[active].fmeta)'
    <3>1. RoomKept(flash[active].fmeta)'
      <4>1. mode = "busy" => call \in SetCalls \cup RemoveCalls
        BY DEF Types
      <4>2. RoomKept(G)
        BY DEF Pending
      <4> QED BY <1>2, <1>7, <1>12, <4>1, <4>2, DoneIs DEF RoomKept
    <3> QED BY <1>2, <1>7, <1>12, <3>1 DEF Pending, Clean, Marked
  <2>4. /\ IsSeq(plan') /\ \A op \in Ops(plan') : op.do = "erase" /\ op.blk \in Blocks \ {active'}
        /\ \E op \in Ops(plan') : op.do = "erase" /\ op.blk = scratch'
    BY <1>1, <1>2, <1>5, <1>16 DEF EndsWith
  <2>5. Erasing'
    BY <2>1, <2>2, <2>3, <2>4 DEF Erasing
  <2> QED BY <1>13, <1>14, <2>5 DEF Fine, Phases
<1> QED BY <1>15, <1>16

(* After the commit blocks that are not live are erased.                   *)
LEMMA EraseAfter ==
    ASSUME Types, Valid, Erasing, EraseStep
    PROVE  Fine'
<1> PICK op : op = Head(plan)
  OBVIOUS
<1> PICK t : t = Tail(plan)
  OBVIOUS
<1>1. /\ plan # << >> /\ op.do = "erase"
      /\ flash' = [flash EXCEPT ![op.blk] = ErasedBlock(op.blk)]
      /\ plan' = t
      /\ UNCHANGED <<active, count, sdb, mode, call, replaced, result, errors>>
  BY DEF EraseStep, NextOp
<1>2. IsSeq(t) /\ Ops(plan) = {op} \cup Ops(t)
  BY <1>1, TailIs DEF Erasing
<1>3. op.blk \in Blocks \ {active} /\ \A o \in Ops(t) : o.do = "erase" /\ o.blk \in Blocks \ {active}
  BY <1>2 DEF Erasing
<1>4. FlashOK(flash) /\ active \in {0, 1}
  BY DEF Types
<1>5. scratch \in Blocks /\ active \in Blocks /\ scratch' = scratch /\ 0 \in Blocks /\ 1 \in Blocks
  BY <1>1, <1>4, ScratchIs, Numbers DEF scratch
<1>6. /\ FlashOK(flash') /\ \A a \in Blocks \ {op.blk} : MetaKept(a)
      /\ flash'[op.blk].header = Erased
  BY <1>1, <1>3, <1>4, EraseWrite
<1>7. MetaKept(active)
  BY <1>3, <1>5, <1>6
<1>8. Valid'
  BY <1>5, <1>6, ValidStays DEF ValidHeader
<1>9. Types'
  BY <1>1, <1>6 DEF Types
<1>10. Current'
  BY <1>1, <1>7 DEF Current, ValidHeader, MetaKept, Erasing
<1>11. Pending(flash[active].fmeta)'
  BY <1>1, <1>7 DEF Pending, RoomKept, Clean, Marked, MetaKept, Erasing
<1>12. (\E o \in Ops(t) : o.do = "erase" /\ o.blk = scratch) \/ ~ValidHeader(scratch)'
  <2>1. CASE op.blk = scratch
    BY <1>5, <1>6, <2>1 DEF ValidHeader
  <2>2. CASE op.blk # scratch
    <3>1. MetaKept(scratch)
      BY <1>5, <1>6, <2>2
    <3> QED BY <1>2, <1>5, <2>2, <3>1 DEF Erasing, ValidHeader, MetaKept
  <2> QED BY <2>1, <2>2
<1>13. mode \in {"boot", "busy", "recover"}
  BY <1>1 DEF Erasing
<1>14. Erasing'
  BY <1>1, <1>2, <1>3, <1>5, <1>10, <1>11, <1>12, <1>13 DEF Erasing
<1> QED BY <1>8, <1>9, <1>14 DEF Fine, Phases

(* A refused replacement.                                                  *)
LEMMA FailingBy ==
    ASSUME NEW pre, IsSeq(pre)
    PROVE  /\ Cat(pre, <<Fail>>) # << >>
           /\ pre = << >> => Cat(pre, <<Fail>>) = <<Fail>> /\ Head(Cat(pre, <<Fail>>)) = Fail
           /\ pre # << >> => /\ Head(Cat(pre, <<Fail>>)) = Head(pre) /\ IsSeq(Tail(pre))
                             /\ Tail(Cat(pre, <<Fail>>)) = Cat(Tail(pre), <<Fail>>)
                             /\ Ops(pre) = {Head(pre)} \cup Ops(Tail(pre))
<1> PICK q : q = <<Fail>>
  OBVIOUS
<1>1. IsSeq(q) /\ q # << >> /\ Head(q) = Fail
  BY Literals
<1>2. CASE pre = << >>
  BY <1>1, <1>2, CatIs
<1>3. CASE pre # << >>
  BY <1>1, <1>3, TailIs
<1> QED BY <1>2, <1>3

LEMMA WriteInFailing ==
    ASSUME Types, Valid, Failing, WriteStep
    PROVE  Fine'
<1>1. PICK pre : /\ IsSeq(pre) /\ plan = Cat(pre, <<Fail>>)
                 /\ \A op \in Ops(pre) :
                      /\ op.do = "write" /\ op.part = "fmeta" /\ op.blk = scratch
                      /\ \A i \in DOMAIN op.cells : i \in Idx /\ op.cells[i] \in FileMeta
  BY DEF Failing
<1> PICK op : op = Head(pre)
  OBVIOUS
<1> PICK t : t = Tail(pre)
  OBVIOUS
<1>2. pre # << >>
  BY <1>1, FailingBy DEF WriteStep, NextOp, Fail
<1>3. Head(plan) = op /\ IsSeq(t) /\ Tail(plan) = Cat(t, <<Fail>>) /\ Ops(pre) = {op} \cup Ops(t)
  BY <1>1, <1>2, FailingBy
<1>4. /\ flash' = [flash EXCEPT ![op.blk][op.part] = Over(op.cells, @)]
      /\ plan' = Tail(plan)
      /\ UNCHANGED <<active, count, sdb, mode, call, replaced, result, errors>>
  BY <1>3 DEF WriteStep
<1>5. FlashOK(flash) /\ active \in {0, 1}
  BY DEF Types
<1>6. scratch \in Blocks /\ active \in Blocks /\ scratch # active /\ scratch' = scratch
      /\ \A b \in {0, 1} : b = active \/ b = scratch
  BY <1>4, <1>5, ScratchIs DEF scratch
<1>7. op.part = "fmeta" /\ op.blk = scratch /\ \A i \in DOMAIN op.cells : i \in Idx /\ op.cells[i] \in FileMeta
  BY <1>1, <1>3
<1>8. FlashOK(flash') /\ MetaKept(active) /\ flash'[scratch].header = flash[scratch].header
  <2>1. DOMAIN op.cells \subseteq Idx /\ \A i \in DOMAIN op.cells : op.cells[i] \in FileMeta \cup {Free}
    BY <1>7
  <2> QED BY <1>4, <1>5, <1>6, <1>7, <2>1, FileWrite
<1>9. ~ValidHeader(scratch) /\ ~ValidHeader(scratch)'
  BY <1>6, <1>8 DEF Failing, ValidHeader
<1>10. Valid'
  BY <1>6, <1>8, <1>9, ValidStays
<1>11. Types'
  BY <1>4, <1>8 DEF Types
<1>12. Current' /\ Clean(flash[active].fmeta)'
  BY <1>4, <1>8 DEF Failing, Current, ValidHeader, MetaKept, Clean, Marked
<1>13. /\ IsSeq(t) /\ plan' = Cat(t, <<Fail>>)
       /\ \A o \in Ops(t) :
            /\ o.do = "write" /\ o.part = "fmeta" /\ o.blk = scratch'
            /\ \A i \in DOMAIN o.cells : i \in Idx /\ o.cells[i] \in FileMeta
  BY <1>1, <1>3, <1>4, <1>6
<1>14. mode' = "busy" /\ replaced' = None
  BY <1>4 DEF Failing
<1>15. Failing'
  BY <1>6, <1>9, <1>12, <1>13, <1>14 DEF Failing
<1> QED BY <1>10, <1>11, <1>15 DEF Fine, Phases

(* The end of a request.                                                   *)
LEMMA EndIsFine ==
    ASSUME Types, Valid, NEW outcome, EndCall(outcome), UNCHANGED <<flash, active, count, sdb, errors>>,
           Current, ~ValidHeader(scratch), Clean(flash[active].fmeta)
    PROVE  Fine'
<1>1. mode' = "idle" /\ plan' = << >> /\ replaced' = None /\ scratch' = scratch
  BY DEF EndCall, scratch
<1>2. Types'
  BY <1>1 DEF Types
<1>3. Valid'
  BY ValidStays DEF MetaKept
<1>4. Current' /\ ~ValidHeader(scratch)' /\ Clean(flash[active].fmeta)'
  BY <1>1 DEF Current, ValidHeader, Clean, Marked
<1>5. IsSeq(<< >>) /\ Ops(<< >>) = {}
  BY Literals
<1>6. Pending(flash[active].fmeta)'
  BY <1>1, <1>4 DEF Pending, RoomKept
<1>7. Erasing'
  BY <1>1, <1>4, <1>5, <1>6 DEF Erasing
<1> QED BY <1>2, <1>3, <1>7 DEF Fine, Phases

LEMMA FailInFailing ==
    ASSUME Types, Valid, Failing, FailStep
    PROVE  Fine'
BY EndIsFine DEF Failing, FailStep

-----------------------------------------------------------------------------
(* The plans of block updates.                                             *)

(* The operations P write all metadata of the scratch metadata block.      *)
WritesAll(P, N, G, z) ==
    /\ \A op \in P : OpOK(op, N, G, z)
    /\ \A l \in LBlocks : \E op \in P : Writes(op, "bmeta", l)
    /\ \A i \in Idx : \E op \in P : Writes(op, "fmeta", i)
    /\ (\E op \in P : op.do = "scratch") \/ sdb = z

UpdateOf(p, N, G, z) ==
    /\ \E pre : IsSeq(pre) /\ p = Cat(pre, Finalize(z)) /\ WritesAll(Ops(pre), N, G, z)
    /\ BlocksOK(N, scratch, z)

LEMMA ActiveIsValid ==
    ASSUME Types, Valid, Current
    PROVE  /\ BlocksOK(flash[active].bmeta, active, sdb)
           /\ FilesOK(flash[active].fmeta)
           /\ LayoutOK(flash[active].bmeta, flash[active].fmeta)
           /\ \A l \in LBlocks : block(l) \in BlockMeta
           /\ \A i \in Idx : file(i) \in FileMeta \cup {Free}
           /\ \A i \in Idx : Used(i) => file(i) \in FileMeta
<1>1. /\ BlocksOK(flash[active].bmeta, active, sdb) /\ FilesOK(flash[active].fmeta)
      /\ LayoutOK(flash[active].bmeta, flash[active].fmeta)
  BY DEF Types, Valid, Current
<1>2. \A l \in LBlocks : block(l) \in BlockMeta
  BY <1>1 DEF BlocksOK, block
<1>3. \A i \in Idx : file(i) \in FileMeta \cup {Free}
  BY <1>1 DEF FilesOK, file
<1> QED BY <1>1, <1>2, <1>3 DEF Used

(* The commit and the erases after it.                                     *)
LEMMA FinalizeIs ==
    ASSUME active \in {0, 1}, NEW z, NumBlocks > 2 => z \in DBlocks
    PROVE  \E post : /\ IsSeq(post) /\ Finalize(z) = Cat(<<Commit>>, post)
                     /\ \A op \in Ops(post) : op.do = "erase" /\ op.blk \in Blocks \ {scratch}
                     /\ \E op \in Ops(post) : op.do = "erase" /\ op.blk = active
<1> PICK e : e = IF NumBlocks > 2 THEN <<Erase(z)>> ELSE << >>
  OBVIOUS
<1> PICK post : post = Cat(<<Erase(active)>>, e)
  OBVIOUS
<1>1. IsSeq(e) /\ Ops(e) = IF NumBlocks > 2 THEN {Erase(z)} ELSE {}
  BY Literals
<1>2. IsSeq(<<Commit>>) /\ IsSeq(<<Erase(active)>>)
  BY Literals
<1>3. IsSeq(post) /\ Ops(post) = {Erase(active)} \cup Ops(e)
  BY <1>1, ConsIs
<1>4. Finalize(z) = Cat(<<Commit>>, post)
  <2>1. Finalize(z) = Cat(<<Commit, Erase(active)>>, e)
    BY DEF Finalize, Cat
  <2>2. <<Commit, Erase(active)>> = Cat(<<Commit>>, <<Erase(active)>>)
    BY Literals
  <2> PICK a : a = <<Commit>>
    OBVIOUS
  <2> PICK b : b = <<Erase(active)>>
    OBVIOUS
  <2>3. Cat(Cat(a, b), e) = Cat(a, Cat(b, e))
    BY <1>1, <1>2, CatIs
  <2> QED BY <2>1, <2>2, <2>3
<1>5. Erase(active).do = "erase" /\ Erase(active).blk = active /\ Erase(z).do = "erase" /\ Erase(z).blk = z
  BY DEF Erase
<1>6. active \in Blocks \ {scratch} /\ (NumBlocks > 2 => z \in Blocks \ {scratch})
  BY ScratchIs, Numbers
<1> QED BY <1>1, <1>3, <1>4, <1>5, <1>6

(* A block update starts.                                                  *)
LEMMA StartsUpdate ==
    ASSUME Types, Valid, Current, ~ValidHeader(scratch), UNCHANGED <<flash, active, count, sdb>>,
           mode' \in {"busy", "recover"}, NEW N, NEW G, NEW z, NEW p, plan' = p,
           UpdateOf(p, N, G, z), FilesOK(G), LayoutOK(N, G), Pending(G)', Types'
    PROVE  Fine'
<1>1. PICK pre : IsSeq(pre) /\ p = Cat(pre, Finalize(z)) /\ WritesAll(Ops(pre), N, G, z)
  BY DEF UpdateOf
<1>2. BlocksOK(N, scratch, z) /\ active \in {0, 1}
  BY DEF UpdateOf, Types
<1>3. PICK post : /\ IsSeq(post) /\ Finalize(z) = Cat(<<Commit>>, post)
                  /\ \A op \in Ops(post) : op.do = "erase" /\ op.blk \in Blocks \ {scratch}
                  /\ \E op \in Ops(post) : op.do = "erase" /\ op.blk = active
  BY <1>2, FinalizeIs DEF BlocksOK
<1>4. scratch' = scratch
  BY DEF scratch
<1>5. BlocksOK(N, scratch, z)' /\ FilesOK(G)' /\ LayoutOK(N, G)'
  BY <1>2, <1>4 DEF BlocksOK, FilesOK, Clean, Marked
<1>6. PreOK(Ops(pre), N, G, z)'
  <2>1. \A op \in Ops(pre) : OpOK(op, N, G, z)'
    <3> SUFFICES ASSUME NEW op \in Ops(pre) PROVE OpOK(op, N, G, z)'
      OBVIOUS
    <3>1. OpOK(op, N, G, z)
      BY <1>1 DEF WritesAll
    <3> QED BY <1>4, <3>1 DEF OpOK, Current
  <2> QED BY <1>1, <2>1 DEF WritesAll, PreOK
<1>7. Leads(plan, pre, post, N, G, z)'
  BY <1>1, <1>3, <1>5, <1>6 DEF Leads
<1>8. EndsWith(post)'
  BY <1>3, <1>4 DEF EndsWith
<1>9. (ValidHeader(active) /\ ~ValidHeader(scratch))'
  BY <1>4 DEF Current, ValidHeader
<1>10. Updating'
  BY <1>7, <1>8, <1>9 DEF Updating
<1>11. Valid'
  BY ValidStays DEF MetaKept
<1> QED BY <1>10, <1>11 DEF Fine, Phases

(* The layout after a delete, after a file is written in place and after   *)
(* one is appended.                                                        *)
LEMMA LayoutDelete ==
    ASSUME NEW B \in [LBlocks -> BlockMeta], NEW F \in [Idx -> FileMeta \cup {Free}], LayoutOK(B, F),
           NEW idx \in Idx, F[idx] # Free, NEW d, d = F[idx],
           NEW N \in [LBlocks -> BlockMeta],
           \A l \in LBlocks : N[l].free = IF l = d.lb THEN B[l].free + d.max ELSE B[l].free,
           NEW G \in [Idx -> FileMeta \cup {Free}], G[idx] = Free,
           \A i \in Idx \ {idx} :
              /\ G[i] = Free <=> F[i] = Free
              /\ F[i] # Free => /\ G[i].lb = F[i].lb /\ G[i].max = F[i].max /\ G[i].cur = F[i].cur
                                /\ G[i].data = IF F[i].lb = d.lb /\ F[i].data > d.data
                                               THEN F[i].data - d.max ELSE F[i].data
    PROVE  LayoutOK(N, G)
<1>1. /\ d \in FileMeta /\ d.lb \in LBlocks /\ d.max \in Int /\ d.data \in Int
      /\ Placed(B, d)
  BY DEF FileMeta, LayoutOK, PlacedOK
<1>2. \A i \in Idx : F[i] # Free => F[i].lb \in LBlocks /\ F[i].max \in Int /\ F[i].data \in Int /\ F[i].cur \in Int
  BY DEF FileMeta
<1>3. \A l \in LBlocks : B[l].free \in Int /\ N[l].free \in Int /\ DataStart(l) \in Int
  BY Numbers DEF BlockMeta, DataStart
<1>4. BlockSize \in Int
  BY Numbers
<1>5. FreeOK(N)
  BY <1>1, <1>3, <1>4 DEF LayoutOK, FreeOK, Placed
<1>6. \A i \in Idx \ {idx} : F[i] # Free /\ F[i].lb = d.lb => Apart(F[i], d)
  BY DEF LayoutOK, ApartOK
<1>7. \A i \in Idx : F[i] # Free => Placed(B, F[i])
  BY DEF LayoutOK, PlacedOK
<1>8. PlacedOK(N, G)
  <2> SUFFICES ASSUME NEW i \in Idx, G[i] # Free PROVE Placed(N, G[i])
    BY DEF PlacedOK
  <2>1. i \in Idx \ {idx} /\ F[i] # Free
    OBVIOUS
  <2>2. Placed(B, F[i]) /\ (F[i].lb = d.lb => Apart(F[i], d))
    BY <1>6, <1>7, <2>1
  <2> QED BY <1>1, <1>2, <1>3, <1>4, <2>1, <2>2 DEF Placed, Apart
<1>9. ApartOK(G)
  <2> SUFFICES ASSUME NEW i \in Idx, NEW j \in Idx, G[i] # Free, G[j] # Free, i # j, G[i].lb = G[j].lb
               PROVE  Apart(G[i], G[j])
    BY DEF ApartOK
  <2>1. i \in Idx \ {idx} /\ F[i] # Free /\ j \in Idx \ {idx} /\ F[j] # Free
    OBVIOUS
  <2>2. /\ Placed(B, F[i]) /\ (F[i].lb = d.lb => Apart(F[i], d))
        /\ Placed(B, F[j]) /\ (F[j].lb = d.lb => Apart(F[j], d))
    BY <1>6, <1>7, <2>1
  <2>3. Apart(F[i], F[j])
    BY <2>1 DEF LayoutOK, ApartOK
  <2> QED BY <1>1, <1>2, <2>1, <2>2, <2>3 DEF Placed, Apart
<1>10. FilledOK(N, G)
  <2> SUFFICES ASSUME NEW l \in LBlocks, NEW k \in Int, DataStart(l) <= k, k + N[l].free < BlockSize
               PROVE  \E i \in Idx : Occupies(G[i], l, k)
    BY DEF FilledOK
  <2>1. ASSUME NEW h \in Int, DataStart(l) <= h, h + B[l].free < BlockSize
        PROVE  \E i \in Idx : Occupies(F[i], l, h)
    BY <2>1 DEF LayoutOK, FilledOK
  <2>2. CASE l # d.lb
    <3>1. PICK i \in Idx : Occupies(F[i], l, k)
      BY <2>1, <2>2
    <3>2. i # idx /\ F[i] # Free
      BY <2>2, <3>1 DEF Occupies
    <3> QED BY <2>2, <3>1, <3>2 DEF Occupies
  <2>3. CASE l = d.lb /\ k < d.data
    <3>1. k + B[l].free < BlockSize
      BY <1>1, <1>3, <1>4, <2>3 DEF Placed
    <3>2. PICK i \in Idx : Occupies(F[i], l, k)
      BY <2>1, <3>1
    <3>3. i # idx /\ F[i] # Free
      BY <1>1, <2>3, <3>2 DEF Occupies
    <3> QED BY <1>1, <1>2, <2>3, <3>2, <3>3 DEF Occupies
  <2>4. CASE l = d.lb /\ ~(k < d.data)
    <3>h. PICK h \in Int : h = k + d.max
      BY <1>1
    <3>1. h + B[l].free < BlockSize /\ DataStart(l) <= h
      BY <1>1, <1>3, <1>4, <2>4, <3>h DEF Placed
    <3>2. PICK i \in Idx : Occupies(F[i], l, h)
      BY <2>1, <3>1
    <3>3. i # idx /\ F[i] # Free
      BY <1>1, <2>4, <3>2, <3>h DEF Occupies
    <3>4. Apart(F[i], d)
      BY <1>6, <2>4, <3>2, <3>3 DEF Occupies
    <3> QED BY <1>1, <1>2, <2>4, <3>h, <3>2, <3>3, <3>4 DEF Occupies, Apart, Placed
  <2> QED BY <1>1, <2>2, <2>3, <2>4
<1> QED BY <1>5, <1>8, <1>9, <1>10 DEF LayoutOK

(* One entry is written, the other files stay where they are: a file is    *)
(* written in place, or appended.                                          *)
SamePlace(m, n) == m.lb = n.lb /\ m.data = n.data /\ m.max = n.max /\ m.cur = n.cur

LEMMA LayoutReuse ==
    ASSUME NEW B \in [LBlocks -> BlockMeta], NEW F \in [Idx -> FileMeta \cup {Free}], LayoutOK(B, F),
           NEW N, \A l \in LBlocks : N[l].free = B[l].free,
           NEW k \in Idx, F[k] # Free, NEW e \in FileMeta,
           e.lb = F[k].lb, e.data = F[k].data, e.max = F[k].max, e.cur >= 0, e.cur <= e.max,
           NEW G, G = [i \in Idx |-> IF i = k THEN e ELSE F[i]]
    PROVE  LayoutOK(N, G)
<1>1. /\ \A i \in Idx : G[i] # Free <=> F[i] # Free
      /\ \A i \in Idx : F[i] # Free => G[i].lb = F[i].lb /\ G[i].data = F[i].data /\ G[i].max = F[i].max
      /\ \A i \in Idx \ {k} : G[i] = F[i]
      /\ G[k] = e
  BY FileNotFree
<1>2. \A i \in Idx : F[i] # Free => F[i].lb \in LBlocks
  BY DEF FileMeta
<1>3. FreeOK(N)
  BY DEF LayoutOK, FreeOK
<1>4. PlacedOK(N, G)
  <2> SUFFICES ASSUME NEW i \in Idx, F[i] # Free PROVE Placed(N, G[i])
    BY <1>1 DEF PlacedOK
  <2>1. Placed(B, F[i]) /\ F[i].lb \in LBlocks
    BY <1>2 DEF LayoutOK, PlacedOK
  <2>2. G[i].cur >= 0 /\ G[i].cur <= G[i].max
    BY <1>1, <2>1 DEF Placed
  <2> QED BY <1>1, <2>1, <2>2 DEF Placed
<1>5. ApartOK(G)
  BY <1>1 DEF LayoutOK, ApartOK, Apart
<1>6. FilledOK(N, G)
  <2> SUFFICES ASSUME NEW l \in LBlocks, NEW h \in Int, DataStart(l) <= h, h + B[l].free < BlockSize
               PROVE  \E i \in Idx : Occupies(G[i], l, h)
    BY DEF FilledOK
  <2>1. PICK i \in Idx : Occupies(F[i], l, h)
    BY DEF LayoutOK, FilledOK
  <2> QED BY <1>1, <2>1 DEF Occupies
<1> QED BY <1>3, <1>4, <1>5, <1>6 DEF LayoutOK

LEMMA LayoutNew ==
    ASSUME NEW B \in [LBlocks -> BlockMeta], NEW F \in [Idx -> FileMeta \cup {Free}], LayoutOK(B, F),
           NEW lb \in LBlocks, NEW size \in Int, 0 <= size, size <= B[lb].free,
           NEW N, \A l \in LBlocks : N[l].free = IF l = lb THEN B[l].free - size ELSE B[l].free,
           NEW k \in Idx, F[k] = Free, NEW e \in FileMeta,
           e.lb = lb, e.data = BlockSize - B[lb].free, e.max = size, e.cur >= 0, e.cur <= size,
           NEW G, G[k] = e, \A i \in Idx \ {k} : (F[i] = Free <=> G[i] = Free)
                              /\ (F[i] # Free => SamePlace(F[i], G[i]))
    PROVE  LayoutOK(N, G)
<1>1. \A i \in Idx : F[i] # Free => F[i].lb \in LBlocks /\ F[i].max \in Int /\ F[i].data \in Int
                                   /\ F[i].cur \in Int /\ Placed(B, F[i])
  BY DEF FileMeta, LayoutOK, PlacedOK
<1>2. \A l \in LBlocks : B[l].free \in Int /\ DataStart(l) \in Int /\ B[l].free >= 0
                         /\ DataStart(l) + B[l].free <= BlockSize
  BY Numbers DEF BlockMeta, DataStart, LayoutOK, FreeOK
<1>3. BlockSize \in Int /\ e # Free
  BY Numbers, FileNotFree
<1>4. FreeOK(N)
  BY <1>2, <1>3 DEF FreeOK
<1>5. PlacedOK(N, G)
  <2> SUFFICES ASSUME NEW i \in Idx, G[i] # Free PROVE Placed(N, G[i])
    BY DEF PlacedOK
  <2>1. CASE i = k
    BY <1>2, <1>3, <2>1 DEF Placed
  <2>2. CASE i # k
    <3>1. F[i] # Free /\ SamePlace(F[i], G[i])
      BY <2>2
    <3> QED BY <1>1, <1>2, <1>3, <3>1 DEF Placed, SamePlace
  <2> QED BY <2>1, <2>2
<1>6. ApartOK(G)
  <2> SUFFICES ASSUME NEW i \in Idx, NEW j \in Idx, G[i] # Free, G[j] # Free, i # j, G[i].lb = G[j].lb
               PROVE  Apart(G[i], G[j])
    BY DEF ApartOK
  <2>1. ASSUME NEW h \in Idx, h # k, G[h] # Free
        PROVE  F[h] # Free /\ SamePlace(F[h], G[h]) /\ (G[h].lb = lb => G[h].data + G[h].max <= e.data)
    <3>1. F[h] # Free /\ SamePlace(F[h], G[h])
      BY <2>1
    <3> QED BY <1>1, <1>2, <1>3, <3>1 DEF SamePlace, Placed
  <2>2. CASE i = k
    BY <2>1, <2>2 DEF Apart
  <2>3. CASE j = k
    BY <2>1, <2>3 DEF Apart
  <2>4. CASE i # k /\ j # k
    <3>1. F[i] # Free /\ SamePlace(F[i], G[i]) /\ F[j] # Free /\ SamePlace(F[j], G[j])
      BY <2>1, <2>4
    <3>2. Apart(F[i], F[j])
      BY <3>1 DEF LayoutOK, ApartOK, SamePlace
    <3> QED BY <3>1, <3>2 DEF Apart, SamePlace
  <2> QED BY <2>2, <2>3, <2>4
<1>7. FilledOK(N, G)
  <2> SUFFICES ASSUME NEW l \in LBlocks, NEW h \in Int, DataStart(l) <= h, h + N[l].free < BlockSize
               PROVE  \E i \in Idx : Occupies(G[i], l, h)
    BY DEF FilledOK
  <2>1. CASE h + B[l].free < BlockSize
    <3>1. PICK i \in Idx : Occupies(F[i], l, h)
      BY <2>1 DEF LayoutOK, FilledOK
    <3> QED BY <3>1 DEF Occupies, SamePlace
  <2>2. CASE ~(h + B[l].free < BlockSize)
    <3>1. l = lb
      BY <2>2
    <3> QED BY <1>2, <1>3, <2>2, <3>1 DEF Occupies
  <2> QED BY <2>1, <2>2
<1> QED BY <1>4, <1>5, <1>6, <1>7 DEF LayoutOK
(* its_flash_fs_mblock_update_scratch_block_meta: the new block metadata,  *)
(* when the data stay or go to the scratch metadata block, and when they   *)
(* go to the scratch data block.                                           *)
LEMMA CellsOfBlocks ==
    ASSUME Types, Valid, Current, NEW lb \in LBlocks, NEW m \in BlockMeta
    PROVE  /\ DOMAIN BlockMetaCells(lb, m) = LBlocks
           /\ BlockMetaCells(lb, m) \in [LBlocks -> BlockMeta]
           /\ \A l \in LBlocks :
                BlockMetaCells(lb, m)[l].free = IF l = lb THEN m.free ELSE block(l).free
           /\ lb = 0 \/ m.phy = block(lb).phy => BlocksOK(BlockMetaCells(lb, m), scratch, sdb)
           /\ lb # 0 /\ m.phy = sdb => BlocksOK(BlockMetaCells(lb, m), scratch, block(lb).phy)
<1> PICK B : B = flash[active].bmeta
  OBVIOUS
<1>1. BlocksOK(B, active, sdb) /\ \A l \in LBlocks : block(l) = B[l]
  BY ActiveIsValid DEF block
<1>2. active \in {0, 1}
  BY DEF Types
<1> PICK N : N = BlockMetaCells(lb, m)
  OBVIOUS
<1>3. scratch \in Blocks /\ 0 \in LBlocks
  BY <1>2, ScratchIs, Numbers
<1> PICK C : C = [l \in LBlocks |-> IF l = lb THEN m ELSE B[l]]
  OBVIOUS
<1>4. C \in [LBlocks -> BlockMeta]
  BY <1>1 DEF BlocksOK
<1>5. N = [l \in LBlocks |-> IF l = 0 THEN [C[l] EXCEPT !.phy = scratch] ELSE C[l]]
  BY <1>1 DEF BlockMetaCells
<1>6. /\ [C[0] EXCEPT !.phy = scratch] \in BlockMeta /\ [C[0] EXCEPT !.phy = scratch].phy = scratch
      /\ [C[0] EXCEPT !.phy = scratch].free = C[0].free
  BY <1>3, <1>4 DEF BlockMeta
<1>7. N \in [LBlocks -> BlockMeta] /\ N[0].phy = scratch /\ \A l \in LBlocks \ {0} : N[l] = C[l]
  BY <1>3, <1>4, <1>5, <1>6
<1>8. ASSUME lb = 0 \/ m.phy = block(lb).phy PROVE BlocksOK(N, scratch, sdb)
  <2>1. \A l \in LBlocks \ {0} : N[l].phy = B[l].phy
    BY <1>1, <1>7, <1>8
  <2> QED BY <1>1, <1>7, <2>1 DEF BlocksOK
<1>9. ASSUME lb # 0 /\ m.phy = sdb PROVE BlocksOK(N, scratch, block(lb).phy)
  <2>1. NumBlocks > 2 /\ block(lb) = B[lb]
    BY <1>1, <1>9, Numbers
  <2>2. \A l \in LBlocks \ {0, lb} : N[l].phy = B[l].phy
    BY <1>7
  <2>3. N[lb].phy = sdb /\ lb \in LBlocks \ {0}
    BY <1>7, <1>9
  <2>4. B[lb].phy \in DBlocks /\ sdb \in DBlocks /\ B[lb].phy # sdb /\ DBlocks \subseteq Nat
    BY <1>1, <2>1, <2>3, Numbers DEF BlocksOK
  <2>5. \A l \in LBlocks \ {0, lb} : B[l].phy \in DBlocks /\ B[l].phy # sdb /\ B[l].phy # B[lb].phy
    BY <1>1, <2>3 DEF BlocksOK
  <2>6. \A l \in LBlocks \ {0} : N[l].phy \in DBlocks /\ N[l].phy # B[lb].phy
    BY <2>2, <2>3, <2>4, <2>5
  <2>7. ASSUME NEW l \in LBlocks \ {0}, NEW k \in LBlocks \ {0}, N[l].phy = N[k].phy PROVE l = k
    <3>1. CASE l = lb
      BY <2>2, <2>3, <2>5, <2>7, <3>1
    <3>2. CASE k = lb
      BY <2>2, <2>3, <2>5, <2>7, <3>2
    <3>3. CASE l # lb /\ k # lb
      <4>1. B[l].phy = B[k].phy
        BY <2>2, <2>7, <3>3
      <4> QED BY <1>1, <4>1 DEF BlocksOK
    <3> QED BY <3>1, <3>2, <3>3
  <2> QED BY <1>7, <2>1, <2>4, <2>6, <2>7 DEF BlocksOK
<1>10. DOMAIN N = LBlocks
  BY <1>7
<1>11. \A l \in LBlocks : N[l].free = IF l = lb THEN m.free ELSE block(l).free
  BY <1>1, <1>5, <1>6
<1> QED BY <1>7, <1>8, <1>9, <1>10, <1>11

(* The operations of a plan, and what they write.                          *)
LEMMA WriteIs ==
    ASSUME NEW b, NEW part, NEW cells, NEW undo
    PROVE  LET w == Write(b, part, cells, undo)
           IN  w.do = "write" /\ w.blk = b /\ w.part = part /\ w.cells = cells
BY DEF Write

LEMMA DataOp ==
    ASSUME NEW b \in Blocks, NEW cells, NEW undo, NEW N, NEW G, NEW z
    PROVE  OpOK(Write(b, "data", cells, undo), N, G, z)
BY WriteIs DEF OpOK

LEMMA BlockOp ==
    ASSUME NEW N, DOMAIN N = LBlocks, NEW undo, NEW G, NEW z
    PROVE  /\ OpOK(Write(scratch, "bmeta", N, undo), N, G, z)
           /\ \A l \in LBlocks : Writes(Write(scratch, "bmeta", N, undo), "bmeta", l)
<1> PICK w : w = Write(scratch, "bmeta", N, undo)
  OBVIOUS
<1>1. w.do = "write" /\ w.blk = scratch /\ w.part = "bmeta" /\ w.cells = N
  BY WriteIs
<1> QED BY <1>1 DEF OpOK, Writes

LEMMA FileOp ==
    ASSUME NEW cells, NEW undo, NEW N, NEW G, NEW z,
           \A i \in DOMAIN cells : i \in Idx /\ cells[i] = G[i]
    PROVE  /\ OpOK(Write(scratch, "fmeta", cells, undo), N, G, z)
           /\ \A i \in DOMAIN cells : Writes(Write(scratch, "fmeta", cells, undo), "fmeta", i)
<1> PICK w : w = Write(scratch, "fmeta", cells, undo)
  OBVIOUS
<1>1. w.do = "write" /\ w.blk = scratch /\ w.part = "fmeta" /\ w.cells = cells
  BY WriteIs
<1> QED BY <1>1 DEF OpOK, Writes

LEMMA ScratchOp ==
    ASSUME NEW N, NEW G, NEW z
    PROVE  OpOK(SetScratch(z), N, G, z) /\ SetScratch(z).do = "scratch"
BY DEF OpOK, SetScratch

(* its_flash_fs_delete_idx: what it leaves of the files.                   *)
MovedBy(n, m, d) ==
    /\ n.id = m.id /\ n.del = m.del /\ n.lb = m.lb /\ n.max = m.max /\ n.cur = m.cur
    /\ n.once = m.once
    /\ n.data = IF m.lb = d.lb /\ m.data > d.data THEN m.data - d.max ELSE m.data

LEMMA FilesWithoutIs ==
    ASSUME Types, Valid, Current, NEW idx \in Idx, Used(idx)
    PROVE  /\ DOMAIN FilesWithout(idx) = Idx
           /\ FilesOK(FilesWithout(idx))
           /\ Clean(flash[active].fmeta) \/ Marked(flash[active].fmeta, idx)
                => Clean(FilesWithout(idx))
           /\ FilesWithout(idx)[idx] = Free
           /\ \A i \in Idx \ {idx} : /\ FilesWithout(idx)[i] = Free <=> flash[active].fmeta[i] = Free
                                     /\ Used(i) => MovedBy(FilesWithout(idx)[i], file(i), file(idx))
<1> PICK F : F = flash[active].fmeta
  OBVIOUS
<1> PICK G : G = FilesWithout(idx)
  OBVIOUS
<1>1. FilesOK(F) /\ \A i \in Idx : file(i) = F[i] /\ (Used(i) => F[i] \in FileMeta)
  BY ActiveIsValid DEF file
<1> PICK M : M = [i \in Idx |-> MovedDown(file(i), file(idx))]
  OBVIOUS
<1>2. ASSUME NEW i \in Idx, Used(i)
      PROVE  /\ M[i] \in FileMeta /\ M[i].id = F[i].id /\ M[i].del = F[i].del
             /\ M[i].lb = F[i].lb /\ M[i].max = F[i].max /\ M[i].cur = F[i].cur
             /\ M[i].data = F[i].data - F[idx].max /\ M[i].once = F[i].once
  <2> PICK e : e = F[i]
    OBVIOUS
  <2> PICK d : d = F[idx]
    OBVIOUS
  <2>1. e \in FileMeta /\ d \in FileMeta
    BY <1>1, <1>2
  <2> PICK x : x = e.data - d.max
    OBVIOUS
  <2>2. x \in Int
    BY <2>1 DEF FileMeta
  <2> PICK r : r = [e EXCEPT !.data = x]
    OBVIOUS
  <2>3. /\ r \in FileMeta /\ r.id = e.id /\ r.del = e.del /\ r.lb = e.lb /\ r.max = e.max
        /\ r.cur = e.cur /\ r.data = x /\ r.once = e.once
    BY <2>1, <2>2 DEF FileMeta
  <2>4. M[i] = r
    BY <1>1 DEF MovedDown
  <2> QED BY <2>3, <2>4
<1>3. G = [i \in Idx |-> IF i = idx THEN Free ELSE IF i \in Behind(idx) THEN M[i] ELSE F[i]]
  BY <1>1 DEF FilesWithout
<1>4. \A i \in Behind(idx) : i \in Idx /\ Used(i)
  BY DEF Behind
<1>5. ASSUME NEW i \in Idx
      PROVE  /\ G[i] \in FileMeta \cup {Free}
             /\ G[i] # Free => F[i] # Free /\ G[i].id = F[i].id /\ G[i].del = F[i].del /\ i # idx
  <2>1. CASE i = idx
    BY <1>3, <2>1
  <2>2. CASE i # idx /\ i \in Behind(idx)
    <3>1. Used(i) /\ G[i] = M[i] /\ F[i] # Free
      BY <1>1, <1>3, <1>4, <2>2 DEF Used
    <3> QED BY <1>2, <2>2, <3>1
  <2>3. CASE i # idx /\ i \notin Behind(idx)
    <3>1. G[i] = F[i]
      BY <1>3, <2>3
    <3> QED BY <1>1, <2>3, <3>1 DEF FilesOK
  <2> QED BY <2>1, <2>2, <2>3
<1>6. G \in [Idx -> FileMeta \cup {Free}] /\ G[idx] = Free
  BY <1>3, <1>5
<1>7. FilesOK(G)
  BY <1>1, <1>5, <1>6 DEF FilesOK, Marked
<1>8. ASSUME Clean(F) \/ Marked(F, idx) PROVE Clean(G)
  BY <1>1, <1>5, <1>8 DEF FilesOK, Clean, Marked
<1>9. DOMAIN G = Idx
  BY <1>6
<1>10. ASSUME NEW i \in Idx \ {idx}
       PROVE  (G[i] = Free <=> F[i] = Free) /\ (Used(i) => MovedBy(G[i], F[i], F[idx]))
  <2>1. CASE i \in Behind(idx)
    <3>1. /\ Used(i) /\ G[i] = M[i] /\ F[i] # Free
          /\ F[i].lb = F[idx].lb /\ F[i].data > F[idx].data
      BY <1>1, <1>3, <2>1 DEF Used, Behind
    <3> QED BY <1>2, <3>1, FileNotFree DEF MovedBy
  <2>2. CASE i \notin Behind(idx)
    <3>1. G[i] = F[i] /\ (Used(i) => ~(F[i].lb = F[idx].lb /\ F[i].data > F[idx].data))
      BY <1>1, <1>3, <2>2 DEF Behind
    <3> QED BY <3>1 DEF MovedBy
  <2> QED BY <2>1, <2>2
<1> QED BY <1>1, <1>6, <1>7, <1>8, <1>9, <1>10

(* The free sizes N when that of block lb becomes free.                    *)
FreeBecomes(N, lb, free) ==
    \A l \in LBlocks : N[l].free = IF l = lb THEN free ELSE block(l).free

LEMMA CellsFree ==
    ASSUME Types, Valid, Current, NEW lb \in LBlocks, NEW m \in BlockMeta,
           NEW N, N = BlockMetaCells(lb, m), NEW free, free = m.free
    PROVE  N \in [LBlocks -> BlockMeta] /\ FreeBecomes(N, lb, free)
<1>1. /\ BlockMetaCells(lb, m) \in [LBlocks -> BlockMeta]
      /\ \A l \in LBlocks :
           BlockMetaCells(lb, m)[l].free = IF l = lb THEN m.free ELSE block(l).free
  BY CellsOfBlocks
<1> QED BY <1>1 DEF FreeBecomes

LEMMA DeleteLayout ==
    ASSUME Types, Valid, Current, NEW idx \in Idx, Used(idx),
           NEW N \in [LBlocks -> BlockMeta], NEW lb, lb = file(idx).lb,
           NEW free, free = block(lb).free + file(idx).max, FreeBecomes(N, lb, free)
    PROVE  LayoutOK(N, FilesWithout(idx))
<1>1. PICK B : B = flash[active].bmeta
  OBVIOUS
<1>2. PICK F : F = flash[active].fmeta
  OBVIOUS
<1>3. PICK G : G = FilesWithout(idx)
  OBVIOUS
<1>4. PICK d : d = F[idx]
  OBVIOUS
<1>5. /\ B \in [LBlocks -> BlockMeta] /\ F \in [Idx -> FileMeta \cup {Free}] /\ LayoutOK(B, F)
      /\ \A l \in LBlocks : block(l) = B[l]
      /\ \A i \in Idx : file(i) = F[i] /\ (Used(i) <=> F[i] # Free)
  BY <1>1, <1>2, ActiveIsValid DEF BlocksOK, FilesOK, block, file, Used
<1>6. F[idx] # Free /\ file(idx) = d /\ lb = d.lb /\ d \in FileMeta
  BY <1>4, <1>5
<1>7. \A l \in LBlocks : N[l].free = IF l = d.lb THEN B[l].free + d.max ELSE B[l].free
  BY <1>5, <1>6 DEF FreeBecomes
<1>8. G \in [Idx -> FileMeta \cup {Free}] /\ G[idx] = Free
  BY <1>3, FilesWithoutIs DEF FilesOK
<1>9. \A i \in Idx \ {idx} :
        /\ G[i] = Free <=> F[i] = Free
        /\ F[i] # Free => /\ G[i].lb = F[i].lb /\ G[i].max = F[i].max /\ G[i].cur = F[i].cur
                          /\ G[i].data = IF F[i].lb = d.lb /\ F[i].data > d.data
                                         THEN F[i].data - d.max ELSE F[i].data
  <2>1. \A i \in Idx \ {idx} : (G[i] = Free <=> F[i] = Free) /\ (Used(i) => MovedBy(G[i], F[i], d))
    BY <1>2, <1>3, <1>5, <1>6, FilesWithoutIs
  <2> QED BY <1>5, <2>1 DEF MovedBy
<1>10. LayoutOK(N, G)
  <2>1. B \in [LBlocks -> BlockMeta] /\ F \in [Idx -> FileMeta \cup {Free}] /\ LayoutOK(B, F)
    BY <1>5
  <2>2. F[idx] # Free
    BY <1>6
  <2> QED BY <1>4, <1>7, <1>8, <1>9, <2>1, <2>2, LayoutDelete
<1> QED BY <1>3, <1>10

LEMMA DeleteFileIs ==
    ASSUME Types, Valid, Current, NEW idx \in Idx, Used(idx)
    PROVE  \E N, z : UpdateOf(DeleteFile(idx), N, FilesWithout(idx), z)
                     /\ LayoutOK(N, FilesWithout(idx))
<1> PICK G : G = FilesWithout(idx)
  OBVIOUS
<1> PICK d : d = file(idx)
  OBVIOUS
<1>1. d \in FileMeta /\ DOMAIN G = Idx /\ active \in {0, 1} /\ 0 \in LBlocks
  BY ActiveIsValid, FilesWithoutIs, Numbers DEF Types
<1>2. d.lb \in LBlocks /\ d.max \in Int
  BY <1>1 DEF FileMeta
<1>3. scratch \in Blocks
  BY <1>1, ScratchIs
<1> PICK src : src = block(d.lb).phy
  OBVIOUS
<1> PICK dst : dst = ScratchFor(d.lb)
  OBVIOUS
<1> PICK meta : meta = [phy |-> dst, free |-> block(d.lb).free + d.max]
  OBVIOUS
<1>4. block(d.lb) \in BlockMeta /\ block(0) \in BlockMeta
  BY <1>1, <1>2, ActiveIsValid
<1>5. BlocksOK(flash[active].bmeta, active, sdb)
  BY ActiveIsValid
<1>6. d.lb # 0 => sdb \in DBlocks
  <2>1. d.lb # 0 => NumBlocks > 2
    BY <1>2, Numbers
  <2> QED BY <1>5, <2>1 DEF BlocksOK
<1>7. dst \in Blocks
  BY <1>3, <1>6, Numbers DEF ScratchFor
<1>8. meta \in BlockMeta /\ meta.phy = dst
  BY <1>2, <1>4, <1>7 DEF BlockMeta
<1> PICK wf : wf = Write(scratch, "fmeta", G, None)
  OBVIOUS
<1> PICK mg : mg = Write(scratch, "data", Moved(active, MetaSize, BlockSize - block(0).free, 0), None)
  OBVIOUS
<1>9. MigrateBlock0 = <<mg>>
  BY DEF MigrateBlock0
<1>10. \A i \in DOMAIN G : i \in Idx /\ G[i] = G[i]
  BY <1>1
<1>11. \A N, z : /\ OpOK(wf, N, G, z) /\ OpOK(mg, N, G, z)
                 /\ \A i \in Idx : Writes(wf, "fmeta", i)
  BY <1>1, <1>3, <1>10, FileOp, DataOp
<1>12. CASE d.max = 0
  <2> PICK N : N = BlockMetaCells(0, block(0))
    OBVIOUS
  <2> PICK wb : wb = Write(scratch, "bmeta", N, None)
    OBVIOUS
  <2>1. DOMAIN N = LBlocks /\ BlocksOK(N, scratch, sdb)
    BY <1>1, <1>4, CellsOfBlocks
  <2>6. LayoutOK(N, G)
    <3>1. PICK free : free = block(0).free
      OBVIOUS
    <3>2. N \in [LBlocks -> BlockMeta] /\ FreeBecomes(N, 0, free)
      BY <1>1, <1>4, <3>1, CellsFree
    <3>3. PICK e : e = block(d.lb).free + d.max
      OBVIOUS
    <3>4. FreeBecomes(N, d.lb, e)
      <4>1. block(d.lb).free \in Int
        BY <1>4 DEF BlockMeta
      <4>2. e = block(d.lb).free
        BY <1>12, <3>3, <4>1
      <4> QED BY <3>1, <3>2, <4>2 DEF FreeBecomes
    <3> QED BY <3>2, <3>3, <3>4, DeleteLayout
  <2>2. OpOK(wb, N, G, sdb) /\ \A l \in LBlocks : Writes(wb, "bmeta", l)
    BY <2>1, BlockOp
  <2> PICK pre : pre = Cat(Cat(<<wf>>, <<wb>>), <<mg>>)
    OBVIOUS
  <2>3. DeleteFile(idx) = Cat(pre, Finalize(sdb))
    BY <1>9, <1>12 DEF DeleteFile, Cat
  <2>4. IsSeq(pre) /\ Ops(pre) = {wf, wb, mg}
    BY PlanOf3
  <2>5. WritesAll(Ops(pre), N, G, sdb)
    BY <1>11, <2>2, <2>4 DEF WritesAll
  <2> QED BY <2>1, <2>3, <2>4, <2>5, <2>6 DEF UpdateOf
<1>13. CASE d.max # 0 /\ d.lb = 0
  <2> PICK N : N = BlockMetaCells(d.lb, meta)
    OBVIOUS
  <2> PICK wd : wd = Write(dst, "data", CompactedData(idx), None)
    OBVIOUS
  <2> PICK wb : wb = Write(scratch, "bmeta", N, None)
    OBVIOUS
  <2>1. DOMAIN N = LBlocks /\ BlocksOK(N, scratch, sdb)
    BY <1>2, <1>8, <1>13, CellsOfBlocks
  <2>2. OpOK(wb, N, G, sdb) /\ OpOK(wd, N, G, sdb) /\ \A l \in LBlocks : Writes(wb, "bmeta", l)
    BY <1>7, <2>1, BlockOp, DataOp
  <2> PICK x : x = Cat(Cat(<<wd>>, << >>), <<wb>>)
    OBVIOUS
  <2> PICK pre : pre = Cat(Cat(<<wf>>, x), << >>)
    OBVIOUS
  <2>3. DeleteFile(idx) = Cat(pre, Finalize(sdb))
    BY <1>13 DEF DeleteFile, Cat, OnLogical
  <2>4. IsSeq(pre) /\ Ops(pre) = {wf, wd, wb}
    BY PlanOf3Inner
  <2>5. WritesAll(Ops(pre), N, G, sdb)
    BY <1>11, <2>2, <2>4 DEF WritesAll
  <2>6. LayoutOK(N, G)
    <3>1. PICK free : free = block(d.lb).free + d.max
      OBVIOUS
    <3>2. meta.free = free
      BY <3>1
    <3>3. N \in [LBlocks -> BlockMeta] /\ FreeBecomes(N, d.lb, free)
      BY <1>2, <1>8, <3>2, CellsFree
    <3> QED BY <3>1, <3>3, DeleteLayout
  <2> QED BY <2>1, <2>3, <2>4, <2>5, <2>6 DEF UpdateOf
<1>14. CASE d.max # 0 /\ d.lb # 0
  <2> PICK N : N = BlockMetaCells(d.lb, meta)
    OBVIOUS
  <2> PICK wd : wd = Write(dst, "data", CompactedData(idx), None)
    OBVIOUS
  <2> PICK wb : wb = Write(scratch, "bmeta", N, dst)
    OBVIOUS
  <2> PICK ss : ss = SetScratch(src)
    OBVIOUS
  <2>1. dst = sdb
    BY <1>14 DEF ScratchFor
  <2>2. DOMAIN N = LBlocks /\ BlocksOK(N, scratch, src)
    BY <1>2, <1>8, <1>14, <2>1, CellsOfBlocks
  <2>3. /\ OpOK(wb, N, G, src) /\ OpOK(wd, N, G, src) /\ OpOK(ss, N, G, src) /\ ss.do = "scratch"
        /\ \A l \in LBlocks : Writes(wb, "bmeta", l)
    BY <1>7, <2>2, BlockOp, DataOp, ScratchOp
  <2> PICK x : x = Cat(Cat(<<wd>>, <<ss>>), <<wb>>)
    OBVIOUS
  <2> PICK pre : pre = Cat(Cat(<<wf>>, x), <<mg>>)
    OBVIOUS
  <2>4. DeleteFile(idx) = Cat(pre, Finalize(src))
    BY <1>9, <1>14 DEF DeleteFile, Cat, OnLogical
  <2>5. IsSeq(pre) /\ Ops(pre) = {wf, wd, ss, wb, mg}
    BY PlanOf5
  <2>6. WritesAll(Ops(pre), N, G, src)
    BY <1>11, <2>3, <2>5 DEF WritesAll
  <2>7. LayoutOK(N, G)
    <3>1. PICK free : free = block(d.lb).free + d.max
      OBVIOUS
    <3>2. meta.free = free
      BY <3>1
    <3>3. N \in [LBlocks -> BlockMeta] /\ FreeBecomes(N, d.lb, free)
      BY <1>2, <1>8, <3>2, CellsFree
    <3> QED BY <3>1, <3>3, DeleteLayout
  <2> QED BY <2>2, <2>4, <2>5, <2>6, <2>7 DEF UpdateOf
<1> QED BY <1>12, <1>13, <1>14

(* its_flash_fs_file_write: what it writes of the file metadata.           *)
CurSize(m, off, n) == IF n > 0 /\ off + n > m.cur THEN off + n ELSE m.cur
Entries(idx, old) == Idx \ {IF old = idx THEN None ELSE old}
Written(idx, m, old, off, n) ==
    [i \in Entries(idx, old) |-> IF i = idx THEN [m EXCEPT !.cur = CurSize(m, off, n)] ELSE file(i)]

(* The operations of pre write block metadata N and file metadata files.   *)
Covers(pre, N, z, files) ==
    /\ \A G : (\A i \in DOMAIN files : G[i] = files[i]) => \A op \in Ops(pre) : OpOK(op, N, G, z)
    /\ \A l \in LBlocks : \E op \in Ops(pre) : Writes(op, "bmeta", l)
    /\ \A i \in DOMAIN files : \E op \in Ops(pre) : Writes(op, "fmeta", i)
    /\ (\E op \in Ops(pre) : op.do = "scratch") \/ sdb = z

LaidOut(G, lb, free) ==
    \A N : N \in [LBlocks -> BlockMeta] /\ FreeBecomes(N, lb, free) => LayoutOK(N, G)

LEMMA WriteFileIs ==
    ASSUME Types, Valid, Current, NEW idx \in Idx, NEW m \in FileMeta, NEW free \in Int,
           NEW old, NEW off \in Int, NEW n \in Int, NEW v
    PROVE  \E pre, N, z : /\ IsSeq(pre)
                          /\ WriteFile(idx, m, free, old, off, n, v) = Cat(pre, Finalize(z))
                          /\ BlocksOK(N, scratch, z) /\ FreeBecomes(N, m.lb, free)
                          /\ Covers(pre, N, z, Written(idx, m, old, off, n))
<1> PICK W : W = Written(idx, m, old, off, n)
  OBVIOUS
<1>1. m.lb \in LBlocks /\ active \in {0, 1} /\ DOMAIN W \subseteq Idx
  BY DEF FileMeta, Types, Written, Entries
<1>2. scratch \in Blocks
  BY <1>1, ScratchIs
<1> PICK src : src = block(m.lb).phy
  OBVIOUS
<1>3. block(m.lb) \in BlockMeta /\ src \in Blocks
  BY <1>1, ActiveIsValid DEF BlockMeta
<1>4. BlocksOK(flash[active].bmeta, active, sdb)
  BY ActiveIsValid
<1>5. m.lb # 0 => sdb \in DBlocks /\ sdb \in Blocks
  <2>1. m.lb # 0 => NumBlocks > 2
    BY <1>1, Numbers
  <2> QED BY <1>4, <2>1, Numbers DEF BlocksOK
<1> PICK sc : sc = ScratchFor(m.lb)
  OBVIOUS
<1>6. sc \in Blocks /\ (m.lb # 0 => sc = sdb) /\ (m.lb = 0 => sc = scratch)
  BY <1>2, <1>5 DEF ScratchFor
<1> PICK wf : wf = Write(scratch, "fmeta", W, None)
  OBVIOUS
<1> PICK mg : mg = Write(scratch, "data", Moved(active, MetaSize, BlockSize - block(0).free, 0), None)
  OBVIOUS
<1> PICK wd : wd = Write(sc, "data", FileCells(m, free, off, n, v), None)
  OBVIOUS
<1> PICK ss : ss = SetScratch(src)
  OBVIOUS
<1>7. MigrateBlock0 = <<mg>>
  BY DEF MigrateBlock0
<1>8. \A G, N, z : (\A i \in DOMAIN W : G[i] = W[i]) => OpOK(wf, N, G, z)
  BY <1>1, FileOp
<1>9. \A i \in DOMAIN W : Writes(wf, "fmeta", i)
  <2>1. \A i \in DOMAIN W : i \in Idx /\ W[i] = W[i]
    BY <1>1
  <2> QED BY <2>1, FileOp
<1>10. \A G, N, z : OpOK(mg, N, G, z) /\ OpOK(wd, N, G, z)
  BY <1>2, <1>6, DataOp
<1>11. \A G, N : OpOK(ss, N, G, src) /\ ss.do = "scratch"
  BY ScratchOp
<1>12. CASE n = 0
  <2> PICK meta : meta = [phy |-> src, free |-> free]
    OBVIOUS
  <2>1. meta \in BlockMeta /\ meta.phy = block(m.lb).phy
    BY <1>3 DEF BlockMeta
  <2> PICK N : N = BlockMetaCells(m.lb, meta)
    OBVIOUS
  <2>2. DOMAIN N = LBlocks /\ BlocksOK(N, scratch, sdb)
    BY <1>1, <2>1, CellsOfBlocks
  <2>7. FreeBecomes(N, m.lb, free)
    <3>1. meta.free = free
      OBVIOUS
    <3> QED BY <1>1, <2>1, <3>1, CellsFree
  <2> PICK wb : wb = Write(scratch, "bmeta", N, None)
    OBVIOUS
  <2>3. (\A G : OpOK(wb, N, G, sdb)) /\ \A l \in LBlocks : Writes(wb, "bmeta", l)
    BY <2>2, BlockOp
  <2> PICK pre : pre = Cat(Cat(<< >>, <<wb, wf>>), <<mg>>)
    OBVIOUS
  <2>4. WriteFile(idx, m, free, old, off, n, v) = Cat(pre, Finalize(sdb))
    BY <1>7, <1>12 DEF WriteFile, Cat, Written, CurSize, Entries
  <2>5. IsSeq(pre) /\ Ops(pre) = {wb, wf, mg}
    BY PlanOfWrite0
  <2>6. Covers(pre, N, sdb, W)
    BY <1>8, <1>9, <1>10, <2>3, <2>5 DEF Covers
  <2> QED BY <2>2, <2>4, <2>5, <2>6, <2>7
<1>13. CASE n # 0 /\ m.lb = 0
  <2> PICK meta : meta = [phy |-> sc, free |-> free]
    OBVIOUS
  <2>1. meta \in BlockMeta
    BY <1>6 DEF BlockMeta
  <2> PICK N : N = BlockMetaCells(m.lb, meta)
    OBVIOUS
  <2>2. DOMAIN N = LBlocks /\ BlocksOK(N, scratch, sdb)
    BY <1>1, <1>13, <2>1, CellsOfBlocks
  <2>7. FreeBecomes(N, m.lb, free)
    <3>1. meta.free = free
      OBVIOUS
    <3> QED BY <1>1, <2>1, <3>1, CellsFree
  <2> PICK wb : wb = Write(scratch, "bmeta", N, None)
    OBVIOUS
  <2>3. (\A G : OpOK(wb, N, G, sdb)) /\ \A l \in LBlocks : Writes(wb, "bmeta", l)
    BY <2>2, BlockOp
  <2> PICK pre : pre = Cat(Cat(Cat(<<wd>>, << >>), <<wb, wf>>), << >>)
    OBVIOUS
  <2>4. WriteFile(idx, m, free, old, off, n, v) = Cat(pre, Finalize(sdb))
    BY <1>13 DEF WriteFile, Cat, Written, CurSize, Entries, OnLogical
  <2>5. IsSeq(pre) /\ Ops(pre) = {wd, wb, wf}
    BY PlanOfWrite1
  <2>6. Covers(pre, N, sdb, W)
    BY <1>8, <1>9, <1>10, <2>3, <2>5 DEF Covers
  <2> QED BY <2>2, <2>4, <2>5, <2>6, <2>7
<1>14. CASE n # 0 /\ m.lb # 0
  <2> PICK meta : meta = [phy |-> sc, free |-> free]
    OBVIOUS
  <2>1. meta \in BlockMeta /\ meta.phy = sdb
    BY <1>6, <1>14 DEF BlockMeta
  <2> PICK N : N = BlockMetaCells(m.lb, meta)
    OBVIOUS
  <2>2. DOMAIN N = LBlocks /\ BlocksOK(N, scratch, src)
    BY <1>1, <1>14, <2>1, CellsOfBlocks
  <2>7. FreeBecomes(N, m.lb, free)
    <3>1. meta.free = free
      OBVIOUS
    <3> QED BY <1>1, <2>1, <3>1, CellsFree
  <2> PICK wb : wb = Write(scratch, "bmeta", N, None)
    OBVIOUS
  <2>3. (\A G : OpOK(wb, N, G, src)) /\ \A l \in LBlocks : Writes(wb, "bmeta", l)
    BY <2>2, BlockOp
  <2> PICK pre : pre = Cat(Cat(Cat(<<wd>>, <<ss>>), <<wb, wf>>), <<mg>>)
    OBVIOUS
  <2>4. WriteFile(idx, m, free, old, off, n, v) = Cat(pre, Finalize(src))
    BY <1>7, <1>14 DEF WriteFile, Cat, Written, CurSize, Entries, OnLogical
  <2>5. IsSeq(pre) /\ Ops(pre) = {wd, ss, wb, wf, mg}
    BY PlanOfWrite2
  <2>6. Covers(pre, N, src, W)
    BY <1>8, <1>9, <1>10, <1>11, <2>3, <2>5 DEF Covers
  <2> QED BY <2>2, <2>4, <2>5, <2>6, <2>7
<1> QED BY <1>12, <1>13, <1>14

(* its_flash_fs_file_write up to the entry and its metadata: a file that   *)
(* is written in place, one that is replaced and a new one.                *)
OldMeta(c, old) ==
    IF c.off > 0 THEN file(old) ELSE [file(old) EXCEPT !.cur = 0, !.once = c.once, !.del = FALSE]
NewMeta(c, lb) ==
    [id |-> c.fid, lb |-> lb, data |-> BlockSize - block(lb).free,
     max |-> c.size, cur |-> 0, once |-> c.once, del |-> FALSE]
Fits(c, lb, idx) == c.size <= MaxFileSize /\ lb # None /\ idx # None

LEMMA ChunkReuse ==
    ASSUME NEW c, NEW old, old = FileIdx(c.fid), old # None,
           c.off > 0 \/ file(old).max = c.size,
           NEW m, m = OldMeta(c, old)
    PROVE  /\ WriteChunk(c).old = None
           /\ WriteChunk(c).ops
                = Cat(<< >>, WriteFile(old, m, block(m.lb).free, old, c.off, ChunkSize(c), c.val))
BY DEF WriteChunk, Cat, OldMeta

LEMMA ChunkReplace ==
    ASSUME NEW c, NEW old, old = FileIdx(c.fid), old # None,
           ~(c.off > 0 \/ file(old).max = c.size),
           NEW S, S = {i \in Idx : ~Used(i)}, NEW idx, idx = FirstIdx(S),
           NEW lb, lb = RoomFor(c.size),
           NEW w, w = Write(scratch, "fmeta", [i \in {old} |-> [file(i) EXCEPT !.del = TRUE]], None)
    PROVE  /\ Fits(c, lb, idx) =>
                 /\ WriteChunk(c).old = old
                 /\ WriteChunk(c).ops
                      = Cat(<<w>>, WriteFile(idx, NewMeta(c, lb), block(lb).free - c.size, old,
                                             c.off, ChunkSize(c), c.val))
           /\ ~Fits(c, lb, idx) =>
                 WriteChunk(c).old = None /\ WriteChunk(c).ops = Cat(<<w>>, <<Fail>>)
BY DEF WriteChunk, Cat, FreeIdx, NewMeta, Fits

LEMMA ChunkNew ==
    ASSUME NEW c, NEW old, old = FileIdx(c.fid), old = None,
           NEW S, S = {i \in Idx : ~Used(i)}, NEW idx,
           idx = IF S = {} THEN FirstIdx(S) ELSE FirstIdx(S \ {Min(S)}),
           NEW lb, lb = RoomFor(c.size)
    PROVE  /\ WriteChunk(c).old = None
           /\ Fits(c, lb, idx) =>
                 WriteChunk(c).ops
                   = Cat(<< >>, WriteFile(idx, NewMeta(c, lb), block(lb).free - c.size, old,
                                          c.off, ChunkSize(c), c.val))
           /\ ~Fits(c, lb, idx) => WriteChunk(c).ops = Cat(<< >>, <<Fail>>)
BY DEF WriteChunk, Cat, FreeIdx, NewMeta, Fits

(* The files after the write of a chunk.                                   *)
LEMMA FilesReuse ==
    ASSUME NEW F, FilesOK(F), Clean(F), NEW k \in Idx, F[k] # Free,
           NEW e \in FileMeta, e.id = F[k].id, e.del = F[k].del,
           NEW G, G = [i \in Idx |-> IF i = k THEN e ELSE F[i]]
    PROVE  FilesOK(G) /\ Clean(G)
<1>1. e # Free
  BY FileNotFree
<1>2. G \in [Idx -> FileMeta \cup {Free}]
  BY DEF FilesOK
<1>3. \A i \in Idx : /\ G[i] = Free <=> F[i] = Free
                     /\ G[i] # Free => G[i].id = F[i].id /\ G[i].del = F[i].del
  BY <1>1
<1> QED BY <1>2, <1>3 DEF FilesOK, Clean, Marked

LEMMA FilesNew ==
    ASSUME NEW F, FilesOK(F), Clean(F), NEW k \in Idx, F[k] = Free,
           \E i \in Idx \ {k} : F[i] = Free,
           NEW e \in FileMeta, e.del = FALSE, \A i \in Idx : F[i] # Free => F[i].id # e.id,
           NEW G, G = [i \in Idx |-> IF i = k THEN e ELSE F[i]]
    PROVE  FilesOK(G) /\ Clean(G)
<1>1. G \in [Idx -> FileMeta \cup {Free}]
  BY DEF FilesOK
<1>2. Clean(G)
  BY DEF Clean, Marked
<1>3. \E i \in Idx : G[i] = Free
  OBVIOUS
<1>4. ASSUME NEW i \in Idx, NEW j \in Idx, G[i] # Free, G[j] # Free, G[i].id = G[j].id,
             ~G[i].del, ~G[j].del
      PROVE  i = j
  <2>1. CASE i = k /\ j # k
    BY <1>4, <2>1
  <2>2. CASE j = k /\ i # k
    BY <1>4, <2>2
  <2>3. CASE i # k /\ j # k
    BY <1>4, <2>3 DEF FilesOK
  <2> QED BY <2>1, <2>2, <2>3
<1>5. \A i, j \in Idx : Marked(G, i) /\ Marked(G, j) => i = j
  BY <1>2 DEF Clean
<1> QED BY <1>1, <1>2, <1>3, <1>4, <1>5 DEF FilesOK

Replacing(F, k, e, o, d) == [i \in Idx |-> IF i = k THEN e ELSE IF i = o THEN d ELSE F[i]]

LEMMA FilesReplace ==
    ASSUME NEW F, FilesOK(F), Clean(F), NEW k \in Idx, F[k] = Free,
           NEW o \in Idx, F[o] # Free, F[o] \in FileMeta,
           NEW e \in FileMeta, e.del = FALSE, e.id = F[o].id,
           NEW d \in FileMeta, d.del = TRUE,
           NEW G, G = Replacing(F, k, e, o, d)
    PROVE  FilesOK(G) /\ Marked(G, o)
<1> USE DEF Replacing
<1>0. d # Free /\ o # k
  BY FileNotFree
<1>1. G \in [Idx -> FileMeta \cup {Free}]
  BY DEF FilesOK
<1>2. Marked(G, o)
  BY <1>0 DEF Marked
<1>3. \A i \in Idx : Marked(G, i) => i = o
  BY DEF Clean, Marked
<1>4. ASSUME NEW i \in Idx, NEW j \in Idx, G[i] # Free, G[j] # Free, G[i].id = G[j].id,
             ~G[i].del, ~G[j].del
      PROVE  i = j
  <2>1. i # o /\ j # o
    BY <1>0, <1>4
  <2>2. \A l \in Idx \ {k, o} : F[l] # Free => ~F[l].del
    BY DEF Clean, Marked
  <2>3. \A l \in Idx \ {k, o} : F[l] # Free => F[l].id # F[o].id
    <3>1. ~F[o].del
      BY DEF Clean, Marked
    <3> QED BY <2>2, <3>1 DEF FilesOK
  <2>4. CASE i = k /\ j # k
    BY <1>4, <2>1, <2>3, <2>4
  <2>5. CASE j = k /\ i # k
    BY <1>4, <2>1, <2>3, <2>5
  <2>6. CASE i # k /\ j # k
    <3>1. G[i] = F[i] /\ G[j] = F[j]
      BY <2>1, <2>6
    <3> QED BY <1>4, <3>1 DEF FilesOK
  <2> QED BY <2>4, <2>5, <2>6
<1>5. ~Clean(G)
  BY <1>2 DEF Clean
<1> QED BY <1>1, <1>2, <1>3, <1>4, <1>5 DEF FilesOK

LEMMA OldMetaIs ==
    ASSUME NEW c, c.once \in BOOLEAN, NEW old, NEW o \in FileMeta, file(old) = o,
           ~o.del, NEW m, m = OldMeta(c, old)
    PROVE  /\ m \in FileMeta /\ m.id = o.id /\ m.del = o.del
           /\ m.lb = o.lb /\ m.data = o.data /\ m.max = o.max /\ m.cur \in {0, o.cur}
<1>1. PICK b \in BOOLEAN : b = c.once
  OBVIOUS
<1>2. PICK q : q = [o EXCEPT !.cur = 0]
  OBVIOUS
<1>3. PICK p : p = [q EXCEPT !.once = b]
  OBVIOUS
<1>7. PICK r : r = [p EXCEPT !.del = FALSE]
  OBVIOUS
<1>4. m = o \/ m = r
  BY <1>1, <1>2, <1>3, <1>7 DEF OldMeta, FileMeta
<1>5. /\ q \in FileMeta /\ q.id = o.id /\ q.del = o.del
      /\ q.lb = o.lb /\ q.data = o.data /\ q.max = o.max /\ q.cur = 0
  BY <1>2 DEF FileMeta
<1>6. /\ p \in FileMeta /\ p.id = q.id /\ p.del = q.del
      /\ p.lb = q.lb /\ p.data = q.data /\ p.max = q.max /\ p.cur = q.cur
  BY <1>3, <1>5 DEF FileMeta
<1>8. /\ r \in FileMeta /\ r.id = p.id /\ r.del = FALSE
      /\ r.lb = p.lb /\ r.data = p.data /\ r.max = p.max /\ r.cur = p.cur
  BY <1>6, <1>7 DEF FileMeta
<1>9. o.del = FALSE
  BY DEF FileMeta
<1> QED BY <1>4, <1>5, <1>6, <1>8, <1>9

(* The entry that is written.                                              *)
LEMMA EntryIs ==
    ASSUME NEW m \in FileMeta, NEW off \in Int, NEW n \in Int,
           NEW e, e = [m EXCEPT !.cur = CurSize(m, off, n)]
    PROVE  /\ e \in FileMeta /\ e.id = m.id /\ e.del = m.del
           /\ e.lb = m.lb /\ e.data = m.data /\ e.max = m.max /\ e.cur = CurSize(m, off, n)
<1>1. CurSize(m, off, n) \in Int
  BY DEF FileMeta, CurSize
<1> QED BY <1>1 DEF FileMeta

(* A plan that starts with the mark of the old file.                       *)
LEMMA MarkedUpdate ==
    ASSUME active \in {0, 1}, NEW mark, IsSeq(mark), NEW pre, IsSeq(pre),
           NEW N, NEW G, NEW z, NEW W, NEW p, p = Cat(mark, Cat(pre, Finalize(z))),
           BlocksOK(N, scratch, z), Covers(pre, N, z, W), \A i \in DOMAIN W : G[i] = W[i],
           \A op \in Ops(mark) : OpOK(op, N, G, z),
           \A i \in Idx \ DOMAIN W : \E op \in Ops(mark) : Writes(op, "fmeta", i)
    PROVE  UpdateOf(p, N, G, z)
<1>1. PICK post : IsSeq(post) /\ Finalize(z) = Cat(<<Commit>>, post)
  BY FinalizeIs DEF BlocksOK
<1>2. IsSeq(Finalize(z))
  BY <1>1, ConsIs
<1> PICK q : q = Cat(mark, pre)
  OBVIOUS
<1>3. IsSeq(q) /\ Ops(q) = Ops(mark) \cup Ops(pre)
  BY CatOps
<1>4. p = Cat(q, Finalize(z))
  BY <1>2, CatIs
<1>5. \A op \in Ops(pre) : OpOK(op, N, G, z)
  BY DEF Covers
<1>6. WritesAll(Ops(q), N, G, z)
  <2>1. \A op \in Ops(q) : OpOK(op, N, G, z)
    BY <1>3, <1>5
  <2>2. \A l \in LBlocks : \E op \in Ops(q) : Writes(op, "bmeta", l)
    BY <1>3 DEF Covers
  <2>3. \A i \in Idx : \E op \in Ops(q) : Writes(op, "fmeta", i)
    BY <1>3 DEF Covers
  <2>4. (\E op \in Ops(q) : op.do = "scratch") \/ sdb = z
    BY <1>3 DEF Covers
  <2> QED BY <2>1, <2>2, <2>3, <2>4 DEF WritesAll
<1> QED BY <1>3, <1>4, <1>6 DEF UpdateOf

LEMMA NewMetaIs ==
    ASSUME Types, Valid, Current, NEW c \in SetCalls, NEW lb \in LBlocks
    PROVE  /\ NewMeta(c, lb) \in FileMeta /\ NewMeta(c, lb).id = c.fid
           /\ NewMeta(c, lb).del = FALSE /\ block(lb).free - c.size \in Int
           /\ NewMeta(c, lb).lb = lb /\ NewMeta(c, lb).data = BlockSize - block(lb).free
           /\ NewMeta(c, lb).max = c.size /\ NewMeta(c, lb).cur = 0
<1>1. block(lb) \in BlockMeta /\ BlockSize \in Int
  BY ActiveIsValid, Numbers
<1>2. block(lb).free \in Int /\ c.fid \in Fids /\ c.size \in Int /\ c.once \in BOOLEAN
  BY <1>1 DEF BlockMeta, SetCalls
<1>3. BlockSize - block(lb).free \in Int
  BY <1>1, <1>2
<1> QED BY <1>2, <1>3 DEF NewMeta, FileMeta

(* A refused write.                                                        *)
LEMMA StartsFailing ==
    ASSUME Types, Valid, Current, ~ValidHeader(scratch), Clean(flash[active].fmeta),
           UNCHANGED <<flash, active, count, sdb>>, mode' = "busy", replaced' = None, Types',
           NEW mark, IsSeq(mark), plan' = Cat(mark, <<Fail>>),
           \A op \in Ops(mark) :
               /\ op.do = "write" /\ op.part = "fmeta" /\ op.blk = scratch
               /\ \A i \in DOMAIN op.cells : i \in Idx /\ op.cells[i] \in FileMeta
    PROVE  Fine'
<1>1. scratch' = scratch
  BY DEF scratch
<1>2. Valid'
  BY ValidStays DEF MetaKept
<1>3. Current' /\ ~ValidHeader(scratch)' /\ Clean(flash[active].fmeta)'
  BY <1>1 DEF Current, ValidHeader, Clean, Marked
<1>4. Failing'
  BY <1>1, <1>3 DEF Failing
<1> QED BY <1>2, <1>4 DEF Fine, Phases

(* The plan of a write.                                                    *)
LEMMA WrittenIs ==
    ASSUME NEW F, \A i \in Idx : file(i) = F[i], NEW idx, NEW m, NEW old, NEW off, NEW n,
           NEW e, e = [m EXCEPT !.cur = CurSize(m, off, n)],
           NEW W, W = Written(idx, m, old, off, n)
    PROVE  /\ DOMAIN W = Entries(idx, old)
           /\ \A i \in DOMAIN W : W[i] = IF i = idx THEN e ELSE F[i]
<1>1. Entries(idx, old) \subseteq Idx
  BY DEF Entries
<1> QED BY <1>1 DEF Written

LEMMA StartsWrite ==
    ASSUME Types, Valid, Current, ~ValidHeader(scratch), Types',
           UNCHANGED <<flash, active, count, sdb>>, mode' = "busy",
           NEW idx \in Idx, NEW m \in FileMeta, NEW free \in Int, NEW old, NEW off \in Int,
           NEW n \in Int, NEW v, NEW mark, IsSeq(mark),
           NEW w, w = WriteFile(idx, m, free, old, off, n, v), plan' = Cat(mark, w),
           NEW G, NEW W, W = Written(idx, m, old, off, n), \A i \in DOMAIN W : G[i] = W[i],
           \A N, z : \A op \in Ops(mark) : OpOK(op, N, G, z),
           \A i \in Idx \ DOMAIN W : \E op \in Ops(mark) : Writes(op, "fmeta", i),
           FilesOK(G), Pending(G)',
           LaidOut(G, m.lb, free)
    PROVE  Fine'
<1>1. \E pre, N, z : /\ IsSeq(pre)
                     /\ WriteFile(idx, m, free, old, off, n, v) = Cat(pre, Finalize(z))
                     /\ BlocksOK(N, scratch, z) /\ FreeBecomes(N, m.lb, free)
                     /\ Covers(pre, N, z, Written(idx, m, old, off, n))
  BY WriteFileIs
<1>2. PICK pre, N, z : /\ IsSeq(pre) /\ w = Cat(pre, Finalize(z))
                       /\ BlocksOK(N, scratch, z) /\ Covers(pre, N, z, W)
                       /\ FreeBecomes(N, m.lb, free)
  BY <1>1
<1> PICK p : p = Cat(mark, w)
  OBVIOUS
<1>3. active \in {0, 1} /\ p = Cat(mark, Cat(pre, Finalize(z)))
  BY <1>2 DEF Types
<1>4. UpdateOf(p, N, G, z)
  BY <1>2, <1>3, MarkedUpdate
<1>5. plan' = p /\ mode' \in {"busy", "recover"}
  OBVIOUS
<1>6. LayoutOK(N, G)
  BY <1>2 DEF BlocksOK, LaidOut
<1> QED BY <1>4, <1>5, <1>6, StartsUpdate

LEMMA StartChunk ==
    ASSUME Types, Valid, Current, ~ValidHeader(scratch), Clean(flash[active].fmeta),
           NEW c \in SetCalls, Start(c), UNCHANGED <<flash, active, count, sdb>>, mode' = "busy",
           c.off \in 0 .. c.size,
           c.off > 0 => \E i \in Idx : Used(i) /\ file(i).id = c.fid /\ file(i).max = c.size
    PROVE  Fine'
<1>F. PICK F : F = flash[active].fmeta
  OBVIOUS
<1>1. FilesOK(F) /\ \A i \in Idx : file(i) = F[i] /\ (Used(i) => F[i] \in FileMeta)
                                   /\ (Used(i) <=> F[i] # Free)
  BY <1>F, ActiveIsValid DEF file, Used
<1>2. c.size \in Int /\ c.off \in Int /\ c.fid \in Fids /\ c.once \in BOOLEAN
  BY DEF SetCalls
<1>n. PICK n : n = ChunkSize(c)
  OBVIOUS
<1>3. n \in Int /\ 0 <= n /\ 0 <= c.off /\ c.off + n <= c.size /\ 0 <= c.size
  BY <1>n, <1>2, ChunkSizeIs
<1>4. plan' = WriteChunk(c).ops /\ replaced' = WriteChunk(c).old
      /\ call' = [c EXCEPT !.off = c.off + n]
  BY <1>n DEF Start
<1>5. Types'
  <2>1. c.off + n \in Int
    BY <1>2, <1>3
  <2>2. call' \in SetCalls
    BY <1>4, <2>1 DEF SetCalls
  <2> QED BY <2>2 DEF Types
<1>6. active \in {0, 1} /\ scratch \in Blocks
  BY ScratchIs DEF Types
<1>old. PICK old : old = FileIdx(c.fid)
  OBVIOUS
<1>7. /\ old = None => \A i \in Idx : Used(i) => file(i).id # c.fid
      /\ old # None => old \in Idx /\ Used(old) /\ file(old).id = c.fid
  BY <1>old, FileIdxIs
<1>S. PICK S : S = {i \in Idx : ~Used(i)}
  OBVIOUS
<1>lb. PICK lb : lb = RoomFor(c.size)
  OBVIOUS
<1>8. lb # None => lb \in LBlocks /\ block(lb).free >= c.size
  BY <1>lb, RoomForIs
<1>B. PICK B : B = flash[active].bmeta
  OBVIOUS
<1>13. /\ B \in [LBlocks -> BlockMeta] /\ F \in [Idx -> FileMeta \cup {Free}] /\ LayoutOK(B, F)
       /\ \A l \in LBlocks : block(l) = B[l] /\ B[l].free \in Int
  BY <1>B, <1>F, ActiveIsValid DEF BlocksOK, FilesOK, block, BlockMeta
<1>14. /\ call'.op = "set" /\ call'.fid = c.fid /\ call'.size = c.size
       /\ call'.off \in 0 .. call'.size
  <2>1. c.off + n \in 0 .. c.size
    BY <1>2, <1>3
  <2> QED BY <1>4, <2>1 DEF SetCalls
<1>15. ASSUME NEW G, NEW i \in Idx, G[i] # Free, G[i].id = c.fid, ~G[i].del, G[i].max = c.size
       PROVE  RoomKept(G)'
  BY <1>14, <1>15 DEF RoomKept
<1>9. IsSeq(<< >>) /\ Ops(<< >>) = {}
  BY Literals
<1>10. CASE old # None /\ (c.off > 0 \/ file(old).max = c.size)
  <2>m. PICK m : m = OldMeta(c, old)
    OBVIOUS
  <2>1. F[old] \in FileMeta /\ file(old) = F[old] /\ old \in Idx /\ F[old] # Free
    BY <1>1, <1>7, <1>10
  <2>2. /\ m \in FileMeta /\ m.id = F[old].id /\ m.del = F[old].del
        /\ m.lb = F[old].lb /\ m.data = F[old].data /\ m.max = F[old].max /\ m.cur \in {0, F[old].cur}
    <3>1. ~F[old].del
      BY <1>F, <2>1 DEF Clean, Marked
    <3> QED BY <2>m, <1>2, <2>1, <3>1, OldMetaIs
  <2>13. F[old].max = c.size /\ F[old].id = c.fid /\ ~F[old].del
    <3>1. Clean(F) /\ F[old].id = c.fid
      BY <1>F, <1>7, <1>10, <2>1
    <3>2. ~F[old].del
      BY <2>1, <3>1 DEF Clean, Marked
    <3>3. CASE c.off > 0
      <4>1. PICK i \in Idx : F[i] # Free /\ F[i].id = c.fid /\ F[i].max = c.size
        BY <1>1, <3>3
      <4>2. i = old
        BY <1>1, <2>1, <3>1, <3>2, <4>1 DEF FilesOK, Clean, Marked
      <4> QED BY <3>1, <3>2, <4>1, <4>2
    <3>4. CASE ~(c.off > 0)
      BY <1>10, <2>1, <3>1, <3>2, <3>4
    <3> QED BY <3>3, <3>4
  <2>free. PICK free : free = block(m.lb).free
    OBVIOUS
  <2>3. free \in Int
    <3>1. m.lb \in LBlocks
      BY <2>2 DEF FileMeta
    <3>2. block(m.lb) \in BlockMeta
      BY <3>1, ActiveIsValid
    <3> QED BY <2>free, <3>2 DEF BlockMeta
  <2>W. PICK W : W = Written(old, m, old, c.off, n)
    OBVIOUS
  <2>w. PICK w : w = WriteFile(old, m, free, old, c.off, n, c.val)
    OBVIOUS
  <2>mark. PICK mark : mark = << >>
    OBVIOUS
  <2>4. replaced' = None /\ plan' = Cat(mark, w)
    <3>1. /\ WriteChunk(c).old = None
          /\ WriteChunk(c).ops
               = Cat(<< >>, WriteFile(old, m, block(m.lb).free, old, c.off, ChunkSize(c), c.val))
      BY <1>old, <2>m, <1>10, ChunkReuse
    <3> QED BY <1>n, <2>w, <2>free, <2>mark, <1>4, <3>1
  <2>e. PICK e : e = [m EXCEPT !.cur = CurSize(m, c.off, n)]
    OBVIOUS
  <2>14. e \in FileMeta /\ e.id = m.id /\ e.del = m.del
         /\ e.lb = m.lb /\ e.data = m.data /\ e.max = m.max /\ e.cur = CurSize(m, c.off, n)
    BY <2>e, <1>2, <1>3, <2>2, EntryIs
  <2>6. e \in FileMeta /\ e.id = F[old].id /\ e.del = F[old].del
    BY <2>2, <2>14
  <2>15. e.lb = F[old].lb /\ e.data = F[old].data /\ e.max = F[old].max /\ e.cur >= 0 /\ e.cur <= e.max
    <3>1. F[old].cur \in Int /\ F[old].cur >= 0 /\ F[old].cur <= F[old].max
      BY <1>13, <2>1 DEF LayoutOK, PlacedOK, Placed, FileMeta
    <3>2. m.cur \in Int /\ m.cur >= 0 /\ m.cur <= c.size
      BY <1>3, <2>2, <2>13, <3>1
    <3> QED BY <1>2, <1>3, <2>2, <2>13, <2>14, <3>2 DEF CurSize
  <2>G. PICK G : G = [i \in Idx |-> IF i = old THEN e ELSE F[i]]
    OBVIOUS
  <2>7. FilesOK(G) /\ Clean(G)
    BY <2>G, <1>F, <1>1, <2>1, <2>6, FilesReuse
  <2>8. Entries(old, old) = Idx
    BY Numbers DEF Entries
  <2>9. DOMAIN W = Idx /\ \A i \in DOMAIN W : G[i] = W[i]
    <3>1. DOMAIN W = Idx /\ \A i \in DOMAIN W : W[i] = IF i = old THEN e ELSE F[i]
      BY <2>W, <2>e, <1>1, <2>8, WrittenIs
    <3> QED BY <2>G, <3>1
  <2>10. IsSeq(mark) /\ Ops(mark) = {}
    BY <2>mark, <1>9
  <2>11. Pending(G)'
    <3>1. G[old] = e /\ e # Free
      BY <2>G, <2>1, <2>6, FileNotFree
    <3>2. RoomKept(G)'
      BY <1>15, <2>1, <2>6, <2>13, <2>15, <3>1
    <3> QED BY <2>4, <2>7, <3>2 DEF Pending, Clean, Marked
  <2>16. LaidOut(G, m.lb, free)
    <3> SUFFICES ASSUME NEW N \in [LBlocks -> BlockMeta], FreeBecomes(N, m.lb, free)
                 PROVE  LayoutOK(N, G)
      BY DEF LaidOut
    <3>1. \A l \in LBlocks : N[l].free = B[l].free
      BY <1>13, <2>free, <2>2 DEF FreeBecomes, FileMeta
    <3> QED BY <1>13, <2>G, <2>1, <2>6, <2>15, <3>1, LayoutReuse
  <2>12. /\ \A N, z : \A op \in Ops(mark) : OpOK(op, N, G, z)
         /\ \A i \in Idx \ DOMAIN W : \E op \in Ops(mark) : Writes(op, "fmeta", i)
    BY <2>9, <2>10
  <2>offv. PICK off, v : off = c.off /\ v = c.val
    OBVIOUS
  <2> QED BY <2>W, <2>w, <2>mark, <2>offv, <1>2, <1>3, <1>5, <2>1, <2>2, <2>3, <2>4, <2>7, <2>9, <2>10, <2>11, <2>12, <2>16, StartsWrite
<1>11. CASE old # None /\ ~(c.off > 0 \/ file(old).max = c.size)
  <2>1. F[old] \in FileMeta /\ file(old) = F[old] /\ old \in Idx /\ F[old] # Free
    BY <1>1, <1>7, <1>11
  <2>idx. PICK idx : idx = FirstIdx(S)
    OBVIOUS
  <2>cells. PICK cells : cells = [i \in {old} |-> [file(i) EXCEPT !.del = TRUE]]
    OBVIOUS
  <2>d. PICK d : d = [F[old] EXCEPT !.del = TRUE]
    OBVIOUS
  <2>2. d \in FileMeta /\ d.del = TRUE
    BY <2>d, <2>1 DEF FileMeta
  <2>8. SamePlace(F[old], d) /\ d # Free
    BY <2>d, <2>1, <2>2, FileNotFree DEF FileMeta, SamePlace
  <2>3. DOMAIN cells = {old} /\ cells[old] = d
    BY <2>cells, <2>d, <2>1
  <2>wm. PICK wm : wm = Write(scratch, "fmeta", cells, None)
    OBVIOUS
  <2>4. wm.do = "write" /\ wm.part = "fmeta" /\ wm.blk = scratch /\ wm.cells = cells
    BY <2>wm, WriteIs
  <2>5. IsSeq(<<wm>>) /\ Ops(<<wm>>) = {wm}
    BY Literals
  <2>6. CASE Fits(c, lb, idx)
    <3>m. PICK m : m = NewMeta(c, lb)
      OBVIOUS
    <3>free. PICK free : free = block(lb).free - c.size
      OBVIOUS
    <3>1. /\ m \in FileMeta /\ m.id = c.fid /\ m.del = FALSE /\ free \in Int
          /\ m.lb = lb /\ m.data = BlockSize - block(lb).free /\ m.max = c.size /\ m.cur = 0
          /\ lb \in LBlocks
      BY <3>m, <3>free, <1>8, <2>6, NewMetaIs DEF Fits
    <3>2. idx \in Idx /\ F[idx] = Free /\ idx # old
      BY <2>idx, <1>S, <1>1, <2>1, <2>6, FreeIdxIs DEF Fits
    <3>W. PICK W : W = Written(idx, m, old, c.off, n)
      OBVIOUS
    <3>w. PICK w : w = WriteFile(idx, m, free, old, c.off, n, c.val)
      OBVIOUS
    <3>mark. PICK mark : mark = <<wm>>
      OBVIOUS
    <3>3. replaced' = old /\ plan' = Cat(mark, w)
      <4>1. /\ WriteChunk(c).old = old
            /\ WriteChunk(c).ops
                 = Cat(<<wm>>, WriteFile(idx, NewMeta(c, lb), block(lb).free - c.size, old,
                                         c.off, ChunkSize(c), c.val))
        BY <1>old, <1>S, <1>lb, <2>idx, <2>wm, <2>cells, <1>11, <2>6, ChunkReplace
      <4> QED BY <3>mark, <3>w, <3>m, <3>free, <1>n, <1>4, <4>1
    <3>e. PICK e : e = [m EXCEPT !.cur = CurSize(m, c.off, n)]
      OBVIOUS
    <3>16. /\ e \in FileMeta /\ e.id = m.id /\ e.del = m.del /\ e # Free
           /\ e.lb = m.lb /\ e.data = m.data /\ e.max = m.max /\ e.cur = CurSize(m, c.off, n)
      BY <3>e, <1>2, <1>3, <3>1, EntryIs, FileNotFree
    <3>5. e \in FileMeta /\ e.id = F[old].id /\ e.del = FALSE
      BY <1>7, <1>11, <2>1, <3>1, <3>16
    <3>17. e.cur >= 0 /\ e.cur <= c.size
      BY <1>2, <1>3, <3>1, <3>16 DEF CurSize
    <3>G. PICK G : G = Replacing(F, idx, e, old, d)
      OBVIOUS
    <3>6. FilesOK(G) /\ Marked(G, old)
      <4>1. FilesOK(F) /\ Clean(F)
        BY <1>F, <1>1
      <4> QED BY <3>G, <4>1, <2>1, <2>2, <3>2, <3>5, FilesReplace
    <3>7. Entries(idx, old) = Idx \ {old}
      BY <3>2 DEF Entries
    <3>8. DOMAIN W = Idx \ {old} /\ \A i \in DOMAIN W : G[i] = W[i]
      <4>1. DOMAIN W = Idx \ {old} /\ \A i \in DOMAIN W : W[i] = IF i = idx THEN e ELSE F[i]
        <5>1. \A i \in Idx : file(i) = F[i]
          BY <1>1
        <5>2. PICK off : off = c.off
          OBVIOUS
        <5>3. e = [m EXCEPT !.cur = CurSize(m, off, n)] /\ W = Written(idx, m, old, off, n)
          BY <3>W, <3>e, <5>2
        <5>4. DOMAIN W = Entries(idx, old) /\ \A i \in DOMAIN W : W[i] = IF i = idx THEN e ELSE F[i]
          BY <5>1, <5>3, WrittenIs
        <5> QED BY <3>7, <5>4
      <4> QED BY <3>G, <3>2, <4>1 DEF Replacing
    <3>9. G[old] = d
      BY <3>G, <2>1, <3>2 DEF Replacing
    <3>10. \A i \in DOMAIN cells : i \in Idx /\ cells[i] = G[i]
      BY <2>1, <2>3, <3>9
    <3>11. (\A N, z : OpOK(wm, N, G, z)) /\ Writes(wm, "fmeta", old)
      BY <2>wm, <2>3, <3>10, FileOp
    <3>12. IsSeq(mark) /\ Ops(mark) = {wm}
      BY <3>mark, <2>5
    <3>13. /\ \A N, z : \A op \in Ops(mark) : OpOK(op, N, G, z)
           /\ \A i \in Idx \ DOMAIN W : \E op \in Ops(mark) : Writes(op, "fmeta", i)
      BY <3>8, <3>11, <3>12
    <3>18. G[idx] = e
      BY <3>G, <3>2 DEF Replacing
    <3>15. Pending(G)'
      <4>1. RoomKept(G)'
        BY <1>15, <3>1, <3>2, <3>16, <3>18
      <4> QED BY <1>11, <2>1, <3>3, <3>6, <4>1 DEF Pending, Clean, Marked
    <3>19. LaidOut(G, m.lb, free)
      <4> SUFFICES ASSUME NEW N \in [LBlocks -> BlockMeta], FreeBecomes(N, m.lb, free)
                   PROVE  LayoutOK(N, G)
        BY DEF LaidOut
      <4>1. \A l \in LBlocks : N[l].free = IF l = lb THEN B[l].free - c.size ELSE B[l].free
        BY <1>13, <3>free, <3>1 DEF FreeBecomes
      <4>2. \A i \in Idx \ {idx} : (F[i] = Free <=> G[i] = Free)
                                   /\ (F[i] # Free => SamePlace(F[i], G[i]))
        BY <3>G, <2>1, <2>8 DEF Replacing, SamePlace
      <4>3. e.lb = lb /\ e.data = BlockSize - B[lb].free /\ e.max = c.size /\ c.size <= B[lb].free
        BY <1>8, <1>13, <2>6, <3>1, <3>16 DEF Fits
      <4>4. e \in FileMeta /\ idx \in Idx /\ F[idx] = Free /\ lb \in LBlocks /\ G[idx] = e
        BY <3>1, <3>2, <3>5, <3>18
      <4>5. c.size \in Int /\ 0 <= c.size /\ e.cur >= 0 /\ e.cur <= c.size
        BY <1>2, <1>3, <3>17
      <4>6. B \in [LBlocks -> BlockMeta] /\ F \in [Idx -> FileMeta \cup {Free}] /\ LayoutOK(B, F)
        BY <1>13
      <4> PICK size : size = c.size
        OBVIOUS
      <4> QED BY <4>1, <4>2, <4>3, <4>4, <4>5, <4>6, LayoutNew
    <3>offv. PICK off, v : off = c.off /\ v = c.val
      OBVIOUS
    <3> QED BY <3>W, <3>w, <3>mark, <3>offv, <1>2, <1>3, <1>5, <3>1, <3>2, <3>3, <3>6, <3>8, <3>12, <3>13, <3>15, <3>19, StartsWrite
  <2>7. CASE ~Fits(c, lb, idx)
    <3>1. replaced' = None /\ plan' = Cat(<<wm>>, <<Fail>>)
      <4>1. WriteChunk(c).old = None /\ WriteChunk(c).ops = Cat(<<wm>>, <<Fail>>)
        BY <1>old, <1>S, <1>lb, <2>idx, <2>wm, <2>cells, <1>11, <2>7, ChunkReplace
      <4> QED BY <1>4, <4>1
    <3>mark. PICK mark : mark = <<wm>>
      OBVIOUS
    <3>2. IsSeq(mark) /\ plan' = Cat(mark, <<Fail>>)
          /\ \A op \in Ops(mark) :
               /\ op.do = "write" /\ op.part = "fmeta" /\ op.blk = scratch
               /\ \A i \in DOMAIN op.cells : i \in Idx /\ op.cells[i] \in FileMeta
      BY <3>mark, <2>1, <2>2, <2>3, <2>4, <2>5, <3>1
    <3> QED BY <1>5, <3>1, <3>2, StartsFailing
  <2> QED BY <2>6, <2>7
<1>12. CASE old = None
  <2>idx. PICK idx : idx = IF S = {} THEN FirstIdx(S) ELSE FirstIdx(S \ {Min(S)})
    OBVIOUS
  <2>1. replaced' = None
    BY <1>old, <1>S, <1>lb, <2>idx, <1>4, <1>12, ChunkNew
  <2>2. CASE Fits(c, lb, idx)
    <3>m. PICK m : m = NewMeta(c, lb)
      OBVIOUS
    <3>free. PICK free : free = block(lb).free - c.size
      OBVIOUS
    <3>1. /\ m \in FileMeta /\ m.id = c.fid /\ m.del = FALSE /\ free \in Int
          /\ m.lb = lb /\ m.data = BlockSize - block(lb).free /\ m.max = c.size /\ m.cur = 0
          /\ lb \in LBlocks
      BY <3>m, <3>free, <1>8, <2>2, NewMetaIs DEF Fits
    <3>2. S # {}
      BY <2>idx, <2>2, Numbers, FirstIdxIs DEF Fits
    <3>3. idx \in Idx /\ ~Used(idx) /\ \E i \in Idx \ {idx} : ~Used(i)
      BY <2>idx, <1>S, <2>2, <3>2, FreeIdxIs DEF Fits
    <3>4. F[idx] = Free /\ \E i \in Idx \ {idx} : F[i] = Free
      BY <1>1, <3>3
    <3>W. PICK W : W = Written(idx, m, old, c.off, n)
      OBVIOUS
    <3>w. PICK w : w = WriteFile(idx, m, free, old, c.off, n, c.val)
      OBVIOUS
    <3>mark. PICK mark : mark = << >>
      OBVIOUS
    <3>5. plan' = Cat(mark, w)
      <4>1. WriteChunk(c).ops
              = Cat(<< >>, WriteFile(idx, NewMeta(c, lb), block(lb).free - c.size, old,
                                     c.off, ChunkSize(c), c.val))
        BY <1>old, <1>S, <1>lb, <2>idx, <1>12, <2>2, ChunkNew, ZenonT(60)
      <4> QED BY <3>mark, <3>w, <3>m, <3>free, <1>n, <1>4, <4>1
    <3>e. PICK e : e = [m EXCEPT !.cur = CurSize(m, c.off, n)]
      OBVIOUS
    <3>16. /\ e \in FileMeta /\ e.id = m.id /\ e.del = m.del /\ e # Free
           /\ e.lb = m.lb /\ e.data = m.data /\ e.max = m.max /\ e.cur = CurSize(m, c.off, n)
      BY <3>e, <1>2, <1>3, <3>1, EntryIs, FileNotFree
    <3>7. e \in FileMeta /\ e.id = c.fid /\ e.del = FALSE
      BY <3>1, <3>16
    <3>17. e.cur >= 0 /\ e.cur <= c.size
      BY <1>2, <1>3, <3>1, <3>16 DEF CurSize
    <3>8. \A i \in Idx : F[i] # Free => F[i].id # e.id
      BY <1>1, <1>7, <1>12, <3>7
    <3>G. PICK G : G = [i \in Idx |-> IF i = idx THEN e ELSE F[i]]
      OBVIOUS
    <3>9. FilesOK(G) /\ Clean(G)
      <4>1. FilesOK(F) /\ Clean(F)
        BY <1>F, <1>1
      <4> QED BY <3>G, <4>1, <3>3, <3>4, <3>7, <3>8, FilesNew, ZenonT(40)
    <3>10. Entries(idx, old) = Idx
      BY <1>12, Numbers DEF Entries
    <3>11. DOMAIN W = Idx /\ \A i \in DOMAIN W : G[i] = W[i]
      <4>1. DOMAIN W = Idx /\ \A i \in DOMAIN W : W[i] = IF i = idx THEN e ELSE F[i]
        BY <3>W, <3>e, <1>1, <3>10, WrittenIs
      <4> QED BY <3>G, <4>1
    <3>12. IsSeq(mark) /\ Ops(mark) = {}
      BY <3>mark, <1>9
    <3>13. /\ \A N, z : \A op \in Ops(mark) : OpOK(op, N, G, z)
           /\ \A i \in Idx \ DOMAIN W : \E op \in Ops(mark) : Writes(op, "fmeta", i)
      BY <3>11, <3>12
    <3>18. G[idx] = e
      BY <3>G, <3>3
    <3>14. Pending(G)'
      <4>1. RoomKept(G)'
        BY <1>15, <3>1, <3>3, <3>16, <3>18
      <4> QED BY <2>1, <3>9, <4>1 DEF Pending, Clean, Marked
    <3>19. LaidOut(G, m.lb, free)
      <4> SUFFICES ASSUME NEW N \in [LBlocks -> BlockMeta], FreeBecomes(N, m.lb, free)
                   PROVE  LayoutOK(N, G)
        BY DEF LaidOut
      <4>1. \A l \in LBlocks : N[l].free = IF l = lb THEN B[l].free - c.size ELSE B[l].free
        BY <1>13, <3>free, <3>1 DEF FreeBecomes
      <4>2. \A i \in Idx \ {idx} : (F[i] = Free <=> G[i] = Free)
                                   /\ (F[i] # Free => SamePlace(F[i], G[i]))
        BY <3>G DEF SamePlace
      <4>3. e.lb = lb /\ e.data = BlockSize - B[lb].free /\ e.max = c.size /\ c.size <= B[lb].free
        BY <1>8, <1>13, <2>2, <3>1, <3>16 DEF Fits
      <4>4. e \in FileMeta /\ idx \in Idx /\ F[idx] = Free /\ lb \in LBlocks /\ G[idx] = e
        BY <3>1, <3>3, <3>4, <3>7, <3>18
      <4>5. c.size \in Int /\ 0 <= c.size /\ e.cur >= 0 /\ e.cur <= c.size
        BY <1>2, <1>3, <3>17
      <4>6. B \in [LBlocks -> BlockMeta] /\ F \in [Idx -> FileMeta \cup {Free}] /\ LayoutOK(B, F)
        BY <1>13
      <4> PICK size : size = c.size
        OBVIOUS
      <4> QED BY <4>1, <4>2, <4>3, <4>4, <4>5, <4>6, LayoutNew
    <3>offv. PICK off, v : off = c.off /\ v = c.val
      OBVIOUS
    <3> QED BY <3>W, <3>w, <3>mark, <3>offv, <1>2, <1>3, <1>5, <3>1, <3>3, <3>5, <3>9, <3>11, <3>12, <3>13, <3>14, <3>19, StartsWrite
  <2>3. CASE ~Fits(c, lb, idx)
    <3>1. plan' = Cat(<< >>, <<Fail>>)
      BY <1>old, <1>S, <1>lb, <2>idx, <1>4, <1>12, <2>3, ChunkNew
    <3> QED BY <1>5, <1>9, <2>1, <3>1, StartsFailing
  <2> QED BY <2>2, <2>3
<1> QED BY <1>10, <1>11, <1>12

-----------------------------------------------------------------------------
(* its_flash_fs_mblock_reset_metablock.                                    *)

LEMMA Triple ==
    ASSUME NEW x, NEW y, NEW w
    PROVE  <<x, y, w>> = Cat(<<x>>, Cat(<<y>>, <<w>>))
<1> PICK S : S = {x, y, w}
  OBVIOUS
<1> PICK p : p = <<x>>
  OBVIOUS
<1> PICK q : q = <<y, w>>
  OBVIOUS
<1> PICK r : r = <<x, y, w>>
  OBVIOUS
<1>1. p \in Seq(S) /\ q \in Seq(S) /\ r \in Seq(S)
  OBVIOUS
<1>2. /\ Len(p) = 1 /\ Len(q) = 2 /\ Len(r) = 3 /\ p[1] = x /\ q[1] = y /\ q[2] = w
      /\ r[1] = x /\ r[2] = y /\ r[3] = w
  OBVIOUS
<1>3. /\ p \o q \in Seq(S) /\ Len(p \o q) = 1 + 2
      /\ \A i \in 1 .. 1 + 2 : (p \o q)[i] = IF i <= 1 THEN p[i] ELSE q[i - 1]
  BY <1>1, <1>2, ConcatProperties
<1>4. Len(p \o q) = Len(r) /\ \A i \in 1 .. Len(r) : r[i] = (p \o q)[i]
  BY <1>2, <1>3
<1>5. r = p \o q
  BY <1>1, <1>3, <1>4, SeqEqual
<1>6. q = Cat(<<y>>, <<w>>)
  BY Literals
<1> QED BY <1>5, <1>6 DEF Cat

LEMMA ResetPlan ==
    ASSUME NEW a, NEW b, NEW c, NEW d, NEW e, NEW f, NEW s, IsSeq(s)
    PROVE  \E pre : /\ IsSeq(pre) /\ Ops(pre) = ({c} \cup Ops(s)) \cup {d, e}
                    /\ Cat(Cat(<<a, b, c>>, s), <<d, e, f>>)
                          = Cat(<<a>>, Cat(<<b>>, Cat(pre, Cat(<<f>>, << >>))))
<1> PICK A : A = <<a>>
  OBVIOUS
<1> PICK B : B = <<b>>
  OBVIOUS
<1> PICK C : C = <<c>>
  OBVIOUS
<1> PICK K : K = <<d, e>>
  OBVIOUS
<1> PICK L : L = <<f>>
  OBVIOUS
<1>1. IsSeq(A) /\ IsSeq(B) /\ IsSeq(C) /\ IsSeq(K) /\ IsSeq(L) /\ IsSeq(<< >>)
      /\ Ops(C) = {c} /\ Ops(K) = {d, e}
  BY Literals
<1> PICK t : t = Cat(C, s)
  OBVIOUS
<1> PICK pre : pre = Cat(t, K)
  OBVIOUS
<1>2. IsSeq(t) /\ Ops(t) = {c} \cup Ops(s)
  BY <1>1, CatOps
<1>3. IsSeq(pre) /\ Ops(pre) = Ops(t) \cup {d, e}
  BY <1>1, <1>2, CatOps
<1>4. <<a, b, c>> = Cat(A, Cat(B, C))
  <2>1. <<a, b, c>> = Cat(<<a>>, Cat(<<b>>, <<c>>))
    BY Triple
  <2> QED BY <2>1
<1>5. <<d, e, f>> = Cat(K, L)
  <2> PICK p : p = <<d>>
    OBVIOUS
  <2> PICK q : q = <<e>>
    OBVIOUS
  <2>1. <<d, e, f>> = Cat(p, Cat(q, L)) /\ K = Cat(p, q)
    <3>1. <<d, e, f>> = Cat(<<d>>, Cat(<<e>>, <<f>>))
      BY Triple
    <3>2. <<d, e>> = Cat(<<d>>, <<e>>)
      BY Literals
    <3> QED BY <3>1, <3>2
  <2>2. IsSeq(p) /\ IsSeq(q)
    BY Literals
  <2>3. Cat(Cat(p, q), L) = Cat(p, Cat(q, L))
    BY <1>1, <2>2, CatIs
  <2> QED BY <2>1, <2>3
<1>6. Cat(L, << >>) = L
  <2> PICK p : p = Cat(L, << >>)
    OBVIOUS
  <2>1. p \in Seq({f}) /\ L \in Seq({f}) /\ << >> \in Seq({f}) /\ Len(L) = 1
    BY DEF Cat
  <2>2. Len(p) = 1 /\ p[1] = L[1]
    BY <2>1, ConcatProperties DEF Cat
  <2>3. \A i \in 1 .. Len(p) : p[i] = L[i]
    BY <2>2
  <2> QED BY <2>1, <2>2, <2>3, SeqEqual
<1>7. Cat(Cat(Cat(A, Cat(B, C)), s), Cat(K, L)) = Cat(A, Cat(B, Cat(pre, L)))
  <2> PICK x : x = Cat(K, L)
    OBVIOUS
  <2> PICK y : y = Cat(B, C)
    OBVIOUS
  <2>1. IsSeq(x) /\ IsSeq(y)
    BY <1>1, CatOps
  <2>2. Cat(Cat(A, y), s) = Cat(A, Cat(y, s))
    BY <1>1, <2>1, CatIs
  <2>3. Cat(y, s) = Cat(B, t)
    BY <1>1, CatIs
  <2> PICK u : u = Cat(B, t)
    OBVIOUS
  <2>4. IsSeq(u)
    BY <1>1, <1>2, CatOps
  <2>5. Cat(Cat(A, u), x) = Cat(A, Cat(u, x))
    BY <1>1, <2>1, <2>4, CatIs
  <2>6. Cat(u, x) = Cat(B, Cat(t, x))
    BY <1>1, <1>2, <2>1, CatIs
  <2>7. Cat(pre, L) = Cat(t, x)
    BY <1>1, <1>2, CatIs
  <2> QED BY <2>2, <2>3, <2>5, <2>6, <2>7
<1> QED BY <1>2, <1>3, <1>4, <1>5, <1>6, <1>7

InitialMeta(lb) ==
    IF lb = 0 THEN [phy |-> 1, free |-> BlockSize - MetaSize]
    ELSE [phy |-> lb + 2, free |-> BlockSize]
Dedicated == LBlocks \ {0}
FirstScratch == IF NumBlocks = 2 THEN 1 ELSE 2

LEMMA DedicatedIs ==
    /\ Cardinality(Dedicated) \in Nat
    /\ \A l \in 1 .. Cardinality(Dedicated) : l + 2 \in DBlocks
<1>1. CASE NumBlocks = 2
  <2>1. Dedicated = {}
    BY <1>1, Numbers DEF Dedicated
  <2>2. Cardinality(Dedicated) = 0
    BY <2>1, FS_EmptySet
  <2> QED BY <2>2
<1>2. CASE NumBlocks # 2
  <2> PICK n : n = NumBlocks - 3
    OBVIOUS
  <2>1. NumBlocks \in Nat /\ n \in Nat
    BY <1>2, Numbers
  <2>2. Dedicated = 1 .. n
    BY <1>2, <2>1 DEF Dedicated, LBlocks
  <2>3. Cardinality(1 .. n) = n
    BY <2>1, FS_Interval
  <2>4. \A l \in 1 .. n : l + 2 \in DBlocks
    BY <2>1 DEF DBlocks
  <2> QED BY <2>1, <2>2, <2>3, <2>4
<1> QED BY <1>1, <1>2

LEMMA InitialBlocks ==
    ASSUME NEW N, N = [lb \in LBlocks |-> InitialMeta(lb)]
    PROVE  BlocksOK(N, 1, FirstScratch)
<1>1. NumBlocks \in Nat /\ BlockSize \in Int /\ BlockSize - MetaSize \in Int
  BY Numbers
<1>2. N[0] = [phy |-> 1, free |-> BlockSize - MetaSize]
  BY Numbers DEF InitialMeta
<1>3. ASSUME NEW l \in LBlocks \ {0}
      PROVE  /\ N[l] = [phy |-> l + 2, free |-> BlockSize] /\ l + 2 \in DBlocks
             /\ l \in Int /\ l + 2 # FirstScratch
  <2>1. N[l] = [phy |-> l + 2, free |-> BlockSize]
    BY DEF InitialMeta
  <2>2. l \in Int /\ l + 2 \in DBlocks /\ l + 2 # FirstScratch
    BY <1>1, Numbers DEF LBlocks, DBlocks, FirstScratch
  <2> QED BY <2>1, <2>2
<1>4. N[0] \in BlockMeta
  BY <1>1, <1>2, Numbers DEF BlockMeta
<1>5. \A l \in LBlocks \ {0} : N[l] \in BlockMeta
  BY <1>1, <1>3, Numbers DEF BlockMeta
<1>6. N \in [LBlocks -> BlockMeta]
  BY <1>4, <1>5
<1>7. FirstScratch \in Nat /\ (NumBlocks > 2 => FirstScratch \in DBlocks)
  BY <1>1, Numbers DEF FirstScratch, DBlocks
<1>8. \A l \in LBlocks \ {0} : N[l].phy \in DBlocks /\ N[l].phy # FirstScratch
  BY <1>3
<1>9. \A l, k \in LBlocks \ {0} : N[l].phy = N[k].phy => l = k
  BY <1>3
<1> QED BY <1>2, <1>6, <1>7, <1>8, <1>9 DEF BlocksOK

LEMMA ResetIs ==
    ASSUME active = 0, sdb = FirstScratch, ~ValidHeader(0)
    PROVE  \E pre, N, G :
             /\ IsSeq(pre) /\ WritesAll(Ops(pre), N, G, FirstScratch)
             /\ ResetMetaBlock
                  = Cat(<<Erase(0)>>, Cat(<<Erase(1)>>, Cat(pre, Cat(<<Commit>>, << >>))))
             /\ BlocksOK(N, 1, FirstScratch) /\ FilesOK(G) /\ Clean(G) /\ LayoutOK(N, G)
<1>1. PICK N : N = [lb \in LBlocks |-> InitialMeta(lb)]
  OBVIOUS
<1>2. PICK G : G = [i \in Idx |-> Free]
  OBVIOUS
<1>3. PICK w0 : w0 = Write(1, "bmeta", [lb \in {0} |-> InitialMeta(lb)], None)
  OBVIOUS
<1>4. PICK w1 : w1 = Write(1, "bmeta", [lb \in Dedicated |-> InitialMeta(lb)], None)
  OBVIOUS
<1>5. PICK w2 : w2 = Write(1, "fmeta", G, None)
  OBVIOUS
<1>6. PICK n : n = Cardinality(Dedicated)
  OBVIOUS
<1>7. PICK s : s = [lb \in 1 .. n |-> Erase(lb + 2)]
  OBVIOUS
<1>8. n \in Nat /\ \A l \in 1 .. n : l + 2 \in DBlocks
  BY <1>6, DedicatedIs
<1>9. IsSeq(s) /\ \A op \in Ops(s) : op.do = "erase" /\ op.blk \in DBlocks
  <2>1. PICK T : T = {Erase(lb + 2) : lb \in 1 .. n}
    OBVIOUS
  <2>2. s \in [1 .. n -> T]
    BY <1>7, <2>1
  <2>3. s \in Seq(T)
    BY <1>8, <2>2
  <2>4. \A l \in 1 .. n : s[l].do = "erase" /\ s[l].blk = l + 2
    BY <1>7 DEF Erase
  <2>5. DOMAIN s = 1 .. n
    BY <1>7
  <2> QED BY <1>8, <2>3, <2>4, <2>5 DEF IsSeq, Ops
<1>10. ResetMetaBlock = Cat(Cat(<<Erase(0), Erase(1), w0>>, s), <<w1, w2, Commit>>)
  BY <1>2, <1>3, <1>4, <1>5, <1>6, <1>7 DEF ResetMetaBlock, InitialMeta, Dedicated, Cat
<1>11. PICK pre : /\ IsSeq(pre) /\ Ops(pre) = ({w0} \cup Ops(s)) \cup {w1, w2}
                  /\ ResetMetaBlock
                       = Cat(<<Erase(0)>>, Cat(<<Erase(1)>>, Cat(pre, Cat(<<Commit>>, << >>))))
  BY <1>9, <1>10, ResetPlan
<1>12. scratch = 1 /\ 0 \in LBlocks
  BY Numbers DEF scratch, Other
<1>13. /\ OpOK(w0, N, G, FirstScratch) /\ Writes(w0, "bmeta", 0)
  <2>1. PICK cells : cells = [lb \in {0} |-> InitialMeta(lb)]
    OBVIOUS
  <2>2. w0.do = "write" /\ w0.blk = 1 /\ w0.part = "bmeta" /\ w0.cells = cells
    BY <1>3, <2>1, WriteIs
  <2>3. DOMAIN cells = {0} /\ cells[0] = N[0]
    BY <1>1, <1>12, <2>1
  <2> QED BY <1>12, <2>2, <2>3 DEF OpOK, Writes
<1>14. /\ OpOK(w1, N, G, FirstScratch) /\ \A l \in LBlocks \ {0} : Writes(w1, "bmeta", l)
  <2>1. PICK cells : cells = [lb \in Dedicated |-> InitialMeta(lb)]
    OBVIOUS
  <2>2. w1.do = "write" /\ w1.blk = 1 /\ w1.part = "bmeta" /\ w1.cells = cells
    BY <1>4, <2>1, WriteIs
  <2>3. DOMAIN cells = LBlocks \ {0} /\ \A l \in LBlocks \ {0} : cells[l] = N[l]
    BY <1>1, <2>1 DEF Dedicated
  <2> QED BY <1>12, <2>2, <2>3 DEF OpOK, Writes
<1>15. OpOK(w2, N, G, FirstScratch) /\ \A i \in Idx : Writes(w2, "fmeta", i)
  <2>1. DOMAIN G = Idx
    BY <1>2
  <2> QED BY <1>5, <1>12, <2>1, FileOp
<1>16. \A op \in Ops(s) : OpOK(op, N, G, FirstScratch)
  BY <1>9 DEF OpOK
<1>17. WritesAll(Ops(pre), N, G, FirstScratch)
  <2>1. \A op \in Ops(pre) : OpOK(op, N, G, FirstScratch)
    BY <1>11, <1>13, <1>14, <1>15, <1>16
  <2>2. \A l \in LBlocks : \E op \in Ops(pre) : Writes(op, "bmeta", l)
    BY <1>11, <1>13, <1>14
  <2>3. \A i \in Idx : \E op \in Ops(pre) : Writes(op, "fmeta", i)
    BY <1>11, <1>15
  <2> QED BY <2>1, <2>2, <2>3 DEF WritesAll
<1>18. FilesOK(G) /\ Clean(G)
  <2>1. Idx # {}
    BY ConfigAssumption DEF Idx
  <2> QED BY <1>2, <2>1 DEF FilesOK, Clean, Marked
<1>19. BlocksOK(N, 1, FirstScratch)
  BY <1>1, InitialBlocks
<1>20. LayoutOK(N, G)
  <2>1. \A l \in LBlocks : DataStart(l) \in Int /\ N[l].free = BlockSize - DataStart(l) /\ DataStart(l) <= BlockSize
    BY <1>1, ConfigAssumption DEF InitialMeta, DataStart
  <2>2. FreeOK(N)
    BY <2>1, Numbers DEF FreeOK
  <2>3. FilledOK(N, G)
    BY <2>1, Numbers DEF FilledOK
  <2>4. PlacedOK(N, G) /\ ApartOK(G)
    BY <1>2 DEF PlacedOK, ApartOK
  <2> QED BY <2>2, <2>3, <2>4 DEF LayoutOK
<1> QED BY <1>11, <1>17, <1>18, <1>19, <1>20

LEMMA WipeErase ==
    ASSUME Types, Valid, Wiping, EraseStep
    PROVE  Fine'
<1>1. /\ plan # << >> /\ mode = "wipe" /\ active = 0 /\ sdb = FirstScratch
      /\ ~ValidHeader(0) /\ ~ValidHeader(1) /\ plan \in {ResetMetaBlock, Tail(ResetMetaBlock)}
  BY DEF Wiping, EraseStep, NextOp, FirstScratch
<1>2. PICK pre, N, G :
             /\ IsSeq(pre) /\ WritesAll(Ops(pre), N, G, FirstScratch)
             /\ ResetMetaBlock
                  = Cat(<<Erase(0)>>, Cat(<<Erase(1)>>, Cat(pre, Cat(<<Commit>>, << >>))))
             /\ BlocksOK(N, 1, FirstScratch) /\ FilesOK(G) /\ Clean(G) /\ LayoutOK(N, G)
  BY <1>1, ResetIs
<1>3. PICK r : r = Cat(pre, Cat(<<Commit>>, << >>))
  OBVIOUS
<1>4. IsSeq(r)
  BY <1>2, <1>3, Literals, Single, CatOps
<1>5. PICK q : q = Cat(<<Erase(1)>>, r)
  OBVIOUS
<1>6. IsSeq(q) /\ Head(q) = Erase(1) /\ Tail(q) = r
  BY <1>4, <1>5, ConsIs
<1>7. Head(ResetMetaBlock) = Erase(0) /\ Tail(ResetMetaBlock) = q
  <2>1. ResetMetaBlock = Cat(<<Erase(0)>>, q)
    BY <1>2, <1>3, <1>5
  <2> QED BY <1>6, <2>1, ConsIs
<1>8. PICK b \in {0, 1} : Head(plan) = Erase(b) /\ (b = 1 => plan = q)
                         /\ (b = 0 => plan = ResetMetaBlock)
  <2>1. CASE plan = ResetMetaBlock
    <3>1. Head(plan) = Erase(0)
      BY <1>7, <2>1
    <3> QED BY <2>1, <3>1
  <2>2. CASE plan = Tail(ResetMetaBlock)
    <3>1. plan = q /\ Head(plan) = Erase(1)
      BY <1>6, <1>7, <2>2
    <3> QED BY <3>1
  <2> QED BY <1>1, <2>1, <2>2
<1>9. /\ flash' = [flash EXCEPT ![b] = ErasedBlock(b)] /\ plan' = Tail(plan)
      /\ UNCHANGED <<active, count, sdb, mode, call, replaced>>
  <2>1. Head(plan).blk = b
    BY <1>8 DEF Erase
  <2> QED BY <2>1 DEF EraseStep
<1>10. FlashOK(flash') /\ (\A a \in Blocks \ {b} : MetaKept(a)) /\ flash'[b].header = Erased
  BY <1>8, <1>9, EraseWrite, Numbers DEF Types
<1>11. ~ValidHeader(0)' /\ ~ValidHeader(1)'
  BY <1>1, <1>8, <1>10, Numbers DEF ValidHeader, MetaKept
<1>12. Types'
  BY <1>1, <1>9, <1>10 DEF Types
<1>13. Valid'
  BY <1>11 DEF Valid
<1>14. CASE b = 0
  <2>1. plan' = Tail(ResetMetaBlock)
    BY <1>8, <1>9, <1>14
  <2>2. Wiping'
    BY <1>1, <1>9, <1>11, <2>1 DEF Wiping, FirstScratch
  <2> QED BY <1>12, <1>13, <2>2 DEF Fine, Phases
<1>15. CASE b = 1
  <2>1. plan' = Cat(pre, Cat(<<Commit>>, << >>))
    BY <1>3, <1>6, <1>8, <1>9, <1>15
  <2>2. scratch = 1 /\ scratch' = 1
    BY <1>1, <1>9 DEF scratch, Other
  <2>3. PreOK(Ops(pre), N, G, FirstScratch)'
    <3>1. \A op \in Ops(pre) : OpOK(op, N, G, FirstScratch)'
      <4> SUFFICES ASSUME NEW op \in Ops(pre) PROVE OpOK(op, N, G, FirstScratch)'
        OBVIOUS
      <4>1. OpOK(op, N, G, FirstScratch)
        BY <1>2 DEF WritesAll
      <4>2. ~ValidHeader(active)'
        BY <1>1, <1>9, <1>11
      <4> QED BY <2>2, <4>1, <4>2 DEF OpOK, FirstScratch
    <3>2. sdb' = FirstScratch
      BY <1>1, <1>9
    <3> QED BY <1>2, <3>1, <3>2 DEF WritesAll, PreOK, FirstScratch
  <2>4. (BlocksOK(N, scratch, FirstScratch) /\ FilesOK(G) /\ LayoutOK(N, G))'
    BY <1>2, <2>2 DEF BlocksOK, FilesOK, Clean, Marked, FirstScratch
  <2>5. IsSeq(<< >>) /\ Ops(<< >>) = {}
    BY Literals
  <2>6. Leads(plan, pre, << >>, N, G, FirstScratch)'
    BY <1>2, <2>1, <2>3, <2>4, <2>5 DEF Leads, FirstScratch
  <2>7. EndsWith(<< >>)'
    BY <1>1, <1>9, <2>5 DEF EndsWith
  <2>8. Pending(G)'
    BY <1>1, <1>9 DEF Pending, RoomKept
  <2>9. Updating'
    BY <1>1, <1>9, <1>11, <2>2, <2>6, <2>7, <2>8 DEF Updating
  <2> QED BY <1>12, <1>13, <2>9 DEF Fine, Phases
<1> QED BY <1>8, <1>14, <1>15

(* A plan that is being wiped out starts with an erase.                    *)
LEMMA WipeHead ==
    ASSUME Wiping, plan # << >>
    PROVE  Head(plan).do = "erase"
<1>1. active = 0 /\ sdb = FirstScratch /\ plan \in {ResetMetaBlock, Tail(ResetMetaBlock)}
      /\ ~ValidHeader(0)
  BY DEF Wiping, FirstScratch
<1>2. PICK r : IsSeq(r) /\ ResetMetaBlock = Cat(<<Erase(0)>>, Cat(<<Erase(1)>>, r))
  <2>1. PICK pre : /\ IsSeq(pre)
                   /\ ResetMetaBlock
                        = Cat(<<Erase(0)>>, Cat(<<Erase(1)>>, Cat(pre, Cat(<<Commit>>, << >>))))
    BY <1>1, ResetIs
  <2>2. PICK r : r = Cat(pre, Cat(<<Commit>>, << >>))
    OBVIOUS
  <2>3. IsSeq(r)
    BY <2>1, <2>2, Literals, Single, CatOps
  <2> QED BY <2>1, <2>2, <2>3
<1>3. PICK q : q = Cat(<<Erase(1)>>, r)
  OBVIOUS
<1>4. IsSeq(q) /\ Head(q) = Erase(1)
  BY <1>2, <1>3, ConsIs
<1>5. Head(ResetMetaBlock) = Erase(0) /\ Tail(ResetMetaBlock) = q
  <2>1. ResetMetaBlock = Cat(<<Erase(0)>>, q)
    BY <1>2, <1>3
  <2> QED BY <1>4, <2>1, ConsIs
<1>6. Erase(0).do = "erase" /\ Erase(1).do = "erase"
  BY DEF Erase
<1>7. CASE plan = ResetMetaBlock
  BY <1>5, <1>6, <1>7
<1>8. CASE plan = Tail(ResetMetaBlock)
  BY <1>4, <1>5, <1>6, <1>8
<1> QED BY <1>1, <1>7, <1>8

-----------------------------------------------------------------------------
(* The actions preserve the invariant.                                     *)

(* A block update is over.                                                 *)
LEMMA EmptyPlan ==
    ASSUME Types, Phases, plan = << >>, mode \notin {"off", "wipe"}
    PROVE  /\ Erasing /\ Current /\ ~ValidHeader(scratch) /\ Pending(flash[active].fmeta)
           /\ mode # "busy" => replaced = None
<1>1. ~Updating
  BY LeadsBy DEF Updating
<1>2. ~Failing
  <2> SUFFICES ASSUME Failing PROVE FALSE
    OBVIOUS
  <2>1. PICK pre : IsSeq(pre) /\ plan = Cat(pre, <<Fail>>)
    BY DEF Failing
  <2> QED BY <2>1, FailingBy
<1>3. Erasing
  BY <1>1, <1>2 DEF Phases, Wiping
<1>4. Ops(plan) = {}
  BY Literals
<1> QED BY <1>3, <1>4 DEF Erasing, Types

LEMMA IdleIs ==
    ASSUME Fine, mode = "idle"
    PROVE  /\ plan = << >> /\ Current /\ ~ValidHeader(scratch)
           /\ Clean(flash[active].fmeta) /\ replaced = None
<1>1. Erasing /\ plan = << >>
  BY DEF Fine, Phases, Updating, Failing, Wiping, Erasing
<1>2. Current /\ ~ValidHeader(scratch) /\ Pending(flash[active].fmeta) /\ replaced = None
  BY <1>1, EmptyPlan DEF Fine
<1> QED BY <1>1, <1>2 DEF Pending

LEMMA PrepareFine ==
    ASSUME Fine, Prepare
    PROVE  Fine'
<1>1. Types /\ Valid /\ mode = "off" /\ UNCHANGED <<flash, call, replaced>>
  BY DEF Fine, Prepare
<1>2. PICK b : b = ActiveMetaBlock
  OBVIOUS
<1>3. Valid'
  BY <1>1, ValidStays DEF MetaKept
<1>4. CASE b # None
  <2>1. b \in {0, 1} /\ ValidHeader(b)
    BY <1>2, <1>4, Numbers DEF ActiveMetaBlock, LatestMetaBlock
  <2>2. /\ active' = b /\ count' = flash[b].header.count /\ sdb' = flash[b].header.sdb
        /\ plan' = EraseScratch(b) /\ mode' = "boot"
    BY <1>2, <1>4 DEF Prepare
  <2>3. PICK z : z = flash[b].header.sdb
    OBVIOUS
  <2>4. flash[b].header \in Header
    <3>1. PICK D : flash \in [Blocks -> BlockOf(D)]
      BY <1>1 DEF Types, FlashOK
    <3> QED BY <2>1, <3>1, Numbers DEF BlockOf, ValidHeader
  <2>5. Types'
    BY <1>1, <2>1, <2>2, <2>4 DEF Types, Header, FlashOK
  <2>6. NumBlocks > 2 => z \in DBlocks
    BY <1>1, <2>1, <2>3 DEF Valid, BlocksOK
  <2>7. Other(b) \in {0, 1} /\ Other(b) # b
    BY <2>1 DEF Other
  <2>8. PICK e : e = IF NumBlocks > 2 THEN <<Erase(z)>> ELSE << >>
    OBVIOUS
  <2>9. IsSeq(e) /\ Ops(e) = IF NumBlocks > 2 THEN {Erase(z)} ELSE {}
    BY <2>8, Literals
  <2>10. plan' = Cat(<<Erase(Other(b))>>, e)
    BY <2>2, <2>3, <2>8 DEF EraseScratch, Cat
  <2>11. IsSeq(plan') /\ Ops(plan') = {Erase(Other(b))} \cup Ops(e)
    BY <2>9, <2>10, ConsIs
  <2>12. /\ Erase(Other(b)).do = "erase" /\ Erase(Other(b)).blk = Other(b)
         /\ Erase(z).do = "erase" /\ Erase(z).blk = z
    BY DEF Erase
  <2>13. \A op \in Ops(plan') : op.do = "erase" /\ op.blk \in Blocks \ {b}
    BY <2>1, <2>6, <2>7, <2>9, <2>11, <2>12, Numbers
  <2>14. \E op \in Ops(plan') : op.do = "erase" /\ op.blk = scratch'
    <3>1. scratch' = Other(b)
      BY <2>2 DEF scratch, Other
    <3> QED BY <2>11, <2>12, <3>1
  <2>15. Current'
    BY <1>1, <2>1, <2>2 DEF Current, ValidHeader
  <2>16. Pending(flash[active].fmeta)'
    BY <2>2 DEF Pending, RoomKept
  <2>17. Erasing'
    BY <2>2, <2>11, <2>13, <2>14, <2>15, <2>16 DEF Erasing
  <2> QED BY <1>3, <2>5, <2>17 DEF Fine, Phases
<1>5. CASE b = None
  <2>1. ~ValidHeader(0) /\ ~ValidHeader(1)
    <3>1. LatestMetaBlock(flash[0].header.count, flash[1].header.count) # None
      BY Numbers DEF LatestMetaBlock
    <3> QED BY <1>2, <1>5, <3>1, Numbers DEF ActiveMetaBlock
  <2>2. /\ active' = 0 /\ count' = (IF EraseVal = 0 THEN 1 ELSE 0)
        /\ sdb' = FirstScratch /\ plan' = ResetMetaBlock /\ mode' = "wipe"
    BY <1>2, <1>5 DEF Prepare, FirstScratch
  <2>3. Types'
    BY <1>1, <2>2 DEF Types, FirstScratch, FlashOK
  <2>4. Wiping'
    BY <1>1, <2>1, <2>2 DEF Wiping, FirstScratch, ValidHeader
  <2> QED BY <1>3, <2>3, <2>4 DEF Fine, Phases
<1> QED BY <1>4, <1>5

(* its_flash_fs_delete_idx starts.                                         *)
LEMMA StartsDelete ==
    ASSUME Types, Valid, Current, ~ValidHeader(scratch), UNCHANGED <<flash, active, count, sdb>>,
           mode' \in {"busy", "recover"}, NEW idx \in Idx, Used(idx),
           Clean(flash[active].fmeta) \/ Marked(flash[active].fmeta, idx),
           plan' = DeleteFile(idx), replaced' = None, Types',
           \A G : G = FilesWithout(idx) => RoomKept(G)'
    PROVE  Fine'
<1>1. PICK G : G = FilesWithout(idx)
  OBVIOUS
<1>2. FilesOK(G) /\ Clean(G)
  BY <1>1, FilesWithoutIs
<1>3. PICK N, z : UpdateOf(DeleteFile(idx), N, G, z) /\ LayoutOK(N, G)
  BY <1>1, DeleteFileIs
<1>4. Pending(G)'
  <2>1. RoomKept(G)'
    BY <1>1
  <2> QED BY <1>2, <2>1 DEF Pending, Clean, Marked
<1>5. PICK p : p = DeleteFile(idx)
  OBVIOUS
<1>6. UpdateOf(p, N, G, z) /\ plan' = p
  BY <1>3, <1>5
<1> QED BY <1>2, <1>3, <1>4, <1>6, StartsUpdate

LEMMA PreparedFine ==
    ASSUME Fine, Prepared
    PROVE  Fine'
<1>1. Types /\ Valid /\ Phases /\ plan = << >>
      /\ UNCHANGED <<flash, active, count, sdb, call, replaced>>
  BY DEF Fine, Prepared
<1>2. Valid'
  BY <1>1, ValidStays DEF MetaKept
<1>3. PICK F : F = flash[active].fmeta
  OBVIOUS
<1>4. \A j \in Idx : Marked(F, j) <=> Used(j) /\ file(j).del
  BY <1>3 DEF Marked, Used, file
<1>5. CASE mode = "wipe" /\ mode' = "off" /\ UNCHANGED plan
  <2>1. Types'
    BY <1>1, <1>5 DEF Types, FlashOK
  <2> QED BY <1>1, <1>2, <1>5, <2>1 DEF Fine, Phases
<1>6. CASE mode = "boot" /\ DeletedIdx # None /\ plan' = DeleteFile(DeletedIdx) /\ mode' = "recover"
  <2>1. PICK idx : idx = DeletedIdx
    OBVIOUS
  <2>2. idx \in Idx /\ Used(idx) /\ Marked(F, idx)
    BY <1>4, <1>6, <2>1, DeletedIdxIs
  <2>3. Current /\ ~ValidHeader(scratch) /\ replaced = None
    BY <1>1, <1>6, EmptyPlan
  <2>4. Types'
    BY <1>1, <1>6, <2>3 DEF Types, FlashOK
  <2>5. \A G : RoomKept(G)'
    BY <1>6 DEF RoomKept
  <2> QED BY <1>1, <1>3, <1>6, <2>1, <2>2, <2>3, <2>4, <2>5, StartsDelete
<1>7. CASE /\ mode = "recover" \/ (mode = "boot" /\ DeletedIdx = None)
           /\ mode' = "idle" /\ UNCHANGED plan
  <2>1. /\ Current /\ ~ValidHeader(scratch) /\ Pending(F) /\ replaced = None
    BY <1>1, <1>3, <1>7, EmptyPlan
  <2>2. Clean(F)
    BY <1>4, <1>7, <2>1, DeletedIdxIs DEF Pending, Clean
  <2>3. Types'
    BY <1>1, <1>7, <2>1 DEF Types, FlashOK
  <2>4. scratch' = scratch /\ Ops(<< >>) = {} /\ IsSeq(<< >>)
    BY <1>1, Literals DEF scratch
  <2>5. Current' /\ ~ValidHeader(scratch)'
    BY <1>1, <2>1, <2>4 DEF Current, ValidHeader
  <2>6. Pending(flash[active].fmeta)'
    BY <1>1, <1>3, <1>7, <2>2 DEF Pending, RoomKept, Clean, Marked
  <2>7. Erasing'
    BY <1>1, <1>7, <2>4, <2>5, <2>6 DEF Erasing
  <2> QED BY <1>2, <2>3, <2>7 DEF Fine, Phases
<1> QED BY <1>5, <1>6, <1>7 DEF Prepared

LEMMA SetFine ==
    ASSUME Fine, NEW f \in Fids, NEW v \in Vals, NEW n \in 0 .. MaxRequest,
           NEW once \in CreateFlags, Set(f, v, n, once)
    PROVE  Fine'
<1>1. PICK c : c = [op |-> "set", fid |-> f, val |-> v, size |-> n, once |-> once,
                    off |-> 0, done |-> "nothing"]
  OBVIOUS
<1>2. n \in Int /\ once \in BOOLEAN
  BY ConfigAssumption
<1>3. c \in SetCalls
  BY <1>1, <1>2 DEF SetCalls, Done
<1>4. Start(c) /\ mode = "idle" /\ mode' = "busy" /\ UNCHANGED <<flash, active, count, sdb>>
  BY <1>1 DEF Set
<1>5. Current /\ ~ValidHeader(scratch) /\ Clean(flash[active].fmeta)
  BY <1>4, IdleIs
<1>6. c.off \in 0 .. c.size /\ ~(c.off > 0)
  BY <1>1, <1>2
<1> QED BY <1>3, <1>4, <1>5, <1>6, StartChunk DEF Fine

LEMMA RemoveFine ==
    ASSUME Fine, NEW f \in Fids, Remove(f)
    PROVE  Fine'
<1>1. PICK idx : idx = FileIdx(f)
  OBVIOUS
<1>2. /\ mode = "idle" /\ idx # None /\ plan' = DeleteFile(idx) /\ mode' = "busy"
      /\ call' = [op |-> "remove", fid |-> f, done |-> "nothing"]
      /\ UNCHANGED <<flash, active, count, sdb, replaced>>
  BY <1>1 DEF Remove
<1>3. Current /\ ~ValidHeader(scratch) /\ Clean(flash[active].fmeta) /\ replaced = None
  BY <1>2, IdleIs
<1>4. idx \in Idx /\ Used(idx)
  BY <1>1, <1>2, FileIdxIs
<1>5. call' \in RemoveCalls
  BY <1>2 DEF RemoveCalls, Done
<1>6. Types'
  BY <1>2, <1>3, <1>5 DEF Fine, Types, FlashOK
<1>7. \A G : RoomKept(G)'
  BY <1>2 DEF RoomKept
<1> QED BY <1>2, <1>3, <1>4, <1>6, <1>7, StartsDelete DEF Fine

LEMMA BetweenFine ==
    ASSUME Fine, DeleteReplaced \/ NextChunk \/ Succeed
    PROVE  Fine'
<1>1. /\ Types /\ Valid /\ mode = "busy" /\ plan = << >> /\ call \in SetCalls \cup RemoveCalls
      /\ UNCHANGED <<flash, active, count, sdb, errors>>
  BY DEF Fine, Types, DeleteReplaced, NextChunk, Succeed
<1>2. PICK F : F = flash[active].fmeta
  OBVIOUS
<1>3. Current /\ ~ValidHeader(scratch) /\ Pending(F)
  BY <1>1, <1>2, EmptyPlan DEF Fine
<1>4. CASE DeleteReplaced
  <2>1. PICK idx : idx = replaced
    OBVIOUS
  <2>2. idx # None /\ plan' = DeleteFile(idx) /\ replaced' = None /\ UNCHANGED <<mode, call>>
    BY <1>4, <2>1 DEF DeleteReplaced
  <2>3. idx \in Idx /\ Marked(F, idx) /\ Used(idx)
    BY <1>1, <1>2, <1>3, <2>1, <2>2 DEF Pending, Marked, Used, file
  <2>4. Types'
    BY <1>1, <2>2 DEF Types, FlashOK
  <2>5. ASSUME NEW G, G = FilesWithout(idx) PROVE RoomKept(G)'
    <3> SUFFICES ASSUME call.op = "set"
                 PROVE  /\ call.off \in 0 .. call.size
                        /\ \E i \in Idx : /\ G[i] # Free /\ G[i].id = call.fid /\ ~G[i].del
                                          /\ G[i].max = call.size
      BY <2>2 DEF RoomKept
    <3>1. call.off \in 0 .. call.size
      BY <1>1, <1>3 DEF Pending, RoomKept
    <3>2. PICK i \in Idx : F[i] # Free /\ F[i].id = call.fid /\ ~F[i].del /\ F[i].max = call.size
      BY <1>1, <1>3 DEF Pending, RoomKept
    <3>3. i # idx /\ Used(i) /\ file(i) = F[i]
      BY <1>2, <2>3, <3>2 DEF Marked, Used, file
    <3>4. G[i] # Free /\ MovedBy(G[i], F[i], file(idx))
      BY <1>1, <1>2, <1>3, <2>3, <2>5, <3>2, <3>3, FilesWithoutIs
    <3> QED BY <3>1, <3>2, <3>4 DEF MovedBy
  <2> QED BY <1>1, <1>2, <1>3, <2>2, <2>3, <2>4, <2>5, StartsDelete
<1>5. CASE NextChunk
  <2>1. PICK c : c = call
    OBVIOUS
  <2>2. replaced = None /\ call.op = "set" /\ Start(c) /\ mode' = "busy"
    BY <1>1, <1>5, <2>1 DEF NextChunk, Finished
  <2>3. c \in SetCalls
    BY <1>1, <2>1, <2>2 DEF SetCalls, RemoveCalls
  <2>4. Clean(F)
    BY <1>1, <1>3, <2>2 DEF Pending
  <2>5. /\ c.off \in 0 .. c.size
        /\ \E i \in Idx : Used(i) /\ file(i).id = c.fid /\ file(i).max = c.size
    BY <1>1, <1>2, <1>3, <2>1, <2>2 DEF Pending, RoomKept, Used, file
  <2> QED BY <1>1, <1>2, <1>3, <2>2, <2>3, <2>4, <2>5, StartChunk
<1>6. CASE Succeed
  <2>1. replaced = None /\ EndCall("success")
    BY <1>6 DEF Succeed
  <2>2. Clean(F)
    BY <1>1, <1>3, <2>1 DEF Pending
  <2> QED BY <1>1, <1>2, <1>3, <2>1, <2>2, EndIsFine
<1> QED BY <1>4, <1>5, <1>6

(* A flash operation.                                                      *)
LEMMA FlashFine ==
    ASSUME Fine, WriteStep \/ ScratchStep \/ CommitStep \/ EraseStep \/ FailStep
    PROVE  Fine'
<1>1. Types /\ Valid /\ Phases /\ plan # << >>
  BY DEF Fine, WriteStep, ScratchStep, CommitStep, EraseStep, FailStep, NextOp
<1>2. PICK do : do = Head(plan).do
  OBVIOUS
<1>3. /\ WriteStep => do = "write"
      /\ ScratchStep => do = "scratch"
      /\ CommitStep => do = "commit"
      /\ EraseStep => do = "erase"
      /\ FailStep => do = "fail"
  BY <1>2 DEF WriteStep, ScratchStep, CommitStep, EraseStep, FailStep, NextOp
<1>4. CASE Erasing
  <2>1. do = "erase"
    <3>1. IsSeq(plan) /\ \A op \in Ops(plan) : op.do = "erase"
      BY <1>4 DEF Erasing
    <3>2. Head(plan) \in Ops(plan)
      BY <1>1, <3>1, TailIs
    <3> QED BY <1>2, <3>1, <3>2
  <2>2. EraseStep
    BY <1>3, <2>1
  <2> QED BY <1>1, <1>4, <2>2, EraseAfter
<1>5. CASE Updating
  <2>1. PICK pre, post, N, G, z :
          Leads(plan, pre, post, N, G, z) /\ EndsWith(post) /\ Pending(G)
    BY <1>5 DEF Updating
  <2>2. CASE pre = << >>
    <3>1. Head(plan) = Commit
      BY <2>1, <2>2, LeadsBy
    <3>2. CommitStep
      BY <1>2, <1>3, <3>1 DEF Commit
    <3>3. Leads(plan, << >>, post, N, G, z)
      BY <2>1, <2>2
    <3> QED BY <1>1, <1>5, <2>1, <3>2, <3>3, CommitUpdate
  <2>3. CASE pre # << >>
    <3>1. Head(plan) = Head(pre) /\ OpOK(Head(pre), N, G, z)
      BY <2>1, <2>3, LeadsBy
    <3>2. do \in {"erase", "scratch", "write"}
      BY <1>2, <3>1 DEF OpOK
    <3>3. CASE WriteStep
      BY <1>1, <1>5, <2>1, <2>3, <3>3, PreWrite
    <3>4. CASE ScratchStep
      BY <1>1, <1>5, <2>1, <2>3, <3>4, PreScratch
    <3>5. CASE EraseStep
      BY <1>1, <1>5, <2>1, <2>3, <3>5, PreErase
    <3> QED BY <1>3, <3>2, <3>3, <3>4, <3>5
  <2> QED BY <2>2, <2>3
<1>6. CASE Failing
  <2>1. do \in {"write", "fail"}
    <3>1. PICK pre : /\ IsSeq(pre) /\ plan = Cat(pre, <<Fail>>)
                     /\ \A op \in Ops(pre) : op.do = "write"
      BY <1>6 DEF Failing
    <3>2. CASE pre = << >>
      <4>1. Head(plan) = Fail
        BY <3>1, <3>2, FailingBy
      <4> QED BY <1>2, <4>1 DEF Fail
    <3>3. CASE pre # << >>
      <4>1. Head(plan) = Head(pre) /\ Head(pre) \in Ops(pre)
        BY <3>1, <3>3, FailingBy
      <4> QED BY <1>2, <3>1, <4>1
    <3> QED BY <3>2, <3>3
  <2>2. CASE WriteStep
    BY <1>1, <1>6, <2>2, WriteInFailing
  <2>3. CASE FailStep
    BY <1>1, <1>6, <2>3, FailInFailing
  <2> QED BY <1>3, <2>1, <2>2, <2>3
<1>7. CASE Wiping
  <2>1. do = "erase"
    BY <1>1, <1>2, <1>7, WipeHead
  <2>2. EraseStep
    BY <1>3, <2>1
  <2> QED BY <1>1, <1>7, <2>2, WipeErase
<1> QED BY <1>1, <1>4, <1>5, <1>6, <1>7 DEF Phases

LEMMA PowerFine ==
    ASSUME Fine, PowerFailure
    PROVE  Fine'
<1>1. /\ Types /\ Valid /\ flash' = flash /\ mode' = "off" /\ plan' = << >>
      /\ active' = 0 /\ count' = 0 /\ sdb' = 0 /\ replaced' = None
  BY DEF Fine, PowerFailure
<1>2. Types'
  BY <1>1 DEF Types, FlashOK
<1>3. Valid'
  BY <1>1, ValidStays DEF MetaKept
<1> QED BY <1>1, <1>2, <1>3 DEF Fine, Phases

LEMMA StutterFine ==
    ASSUME Fine, UNCHANGED vars
    PROVE  Fine'
<1> USE DEF vars
<1>1. Types'
  BY DEF Fine, Types, FlashOK
<1>2. Valid'
  BY ValidStays DEF Fine, MetaKept
<1>3. scratch' = scratch /\ (Current <=> Current') /\ \A b : ValidHeader(b) <=> ValidHeader(b)'
  BY DEF scratch, Current, ValidHeader
<1>4. \A F : Pending(F) <=> Pending(F)'
  BY DEF Pending, RoomKept, Clean, Marked
<1>5. ASSUME Erasing PROVE Erasing'
  BY <1>3, <1>4, <1>5 DEF Erasing
<1>6. ASSUME Updating PROVE Updating'
  <2>1. PICK pre, post, N, G, z :
          Leads(plan, pre, post, N, G, z) /\ EndsWith(post) /\ Pending(G)
    BY <1>6 DEF Updating
  <2>2. Leads(plan, pre, post, N, G, z)'
    <3>1. \A op : OpOK(op, N, G, z) => OpOK(op, N, G, z)'
      BY <1>3 DEF OpOK
    <3>2. PreOK(Ops(pre), N, G, z)'
      BY <1>3, <2>1, <3>1 DEF Leads, PreOK
    <3>3. (BlocksOK(N, scratch, z) /\ FilesOK(G) /\ LayoutOK(N, G))'
      BY <1>3, <2>1 DEF Leads, BlocksOK, FilesOK, Clean, Marked
    <3> QED BY <2>1, <3>2, <3>3 DEF Leads
  <2>3. EndsWith(post)'
    BY <1>3, <2>1 DEF EndsWith
  <2> QED BY <1>3, <1>4, <1>6, <2>1, <2>2, <2>3 DEF Updating
<1>7. ASSUME Failing PROVE Failing'
  BY <1>3, <1>7 DEF Failing, Clean, Marked
<1>8. ASSUME Wiping PROVE Wiping'
  BY <1>3, <1>8 DEF Wiping
<1> QED BY <1>1, <1>2, <1>5, <1>6, <1>7, <1>8 DEF Fine, Phases

LEMMA InitFine ==
    ASSUME Init
    PROVE  Fine
<1>1. PICK D : D = {ErasedBlock(b).data : b \in Blocks}
  OBVIOUS
<1>2. ASSUME NEW b \in Blocks
      PROVE  flash[b] \in BlockOf(D) /\ flash[b].header = Erased
  <2>1. PICK r : r = ErasedBlock(b)
    OBVIOUS
  <2>2. r.header = Erased /\ r.bmeta = [l \in LBlocks |-> Erased]
        /\ r.fmeta = [i \in Idx |-> Erased]
    BY <2>1 DEF ErasedBlock
  <2>3. r.bmeta \in BMetas /\ r.fmeta \in FMetas
    BY <2>2 DEF BMetas, FMetas
  <2>4. r = [header |-> r.header, bmeta |-> r.bmeta, fmeta |-> r.fmeta, data |-> r.data]
    BY <2>1 DEF ErasedBlock
  <2>5. r.data \in D
    BY <1>1, <2>1
  <2>6. r \in BlockOf(D)
    BY <2>2, <2>3, <2>4, <2>5 DEF BlockOf
  <2> QED BY <2>1, <2>2, <2>6 DEF Init
<1>3. FlashOK(flash)
  BY <1>2 DEF Init, FlashOK
<1>4. Valid
  BY <1>2, Numbers DEF Valid, ValidHeader
<1> QED BY <1>3, <1>4 DEF Init, Fine, Types, Phases

-----------------------------------------------------------------------------
(* What holds between requests.                                            *)

(* No operation is refused because it would program flash that is not      *)
(* erased (its_flash_nor_write with a driver that checks): every operation *)
(* that fails is counted in errors.                                        *)
NotRefused == FlashFailure => errors' # errors

LEMMA StepFine ==
    ASSUME IndInv, [Next]_vars, [NotRefused]_vars
    PROVE  IndInv'
<1>1. CASE FlashFailure
  <2>1. errors' # errors
    BY <1>1 DEF NotRefused, FlashFailure, EndCall, vars
  <2>2. errors' = errors + 1
    BY <1>1, <2>1 DEF FlashFailure
  <2> QED BY <2>2 DEF IndInv
<1>2. CASE ~FlashFailure
  <2>1. errors' = errors
    BY <1>2 DEF Next, vars, Request, Set, Remove, Progress, Prepare, Prepared, DeleteReplaced,
                NextChunk, Succeed, WriteStep, ScratchStep, CommitStep, EraseStep, FailStep,
                PowerFailure
  <2>2. ASSUME errors = 0 PROVE Fine'
    <3>1. Fine
      BY <2>2 DEF IndInv
    <3>2. CASE Request
      <4>1. ASSUME NEW f \in Fids, NEW v \in Vals, NEW n \in 0 .. MaxRequest,
                   NEW once \in CreateFlags, Set(f, v, n, once)
            PROVE  Fine'
        BY <3>1, <4>1, SetFine
      <4>2. ASSUME NEW f \in Fids, Remove(f) PROVE Fine'
        BY <3>1, <4>2, RemoveFine
      <4> QED BY <3>2, <4>1, <4>2 DEF Request
    <3>3. CASE Prepare
      BY <3>1, <3>3, PrepareFine
    <3>4. CASE Prepared
      BY <3>1, <3>4, PreparedFine
    <3>5. CASE DeleteReplaced \/ NextChunk \/ Succeed
      BY <3>1, <3>5, BetweenFine
    <3>6. CASE WriteStep \/ ScratchStep \/ CommitStep \/ EraseStep \/ FailStep
      BY <3>1, <3>6, FlashFine
    <3>7. CASE PowerFailure
      BY <3>1, <3>7, PowerFine
    <3>8. CASE UNCHANGED vars
      BY <3>1, <3>8, StutterFine
    <3> QED BY <1>2, <3>2, <3>3, <3>4, <3>5, <3>6, <3>7, <3>8 DEF Next, Progress
  <2> QED BY <2>1, <2>2 DEF IndInv
<1> QED BY <1>1, <1>2

(* Whatever the moment of a power failure, the file system goes from one   *)
(* committed metadata block to the next: its_flash_fs_prepare,             *)
(* its_flash_fs_file_write, its_flash_fs_delete_idx.                       *)
THEOREM MetadataCommitted == Spec /\ [][NotRefused]_vars => []IndInv
<1>1. Init => IndInv
  <2> SUFFICES ASSUME Init PROVE IndInv
    OBVIOUS
  <2> QED BY InitFine DEF IndInv, Init
<1>2. IndInv /\ [Next]_vars /\ [NotRefused]_vars => IndInv'
  BY StepFine
<1> QED BY <1>1, <1>2, PTL DEF Spec

LEMMA OneEntryBy ==
    ASSUME IndInv
    PROVE  OneEntryPerFile
<1> SUFFICES ASSUME mode = "idle", errors = 0
             PROVE  /\ \A i, j \in Idx : Used(i) /\ Used(j) /\ file(i).id = file(j).id => i = j
                    /\ DeletedIdx = None
                    /\ \E i \in Idx : ~Used(i)
                    /\ ActiveMetaBlock = active
  BY DEF OneEntryPerFile
<1>1. Fine /\ Types /\ Valid
  BY DEF IndInv, Fine
<1>2. PICK F : F = flash[active].fmeta
  OBVIOUS
<1>3. Current /\ ~ValidHeader(scratch) /\ Clean(F)
  BY <1>1, <1>2, IdleIs
<1>4. FilesOK(F) /\ \A i \in Idx : file(i) = F[i] /\ (Used(i) <=> F[i] # Free)
  BY <1>1, <1>2, <1>3, ActiveIsValid DEF file, Used
<1>5. \A i \in Idx : Used(i) => ~file(i).del
  BY <1>3, <1>4 DEF Clean, Marked
<1>6. \A i, j \in Idx : Used(i) /\ Used(j) /\ file(i).id = file(j).id => i = j
  BY <1>4, <1>5 DEF FilesOK
<1>7. DeletedIdx = None
  BY <1>5, DeletedIdxIs
<1>8. \E i \in Idx : ~Used(i)
  BY <1>3, <1>4 DEF FilesOK
<1>9. ActiveMetaBlock = active
  <2>1. active \in {0, 1} /\ scratch \in {0, 1} /\ scratch # active
    BY <1>1, ScratchIs DEF Types
  <2>2. ValidHeader(active)
    BY <1>3 DEF Current
  <2> QED BY <1>3, <2>1, <2>2 DEF ActiveMetaBlock
<1> QED BY <1>6, <1>7, <1>8, <1>9

(* As long as the flash operations succeed, and wherever power fails, no   *)
(* file has two entries between requests, none is marked for deletion, an  *)
(* entry is spare and a restart finds the metadata block that is in use    *)
(* (its_flash_fs_file_write, its_flash_fs_delete_idx,                      *)
(* its_mblock_erase_scratch_blocks).                                       *)
THEOREM EntriesUnique == Spec /\ [][NotRefused]_vars => []OneEntryPerFile
BY MetadataCommitted, OneEntryBy, PTL

LEMMA ScratchBy ==
    ASSUME IndInv, errors = 0
    PROVE  ScratchIsNotLive
<1> SUFFICES ASSUME mode = "idle"
             PROVE  /\ block(0).phy = active
                    /\ \A lb1, lb2 \in LBlocks : block(lb1).phy = block(lb2).phy => lb1 = lb2
                    /\ NumBlocks > 2 => \A lb \in LBlocks : block(lb).phy # sdb
  BY DEF ScratchIsNotLive
<1>1. Fine /\ Types /\ Valid /\ active \in {0, 1}
  BY DEF IndInv, Fine, Types
<1>2. PICK B : B = flash[active].bmeta
  OBVIOUS
<1>3. BlocksOK(B, active, sdb) /\ \A l \in LBlocks : block(l) = B[l]
  BY <1>1, <1>2, IdleIs, ActiveIsValid DEF block
<1>4. 0 \in LBlocks /\ active \notin DBlocks
  BY <1>1, Numbers
<1>5. block(0).phy = active /\ \A l \in LBlocks \ {0} : block(l).phy \in DBlocks
  BY <1>3, <1>4 DEF BlocksOK
<1>6. \A lb1, lb2 \in LBlocks : block(lb1).phy = block(lb2).phy => lb1 = lb2
  BY <1>3, <1>4, <1>5 DEF BlocksOK
<1>7. NumBlocks > 2 => \A lb \in LBlocks : block(lb).phy # sdb
  BY <1>3, <1>4, <1>5 DEF BlocksOK
<1> QED BY <1>5, <1>6, <1>7

(* As long as the flash operations succeed no physical block holds two     *)
(* logical blocks and the scratch data block, which the next block update  *)
(* overwrites and erases, holds none                                       *)
(* (its_flash_fs_mblock_set_data_scratch).                                 *)
THEOREM ScratchFree == Spec /\ [][NotRefused]_vars => [](errors = 0 => ScratchIsNotLive)
<1>1. IndInv => (errors = 0 => ScratchIsNotLive)
  BY ScratchBy
<1> QED BY <1>1, MetadataCommitted, PTL

LEMMA SpaceBy ==
    ASSUME IndInv, errors = 0
    PROVE  SpaceAccounted
<1> SUFFICES ASSUME mode = "idle", NEW lb \in LBlocks,
                    NEW here, here = {i \in Idx : Used(i) /\ file(i).lb = lb},
                    NEW cells, cells = UNION {Extent(i) : i \in here}
             PROVE  /\ cells = DataStart(lb) .. BlockSize - block(lb).free - 1
                    /\ \A i, j \in here : i # j => Extent(i) \cap Extent(j) = {}
                    /\ \A i \in here : file(i).cur <= file(i).max
  BY DEF SpaceAccounted
<1>1. Fine /\ Types /\ Valid
  BY DEF IndInv, Fine
<1>2. PICK B : B = flash[active].bmeta
  OBVIOUS
<1>3. PICK F : F = flash[active].fmeta
  OBVIOUS
<1>4. /\ LayoutOK(B, F) /\ B \in [LBlocks -> BlockMeta] /\ block(lb) = B[lb]
      /\ \A i \in Idx : file(i) = F[i] /\ (Used(i) => F[i] \in FileMeta) /\ (Used(i) <=> F[i] # Free)
  BY <1>1, <1>2, <1>3, IdleIs, ActiveIsValid DEF BlocksOK, block, file, Used
<1>5. PICK free : free = B[lb].free
  OBVIOUS
<1>6. PICK start : start = DataStart(lb)
  OBVIOUS
<1>7. free \in Int /\ start \in Int /\ BlockSize \in Int
  BY <1>4, <1>5, <1>6, Numbers DEF BlockMeta, DataStart
<1>8. ASSUME NEW i \in here
      PROVE  /\ i \in Idx /\ F[i] # Free /\ F[i].lb = lb
             /\ F[i].data \in Int /\ F[i].max \in Int /\ Placed(B, F[i])
             /\ Extent(i) = F[i].data .. F[i].data + F[i].max - 1
  BY <1>4 DEF FileMeta, LayoutOK, PlacedOK, Extent
<1>9. ASSUME NEW k \in cells PROVE k \in start .. BlockSize - free - 1
  <2>1. PICK i \in here : k \in Extent(i)
    OBVIOUS
  <2>2. /\ F[i].lb = lb /\ F[i].data \in Int /\ F[i].max \in Int /\ Placed(B, F[i])
        /\ k \in F[i].data .. F[i].data + F[i].max - 1
    BY <1>8, <2>1
  <2>3. start <= F[i].data /\ F[i].data + F[i].max + free <= BlockSize
    BY <1>5, <1>6, <2>2 DEF Placed
  <2> QED BY <1>7, <2>2, <2>3
<1>10. ASSUME NEW k \in start .. BlockSize - free - 1 PROVE k \in cells
  <2>1. k \in Int /\ start <= k /\ k + free < BlockSize
    BY <1>7
  <2>2. PICK i \in Idx : Occupies(F[i], lb, k)
    BY <1>4, <1>5, <1>6, <2>1 DEF LayoutOK, FilledOK
  <2>3. i \in here
    BY <1>4, <2>2 DEF Occupies
  <2>4. k \in Extent(i)
    BY <1>8, <2>1, <2>2, <2>3 DEF Occupies
  <2> QED BY <2>3, <2>4
<1>11. cells = start .. BlockSize - free - 1
  BY <1>9, <1>10
<1>12. ASSUME NEW i \in here, NEW j \in here, i # j PROVE Extent(i) \cap Extent(j) = {}
  <2>1. Apart(F[i], F[j])
    BY <1>4, <1>8, <1>12 DEF LayoutOK, ApartOK
  <2>2. /\ F[i].data \in Int /\ F[i].max \in Int /\ F[j].data \in Int /\ F[j].max \in Int
        /\ Extent(i) = F[i].data .. F[i].data + F[i].max - 1
        /\ Extent(j) = F[j].data .. F[j].data + F[j].max - 1
    BY <1>8
  <2>3. ASSUME NEW k \in Extent(i), k \in Extent(j) PROVE FALSE
    BY <2>1, <2>2, <2>3 DEF Apart
  <2> QED BY <2>3
<1>13. \A i \in here : file(i).cur <= file(i).max
  BY <1>4, <1>8 DEF Placed
<1> QED BY <1>4, <1>5, <1>6, <1>11, <1>12, <1>13

(* As long as the flash operations succeed, and wherever power fails,      *)
(* every byte of a block belongs to exactly one file or to the free space: *)
(* a replacement that is interrupted, its repair at the next start-up and  *)
(* the compaction after a delete neither lose space nor let files overlap  *)
(* (its_mblock_reserve_file, its_flash_fs_delete_idx).                     *)
THEOREM SpaceIsAccounted == Spec /\ [][NotRefused]_vars => [](errors = 0 => SpaceAccounted)
<1>1. IndInv => (errors = 0 => SpaceAccounted)
  BY SpaceBy
<1> QED BY <1>1, MetadataCommitted, PTL

(* A driver that does not check what it programs refuses nothing, whatever *)
(* the number of operations that fail (its_flash_nor_write,                *)
(* its_flash_nand_write).                                                  *)
LEMMA NothingRefused ==
    ASSUME Nor = FALSE
    PROVE  Spec => [][NotRefused]_vars
<1>1. Init => errors \in Nat
  BY DEF Init
<1>2. (errors \in Nat) /\ [Next]_vars => (errors \in Nat)'
  <2> SUFFICES ASSUME errors \in Nat, [Next]_vars PROVE errors' \in Nat
    OBVIOUS
  <2>1. errors' = errors \/ errors' = errors + 1
    BY DEF Next, vars, Request, Set, Remove, Progress, Prepare, Prepared, DeleteReplaced,
           NextChunk, Succeed, WriteStep, ScratchStep, CommitStep, EraseStep, FailStep,
           PowerFailure, FlashFailure
  <2> QED BY <2>1
<1>3. (errors \in Nat) /\ [Next]_vars => [NotRefused]_vars
  <2> SUFFICES ASSUME errors \in Nat, FlashFailure PROVE errors' # errors
    BY DEF NotRefused
  <2>1. errors' = errors + 1
    BY DEF FlashFailure
  <2> QED BY <2>1
<1> QED BY <1>1, <1>2, <1>3, PTL DEF Spec

-----------------------------------------------------------------------------
(* The contents of the files, so that what a restart finds of a file can   *)
(* be followed through a block update. First the amount of data that       *)
(* its_flash_fs_dblock_compact_block moves.                                *)

(* its_flash_fs_dblock_compact_block adds up the sizes of the files it     *)
(* moves: the sum is the number of cells of their extents.                 *)

Pick(s) == CHOOSE x \in s : TRUE

(* The equation of the fold.                                               *)
AddsUp(h, S) ==
    h = [s \in SUBSET S |-> IF s = {} THEN 0 ELSE file(Pick(s)).max + h[s \ {Pick(s)}]]

(* MapThenSumSet is the fold of AddsUp.                                    *)
LEMMA FoldIs ==
    ASSUME NEW S, NEW g, AddsUp(g, S)
    PROVE  \E h : AddsUp(h, S) /\ MapThenSumSet(LAMBDA i : file(i).max, S) = h[S]
<1>1. PICK h : h = CHOOSE k : AddsUp(k, S)
  OBVIOUS
<1>2. AddsUp(h, S)
  BY <1>1
<1>3. MapThenSumSet(LAMBDA i : file(i).max, S) = h[S]
  BY <1>1 DEF MapThenSumSet, MapThenFoldSet, AddsUp, Pick
<1> QED BY <1>2, <1>3

(* The equation has one solution on finite sets.                           *)
LEMMA FoldUnique ==
    ASSUME NEW S, IsFiniteSet(S), NEW g, AddsUp(g, S), NEW h, AddsUp(h, S)
    PROVE  g[S] = h[S]
<1>1. PICK C : C = {Cardinality(s) : s \in {t \in SUBSET S : g[t] # h[t]}}
  OBVIOUS
<1>2. C \subseteq Nat
  BY <1>1, FS_Subset, FS_CardinalityType
<1>3. CASE C = {}
  BY <1>1, <1>3
<1>4. CASE C # {}
  <2>1. Min(C) \in C /\ \A y \in C : Min(C) <= y
    BY <1>2, <1>4, MinInSet
  <2>2. PICK s \in SUBSET S : g[s] # h[s] /\ Min(C) = Cardinality(s)
    BY <1>1, <2>1
  <2>3. s # {}
    BY <2>2 DEF AddsUp
  <2>4. PICK x : x = Pick(s)
    OBVIOUS
  <2>5. x \in s
    BY <2>3, <2>4 DEF Pick
  <2>6. PICK t : t = s \ {x}
    OBVIOUS
  <2>7. IsFiniteSet(s) /\ Cardinality(s) \in Nat /\ Cardinality(t) = Cardinality(s) - 1
    BY <2>5, <2>6, FS_Subset, FS_CardinalityType, FS_RemoveElement
  <2>8. t \in SUBSET S
    BY <2>6
  <2>9. g[t] = h[t]
    <3>1. Cardinality(t) \notin C
      BY <2>1, <2>2, <2>7
    <3> QED BY <1>1, <2>8, <3>1
  <2>10. g[s] = file(x).max + g[t] /\ h[s] = file(x).max + h[t]
    BY <2>3, <2>4, <2>6 DEF AddsUp
  <2> QED BY <2>2, <2>9, <2>10
<1> QED BY <1>3, <1>4

Ext(m) == m.data .. m.data + m.max - 1
Spread(s) == UNION {Ext(file(i)) : i \in s}

(* The sum of the sizes of the files behind one.                           *)
LEMMA SumOfSizes ==
    ASSUME NEW S, IsFiniteSet(S), NEW n \in Int,
           \A i \in S : /\ file(i) \in FileMeta /\ file(i).max >= 0
                        /\ Ext(file(i)) \subseteq 0 .. n,
           \A i, j \in S : i # j => Ext(file(i)) \cap Ext(file(j)) = {}
    PROVE  MapThenSumSet(LAMBDA i : file(i).max, S) = Cardinality(Spread(S))
<1>1. PICK g : g = [s \in SUBSET S |-> Cardinality(Spread(s))]
  OBVIOUS
<1>2. \A s \in SUBSET S : IsFiniteSet(Spread(s)) /\ Cardinality(Spread(s)) \in Nat
  <2> SUFFICES ASSUME NEW s \in SUBSET S
               PROVE  IsFiniteSet(Spread(s)) /\ Cardinality(Spread(s)) \in Nat
    OBVIOUS
  <2>1. Spread(s) \in SUBSET (0 .. n)
    BY DEF Spread
  <2>2. IsFiniteSet(0 .. n)
    BY FS_Interval
  <2> QED BY <2>1, <2>2, FS_Subset, FS_CardinalityType
<1>3. ASSUME NEW s \in SUBSET S, s # {}
      PROVE  g[s] = file(Pick(s)).max + g[s \ {Pick(s)}]
  <2>1. PICK x : x = Pick(s)
    OBVIOUS
  <2>2. x \in s /\ x \in S
    BY <1>3, <2>1 DEF Pick
  <2>3. PICK t : t = s \ {x}
    OBVIOUS
  <2>4. t \in SUBSET S /\ s = t \cup {x} /\ x \notin t
    BY <2>2, <2>3
  <2>5. PICK E : E = Ext(file(x))
    OBVIOUS
  <2>6. Spread(s) = E \cup Spread(t) /\ E \cap Spread(t) = {}
    <3>1. Spread(s) = E \cup Spread(t)
      BY <2>4, <2>5 DEF Spread
    <3>2. \A i \in t : E \cap Ext(file(i)) = {}
      BY <2>2, <2>4, <2>5
    <3>3. E \cap Spread(t) = {}
      BY <3>2 DEF Spread
    <3> QED BY <3>1, <3>3
  <2>7. IsFiniteSet(E) /\ Cardinality(E) = file(x).max
    <3>1. PICK m \in FileMeta : m = file(x)
      BY <2>2
    <3>2. m.data \in Int /\ m.max \in Int /\ m.max >= 0
      BY <2>2, <3>1 DEF FileMeta
    <3>3. PICK a \in Int, b \in Int : a = m.data /\ b = m.data + m.max - 1
      BY <3>2
    <3>4. IsFiniteSet(a .. b) /\ Cardinality(a .. b) = IF a > b THEN 0 ELSE b - a + 1
      BY FS_Interval
    <3>5. E = a .. b
      BY <2>5, <3>1, <3>3 DEF Ext
    <3> QED BY <3>1, <3>2, <3>3, <3>4, <3>5
  <2>8. Cardinality(E \cup Spread(t)) = Cardinality(E) + Cardinality(Spread(t))
    <3>1. IsFiniteSet(Spread(t)) /\ Cardinality(Spread(t)) \in Nat /\ Cardinality(E) \in Nat
      BY <1>2, <2>4, <2>7, FS_CardinalityType
    <3>2. PICK T : T = Spread(t)
      OBVIOUS
    <3>3. Cardinality(E \cup T) = Cardinality(E) + Cardinality(T) - Cardinality(E \cap T)
      BY <2>7, <3>1, <3>2, FS_Union
    <3>4. Cardinality(E \cap T) = 0
      BY <2>6, <3>2, FS_EmptySet
    <3> QED BY <3>1, <3>2, <3>3, <3>4
  <2> QED BY <1>1, <2>1, <2>3, <2>4, <2>6, <2>7, <2>8
<1>4. AddsUp(g, S)
  <2>1. g[{}] = 0
    <3>1. Spread({}) = {}
      BY DEF Spread
    <3> QED BY <1>1, <3>1, FS_EmptySet
  <2>2. \A s \in SUBSET S :
          g[s] = IF s = {} THEN 0 ELSE file(Pick(s)).max + g[s \ {Pick(s)}]
    BY <1>3, <2>1
  <2> QED BY <1>1, <2>2 DEF AddsUp
<1>5. PICK h : AddsUp(h, S) /\ MapThenSumSet(LAMBDA i : file(i).max, S) = h[S]
  BY <1>4, FoldIs
<1>6. g[S] = h[S]
  BY <1>4, <1>5, FoldUnique
<1>7. g[S] = Cardinality(Spread(S))
  BY <1>1
<1> QED BY <1>5, <1>6, <1>7

BehindFacts(F, d, S, end) ==
      /\ \A i \in S : /\ F[i] \in FileMeta /\ F[i].max >= 0 /\ F[i].data >= d.data + d.max
                      /\ F[i].data + F[i].max <= end
      /\ \A i, j \in S : i # j => Ext(F[i]) \cap Ext(F[j]) = {}
      /\ UNION {Ext(F[i]) : i \in S} = d.data + d.max .. end - 1
      /\ S = {} => end = d.data + d.max
      /\ S # {} => \E i \in S : F[i].data = d.data + d.max
      /\ DataStart(d.lb) <= d.data /\ d.data + d.max <= end /\ d.max > 0
      /\ d.data \in Int /\ d.max \in Int /\ DataStart(d.lb) \in Nat
      /\ end <= BlockSize

(* The files behind a deleted one fill the block from its end to the free  *)
(* space, and those before it end where it begins.                         *)
LEMMA BehindIs ==
    ASSUME NEW B \in [LBlocks -> BlockMeta], NEW F \in [Idx -> FileMeta \cup {Free}],
           LayoutOK(B, F), NEW idx \in Idx, NEW d \in FileMeta, d = F[idx], F[idx] # Free,
           d.max # 0, NEW end \in Int, end = BlockSize - B[d.lb].free,
           NEW S, S = {i \in Idx : i # idx /\ F[i] # Free /\ F[i].lb = d.lb /\ F[i].data > d.data}
    PROVE  BehindFacts(F, d, S, end)
<1>1. /\ d.lb \in LBlocks /\ d.data \in Int /\ d.max \in Int /\ d.cur \in Int
      /\ BlockSize \in Int /\ MetaSize \in Int /\ MetaSize >= 0
  BY ConfigAssumption DEF FileMeta
<1>2. B[d.lb].free \in Int /\ B[d.lb].free >= 0
  BY <1>1 DEF BlockMeta, LayoutOK, FreeOK
<1>3. \A i \in Idx : F[i] # Free =>
        /\ F[i] \in FileMeta /\ F[i].data \in Int /\ F[i].max \in Int /\ F[i].max >= 0
        /\ F[i].lb = d.lb => F[i].data + F[i].max <= end /\ DataStart(d.lb) <= F[i].data
  <2> SUFFICES ASSUME NEW i \in Idx, F[i] # Free
               PROVE  /\ F[i] \in FileMeta /\ F[i].data \in Int /\ F[i].max \in Int /\ F[i].max >= 0
                      /\ F[i].lb = d.lb =>
                            F[i].data + F[i].max <= end /\ DataStart(d.lb) <= F[i].data
    OBVIOUS
  <2>1. F[i] \in FileMeta /\ F[i].data \in Int /\ F[i].max \in Int
    BY DEF FileMeta
  <2>2. Placed(B, F[i])
    BY DEF LayoutOK, PlacedOK
  <2> QED BY <1>1, <1>2, <2>1, <2>2 DEF Placed
<1>4. DataStart(d.lb) <= d.data /\ d.data + d.max <= end /\ d.max > 0 /\ end <= BlockSize
      /\ DataStart(d.lb) \in Nat
  BY <1>1, <1>2, <1>3 DEF DataStart
<1>5. \A i, j \in Idx : F[i] # Free /\ F[j] # Free /\ i # j /\ F[i].lb = F[j].lb
        => F[i].data + F[i].max <= F[j].data \/ F[j].data + F[j].max <= F[i].data
  BY DEF LayoutOK, ApartOK, Apart
<1>6. ASSUME NEW i \in S
      PROVE  /\ i \in Idx /\ i # idx /\ F[i] \in FileMeta /\ F[i].data \in Int /\ F[i].max \in Int
             /\ F[i].max >= 0 /\ F[i].data >= d.data + d.max /\ F[i].data + F[i].max <= end
             /\ F[i].lb = d.lb /\ F[i] # Free
  <2>1. i \in Idx /\ i # idx /\ F[i] # Free /\ F[i].lb = d.lb /\ F[i].data > d.data
    OBVIOUS
  <2>2. F[i].data + F[i].max <= d.data \/ d.data + d.max <= F[i].data
    BY <1>5, <2>1
  <2> QED BY <1>1, <1>3, <2>1, <2>2
<1>7. ASSUME NEW i \in S, NEW j \in S, i # j PROVE Ext(F[i]) \cap Ext(F[j]) = {}
  <2>1. F[i].data + F[i].max <= F[j].data \/ F[j].data + F[j].max <= F[i].data
    BY <1>5, <1>6, <1>7
  <2> QED BY <1>6, <2>1 DEF Ext
<1>8. ASSUME NEW k \in d.data + d.max .. end - 1
      PROVE  \E i \in S : k \in Ext(F[i]) /\ (k = d.data + d.max => F[i].data = k)
  <2>1. k \in Int /\ DataStart(d.lb) <= k /\ k + B[d.lb].free < BlockSize
    BY <1>1, <1>2, <1>4
  <2>2. PICK i \in Idx : Occupies(F[i], d.lb, k)
    BY <1>1, <2>1 DEF LayoutOK, FilledOK
  <2>3. F[i] # Free /\ F[i].lb = d.lb /\ F[i].data <= k /\ k < F[i].data + F[i].max
        /\ F[i].data \in Int /\ F[i].max \in Int
    BY <1>3, <2>2 DEF Occupies
  <2>4. i # idx
    BY <1>1, <2>3
  <2>5. F[i].data + F[i].max <= d.data \/ d.data + d.max <= F[i].data
    BY <1>5, <2>3, <2>4
  <2>6. d.data + d.max <= F[i].data /\ F[i].data > d.data
    BY <1>1, <1>4, <2>3, <2>5
  <2> QED BY <1>1, <2>3, <2>4, <2>6 DEF Ext
<1>9. UNION {Ext(F[i]) : i \in S} = d.data + d.max .. end - 1
  <2>1. \A i \in S : \A k \in Ext(F[i]) : k \in d.data + d.max .. end - 1
    BY <1>1, <1>6 DEF Ext
  <2> QED BY <1>8, <2>1
<1>10. ASSUME S = {} PROVE end = d.data + d.max
  <2>1. CASE d.data + d.max < end
    <3>1. d.data + d.max \in d.data + d.max .. end - 1
      BY <1>1, <2>1
    <3> QED BY <1>8, <1>10, <3>1
  <2> QED BY <1>1, <1>4, <2>1
<1>11. ASSUME S # {} PROVE \E i \in S : F[i].data = d.data + d.max
  <2>1. CASE d.data + d.max < end
    <3>1. d.data + d.max \in d.data + d.max .. end - 1
      BY <1>1, <2>1
    <3> QED BY <1>8, <3>1
  <2>2. CASE d.data + d.max = end
    <3>1. PICK i \in S : TRUE
      BY <1>11
    <3> QED BY <1>1, <1>6, <2>2, <3>1
  <2> QED BY <1>1, <1>4, <2>1, <2>2
<1> QED BY <1>1, <1>4, <1>6, <1>7, <1>9, <1>10, <1>11 DEF BehindFacts

-----------------------------------------------------------------------------
(* The second layer of the invariant.  NewFiles, NewBlocks and NewData are *)
(* the metadata and the data there will be when the planned operations are *)
(* done, NewFile(f) what a restart would then find of f.  A commit that is *)
(* planned will leave the files as they are but for the file of the        *)
(* request (Wanted), one that was made has (Reached), and neither a write  *)
(* nor an erase touches a block that is live (PlanOK).                     *)

(* The data cells of a block.                                              *)
DataCells(b) == (IF b \in {0, 1} THEN MetaSize ELSE 0) .. BlockSize - 1
CellVals == Vals \cup {Erased}

(* A file in metadata F, B over data D.                                    *)
ContentsIn(B, D, m) ==
    LET cells == {D[B[m.lb].phy][k] : k \in m.data .. m.data + m.cur - 1}
    IN  [val |-> IF m.cur = 0 THEN None
                 ELSE IF Cardinality(cells) = 1 THEN CHOOSE v \in cells : TRUE
                 ELSE Erased,
         len |-> m.cur, once |-> m.once]

Found(F, f) == {i \in Idx : F[i] # Free /\ F[i].id = f /\ ~F[i].del}

FileIn(F, B, D, f) ==
    IF Found(F, f) = {} THEN None ELSE ContentsIn(B, D, F[Min(Found(F, f))])

(* What the flash holds, and what it will hold when the operations that    *)
(* are planned are done.                                                   *)
Data == [b \in Blocks |-> [k \in DataCells(b) |-> flash[b].data[k]]]

WritesData(op, b, k) ==
    op.do = "write" /\ op.part = "data" /\ op.blk = b /\ k \in DOMAIN op.cells

NewBlocks ==
    [l \in LBlocks |->
        IF \E op \in Ops(plan) : Writes(op, "bmeta", l)
        THEN (CHOOSE op \in Ops(plan) : Writes(op, "bmeta", l)).cells[l]
        ELSE flash[scratch].bmeta[l]]
NewFiles ==
    [i \in Idx |->
        IF \E op \in Ops(plan) : Writes(op, "fmeta", i)
        THEN (CHOOSE op \in Ops(plan) : Writes(op, "fmeta", i)).cells[i]
        ELSE flash[scratch].fmeta[i]]
NewData ==
    [b \in Blocks |-> [k \in DataCells(b) |->
        IF \E op \in Ops(plan) : WritesData(op, b, k)
        THEN (CHOOSE op \in Ops(plan) : WritesData(op, b, k)).cells[k]
        ELSE flash[b].data[k]]]
NewScratch ==
    IF \E op \in Ops(plan) : op.do = "scratch"
    THEN (CHOOSE op \in Ops(plan) : op.do = "scratch").blk
    ELSE sdb
NewFile(f) == FileIn(NewFiles, NewBlocks, NewData, f)

Committing == \E op \in Ops(plan) : op.do = "commit"
Refused == \E op \in Ops(plan) : op.do = "fail"

(* A block that is not live.                                               *)
Spare(b, meta, data) == b = meta \/ (NumBlocks > 2 /\ b = data)

(* The metadata block in use is the one a restart would take.              *)
HeadersOK ==
    /\ \A b \in {0, 1} : ValidHeader(b) => flash[b].header.count \in Counts
    /\ mode # "off" => count \in Counts
    /\ mode \notin {"off", "wipe"} =>
          flash[active].header.count = count /\ ActiveMetaBlock = active

(* The data cells hold values, or are erased.                              *)
DataOK ==
    \A b \in Blocks : \A k \in DataCells(b) :
        k \in DOMAIN flash[b].data /\ flash[b].data[k] \in CellVals

IsDataWrite(op) == op.do = "write" /\ op.part = "data"
(* No operation touches a block that is live when it is done.              *)
DataOpOK(op) ==
    /\ IsDataWrite(op) =>
          /\ Spare(op.blk, scratch, flash[active].header.sdb)
          /\ \A k \in DOMAIN op.cells : op.cells[k] \in CellVals
    /\ op.do = "erase" =>
          Spare(op.blk, IF Committing THEN active ELSE scratch, NewScratch)

(* The order of the data writes to one block does not matter.              *)
OneWrite ==
    \A op1, op2 \in Ops(plan) :
        IsDataWrite(op1) /\ IsDataWrite(op2) /\ op1.blk = op2.blk => op1.cells = op2.cells

PlanOK ==
    /\ mode \notin {"off", "wipe"} => \A op \in Ops(plan) : DataOpOK(op)
    /\ OneWrite
    /\ mode = "wipe" => \A op \in Ops(plan) : ~IsDataWrite(op)

(* A file of n values v.                                                   *)
Holding(v, n, once) == [val |-> IF n = 0 THEN None ELSE v, len |-> n, once |-> once]

(* The file of a set that has got as far as call.off.                      *)
Prefix == Holding(call.val, call.off, call.once)

DoneSoFar == call.done = IF Finished THEN "all" ELSE "some"

Kept == \A f \in Fids : NewFile(f) = StoredFile(f)
KeptBut(g, c) == \A f \in Fids : NewFile(f) = IF f = g THEN c ELSE StoredFile(f)

(* What a planned commit will leave: the file as the request wants it now. *)
Wanted ==
    IF call.op = "remove" THEN call.done = "nothing" /\ KeptBut(call.fid, None)
    ELSE \/ DoneSoFar /\ StoredFile(call.fid) = Prefix /\ Kept
         \/ /\ call.done \in {"nothing", "some"} /\ KeptBut(call.fid, Prefix)
            /\ call.done = "some" => StoredFile(call.fid).len < call.off

(* What a commit that was made has left.                                   *)
Reached ==
    IF call.op = "remove" THEN call.done = "all"
    ELSE DoneSoFar /\ StoredFile(call.fid) = Prefix

(* How far the request has come, in each phase of its plan.                *)
CallOK ==
    /\ mode # "busy" => call = None
    /\ mode = "busy" =>
        /\ call.op = "set" => call.size \in Nat /\ (call.off = call.size \/ call.off > 0)
        /\ call.op = "remove" => replaced = None
        /\ IF Committing THEN Wanted
           ELSE IF Refused THEN call.done = "nothing"
           ELSE Reached
    /\ mode = "recover" /\ Committing => Kept
    /\ mode = "wipe" /\ plan # << >> => NewFiles = [i \in Idx |-> Free]

Layer == HeadersOK /\ DataOK /\ PlanOK /\ CallOK

-----------------------------------------------------------------------------
(* What a file holds, in given metadata over given data.                   *)

(* A cell that belongs to a logical block is a data cell of its block.     *)
LEMMA CellIs ==
    ASSUME NEW B, NEW a \in {0, 1}, NEW s, BlocksOK(B, a, s), NEW l \in LBlocks,
           NEW k \in Int, DataStart(l) <= k, k < BlockSize
    PROVE  B[l].phy \in Blocks /\ k \in DataCells(B[l].phy)
<1>1. B[l].phy \in Blocks /\ (l = 0 => B[l].phy = a) /\ (l # 0 => B[l].phy \in DBlocks)
  BY DEF BlocksOK, BlockMeta
<1>2. l # 0 => B[l].phy \notin {0, 1}
  BY <1>1, Numbers
<1>3. MetaSize \in Nat /\ BlockSize \in Nat
  BY Numbers
<1>4. CASE l = 0
  BY <1>1, <1>3, <1>4 DEF DataStart, DataCells
<1>5. CASE l # 0
  BY <1>1, <1>2, <1>3, <1>5 DEF DataStart, DataCells
<1> QED BY <1>1, <1>4, <1>5

(* Where the cells of a file are.                                          *)
LEMMA PlaceIs ==
    ASSUME NEW B, B \in [LBlocks -> BlockMeta], NEW F, F \in [Idx -> FileMeta \cup {Free}],
           LayoutOK(B, F), NEW i \in Idx, F[i] # Free
    PROVE  /\ F[i] \in FileMeta /\ F[i].lb \in LBlocks /\ B[F[i].lb].free \in Int
           /\ F[i].data \in Int /\ F[i].cur \in Int /\ F[i].max \in Int
           /\ F[i].cur >= 0 /\ F[i].cur <= F[i].max /\ DataStart(F[i].lb) <= F[i].data
           /\ F[i].data + F[i].max + B[F[i].lb].free <= BlockSize
           /\ B[F[i].lb].free >= 0
           /\ DataStart(F[i].lb) \in Nat
<1>1. F[i] \in FileMeta
  OBVIOUS
<1>2. F[i].lb \in LBlocks /\ F[i].data \in Int /\ F[i].cur \in Int /\ F[i].max \in Int
  BY <1>1 DEF FileMeta
<1>3. B[F[i].lb] \in BlockMeta
  BY <1>2
<1>4. B[F[i].lb].free \in Int /\ B[F[i].lb].free >= 0
  BY <1>2, <1>3 DEF BlockMeta, LayoutOK, FreeOK
<1>5. Placed(B, F[i])
  BY DEF LayoutOK, PlacedOK
<1>6. DataStart(F[i].lb) \in Nat
  BY Numbers DEF DataStart
<1> QED BY <1>1, <1>2, <1>4, <1>5, <1>6 DEF Placed

(* The file is the one entry of that id that is not marked.                *)
LEMMA FileInIs ==
    ASSUME NEW F, FilesOK(F), NEW f, NEW B, NEW D
    PROVE  /\ (\A i \in Idx : F[i] # Free /\ F[i].id = f => F[i].del) => FileIn(F, B, D, f) = None
           /\ \A i \in Idx : F[i] # Free /\ F[i].id = f /\ ~F[i].del
                => FileIn(F, B, D, f) = ContentsIn(B, D, F[i])
<1>1. ASSUME \A i \in Idx : F[i] # Free /\ F[i].id = f => F[i].del
      PROVE  FileIn(F, B, D, f) = None
  <2>1. Found(F, f) = {}
    BY <1>1 DEF Found
  <2> QED BY <2>1 DEF FileIn
<1>2. ASSUME NEW i \in Idx, F[i] # Free, F[i].id = f, ~F[i].del
      PROVE  FileIn(F, B, D, f) = ContentsIn(B, D, F[i])
  <2>1. i \in Found(F, f) /\ \A j \in Found(F, f) : j = i
    BY <1>2 DEF Found, FilesOK
  <2>2. Found(F, f) \subseteq Nat /\ Found(F, f) # {}
    BY <2>1, Numbers DEF Found
  <2>3. Min(Found(F, f)) = i
    BY <2>1, <2>2, MinInSet
  <2> QED BY <2>2, <2>3 DEF FileIn
<1> QED BY <1>1, <1>2

(* Every file has an unmarked entry, or none.                              *)
LEMMA EntryOrNot ==
    ASSUME NEW F, NEW f
    PROVE  \/ \A i \in Idx : F[i] # Free /\ F[i].id = f => F[i].del
           \/ \E i \in Idx : F[i] # Free /\ F[i].id = f /\ ~F[i].del
OBVIOUS

(* A file that is copied, cell by cell, to another place.                  *)
LEMMA SameContents ==
    ASSUME NEW B, NEW D, NEW C, NEW E, NEW m, NEW n, m.cur \in Int, n.cur = m.cur, n.once = m.once,
           m.data \in Int, n.data \in Int,
           \A k \in Int : 0 <= k /\ k < m.cur =>
               D[B[m.lb].phy][m.data + k] = E[C[n.lb].phy][n.data + k]
    PROVE  ContentsIn(B, D, m) = ContentsIn(C, E, n)
<1>X. PICK X : X = {D[B[m.lb].phy][k] : k \in m.data .. m.data + m.cur - 1}
  OBVIOUS
<1>Y. PICK Y : Y = {E[C[n.lb].phy][k] : k \in n.data .. n.data + n.cur - 1}
  OBVIOUS
<1>1. ASSUME NEW x \in X PROVE x \in Y
  <2>1. PICK k \in m.data .. m.data + m.cur - 1 : x = D[B[m.lb].phy][k]
    BY <1>X
  <2>2. PICK j \in Int : j = k - m.data
    OBVIOUS
  <2>3. 0 <= j /\ j < m.cur /\ m.data + j = k /\ n.data + j \in n.data .. n.data + n.cur - 1
    BY <2>2
  <2>4. D[B[m.lb].phy][m.data + j] = E[C[n.lb].phy][n.data + j]
    BY <2>3
  <2> QED BY <1>Y, <2>1, <2>3, <2>4
<1>2. ASSUME NEW x \in Y PROVE x \in X
  <2>1. PICK k \in n.data .. n.data + n.cur - 1 : x = E[C[n.lb].phy][k]
    BY <1>Y
  <2>2. PICK j \in Int : j = k - n.data
    OBVIOUS
  <2>3. 0 <= j /\ j < m.cur /\ n.data + j = k /\ m.data + j \in m.data .. m.data + m.cur - 1
    BY <2>2
  <2>4. D[B[m.lb].phy][m.data + j] = E[C[n.lb].phy][n.data + j]
    BY <2>3
  <2> QED BY <1>X, <2>1, <2>3, <2>4
<1>3. X = Y
  BY <1>1, <1>2
<1>u. PICK u : u = IF m.cur = 0 THEN None
                   ELSE IF Cardinality(X) = 1 THEN CHOOSE v \in X : TRUE ELSE Erased
  OBVIOUS
<1>4. ContentsIn(B, D, m) = [val |-> u, len |-> m.cur, once |-> m.once]
  BY <1>X, <1>u DEF ContentsIn
<1>5. ContentsIn(C, E, n) = [val |-> u, len |-> n.cur, once |-> n.once]
  BY <1>Y, <1>3, <1>u DEF ContentsIn
<1> QED BY <1>4, <1>5, Zenon

(* A file is read from live blocks only.                                   *)
LEMMA LiveOnly ==
    ASSUME NEW B, B \in [LBlocks -> BlockMeta], NEW F, FilesOK(F), NEW D, NEW E,
           \A l \in LBlocks : D[B[l].phy] = E[B[l].phy], NEW f
    PROVE  FileIn(F, B, D, f) = FileIn(F, B, E, f)
<1>1. CASE \A i \in Idx : F[i] # Free /\ F[i].id = f => F[i].del
  BY <1>1, FileInIs
<1>2. ASSUME NEW i \in Idx, F[i] # Free, F[i].id = f, ~F[i].del
      PROVE  FileIn(F, B, D, f) = FileIn(F, B, E, f)
  <2>1. F[i].lb \in LBlocks
    BY <1>2 DEF FilesOK, FileMeta
  <2>2. ContentsIn(B, D, F[i]) = ContentsIn(B, E, F[i])
    <3>m. PICK m : m = F[i]
      OBVIOUS
    <3>1. D[B[m.lb].phy] = E[B[m.lb].phy]
      BY <2>1, <3>m
    <3>2. m.cur \in Int /\ m.data \in Int
      BY <1>2, <3>m DEF FilesOK, FileMeta
    <3>3. ContentsIn(B, D, m) = ContentsIn(B, E, m)
      BY <3>1, <3>2, SameContents
    <3> QED BY <3>m, <3>3
  <2> QED BY <1>2, <2>2, FileInIs
<1> QED BY <1>1, <1>2

(* The type of a file's contents.                                          *)
LEMMA ContentsType ==
    ASSUME NEW B, NEW D, NEW m \in FileMeta,
           \A k \in Int : m.data <= k /\ k < m.data + m.cur => D[B[m.lb].phy][k] \in CellVals
    PROVE  /\ ContentsIn(B, D, m) # None
           /\ ContentsIn(B, D, m).once = m.once /\ ContentsIn(B, D, m).len = m.cur
<1>1. m.cur \in Int /\ m.data \in Int /\ m.once \in BOOLEAN
  BY DEF FileMeta
<1>X. PICK X : X = {D[B[m.lb].phy][k] : k \in m.data .. m.data + m.cur - 1}
  OBVIOUS
<1>2. X \subseteq CellVals
  BY <1>X, <1>1
<1>u. PICK u : u = IF m.cur = 0 THEN None
                   ELSE IF Cardinality(X) = 1 THEN CHOOSE v \in X : TRUE ELSE Erased
  OBVIOUS
<1>3. Cardinality(X) = 1 => X # {}
  BY FS_EmptySet
<1>4. u \in Vals \cup {None, Erased}
  BY <1>2, <1>u, <1>3 DEF CellVals
<1>o. PICK o \in BOOLEAN : o = m.once
  BY <1>1
<1>5. ContentsIn(B, D, m) = [val |-> u, len |-> m.cur, once |-> o]
  BY <1>X, <1>u, <1>o DEF ContentsIn
<1>6. [val |-> u, len |-> m.cur, once |-> o] \in [val : Vals \cup {None, Erased}, len : Int, once : BOOLEAN]
  BY <1>1, <1>4
<1> QED BY <1>o, <1>5, <1>6, NoneAssumption

-----------------------------------------------------------------------------
(* What a restart finds, and the data cells under the flash operations.    *)

(* What a restart finds.                                                   *)
LEMMA StoredIs ==
    ASSUME Types, Valid, NEW b \in {0, 1}, ActiveMetaBlock = b, ValidHeader(b), NEW f
    PROVE  StoredFile(f) = FileIn(flash[b].fmeta, flash[b].bmeta, Data, f)
<1>F. PICK F : F = flash[b].fmeta
  OBVIOUS
<1>B. PICK B : B = flash[b].bmeta
  OBVIOUS
<1>R. PICK R : R = [x \in Blocks |-> flash[x].data]
  OBVIOUS
<1>1. BlocksOK(B, b, flash[b].header.sdb) /\ FilesOK(F) /\ LayoutOK(B, F)
  BY <1>B, <1>F DEF Valid
<1>2. B \in [LBlocks -> BlockMeta] /\ F \in [Idx -> FileMeta \cup {Free}]
  BY <1>1 DEF BlocksOK, FilesOK
<1>3. b # None
  BY Numbers
<1>4. {i \in Idx : /\ b # None /\ F[i] # Free /\ F[i].id = f /\ ~F[i].del} = Found(F, f)
  BY <1>3 DEF Found
<1>5. StoredFile(f) = IF Found(F, f) = {} THEN None ELSE Contents(b, F[Min(Found(F, f))])
  BY <1>4, <1>F DEF StoredFile
<1>6. CASE Found(F, f) = {}
  BY <1>5, <1>6, <1>F, <1>B DEF FileIn
<1>7. CASE Found(F, f) # {}
  <2>1. Found(F, f) \subseteq Nat
    BY Numbers DEF Found
  <2>i. PICK i : i = Min(Found(F, f))
    OBVIOUS
  <2>2. i \in Found(F, f)
    BY <1>7, <2>1, <2>i, MinInSet
  <2>3. i \in Idx /\ F[i] # Free
    BY <2>2 DEF Found
  <2>m. PICK m : m = F[i]
    OBVIOUS
  <2>4. /\ m \in FileMeta /\ m.lb \in LBlocks /\ B[m.lb].free \in Int
        /\ m.data \in Int /\ m.cur \in Int /\ m.max \in Int
        /\ m.cur >= 0 /\ m.cur <= m.max /\ DataStart(m.lb) <= m.data
        /\ m.data + m.max + B[m.lb].free <= BlockSize
        /\ B[m.lb].free >= 0 /\ DataStart(m.lb) \in Nat
    BY <1>1, <1>2, <2>3, <2>m, PlaceIs
  <2>5. B[m.lb].phy \in Blocks
    BY <1>2, <2>4 DEF BlockMeta
  <2>6. Contents(b, m) = ContentsIn(B, R, m)
    <3>1. R[B[m.lb].phy] = flash[B[m.lb].phy].data
      BY <1>R, <2>5
    <3>u. PICK X : X = {R[B[m.lb].phy][k] : k \in m.data .. m.data + m.cur - 1}
      OBVIOUS
    <3>w. PICK Y : Y = {flash[flash[b].bmeta[m.lb].phy].data[k] : k \in m.data .. m.data + m.cur - 1}
      OBVIOUS
    <3>2. X = Y
      BY <1>B, <3>1, <3>u, <3>w
    <3>3. Contents(b, m)
            = [val |-> IF m.cur = 0 THEN None
                       ELSE IF Cardinality(Y) = 1 THEN CHOOSE v \in Y : TRUE ELSE Erased,
               len |-> m.cur, once |-> m.once]
      BY <3>w DEF Contents
    <3>4. ContentsIn(B, R, m)
            = [val |-> IF m.cur = 0 THEN None
                       ELSE IF Cardinality(X) = 1 THEN CHOOSE v \in X : TRUE ELSE Erased,
               len |-> m.cur, once |-> m.once]
      BY <3>u DEF ContentsIn
    <3> QED BY <3>2, <3>3, <3>4
  <2>7. ContentsIn(B, R, m) = ContentsIn(B, Data, m)
    <3>1. ASSUME NEW k \in Int, 0 <= k, k < m.cur
          PROVE  R[B[m.lb].phy][m.data + k] = Data[B[m.lb].phy][m.data + k]
      <4>1. m.data + k \in Int /\ DataStart(m.lb) <= m.data + k /\ m.data + k < BlockSize
        BY <2>4, <3>1, Numbers
      <4>2. m.data + k \in DataCells(B[m.lb].phy)
        BY <1>1, <2>4, <4>1, CellIs
      <4> QED BY <1>R, <2>5, <4>2 DEF Data
    <3> QED BY <2>4, <3>1, SameContents
  <2> QED BY <1>5, <1>7, <1>F, <1>B, <2>i, <2>m, <2>6, <2>7 DEF FileIn
<1> QED BY <1>6, <1>7

LEMMA StoredAlways ==
    \A a \in {0, 1} : \A g : Types /\ Valid /\ ActiveMetaBlock = a /\ ValidHeader(a)
        => StoredFile(g) = FileIn(flash[a].fmeta, flash[a].bmeta, Data, g)
BY StoredIs

LEMMA NoneStored ==
    ASSUME ActiveMetaBlock = None, NEW f
    PROVE  StoredFile(f) = None
BY DEF StoredFile

(* The headers alone say which block is the active one.                    *)
LEMMA ChosenStays ==
    ASSUME flash'[0].header = flash[0].header, flash'[1].header = flash[1].header
    PROVE  ActiveMetaBlock' = ActiveMetaBlock
BY DEF ActiveMetaBlock, ValidHeader

LEMMA OnlyActive ==
    ASSUME active \in {0, 1}, ValidHeader(active), ~ValidHeader(scratch)
    PROVE  ActiveMetaBlock = active
BY ScratchIs DEF ActiveMetaBlock

LEMMA NoBlock ==
    ASSUME ~ValidHeader(0), ~ValidHeader(1)
    PROVE  ActiveMetaBlock = None
BY DEF ActiveMetaBlock

(* A restart finds the same as long as the chosen metadata block and the   *)
(* blocks it refers to are left alone.                                     *)
LEMMA StoredKept ==
    ASSUME Types, Valid, Types', Valid', NEW b \in {0, 1}, ValidHeader(b),
           ActiveMetaBlock = b, ActiveMetaBlock' = b, MetaKept(b),
           \A l \in LBlocks : Data'[flash[b].bmeta[l].phy] = Data[flash[b].bmeta[l].phy], NEW f
    PROVE  StoredFile(f)' = StoredFile(f)
<1>1. (\A a \in {0, 1} : \A g : Types /\ Valid /\ ActiveMetaBlock = a /\ ValidHeader(a)
            => StoredFile(g) = FileIn(flash[a].fmeta, flash[a].bmeta, Data, g))'
  BY StoredAlways, PTL
<1>2. ValidHeader(b)'
  BY DEF MetaKept, ValidHeader
<1>3. StoredFile(f)' = FileIn(flash'[b].fmeta, flash'[b].bmeta, Data', f)
  BY <1>1, <1>2
<1>B. PICK B : B = flash[b].bmeta
  OBVIOUS
<1>F. PICK F : F = flash[b].fmeta
  OBVIOUS
<1>4. flash'[b].fmeta = F /\ flash'[b].bmeta = B
  BY <1>B, <1>F DEF MetaKept
<1>5. B \in [LBlocks -> BlockMeta] /\ FilesOK(F)
  BY <1>B, <1>F DEF Valid, BlocksOK
<1>D. PICK D : D = Data'
  OBVIOUS
<1>6. \A l \in LBlocks : D[B[l].phy] = Data[B[l].phy]
  BY <1>B, <1>D
<1>7. FileIn(F, B, D, f) = FileIn(F, B, Data, f)
  BY <1>5, <1>6, LiveOnly
<1>8. StoredFile(f) = FileIn(F, B, Data, f)
  BY <1>B, <1>F, StoredIs
<1> QED BY <1>3, <1>4, <1>7, <1>8, <1>D

(* What a write leaves in the data cells.                                  *)
CellsWritten(op) ==
    \A x \in Blocks : \A k \in DataCells(x) :
        /\ k \in DOMAIN flash'[x].data
        /\ flash'[x].data[k] = IF WritesData(op, x, k) THEN op.cells[k] ELSE flash[x].data[k]

(* A write changes the cells it names.                                     *)
LEMMA WriteData ==
    ASSUME FlashOK(flash), DataOK, NEW op, op.do = "write", op.blk \in Blocks,
           op.part \in {"data", "bmeta", "fmeta"},
           flash' = [flash EXCEPT ![op.blk][op.part] = Over(op.cells, @)]
    PROVE  CellsWritten(op)
<1> USE DEF CellsWritten
<1>1. PICK D : flash \in [Blocks -> BlockOf(D)]
  BY DEF FlashOK
<1>b. PICK b : b = op.blk
  OBVIOUS
<1>2. \A x \in Blocks : flash[x] \in BlockOf(D)
  BY <1>1
<1>3. \A x \in Blocks \ {b} : flash'[x] = flash[x]
  BY <1>1, <1>b
<1>4. CASE op.part = "data"
  <2>o. PICK o : o = Over(op.cells, flash[b].data)
    OBVIOUS
  <2>r. PICK r : r = [flash[b] EXCEPT !.data = o]
    OBVIOUS
  <2>1. flash' = [flash EXCEPT ![b] = r]
    BY <1>b, <1>1, <1>4, <2>o, <2>r
  <2>2. flash'[b] = r /\ r.data = o
    BY <1>1, <1>2, <1>b, <2>1, <2>r DEF BlockOf
  <2>3. \A k \in DataCells(b) : k \in DOMAIN o /\ o[k] = IF k \in DOMAIN op.cells THEN op.cells[k]
                                                       ELSE flash[b].data[k]
    BY <1>b, <2>o DEF DataOK, Over
  <2>4. \A x, k : WritesData(op, x, k) <=> x = b /\ k \in DOMAIN op.cells
    BY <1>4, <1>b DEF WritesData
  <2> SUFFICES ASSUME NEW x \in Blocks, NEW k \in DataCells(x)
               PROVE  /\ k \in DOMAIN flash'[x].data
                      /\ flash'[x].data[k] = IF WritesData(op, x, k) THEN op.cells[k]
                                            ELSE flash[x].data[k]
    OBVIOUS
  <2>5. CASE x = b
    BY <2>2, <2>3, <2>4, <2>5
  <2>6. CASE x # b
    BY <1>3, <2>4, <2>6 DEF DataOK
  <2> QED BY <2>5, <2>6
<1>5. CASE op.part = "bmeta"
  <2>o. PICK o : o = Over(op.cells, flash[b].bmeta)
    OBVIOUS
  <2>r. PICK r : r = [flash[b] EXCEPT !.bmeta = o]
    OBVIOUS
  <2>1. flash' = [flash EXCEPT ![b] = r]
    BY <1>b, <1>1, <1>5, <2>o, <2>r
  <2>2. flash'[b] = r /\ r.data = flash[b].data
    BY <1>1, <1>2, <1>b, <2>1, <2>r DEF BlockOf
  <2>4. \A x, k : ~WritesData(op, x, k)
    BY <1>5 DEF WritesData
  <2> QED BY <1>3, <2>2, <2>4 DEF DataOK
<1>6. CASE op.part = "fmeta"
  <2>o. PICK o : o = Over(op.cells, flash[b].fmeta)
    OBVIOUS
  <2>r. PICK r : r = [flash[b] EXCEPT !.fmeta = o]
    OBVIOUS
  <2>1. flash' = [flash EXCEPT ![b] = r]
    BY <1>b, <1>1, <1>6, <2>o, <2>r
  <2>2. flash'[b] = r /\ r.data = flash[b].data
    BY <1>1, <1>2, <1>b, <2>1, <2>r DEF BlockOf
  <2>4. \A x, k : ~WritesData(op, x, k)
    BY <1>6 DEF WritesData
  <2> QED BY <1>3, <2>2, <2>4 DEF DataOK
<1> QED BY <1>4, <1>5, <1>6

LEMMA HeaderData ==
    ASSUME FlashOK(flash), DataOK, NEW b \in Blocks, NEW h, flash' = [flash EXCEPT ![b].header = h]
    PROVE  \A x \in Blocks : flash'[x].data = flash[x].data
<1>1. PICK D : flash \in [Blocks -> BlockOf(D)]
  BY DEF FlashOK
<1>2. flash[b] \in BlockOf(D)
  BY <1>1
<1>r. PICK r : r = [flash[b] EXCEPT !.header = h]
  OBVIOUS
<1>3. flash' = [flash EXCEPT ![b] = r]
  BY <1>r
<1>4. r.data = flash[b].data
  BY <1>2, <1>r DEF BlockOf
<1> QED BY <1>1, <1>3, <1>4

LEMMA EraseData ==
    ASSUME FlashOK(flash), DataOK, NEW b \in Blocks, flash' = [flash EXCEPT ![b] = ErasedBlock(b)]
    PROVE  /\ \A x \in Blocks \ {b} : flash'[x] = flash[x]
           /\ \A k \in DataCells(b) : k \in DOMAIN flash'[b].data /\ flash'[b].data[k] = Erased
<1>1. PICK D : flash \in [Blocks -> BlockOf(D)]
  BY DEF FlashOK
<1>2. ErasedBlock(b).data = [k \in DataCells(b) |-> Erased]
  BY DEF ErasedBlock, DataCells
<1>3. flash'[b] = ErasedBlock(b)
  BY <1>1
<1> QED BY <1>1, <1>2, <1>3

(* What is not written stays.                                              *)
LEMMA DataKept ==
    ASSUME NEW S, S \subseteq Blocks,
           \A x \in S : \A k \in DataCells(x) : flash'[x].data[k] = flash[x].data[k]
    PROVE  \A x \in S : Data'[x] = Data[x]
BY DEF Data, DataCells

(* What the planned writes will leave in a cell.                           *)
LEMMA NewCell ==
    OneWrite =>
        \A x \in Blocks : \A k \in DataCells(x) :
            /\ \A o \in Ops(plan) : WritesData(o, x, k) => NewData[x][k] = o.cells[k]
            /\ (\A o \in Ops(plan) : ~WritesData(o, x, k)) => NewData[x][k] = flash[x].data[k]
<1> SUFFICES ASSUME OneWrite, NEW x \in Blocks, NEW k \in DataCells(x)
             PROVE  /\ \A o \in Ops(plan) : WritesData(o, x, k) => NewData[x][k] = o.cells[k]
                    /\ (\A o \in Ops(plan) : ~WritesData(o, x, k)) => NewData[x][k] = flash[x].data[k]
  OBVIOUS
<1>w. PICK w : w = CHOOSE o \in Ops(plan) : WritesData(o, x, k)
  OBVIOUS
<1>1. NewData[x][k] = IF \E o \in Ops(plan) : WritesData(o, x, k) THEN w.cells[k]
                      ELSE flash[x].data[k]
  BY <1>w DEF NewData
<1>2. (\E o \in Ops(plan) : WritesData(o, x, k)) => w \in Ops(plan) /\ WritesData(w, x, k)
  BY <1>w
<1>3. ASSUME NEW o \in Ops(plan), WritesData(o, x, k) PROVE NewData[x][k] = o.cells[k]
  <2>1. w \in Ops(plan) /\ WritesData(w, x, k)
    BY <1>2, <1>3
  <2>2. w.cells = o.cells
    BY <1>3, <2>1 DEF OneWrite, IsDataWrite, WritesData
  <2> QED BY <1>1, <1>3, <2>2
<1> QED BY <1>1, <1>3

LEMMA NewDataIs ==
    /\ DOMAIN NewData = Blocks
    /\ \A x \in Blocks : DOMAIN NewData[x] = DataCells(x) /\ NewData[x] = [k \in DataCells(x) |-> NewData[x][k]]
    /\ NewData = [x \in Blocks |-> NewData[x]]
BY DEF NewData

(* The write of a cell is what was planned.                                *)
LEMMA NewDataStays ==
    ASSUME OneWrite, NEW op, Ops(plan) = {op} \cup Ops(plan'),
           \A x \in Blocks : \A k \in DataCells(x) :
             flash'[x].data[k] = IF WritesData(op, x, k) THEN op.cells[k] ELSE flash[x].data[k]
    PROVE  OneWrite' /\ NewData' = NewData
<1>1. OneWrite'
  BY DEF OneWrite
<1>2. (OneWrite => \A x \in Blocks : \A k \in DataCells(x) :
            /\ \A o \in Ops(plan) : WritesData(o, x, k) => NewData[x][k] = o.cells[k]
            /\ (\A o \in Ops(plan) : ~WritesData(o, x, k)) => NewData[x][k] = flash[x].data[k])'
  BY NewCell, PTL
<1>3. ASSUME NEW x \in Blocks, NEW k \in DataCells(x) PROVE NewData'[x][k] = NewData[x][k]
  <2>1. CASE \E o \in Ops(plan') : WritesData(o, x, k)
    <3>1. PICK o \in Ops(plan') : WritesData(o, x, k)
      BY <2>1
    <3>2. NewData'[x][k] = o.cells[k]
      BY <1>1, <1>2, <1>3, <3>1
    <3>3. NewData[x][k] = o.cells[k]
      BY <1>3, <3>1, NewCell
    <3> QED BY <3>2, <3>3
  <2>2. CASE \A o \in Ops(plan') : ~WritesData(o, x, k)
    <3>1. NewData'[x][k] = flash'[x].data[k]
      BY <1>1, <1>2, <1>3, <2>2
    <3>2. CASE WritesData(op, x, k)
      BY <1>3, <3>1, <3>2, NewCell
    <3>3. CASE ~WritesData(op, x, k)
      BY <1>3, <2>2, <3>1, <3>3, NewCell
    <3> QED BY <3>2, <3>3
  <2> QED BY <2>1, <2>2
<1>4. (/\ DOMAIN NewData = Blocks
       /\ \A x \in Blocks : DOMAIN NewData[x] = DataCells(x) /\ NewData[x] = [k \in DataCells(x) |-> NewData[x][k]]
       /\ NewData = [x \in Blocks |-> NewData[x]])'
  BY NewDataIs, PTL
<1>5. \A x \in Blocks : NewData'[x] = NewData[x]
  <2> SUFFICES ASSUME NEW x \in Blocks PROVE NewData'[x] = NewData[x]
    OBVIOUS
  <2>1. NewData'[x] = [k \in DataCells(x) |-> NewData'[x][k]]
    BY <1>4
  <2>2. NewData[x] = [k \in DataCells(x) |-> NewData[x][k]]
    BY NewDataIs
  <2> QED BY <1>3, <2>1, <2>2
<1> QED BY <1>1, <1>4, <1>5, NewDataIs

(* The metadata and the scratch data block of the update under way.        *)
LEMMA NewIs ==
    \A pre, post, N, G, z : Leads(plan, pre, post, N, G, z) /\ EndsWith(post) =>
        /\ NewBlocks = N /\ NewFiles = G /\ NewScratch = z
        /\ Committing /\ ~Refused
        /\ Ops(plan) = Ops(pre) \cup {Commit} \cup Ops(post)
<1> SUFFICES ASSUME NEW pre, NEW post, NEW N, NEW G, NEW z,
                    Leads(plan, pre, post, N, G, z), EndsWith(post)
             PROVE  /\ NewBlocks = N /\ NewFiles = G /\ NewScratch = z
                    /\ Committing /\ ~Refused
                    /\ Ops(plan) = Ops(pre) \cup {Commit} \cup Ops(post)
  OBVIOUS
<1>1. /\ IsSeq(pre) /\ IsSeq(post) /\ plan = Cat(pre, Cat(<<Commit>>, post))
      /\ PreOK(Ops(pre), N, G, z) /\ BlocksOK(N, scratch, z) /\ FilesOK(G)
  BY DEF Leads
<1>2. Ops(plan) = Ops(pre) \cup {Commit} \cup Ops(post)
  <2>1. IsSeq(Cat(<<Commit>>, post)) /\ Ops(Cat(<<Commit>>, post)) = {Commit} \cup Ops(post)
    BY <1>1, ConsIs
  <2> QED BY <1>1, <2>1, CatOps
<1>3. Commit.do = "commit" /\ \A op \in Ops(post) : op.do = "erase"
  BY DEF Commit, EndsWith
<1>4. \A op \in Ops(pre) : OpOK(op, N, G, z) /\ op.do \in {"erase", "scratch", "write"}
  BY <1>1 DEF PreOK, OpOK
<1>5. Committing /\ ~Refused
  BY <1>2, <1>3, <1>4 DEF Committing, Refused
<1>6. NewScratch = z
  <2>w. PICK w : w = CHOOSE op \in Ops(plan) : op.do = "scratch"
    OBVIOUS
  <2>1. CASE \E op \in Ops(plan) : op.do = "scratch"
    <3>1. w \in Ops(plan) /\ w.do = "scratch"
      BY <2>1, <2>w
    <3>2. w \in Ops(pre)
      BY <1>2, <1>3, <3>1
    <3>3. w.blk = z
      BY <1>4, <3>1, <3>2 DEF OpOK
    <3> QED BY <2>1, <2>w, <3>3 DEF NewScratch
  <2>2. CASE ~\E op \in Ops(plan) : op.do = "scratch"
    BY <1>1, <1>2, <2>2 DEF NewScratch, PreOK
  <2> QED BY <2>1, <2>2
<1>7. ASSUME NEW l \in LBlocks PROVE NewBlocks[l] = N[l]
  <2>w. PICK w : w = CHOOSE op \in Ops(plan) : Writes(op, "bmeta", l)
    OBVIOUS
  <2>1. CASE \E op \in Ops(plan) : Writes(op, "bmeta", l)
    <3>1. w \in Ops(plan) /\ Writes(w, "bmeta", l)
      BY <2>1, <2>w
    <3>2. w \in Ops(pre)
      BY <1>2, <1>3, <3>1 DEF Writes
    <3>3. w.cells[l] = N[l]
      BY <1>4, <3>1, <3>2 DEF OpOK, Writes
    <3> QED BY <1>7, <2>1, <2>w, <3>3 DEF NewBlocks
  <2>2. CASE ~\E op \in Ops(plan) : Writes(op, "bmeta", l)
    BY <1>1, <1>2, <1>7, <2>2 DEF NewBlocks, PreOK
  <2> QED BY <2>1, <2>2
<1>8. ASSUME NEW i \in Idx PROVE NewFiles[i] = G[i]
  <2>w. PICK w : w = CHOOSE op \in Ops(plan) : Writes(op, "fmeta", i)
    OBVIOUS
  <2>1. CASE \E op \in Ops(plan) : Writes(op, "fmeta", i)
    <3>1. w \in Ops(plan) /\ Writes(w, "fmeta", i)
      BY <2>1, <2>w
    <3>2. w \in Ops(pre)
      BY <1>2, <1>3, <3>1 DEF Writes
    <3>3. w.cells[i] = G[i]
      BY <1>4, <3>1, <3>2 DEF OpOK, Writes
    <3> QED BY <1>8, <2>1, <2>w, <3>3 DEF NewFiles
  <2>2. CASE ~\E op \in Ops(plan) : Writes(op, "fmeta", i)
    BY <1>1, <1>2, <1>8, <2>2 DEF NewFiles, PreOK
  <2> QED BY <2>1, <2>2
<1>9. NewBlocks = N
  <2>1. N = [l \in LBlocks |-> N[l]]
    BY <1>1 DEF BlocksOK
  <2>2. NewBlocks = [l \in LBlocks |-> NewBlocks[l]]
    BY DEF NewBlocks
  <2> QED BY <1>7, <2>1, <2>2
<1>10. NewFiles = G
  <2>1. G = [i \in Idx |-> G[i]]
    BY <1>1 DEF FilesOK
  <2>2. NewFiles = [i \in Idx |-> NewFiles[i]]
    BY DEF NewFiles
  <2> QED BY <1>8, <2>1, <2>2
<1> QED BY <1>2, <1>5, <1>6, <1>9, <1>10

(* What the phases are about to do.                                        *)
LEMMA PhaseIs ==
    /\ (plan = << >> \/ Erasing => ~Committing /\ ~Refused)
    /\ (Updating => Committing /\ ~Refused)
    /\ (Failing => ~Committing /\ Refused)
<1>1. ASSUME plan = << >> PROVE ~Committing /\ ~Refused
  <2>1. Ops(plan) = {}
    BY <1>1, Literals
  <2> QED BY <2>1 DEF Committing, Refused
<1>2. ASSUME Erasing PROVE ~Committing /\ ~Refused
  BY <1>2 DEF Erasing, Committing, Refused
<1>3. ASSUME Updating PROVE Committing /\ ~Refused
  BY <1>3, NewIs DEF Updating
<1>4. ASSUME Failing PROVE ~Committing /\ Refused
  <2>1. PICK pre : /\ IsSeq(pre) /\ plan = Cat(pre, <<Fail>>)
                   /\ \A op \in Ops(pre) : op.do = "write"
    BY <1>4 DEF Failing
  <2>2. IsSeq(<<Fail>>) /\ Ops(<<Fail>>) = {Fail}
    BY Literals
  <2>3. Ops(plan) = Ops(pre) \cup {Fail}
    BY <2>1, <2>2, CatOps
  <2> QED BY <2>1, <2>3 DEF Fail, Committing, Refused
<1> QED BY <1>1, <1>2, <1>3, <1>4

(* The metadata that the commit will make the active ones.                 *)
LEMMA PlannedIs ==
    Fine /\ Committing /\ mode # "wipe" =>
        /\ Updating /\ mode \in {"busy", "recover"} /\ ~Refused
        /\ BlocksOK(NewBlocks, scratch, NewScratch) /\ FilesOK(NewFiles)
        /\ LayoutOK(NewBlocks, NewFiles) /\ Pending(NewFiles)
        /\ \A op \in Ops(plan) : op.do = "write" /\ op.part = "bmeta" =>
               \A l \in DOMAIN op.cells : l \in LBlocks /\ op.cells[l] = NewBlocks[l]
        /\ \A op \in Ops(plan) : op.do = "write" /\ op.part = "fmeta" =>
               \A i \in DOMAIN op.cells : i \in Idx /\ op.cells[i] = NewFiles[i]
        /\ \A op \in Ops(plan) : op.do = "scratch" => op.blk = NewScratch
        /\ (\A op \in Ops(plan) : op.do # "scratch") => NewScratch = sdb
<1> SUFFICES ASSUME Fine, Committing, mode # "wipe"
             PROVE  /\ Updating /\ mode \in {"busy", "recover"} /\ ~Refused
                    /\ BlocksOK(NewBlocks, scratch, NewScratch) /\ FilesOK(NewFiles)
                    /\ LayoutOK(NewBlocks, NewFiles) /\ Pending(NewFiles)
                    /\ \A op \in Ops(plan) : op.do = "write" /\ op.part = "bmeta" =>
                           \A l \in DOMAIN op.cells : l \in LBlocks /\ op.cells[l] = NewBlocks[l]
                    /\ \A op \in Ops(plan) : op.do = "write" /\ op.part = "fmeta" =>
                           \A i \in DOMAIN op.cells : i \in Idx /\ op.cells[i] = NewFiles[i]
                    /\ \A op \in Ops(plan) : op.do = "scratch" => op.blk = NewScratch
                    /\ (\A op \in Ops(plan) : op.do # "scratch") => NewScratch = sdb
  OBVIOUS
<1>1. Updating /\ mode \in {"busy", "recover"} /\ ~Refused
  BY PhaseIs DEF Fine, Phases, Wiping, Updating
<1>2. PICK pre, post, N, G, z :
        Leads(plan, pre, post, N, G, z) /\ EndsWith(post) /\ Pending(G)
  BY <1>1 DEF Updating
<1>3. /\ NewBlocks = N /\ NewFiles = G /\ NewScratch = z
      /\ Ops(plan) = Ops(pre) \cup {Commit} \cup Ops(post)
  BY <1>2, NewIs
<1>4. BlocksOK(N, scratch, z) /\ FilesOK(G) /\ LayoutOK(N, G) /\ PreOK(Ops(pre), N, G, z)
  BY <1>2 DEF Leads
<1>5. Commit.do = "commit" /\ \A op \in Ops(post) : op.do = "erase"
  BY <1>2 DEF Commit, EndsWith
<1>6. \A op \in Ops(pre) : OpOK(op, N, G, z)
  BY <1>4 DEF PreOK
<1>7. \A op \in Ops(plan) : op.do \in {"write", "scratch"} => OpOK(op, N, G, z)
  BY <1>3, <1>5, <1>6
<1>8. \A op \in Ops(plan) : op.do = "write" /\ op.part = "bmeta" =>
        \A l \in DOMAIN op.cells : l \in LBlocks /\ op.cells[l] = N[l]
  BY <1>7 DEF OpOK
<1>9. \A op \in Ops(plan) : op.do = "write" /\ op.part = "fmeta" =>
        \A i \in DOMAIN op.cells : i \in Idx /\ op.cells[i] = G[i]
  BY <1>7 DEF OpOK
<1>10. \A op \in Ops(plan) : op.do = "scratch" => op.blk = z
  BY <1>7 DEF OpOK
<1>11. (\A op \in Ops(plan) : op.do # "scratch") => z = sdb
  BY <1>3, <1>4 DEF PreOK
<1>12. BlocksOK(NewBlocks, scratch, NewScratch) /\ FilesOK(NewFiles)
       /\ LayoutOK(NewBlocks, NewFiles) /\ Pending(NewFiles)
  BY <1>2, <1>3, <1>4
<1>13. \A op \in Ops(plan) : op.do = "write" /\ op.part = "bmeta" =>
        \A l \in DOMAIN op.cells : l \in LBlocks /\ op.cells[l] = NewBlocks[l]
  BY <1>3, <1>8
<1>14. \A op \in Ops(plan) : op.do = "write" /\ op.part = "fmeta" =>
        \A i \in DOMAIN op.cells : i \in Idx /\ op.cells[i] = NewFiles[i]
  BY <1>3, <1>9
<1> QED BY <1>1, <1>3, <1>10, <1>11, <1>12, <1>13, <1>14

-----------------------------------------------------------------------------
(* The operations of its_flash_fs_delete_idx and its_flash_fs_file_write:  *)
(* which data they write, where, and what the data will be.                *)

(* The data of a block update: block chg gets the contents cells, None of  *)
(* the blocks when chg is None; block 0 always moves.                      *)
NewHome(chg) == IF chg \in {None, 0} THEN sdb ELSE block(chg).phy
Block0Cells == Moved(active, MetaSize, BlockSize - block(0).free, 0)

Carries(P, N, chg, cells) ==
    /\ \E op \in P : op.do = "commit"
    /\ \E op \in P : op.do = "write" /\ op.part = "bmeta" /\ op.cells = N
    /\ \A op \in P : IsDataWrite(op) =>
          \/ chg # None /\ op.blk = ScratchFor(chg) /\ op.cells = cells
          \/ chg # 0 /\ op.blk = scratch /\ op.cells = Block0Cells
    /\ chg # None =>
          \E op \in P : IsDataWrite(op) /\ op.blk = ScratchFor(chg) /\ op.cells = cells
    /\ chg # 0 =>
          \E op \in P : IsDataWrite(op) /\ op.blk = scratch /\ op.cells = Block0Cells
    /\ \A op \in P : op.do = "erase" =>
          op.blk = active \/ (NumBlocks > 2 /\ op.blk = NewHome(chg))
    /\ \A op \in P : op.do = "scratch" => op.blk = NewHome(chg)
    /\ (\A op \in P : op.do # "scratch") => NewHome(chg) = sdb

Rehomed(N, chg) ==
    /\ N \in [LBlocks -> BlockMeta]
    /\ \A l \in LBlocks : N[l].phy = IF l = 0 THEN scratch
                                     ELSE IF l = chg THEN sdb ELSE block(l).phy

(* The operations of a block update, X being its writes of file metadata   *)
(* and w that of block metadata.                                           *)
DataOps(chg, cells) ==
    (IF chg = None THEN {} ELSE {Write(ScratchFor(chg), "data", cells, None)})
    \cup (IF chg = 0 THEN {} ELSE {Write(scratch, "data", Block0Cells, None)})
LastOps(chg) ==
    (IF chg \in {None, 0} THEN {} ELSE {SetScratch(NewHome(chg))})
    \cup {Commit, Erase(active)}
    \cup (IF NumBlocks > 2 THEN {Erase(NewHome(chg))} ELSE {})
OpsOf(X, w, chg, cells) == X \cup {w} \cup DataOps(chg, cells) \cup LastOps(chg)

(* Operations of this shape carry the update.                              *)
LEMMA ShapeOf ==
    ASSUME NEW X, \A op \in X : op.do = "write" /\ op.part = "fmeta",
           NEW w, NEW N, w.do = "write", w.part = "bmeta", w.cells = N,
           NEW chg, NEW cells, NEW P, P = OpsOf(X, w, chg, cells)
    PROVE  Carries(P, N, chg, cells)
<1>z. PICK z : z = NewHome(chg)
  OBVIOUS
<1>d. PICK wd : wd = Write(ScratchFor(chg), "data", cells, None)
  OBVIOUS
<1>m. PICK mg : mg = Write(scratch, "data", Block0Cells, None)
  OBVIOUS
<1>1. /\ wd.do = "write" /\ wd.part = "data" /\ wd.blk = ScratchFor(chg) /\ wd.cells = cells
      /\ mg.do = "write" /\ mg.part = "data" /\ mg.blk = scratch /\ mg.cells = Block0Cells
  BY <1>d, <1>m, WriteIs
<1>2. /\ Commit.do = "commit" /\ SetScratch(z).do = "scratch" /\ SetScratch(z).blk = z
      /\ \A b : Erase(b).do = "erase" /\ Erase(b).blk = b
  BY DEF Commit, SetScratch, Erase
<1>D. PICK D : D = DataOps(chg, cells)
  OBVIOUS
<1>L. PICK L : L = LastOps(chg)
  OBVIOUS
<1>3. /\ \A op \in D : \/ chg # None /\ op = wd
                       \/ chg # 0 /\ op = mg
      /\ chg # None => wd \in D
      /\ chg # 0 => mg \in D
  BY <1>D, <1>d, <1>m DEF DataOps
<1>4. /\ \A op \in L : \/ op = Commit \/ op = Erase(active)
                       \/ chg \notin {None, 0} /\ op = SetScratch(z)
                       \/ NumBlocks > 2 /\ op = Erase(z)
      /\ Commit \in L /\ (chg \notin {None, 0} => SetScratch(z) \in L)
  BY <1>L, <1>z DEF LastOps
<1>5. P = X \cup {w} \cup D \cup L
  BY <1>D, <1>L DEF OpsOf
<1>6. \A op \in P : op \in X \/ op = w \/ op \in D \/ op \in L
  BY <1>5
<1>7. w \in P /\ D \subseteq P /\ L \subseteq P
  BY <1>5
<1>8. \A op \in D : op.do = "write" /\ op.part = "data"
  BY <1>1, <1>3
<1>9. \A op \in L : op.do \in {"commit", "erase", "scratch"}
  BY <1>2, <1>4
<1>10. \A op \in P : IsDataWrite(op) => op \in D
  BY <1>6, <1>9 DEF IsDataWrite
<1>11. \A op \in P : op.do \in {"erase", "scratch"} => op \in L
  BY <1>6, <1>8
<1>12. /\ \E op \in P : op.do = "commit"
       /\ \E op \in P : op.do = "write" /\ op.part = "bmeta" /\ op.cells = N
  BY <1>2, <1>4, <1>7
<1>13. \A op \in P : IsDataWrite(op) =>
          \/ chg # None /\ op.blk = ScratchFor(chg) /\ op.cells = cells
          \/ chg # 0 /\ op.blk = scratch /\ op.cells = Block0Cells
  BY <1>1, <1>3, <1>10
<1>14. IsDataWrite(wd) /\ IsDataWrite(mg)
  BY <1>1 DEF IsDataWrite
<1>15. chg # None =>
          \E op \in P : IsDataWrite(op) /\ op.blk = ScratchFor(chg) /\ op.cells = cells
  BY <1>1, <1>3, <1>7, <1>14
<1>16. chg # 0 =>
          \E op \in P : IsDataWrite(op) /\ op.blk = scratch /\ op.cells = Block0Cells
  BY <1>1, <1>3, <1>7, <1>14
<1>17. \A op \in P : op.do = "erase" => op.blk = active \/ (NumBlocks > 2 /\ op.blk = z)
  BY <1>2, <1>4, <1>11
<1>18. \A op \in P : op.do = "scratch" => op.blk = z
  BY <1>2, <1>4, <1>11
<1>19. (\A op \in P : op.do # "scratch") => z = sdb
  BY <1>2, <1>4, <1>7, <1>z DEF NewHome
<1> QED BY <1>12, <1>13, <1>15, <1>16, <1>17, <1>18, <1>19, <1>z DEF Carries

LEMMA FinalizeOps ==
    ASSUME NEW z
    PROVE  /\ IsSeq(Finalize(z))
           /\ Ops(Finalize(z)) = {Commit, Erase(active)} \cup (IF NumBlocks > 2 THEN {Erase(z)} ELSE {})
<1>e. PICK e : e = IF NumBlocks > 2 THEN <<Erase(z)>> ELSE << >>
  OBVIOUS
<1>1. IsSeq(e) /\ Ops(e) = IF NumBlocks > 2 THEN {Erase(z)} ELSE {}
  BY <1>e, Literals
<1>p. PICK p : p = <<Commit, Erase(active)>>
  OBVIOUS
<1>2. IsSeq(p) /\ Ops(p) = {Commit, Erase(active)}
  BY <1>p, Literals
<1>3. Finalize(z) = Cat(p, e)
  BY <1>e, <1>p DEF Finalize, Cat
<1> QED BY <1>1, <1>2, <1>3, CatOps

(* Where the blocks are after an update.                                   *)
LEMMA CellsPhy ==
    ASSUME Types, Valid, Current, NEW lb \in LBlocks, NEW m \in BlockMeta,
           NEW N, N = BlockMetaCells(lb, m)
    PROVE  \A l \in LBlocks : N[l].phy = IF l = 0 THEN scratch
                                         ELSE IF l = lb THEN m.phy ELSE block(l).phy
<1>1. \A l \in LBlocks : block(l) \in BlockMeta
  BY ActiveIsValid
<1> SUFFICES ASSUME NEW l \in LBlocks
             PROVE  N[l].phy = IF l = 0 THEN scratch ELSE IF l = lb THEN m.phy ELSE block(l).phy
  OBVIOUS
<1>x. PICK x : x = IF l = lb THEN m ELSE block(l)
  OBVIOUS
<1>2. x \in BlockMeta
  BY <1>1, <1>x
<1>3. N[l] = IF l = 0 THEN [x EXCEPT !.phy = scratch] ELSE x
  BY <1>x DEF BlockMetaCells
<1>4. [x EXCEPT !.phy = scratch].phy = scratch
  BY <1>2 DEF BlockMeta
<1> QED BY <1>3, <1>4, <1>x

(* The three shapes of a block update: pre and the commit with the erases. *)
LEMMA OpsOfPlan ==
    ASSUME NEW pre, IsSeq(pre), NEW X, NEW w, NEW chg, NEW cells, NEW z, z = NewHome(chg),
           Ops(pre) = X \cup {w} \cup DataOps(chg, cells)
                      \cup (IF chg \in {None, 0} THEN {} ELSE {SetScratch(z)}),
           NEW p, p = Cat(pre, Finalize(z))
    PROVE  IsSeq(p) /\ Ops(p) = OpsOf(X, w, chg, cells)
<1>f. PICK f : f = Finalize(z)
  OBVIOUS
<1>1. IsSeq(f) /\ Ops(f) = {Commit, Erase(active)} \cup (IF NumBlocks > 2 THEN {Erase(z)} ELSE {})
  BY <1>f, FinalizeOps
<1>2. IsSeq(p) /\ Ops(p) = Ops(pre) \cup Ops(f)
  BY <1>1, <1>f, CatOps
<1>S. PICK S : S = IF chg \in {None, 0} THEN {} ELSE {SetScratch(z)}
  OBVIOUS
<1>E. PICK E : E = IF NumBlocks > 2 THEN {Erase(z)} ELSE {}
  OBVIOUS
<1>D. PICK D : D = DataOps(chg, cells)
  OBVIOUS
<1>3. OpsOf(X, w, chg, cells) = X \cup {w} \cup D \cup (S \cup {Commit, Erase(active)} \cup E)
  BY <1>S, <1>E, <1>D DEF OpsOf, LastOps
<1>4. Ops(p) = (X \cup {w} \cup D \cup S) \cup ({Commit, Erase(active)} \cup E)
  BY <1>1, <1>2, <1>S, <1>E, <1>D
<1> QED BY <1>2, <1>3, <1>4

(* its_flash_fs_delete_idx: what it writes.                                *)
LEMMA DeleteOps ==
    ASSUME Types, Valid, Current, NEW idx \in Idx, Used(idx), NEW d, d = file(idx),
           NEW chg, chg = IF d.max = 0 THEN None ELSE d.lb
    PROVE  \E N : /\ Carries(Ops(DeleteFile(idx)), N, chg, CompactedData(idx))
                  /\ Rehomed(N, chg) /\ FreeBecomes(N, d.lb, block(d.lb).free + d.max)
                  /\ \E op \in Ops(DeleteFile(idx)) :
                        op.do = "write" /\ op.part = "fmeta" /\ op.cells = FilesWithout(idx)
<1>1. d \in FileMeta /\ active \in {0, 1} /\ 0 \in LBlocks
  BY ActiveIsValid, Numbers DEF Types
<1>2. d.lb \in LBlocks /\ d.max \in Int
  BY <1>1 DEF FileMeta
<1>3. scratch \in Blocks /\ block(d.lb) \in BlockMeta /\ block(0) \in BlockMeta
  BY <1>1, <1>2, ScratchIs, ActiveIsValid
<1>4. None # 0 /\ None \notin LBlocks
  BY Numbers
<1>5. d.lb # 0 => sdb \in Blocks
  <2>1. d.lb # 0 => NumBlocks > 2
    BY <1>2, Numbers
  <2>2. BlocksOK(flash[active].bmeta, active, sdb)
    BY ActiveIsValid
  <2> QED BY <2>1, <2>2, Numbers DEF BlocksOK
<1>src. PICK src : src = block(d.lb).phy
  OBVIOUS
<1>dst. PICK dst : dst = ScratchFor(d.lb)
  OBVIOUS
<1>6. dst \in Blocks /\ (d.lb # 0 => dst = sdb)
  BY <1>3, <1>5, <1>dst DEF ScratchFor
<1>free. PICK free : free = block(d.lb).free + d.max
  OBVIOUS
<1>7. block(d.lb).free \in Int /\ free \in Int
  BY <1>2, <1>3, <1>free DEF BlockMeta
<1>meta. PICK meta : meta = [phy |-> dst, free |-> free]
  OBVIOUS
<1>8. meta \in BlockMeta /\ meta.phy = dst /\ meta.free = free
  BY <1>6, <1>7, <1>meta DEF BlockMeta
<1>G. PICK G : G = FilesWithout(idx)
  OBVIOUS
<1>wf. PICK wf : wf = Write(scratch, "fmeta", G, None)
  OBVIOUS
<1>mg. PICK mg : mg = Write(scratch, "data", Block0Cells, None)
  OBVIOUS
<1>9. MigrateBlock0 = <<mg>>
  BY <1>mg DEF MigrateBlock0, Block0Cells
<1>10. wf.do = "write" /\ wf.part = "fmeta" /\ wf.cells = G
  BY <1>wf, WriteIs
<1>C. PICK C : C = CompactedData(idx)
  OBVIOUS
<1>wd. PICK wd : wd = Write(dst, "data", C, None)
  OBVIOUS
<1>P. PICK P : P = Ops(DeleteFile(idx))
  OBVIOUS
<1>11. ASSUME NEW N, NEW w, w.do = "write", w.part = "bmeta", w.cells = N,
              P = OpsOf({wf}, w, chg, C), Rehomed(N, chg), FreeBecomes(N, d.lb, free)
       PROVE  \E M : /\ Carries(Ops(DeleteFile(idx)), M, chg, CompactedData(idx))
                     /\ Rehomed(M, chg) /\ FreeBecomes(M, d.lb, block(d.lb).free + d.max)
                     /\ \E op \in Ops(DeleteFile(idx)) :
                           op.do = "write" /\ op.part = "fmeta" /\ op.cells = FilesWithout(idx)
  <2>1. \A op \in {wf} : op.do = "write" /\ op.part = "fmeta"
    BY <1>10
  <2>2. Carries(P, N, chg, C)
    BY <1>11, <2>1, ShapeOf
  <2>3. wf \in P
    BY <1>11 DEF OpsOf
  <2> QED BY <1>10, <1>11, <1>C, <1>P, <1>G, <1>free, <2>2, <2>3
<1>12. CASE d.max = 0
  <2>N. PICK N : N = BlockMetaCells(0, block(0))
    OBVIOUS
  <2>w. PICK w : w = Write(scratch, "bmeta", N, None)
    OBVIOUS
  <2>1. w.do = "write" /\ w.part = "bmeta" /\ w.cells = N
    BY <2>w, WriteIs
  <2>pre. PICK pre : pre = Cat(Cat(<<wf>>, <<w>>), <<mg>>)
    OBVIOUS
  <2>2. DeleteFile(idx) = Cat(pre, Finalize(sdb))
    BY <1>9, <1>12, <1>G, <1>wf, <2>N, <2>w, <2>pre DEF DeleteFile, Cat
  <2>3. IsSeq(pre) /\ Ops(pre) = {wf, w, mg}
    BY <2>pre, PlanOf3
  <2>4. chg = None /\ NewHome(chg) = sdb
    BY <1>12 DEF NewHome
  <2>5. DataOps(chg, C) = {mg}
    BY <1>4, <2>4, <1>mg DEF DataOps
  <2>6. Ops(pre) = {wf} \cup {w} \cup DataOps(chg, C)
                   \cup (IF chg \in {None, 0} THEN {} ELSE {SetScratch(sdb)})
    BY <2>3, <2>4, <2>5
  <2>7. P = OpsOf({wf}, w, chg, C)
    <3>1. PICK X, p, z : X = {wf} /\ p = DeleteFile(idx) /\ z = sdb
      OBVIOUS
    <3>2. z = NewHome(chg) /\ p = Cat(pre, Finalize(z))
      BY <2>2, <2>4, <3>1
    <3>3. Ops(pre) = X \cup {w} \cup DataOps(chg, C)
                     \cup (IF chg \in {None, 0} THEN {} ELSE {SetScratch(z)})
      BY <2>6, <3>1
    <3>4. Ops(p) = OpsOf(X, w, chg, C)
      BY <2>3, <3>2, <3>3, OpsOfPlan
    <3> QED BY <1>P, <3>1, <3>4
  <2>8. N \in [LBlocks -> BlockMeta] /\ FreeBecomes(N, 0, block(0).free)
    <3>1. PICK e : e = block(0).free
      OBVIOUS
    <3> QED BY <1>1, <1>3, <2>N, <3>1, CellsFree
  <2>9. FreeBecomes(N, d.lb, free)
    BY <1>7, <1>12, <1>free, <1>2, <2>8 DEF FreeBecomes
  <2>10. Rehomed(N, chg)
    <3>1. \A l \in LBlocks : N[l].phy = IF l = 0 THEN scratch
                                         ELSE IF l = 0 THEN block(0).phy ELSE block(l).phy
      BY <1>1, <1>3, <2>N, CellsPhy
    <3> QED BY <1>4, <2>4, <2>8, <3>1 DEF Rehomed
  <2> QED BY <1>11, <2>1, <2>7, <2>9, <2>10
<1>13. CASE d.max # 0 /\ d.lb = 0
  <2>N. PICK N : N = BlockMetaCells(d.lb, meta)
    OBVIOUS
  <2>w. PICK w : w = Write(scratch, "bmeta", N, None)
    OBVIOUS
  <2>1. w.do = "write" /\ w.part = "bmeta" /\ w.cells = N
    BY <2>w, WriteIs
  <2>x. PICK x : x = Cat(Cat(<<wd>>, << >>), <<w>>)
    OBVIOUS
  <2>pre. PICK pre : pre = Cat(Cat(<<wf>>, x), << >>)
    OBVIOUS
  <2>2. DeleteFile(idx) = Cat(pre, Finalize(sdb))
    BY <1>13, <1>G, <1>wf, <1>C, <1>wd, <1>src, <1>dst, <1>free, <1>meta, <2>N, <2>w, <2>x, <2>pre
       DEF DeleteFile, Cat, OnLogical
  <2>3. IsSeq(pre) /\ Ops(pre) = {wf, wd, w}
    BY <2>pre, <2>x, PlanOf3Inner
  <2>4. chg = 0 /\ NewHome(chg) = sdb
    BY <1>13 DEF NewHome
  <2>5. DataOps(chg, C) = {wd}
    BY <1>4, <1>13, <2>4, <1>wd, <1>dst DEF DataOps
  <2>6. Ops(pre) = {wf} \cup {w} \cup DataOps(chg, C)
                   \cup (IF chg \in {None, 0} THEN {} ELSE {SetScratch(sdb)})
    BY <2>3, <2>4, <2>5
  <2>7. P = OpsOf({wf}, w, chg, C)
    <3>1. PICK X, p, z : X = {wf} /\ p = DeleteFile(idx) /\ z = sdb
      OBVIOUS
    <3>2. z = NewHome(chg) /\ p = Cat(pre, Finalize(z))
      BY <2>2, <2>4, <3>1
    <3>3. Ops(pre) = X \cup {w} \cup DataOps(chg, C)
                     \cup (IF chg \in {None, 0} THEN {} ELSE {SetScratch(z)})
      BY <2>6, <3>1
    <3>4. Ops(p) = OpsOf(X, w, chg, C)
      BY <2>3, <3>2, <3>3, OpsOfPlan
    <3> QED BY <1>P, <3>1, <3>4
  <2>8. N \in [LBlocks -> BlockMeta] /\ FreeBecomes(N, d.lb, free)
    BY <1>2, <1>8, <2>N, CellsFree
  <2>10. Rehomed(N, chg)
    <3>1. \A l \in LBlocks : N[l].phy = IF l = 0 THEN scratch
                                         ELSE IF l = d.lb THEN meta.phy ELSE block(l).phy
      BY <1>2, <1>8, <2>N, CellsPhy
    <3> QED BY <1>13, <2>4, <2>8, <3>1 DEF Rehomed
  <2> QED BY <1>11, <2>1, <2>7, <2>8, <2>10
<1>14. CASE d.max # 0 /\ d.lb # 0
  <2>N. PICK N : N = BlockMetaCells(d.lb, meta)
    OBVIOUS
  <2>w. PICK w : w = Write(scratch, "bmeta", N, dst)
    OBVIOUS
  <2>1. w.do = "write" /\ w.part = "bmeta" /\ w.cells = N
    BY <2>w, WriteIs
  <2>ss. PICK ss : ss = SetScratch(src)
    OBVIOUS
  <2>x. PICK x : x = Cat(Cat(<<wd>>, <<ss>>), <<w>>)
    OBVIOUS
  <2>pre. PICK pre : pre = Cat(Cat(<<wf>>, x), <<mg>>)
    OBVIOUS
  <2>2. DeleteFile(idx) = Cat(pre, Finalize(src))
    BY <1>9, <1>14, <1>G, <1>wf, <1>C, <1>wd, <1>src, <1>dst, <1>free, <1>meta, <2>N, <2>w, <2>ss, <2>x, <2>pre
       DEF DeleteFile, Cat, OnLogical
  <2>3. IsSeq(pre) /\ Ops(pre) = {wf, wd, ss, w, mg}
    BY <2>pre, <2>x, PlanOf5
  <2>4. chg = d.lb /\ chg \notin {None, 0} /\ NewHome(chg) = src
    BY <1>2, <1>4, <1>14, <1>src DEF NewHome
  <2>5. DataOps(chg, C) = {wd, mg}
    <3>1. ScratchFor(chg) = dst
      BY <1>dst, <2>4
    <3> QED BY <2>4, <3>1, <1>wd, <1>mg DEF DataOps
  <2>6. Ops(pre) = {wf} \cup {w} \cup DataOps(chg, C)
                   \cup (IF chg \in {None, 0} THEN {} ELSE {SetScratch(src)})
    BY <2>3, <2>4, <2>5, <2>ss
  <2>7. P = OpsOf({wf}, w, chg, C)
    <3>1. PICK X, p, z : X = {wf} /\ p = DeleteFile(idx) /\ z = src
      OBVIOUS
    <3>2. z = NewHome(chg) /\ p = Cat(pre, Finalize(z))
      BY <2>2, <2>4, <3>1
    <3>3. Ops(pre) = X \cup {w} \cup DataOps(chg, C)
                     \cup (IF chg \in {None, 0} THEN {} ELSE {SetScratch(z)})
      BY <2>6, <3>1
    <3>4. Ops(p) = OpsOf(X, w, chg, C)
      BY <2>3, <3>2, <3>3, OpsOfPlan
    <3> QED BY <1>P, <3>1, <3>4
  <2>8. N \in [LBlocks -> BlockMeta] /\ FreeBecomes(N, d.lb, free)
    BY <1>2, <1>8, <2>N, CellsFree
  <2>10. Rehomed(N, chg)
    <3>1. \A l \in LBlocks : N[l].phy = IF l = 0 THEN scratch
                                         ELSE IF l = d.lb THEN meta.phy ELSE block(l).phy
      BY <1>2, <1>8, <2>N, CellsPhy
    <3> QED BY <1>6, <1>8, <1>14, <2>4, <2>8, <3>1 DEF Rehomed
  <2> QED BY <1>11, <2>1, <2>7, <2>8, <2>10
<1> QED BY <1>12, <1>13, <1>14

(* The operations p carry a chunk of file idx, behind the mark of the old  *)
(* entry.                                                                  *)
CarriesChunk(p, idx, m, free, old, off, n, v, mark, chg) ==
    \E N : /\ Carries(Ops(p), N, chg, FileCells(m, free, off, n, v))
           /\ Rehomed(N, chg) /\ FreeBecomes(N, m.lb, free)
           /\ \E op \in Ops(p) : /\ op.do = "write" /\ op.part = "fmeta"
                                 /\ op.cells = Written(idx, m, old, off, n)
           /\ \A op \in Ops(mark) : op \in Ops(p)

(* its_flash_fs_file_write: what it writes, mark being the mark of the     *)
(* file that is replaced.                                                  *)
LEMMA WriteOps ==
    ASSUME Types, Valid, Current, NEW idx, NEW m \in FileMeta, NEW free \in Int, NEW old, NEW off,
           NEW n \in Int, NEW v, NEW mark, IsSeq(mark),
           \A op \in Ops(mark) : op.do = "write" /\ op.part = "fmeta",
           NEW chg, chg = IF n = 0 THEN None ELSE m.lb,
           NEW p, p = Cat(mark, WriteFile(idx, m, free, old, off, n, v))
    PROVE  CarriesChunk(p, idx, m, free, old, off, n, v, mark, chg)
<1>1. active \in {0, 1} /\ 0 \in LBlocks /\ m.lb \in LBlocks
  BY Numbers DEF Types, FileMeta
<1>3. scratch \in Blocks /\ block(m.lb) \in BlockMeta
  BY <1>1, ScratchIs, ActiveIsValid
<1>4. None # 0 /\ None \notin LBlocks
  BY Numbers
<1>5. m.lb # 0 => sdb \in Blocks
  <2>1. m.lb # 0 => NumBlocks > 2
    BY <1>1, Numbers
  <2>2. BlocksOK(flash[active].bmeta, active, sdb)
    BY ActiveIsValid
  <2> QED BY <2>1, <2>2, Numbers DEF BlocksOK
<1>src. PICK src : src = block(m.lb).phy
  OBVIOUS
<1>dst. PICK dst : dst = ScratchFor(m.lb)
  OBVIOUS
<1>6. src \in Blocks /\ dst \in Blocks /\ (m.lb # 0 => dst = sdb)
  BY <1>3, <1>5, <1>src, <1>dst DEF ScratchFor, BlockMeta
<1>meta. PICK meta : meta = [phy |-> IF n = 0 THEN src ELSE dst, free |-> free]
  OBVIOUS
<1>8. meta \in BlockMeta /\ meta.phy = (IF n = 0 THEN src ELSE dst) /\ meta.free = free
  BY <1>6, <1>meta DEF BlockMeta
<1>N. PICK N : N = BlockMetaCells(m.lb, meta)
  OBVIOUS
<1>w. PICK w : w = Write(scratch, "bmeta", N, None)
  OBVIOUS
<1>7. w.do = "write" /\ w.part = "bmeta" /\ w.cells = N
  BY <1>w, WriteIs
<1>16. N \in [LBlocks -> BlockMeta] /\ FreeBecomes(N, m.lb, free)
  BY <1>1, <1>8, <1>N, CellsFree
<1>17. \A l \in LBlocks : N[l].phy = IF l = 0 THEN scratch
                                     ELSE IF l = m.lb THEN meta.phy ELSE block(l).phy
  BY <1>1, <1>8, <1>N, CellsPhy
<1>18. Rehomed(N, chg)
  BY <1>4, <1>6, <1>8, <1>16, <1>17, <1>src DEF Rehomed
<1>W. PICK W : W = Written(idx, m, old, off, n)
  OBVIOUS
<1>wf. PICK wf : wf = Write(scratch, "fmeta", W, None)
  OBVIOUS
<1>mg. PICK mg : mg = Write(scratch, "data", Block0Cells, None)
  OBVIOUS
<1>9. MigrateBlock0 = <<mg>>
  BY <1>mg DEF MigrateBlock0, Block0Cells
<1>10. wf.do = "write" /\ wf.part = "fmeta" /\ wf.cells = W
  BY <1>wf, WriteIs
<1>C. PICK C : C = FileCells(m, free, off, n, v)
  OBVIOUS
<1>wd. PICK wd : wd = Write(dst, "data", C, None)
  OBVIOUS
<1>q. PICK q : q = WriteFile(idx, m, free, old, off, n, v)
  OBVIOUS
<1>z. PICK z : z = NewHome(chg)
  OBVIOUS
<1>11. ASSUME IsSeq(q), Ops(q) = OpsOf({wf}, w, chg, C)
       PROVE  CarriesChunk(p, idx, m, free, old, off, n, v, mark, chg)
  <2>1. Ops(p) = Ops(mark) \cup Ops(q)
    BY <1>11, <1>q, CatOps
  <2>X. PICK X : X = Ops(mark) \cup {wf}
    OBVIOUS
  <2>2. \A op \in X : op.do = "write" /\ op.part = "fmeta"
    BY <1>10, <2>X
  <2>P. PICK P : P = Ops(p)
    OBVIOUS
  <2>3. P = OpsOf(X, w, chg, C)
    <3>1. PICK D, L : D = DataOps(chg, C) /\ L = LastOps(chg)
      OBVIOUS
    <3>2. Ops(q) = {wf} \cup {w} \cup D \cup L
      BY <1>11, <3>1 DEF OpsOf
    <3>3. OpsOf(X, w, chg, C) = X \cup {w} \cup D \cup L
      BY <3>1 DEF OpsOf
    <3> QED BY <2>1, <2>X, <2>P, <3>2, <3>3
  <2>4. Carries(P, N, chg, C)
    BY <1>7, <2>2, <2>3, ShapeOf
  <2>5. wf \in P
    BY <2>3, <2>X DEF OpsOf
  <2> QED BY <1>10, <1>16, <1>18, <1>C, <1>W, <2>1, <2>4, <2>5, <2>P DEF CarriesChunk
<1>15. ASSUME NEW pre, IsSeq(pre), q = Cat(pre, Finalize(z)),
              Ops(pre) = {wf} \cup {w} \cup DataOps(chg, C)
                         \cup (IF chg \in {None, 0} THEN {} ELSE {SetScratch(z)})
       PROVE  IsSeq(q) /\ Ops(q) = OpsOf({wf}, w, chg, C)
  <2>1. PICK X : X = {wf}
    OBVIOUS
  <2>3. Ops(pre) = X \cup {w} \cup DataOps(chg, C)
                   \cup (IF chg \in {None, 0} THEN {} ELSE {SetScratch(z)})
    BY <1>15, <2>1
  <2>4. IsSeq(q) /\ Ops(q) = OpsOf(X, w, chg, C)
    BY <1>15, <1>z, <2>3, OpsOfPlan
  <2> QED BY <2>1, <2>4
<1>12. CASE n = 0
  <2>pre. PICK pre : pre = Cat(Cat(<< >>, <<w, wf>>), <<mg>>)
    OBVIOUS
  <2>4. chg = None /\ z = sdb
    BY <1>12, <1>z DEF NewHome
  <2>2. q = Cat(pre, Finalize(z))
    BY <1>9, <1>12, <1>q, <1>src, <1>meta, <1>N, <1>w, <1>W, <1>wf, <2>pre, <2>4
       DEF WriteFile, Cat, Written, CurSize, Entries
  <2>3. IsSeq(pre) /\ Ops(pre) = {w, wf, mg}
    BY <2>pre, PlanOfWrite0
  <2>5. DataOps(chg, C) = {mg}
    BY <1>4, <2>4, <1>mg DEF DataOps
  <2>6. Ops(pre) = {wf} \cup {w} \cup DataOps(chg, C)
                   \cup (IF chg \in {None, 0} THEN {} ELSE {SetScratch(z)})
    BY <2>3, <2>4, <2>5
  <2> QED BY <1>11, <1>15, <2>2, <2>3, <2>6
<1>13. CASE n # 0 /\ m.lb = 0
  <2>pre. PICK pre : pre = Cat(Cat(Cat(<<wd>>, << >>), <<w, wf>>), << >>)
    OBVIOUS
  <2>4. chg = 0 /\ z = sdb
    BY <1>13, <1>z DEF NewHome
  <2>2. q = Cat(pre, Finalize(z))
    BY <1>13, <1>q, <1>src, <1>dst, <1>meta, <1>N, <1>w, <1>W, <1>wf, <1>C, <1>wd, <2>pre, <2>4
       DEF WriteFile, Cat, Written, CurSize, Entries, OnLogical
  <2>3. IsSeq(pre) /\ Ops(pre) = {wd, w, wf}
    BY <2>pre, PlanOfWrite1
  <2>5. DataOps(chg, C) = {wd}
    BY <1>4, <1>13, <2>4, <1>wd, <1>dst DEF DataOps
  <2>6. Ops(pre) = {wf} \cup {w} \cup DataOps(chg, C)
                   \cup (IF chg \in {None, 0} THEN {} ELSE {SetScratch(z)})
    BY <2>3, <2>4, <2>5
  <2> QED BY <1>11, <1>15, <2>2, <2>3, <2>6
<1>14. CASE n # 0 /\ m.lb # 0
  <2>ss. PICK ss : ss = SetScratch(src)
    OBVIOUS
  <2>pre. PICK pre : pre = Cat(Cat(Cat(<<wd>>, <<ss>>), <<w, wf>>), <<mg>>)
    OBVIOUS
  <2>4. chg = m.lb /\ chg \notin {None, 0} /\ z = src
    BY <1>1, <1>4, <1>14, <1>z, <1>src DEF NewHome
  <2>2. q = Cat(pre, Finalize(z))
    BY <1>9, <1>14, <1>q, <1>src, <1>dst, <1>meta, <1>N, <1>w, <1>W, <1>wf, <1>C, <1>wd, <2>ss, <2>pre, <2>4
       DEF WriteFile, Cat, Written, CurSize, Entries, OnLogical
  <2>3. IsSeq(pre) /\ Ops(pre) = {wd, ss, w, wf, mg}
    BY <2>pre, PlanOfWrite2
  <2>5. DataOps(chg, C) = {wd, mg}
    <3>1. ScratchFor(chg) = dst
      BY <1>dst, <2>4
    <3> QED BY <2>4, <3>1, <1>wd, <1>mg DEF DataOps
  <2>6. Ops(pre) = {wf} \cup {w} \cup DataOps(chg, C)
                   \cup (IF chg \in {None, 0} THEN {} ELSE {SetScratch(z)})
    BY <2>3, <2>4, <2>5, <2>ss
  <2> QED BY <1>11, <1>15, <2>2, <2>3, <2>6
<1> QED BY <1>12, <1>13, <1>14

(* What PlannedIs says of an update under way.                             *)
Planned ==
    /\ Updating /\ mode \in {"busy", "recover"} /\ ~Refused
    /\ BlocksOK(NewBlocks, scratch, NewScratch) /\ FilesOK(NewFiles)
    /\ LayoutOK(NewBlocks, NewFiles) /\ Pending(NewFiles)
    /\ \A op \in Ops(plan) : op.do = "write" /\ op.part = "bmeta" =>
           \A l \in DOMAIN op.cells : l \in LBlocks /\ op.cells[l] = NewBlocks[l]
    /\ \A op \in Ops(plan) : op.do = "write" /\ op.part = "fmeta" =>
           \A i \in DOMAIN op.cells : i \in Idx /\ op.cells[i] = NewFiles[i]
    /\ \A op \in Ops(plan) : op.do = "scratch" => op.blk = NewScratch
    /\ (\A op \in Ops(plan) : op.do # "scratch") => NewScratch = sdb

LEMMA PlannedHere == Fine /\ Committing /\ mode # "wipe" => Planned
BY PlannedIs DEF Planned

CellsPlanned ==
    \A x \in Blocks : \A k \in DataCells(x) :
        /\ \A o \in Ops(plan) : WritesData(o, x, k) => NewData[x][k] = o.cells[k]
        /\ (\A o \in Ops(plan) : ~WritesData(o, x, k)) => NewData[x][k] = flash[x].data[k]

LEMMA CellsHere == OneWrite => CellsPlanned
BY NewCell DEF CellsPlanned

(* The cells of logical block l that are in use, free being its free size. *)
InUse(l, free, k) == k \in Int /\ DataStart(l) <= k /\ k < BlockSize - free

(* Data E under block metadata N: logical block chg has the given cells,   *)
(* the others what they have now.                                          *)
CellsBecome(N, E, chg, cells) ==
    \A l \in LBlocks : \A k : InUse(l, N[l].free, k) /\ (l = chg => k \in DOMAIN cells) =>
        E[N[l].phy][k] = IF l = chg THEN cells[k] ELSE Data[block(l).phy][k]

(* A block update starts: what it will leave in the data cells.            *)
LEMMA StartData ==
    ASSUME Types, Valid, Current, DataOK, UNCHANGED <<flash, active, sdb>>, Fine', mode' # "wipe",
           NEW chg, chg = None \/ chg \in LBlocks, NEW cells, NEW N,
           Carries(Ops(plan'), N, chg, cells), Rehomed(N, chg),
           \A l \in LBlocks : l # chg => N[l].free = block(l).free,
           chg # None => \A k \in DOMAIN cells : cells[k] \in CellVals
    PROVE  /\ PlanOK' /\ Committing' /\ ~Refused' /\ NewBlocks' = N /\ Planned'
           /\ CellsBecome(N, NewData', chg, cells)
<1>1. Committing'
  BY DEF Committing, Carries
<1>2. Planned'
  <2>1. (Fine /\ Committing /\ mode # "wipe" => Planned)'
    BY PlannedHere, PTL
  <2> QED BY <1>1, <2>1
<1>P. PICK P : P = Ops(plan')
  OBVIOUS
<1>3. /\ active \in {0, 1} /\ scratch' = scratch /\ scratch \in {0, 1} /\ scratch # active
      /\ BlocksOK(flash[active].bmeta, active, sdb) /\ LayoutOK(flash[active].bmeta, flash[active].fmeta)
  BY ActiveIsValid, ScratchIs DEF Types, scratch
<1>4. N \in [LBlocks -> BlockMeta] /\ DOMAIN N = LBlocks
  BY DEF Rehomed
<1>5. NewBlocks' = N
  <2>1. PICK op \in P : op.do = "write" /\ op.part = "bmeta" /\ op.cells = N
    BY <1>P DEF Carries
  <2>2. \A l \in LBlocks : N[l] = NewBlocks'[l]
    BY <1>2, <1>4, <1>P, <2>1 DEF Planned
  <2>3. NewBlocks' = [l \in LBlocks |-> NewBlocks'[l]]
    BY DEF NewBlocks
  <2> QED BY <1>4, <2>2, <2>3
<1>6. NewScratch' = NewHome(chg)
  <2>1. CASE \E op \in P : op.do = "scratch"
    BY <1>2, <1>P, <2>1 DEF Planned, Carries
  <2>2. CASE \A op \in P : op.do # "scratch"
    BY <1>2, <1>P, <2>2 DEF Planned, Carries
  <2> QED BY <2>1, <2>2
<1>7. BlocksOK(N, scratch, NewScratch') /\ FreeOK(N)
  <2>1. BlocksOK(NewBlocks, scratch, NewScratch)' /\ LayoutOK(NewBlocks, NewFiles)'
    BY <1>2 DEF Planned
  <2> QED BY <1>3, <1>5, <2>1 DEF LayoutOK, BlocksOK, FreeOK
<1>8. /\ None # 0 /\ None \notin LBlocks /\ 0 \in LBlocks /\ MetaSize \in Nat /\ BlockSize \in Nat
      /\ 0 \notin DBlocks /\ 1 \notin DBlocks
  BY Numbers
<1>9. chg \notin {None, 0} => /\ NumBlocks > 2 /\ sdb \in DBlocks /\ ScratchFor(chg) = sdb /\ sdb # scratch
                             /\ N[chg].phy = sdb
  <2>1. chg \notin {None, 0} => NumBlocks > 2
    BY Numbers
  <2> QED BY <1>3, <1>8, <2>1 DEF BlocksOK, ScratchFor, Rehomed
<1>10. chg = 0 => ScratchFor(chg) = scratch
  BY DEF ScratchFor
<1>11. N[0].phy = scratch
  BY <1>8 DEF Rehomed
<1>12. /\ block(0).free \in Int /\ block(0).free >= 0 /\ block(0).phy = active
       /\ DataCells(active) = MetaSize .. BlockSize - 1
  BY <1>3, <1>8 DEF LayoutOK, FreeOK, block, BlocksOK, BlockMeta, DataCells
<1>13. /\ DOMAIN Block0Cells = MetaSize .. BlockSize - 1 - block(0).free
       /\ \A k \in DOMAIN Block0Cells : k \in DataCells(active) /\ Block0Cells[k] = flash[active].data[k]
  BY <1>8, <1>12 DEF Block0Cells, Moved
<1>14. \A k \in DOMAIN Block0Cells : Block0Cells[k] \in CellVals
  BY <1>3, <1>13, ScratchIs DEF DataOK
<1>15. ASSUME NEW op \in P PROVE DataOpOK(op)'
  <2>1. ASSUME IsDataWrite(op)
        PROVE  /\ Spare(op.blk, scratch, flash[active].header.sdb)
               /\ \A k \in DOMAIN op.cells : op.cells[k] \in CellVals
    <3>1. \/ chg # None /\ op.blk = ScratchFor(chg) /\ op.cells = cells
          \/ chg # 0 /\ op.blk = scratch /\ op.cells = Block0Cells
      BY <1>P, <1>15, <2>1 DEF Carries
    <3>2. flash[active].header.sdb = sdb
      BY DEF Current
    <3> QED BY <1>9, <1>10, <1>14, <3>1, <3>2 DEF Spare
  <2>2. ASSUME op.do = "erase"
        PROVE  Spare(op.blk, active, NewScratch')
    BY <1>P, <1>6, <1>15, <2>2 DEF Carries, Spare
  <2>3. flash'[active'].header.sdb = flash[active].header.sdb
    OBVIOUS
  <2> QED BY <1>1, <1>3, <2>1, <2>2, <2>3 DEF DataOpOK, Spare, IsDataWrite
<1>16. OneWrite'
  <2> SUFFICES ASSUME NEW op1 \in P, NEW op2 \in P, IsDataWrite(op1), IsDataWrite(op2), op1.blk = op2.blk
               PROVE  op1.cells = op2.cells
    BY <1>P DEF OneWrite, IsDataWrite
  <2>1. \/ chg # None /\ op1.blk = ScratchFor(chg) /\ op1.cells = cells
        \/ chg # 0 /\ op1.blk = scratch /\ op1.cells = Block0Cells
    BY <1>P DEF Carries
  <2>2. \/ chg # None /\ op2.blk = ScratchFor(chg) /\ op2.cells = cells
        \/ chg # 0 /\ op2.blk = scratch /\ op2.cells = Block0Cells
    BY <1>P DEF Carries
  <2> QED BY <1>9, <2>1, <2>2
<1>17. PlanOK'
  <2>1. mode' \in {"busy", "recover"}
    BY <1>2 DEF Planned
  <2> QED BY <1>P, <1>15, <1>16, <2>1 DEF PlanOK
<1>18. CellsPlanned'
  <2>1. (OneWrite => CellsPlanned)'
    BY CellsHere, PTL
  <2> QED BY <1>16, <2>1
<1>19. ASSUME NEW l \in LBlocks, NEW k, InUse(l, N[l].free, k), l = chg => k \in DOMAIN cells
       PROVE  NewData'[N[l].phy][k] = IF l = chg THEN cells[k] ELSE Data[block(l).phy][k]
  <2>x. PICK x : x = N[l].phy
    OBVIOUS
  <2>1. N[l].free \in Int /\ N[l].free >= 0
    BY <1>4, <1>7 DEF FreeOK, BlockMeta
  <2>2. k \in Int /\ DataStart(l) <= k /\ k < BlockSize - N[l].free
    BY <1>19 DEF InUse
  <2>3. k < BlockSize
    BY <1>8, <2>1, <2>2
  <2>4. x \in Blocks /\ k \in DataCells(x)
    <3>1. PICK s : s = NewScratch'
      OBVIOUS
    <3>2. BlocksOK(N, scratch, s)
      BY <1>7, <3>1
    <3> QED BY <1>3, <2>x, <2>2, <2>3, <3>2, CellIs
  <2>5. CASE l = chg
    <3>1. chg # None /\ x = ScratchFor(chg)
      BY <1>8, <1>9, <1>10, <1>11, <1>19, <2>x, <2>5
    <3>2. PICK op \in P : IsDataWrite(op) /\ op.blk = ScratchFor(chg) /\ op.cells = cells
      BY <1>P, <3>1 DEF Carries
    <3>3. k \in DOMAIN cells
      BY <1>19, <2>5, <3>1
    <3>4. WritesData(op, x, k)
      BY <3>1, <3>2, <3>3 DEF WritesData, IsDataWrite
    <3>5. NewData'[x][k] = op.cells[k]
      BY <1>P, <1>18, <2>4, <3>4 DEF CellsPlanned, WritesData
    <3> QED BY <2>x, <2>5, <3>2, <3>5
  <2>6. CASE l # chg /\ l = 0
    <3>1. PICK op \in P : IsDataWrite(op) /\ op.blk = scratch /\ op.cells = Block0Cells
      BY <1>P, <2>6 DEF Carries
    <3>2. N[0].free = block(0).free
      BY <2>6
    <3>3. k \in DOMAIN Block0Cells
      BY <1>8, <1>12, <1>13, <2>2, <2>6, <3>2 DEF DataStart
    <3>4. WritesData(op, x, k)
      BY <1>11, <2>x, <2>6, <3>1, <3>3 DEF WritesData, IsDataWrite
    <3>5. NewData'[x][k] = op.cells[k]
      BY <1>P, <1>18, <2>4, <3>4 DEF CellsPlanned, WritesData
    <3>6. Data[active][k] = flash[active].data[k]
      BY <1>3, <1>13, <3>3, ScratchIs DEF Data
    <3> QED BY <1>12, <1>13, <2>x, <2>6, <3>1, <3>3, <3>5, <3>6
  <2>7. CASE l # chg /\ l # 0
    <3>1. x = block(l).phy /\ x \in DBlocks
      BY <1>3, <2>x, <2>7 DEF Rehomed, BlocksOK, block
    <3>2. x # scratch /\ (chg # None => x # ScratchFor(chg))
      <4>1. x # scratch
        BY <1>3, <1>8, <3>1
      <4>2. x # sdb
        BY <1>3, <2>7, <3>1 DEF BlocksOK, block
      <4> QED BY <1>9, <1>10, <4>1, <4>2
    <3>3. \A op \in P : ~WritesData(op, x, k)
      BY <1>P, <3>2 DEF Carries, WritesData, IsDataWrite
    <3>4. NewData'[x][k] = flash'[x].data[k]
      BY <1>P, <1>18, <2>4, <3>3 DEF CellsPlanned, WritesData
    <3>5. Data[x][k] = flash[x].data[k]
      BY <2>4 DEF Data
    <3> QED BY <2>x, <2>7, <3>1, <3>4, <3>5
  <2> QED BY <2>5, <2>6, <2>7
<1>20. ~Refused'
  BY <1>2 DEF Planned
<1>21. CellsBecome(N, NewData', chg, cells)
  BY <1>19 DEF CellsBecome
<1> QED BY <1>1, <1>2, <1>5, <1>17, <1>20, <1>21

-----------------------------------------------------------------------------
(* What its_flash_fs_delete_idx will leave: every file but the deleted     *)
(* one, as it is.                                                          *)

(* its_flash_fs_dblock_compact_block: what is behind the deleted file moves *)
(* down to where it was.                                                   *)
LEMMA CompactedIs ==
    ASSUME Types, Valid, Current, DataOK, NEW idx \in Idx, Used(idx), NEW d, d = file(idx), d.max # 0,
           NEW src, src = block(d.lb).phy, NEW C, C = CompactedData(idx)
    PROVE  /\ \A k \in DOMAIN C : C[k] \in CellVals
           /\ \A k : InUse(d.lb, block(d.lb).free + d.max, k) =>
                /\ k \in DOMAIN C
                /\ C[k] = Data[src][IF k < d.data THEN k ELSE k + d.max]
<1>B. PICK B : B = flash[active].bmeta
  OBVIOUS
<1>F. PICK F : F = flash[active].fmeta
  OBVIOUS
<1>1. /\ BlocksOK(B, active, sdb) /\ FilesOK(F) /\ LayoutOK(B, F) /\ active \in {0, 1}
      /\ \A l \in LBlocks : block(l) = B[l]
      /\ \A i \in Idx : file(i) = F[i] /\ (Used(i) <=> F[i] # Free)
  BY <1>B, <1>F, ActiveIsValid DEF block, file, Used, Types
<1>2. B \in [LBlocks -> BlockMeta] /\ F \in [Idx -> FileMeta \cup {Free}]
  BY <1>1 DEF BlocksOK, FilesOK
<1>3. d = F[idx] /\ F[idx] # Free /\ d \in FileMeta
  BY <1>1, <1>2
<1>4. d.lb \in LBlocks /\ block(d.lb) = B[d.lb] /\ B[d.lb].free \in Int /\ src \in Blocks
  BY <1>1, <1>2, <1>3 DEF FileMeta, BlockMeta
<1>end. PICK end \in Int : end = BlockSize - B[d.lb].free
  BY <1>4, Numbers
<1>S. PICK S : S = {i \in Idx : i # idx /\ F[i] # Free /\ F[i].lb = d.lb /\ F[i].data > d.data}
  OBVIOUS
<1>5. Behind(idx) = S
  BY <1>1, <1>3, <1>S DEF Behind
<1>6. /\ \A i \in S : /\ F[i] \in FileMeta /\ F[i].max >= 0 /\ F[i].data >= d.data + d.max
                      /\ F[i].data + F[i].max <= end
      /\ \A i, j \in S : i # j => Ext(F[i]) \cap Ext(F[j]) = {}
      /\ UNION {Ext(F[i]) : i \in S} = d.data + d.max .. end - 1
      /\ S = {} => end = d.data + d.max
      /\ S # {} => \E i \in S : F[i].data = d.data + d.max
      /\ DataStart(d.lb) <= d.data /\ d.data + d.max <= end /\ d.max > 0
      /\ d.data \in Int /\ d.max \in Int /\ DataStart(d.lb) \in Nat
      /\ end <= BlockSize
  <2>1. LayoutOK(B, F) /\ d.max # 0
    BY <1>1
  <2>2. d = F[idx] /\ F[idx] # Free /\ d \in FileMeta
    BY <1>3
  <2>3. BehindFacts(F, d, S, end)
    BY <1>2, <1>end, <1>S, <2>1, <2>2, BehindIs
  <2> QED BY <2>3 DEF BehindFacts
<1>7. BlockSize \in Nat
  BY Numbers
<1>0. d.data \in Int /\ d.max \in Int /\ d.max > 0 /\ d.data + d.max <= end
  BY <1>6
<1>size. PICK size : size = MapThenSumSet(LAMBDA i : file(i).max, S)
  OBVIOUS
<1>8. size = end - (d.data + d.max)
  <2>1. IsFiniteSet(S)
    <3>1. IsFiniteSet(0 .. MaxFiles - 1)
      BY FS_Interval, Numbers
    <3>2. S \subseteq 0 .. MaxFiles - 1
      BY <1>S DEF Idx
    <3> QED BY <3>1, <3>2, FS_Subset
  <2>2. S \subseteq Idx /\ \A i \in S : file(i) = F[i]
    BY <1>1, <1>S
  <2>3. \A i \in S : /\ file(i) \in FileMeta /\ file(i).max >= 0
                     /\ Ext(file(i)) \subseteq 0 .. end
    <3> SUFFICES ASSUME NEW i \in S
                 PROVE  /\ file(i) \in FileMeta /\ file(i).max >= 0
                        /\ Ext(file(i)) \subseteq 0 .. end
      OBVIOUS
    <3>1. F[i] \in FileMeta /\ F[i].max >= 0 /\ F[i].data >= d.data + d.max /\ F[i].data + F[i].max <= end
      BY <1>6
    <3>2. F[i].data \in Int /\ F[i].max \in Int
      BY <3>1 DEF FileMeta
    <3>3. \A k \in Ext(F[i]) : k \in 0 .. end
      BY <1>6, <3>1, <3>2 DEF Ext
    <3> QED BY <2>2, <3>1, <3>3
  <2>4. \A i, j \in S : i # j => Ext(file(i)) \cap Ext(file(j)) = {}
    BY <1>6, <2>2
  <2>5. size = Cardinality(Spread(S))
    BY <1>size, <2>1, <2>3, <2>4, SumOfSizes
  <2>6. Spread(S) = d.data + d.max .. end - 1
    <3>1. {Ext(file(i)) : i \in S} = {Ext(F[i]) : i \in S}
      BY <2>2
    <3> QED BY <1>6, <3>1 DEF Spread
  <2>7. PICK a \in Int, b \in Int : a = d.data + d.max /\ b = end - 1
    BY <1>6
  <2>8. Cardinality(a .. b) = IF a > b THEN 0 ELSE b - a + 1
    BY FS_Interval
  <2> QED BY <1>6, <2>5, <2>6, <2>7, <2>8
<1>from. PICK from : from = IF S = {} THEN BlockSize ELSE Min({F[i].data : i \in S})
  OBVIOUS
<1>9. S # {} => from = d.data + d.max
  <2> SUFFICES ASSUME S # {} PROVE from = d.data + d.max
    OBVIOUS
  <2>T. PICK T : T = {F[i].data : i \in S}
    OBVIOUS
  <2>1. \A i \in S : F[i].data \in Nat
    BY <1>6 DEF FileMeta
  <2>2. T \subseteq Nat /\ T # {} /\ d.data + d.max \in T
    BY <1>6, <2>T, <2>1
  <2>3. Min(T) \in T /\ \A y \in T : Min(T) <= y
    BY <2>2, MinInSet
  <2>4. \A y \in T : y \in Nat /\ y >= d.data + d.max
    BY <1>6, <2>T, <2>2
  <2>5. Min(T) = d.data + d.max
    <3>1. PICK y \in T : y = Min(T)
      BY <2>3
    <3>2. y <= d.data + d.max /\ y >= d.data + d.max /\ y \in Nat
      BY <2>2, <2>3, <2>4, <3>1
    <3> QED BY <1>0, <3>1, <3>2
  <2> QED BY <1>from, <2>T, <2>5
<1>A. PICK A : A = Moved(src, from, from + size, from - d.data)
  OBVIOUS
<1>H. PICK H : H = Moved(src, DataStart(d.lb), d.data, 0)
  OBVIOUS
<1>10. C = Over(A, H)
  <2>1. {file(i).data : i \in S} = {F[i].data : i \in S}
    <3>1. \A i \in S : file(i).data = F[i].data
      BY <1>1, <1>S
    <3> QED BY <3>1
  <2> QED BY <1>5, <1>A, <1>H, <1>from, <1>size, <2>1 DEF CompactedData
<1>11. /\ DOMAIN A = d.data .. end - d.max - 1
       /\ \A k \in DOMAIN A : A[k] = flash[src].data[k + d.max]
  <2>1. CASE S = {}
    <3>1. from = BlockSize /\ size = 0
      BY <1>6, <1>8, <1>from, <2>1
    <3>7. PICK sh, to : sh = from - d.data /\ to = from + size
      OBVIOUS
    <3>6. A = [k \in from - sh .. to - 1 - sh |-> flash[src].data[k + sh]]
      BY <1>A, <3>7 DEF Moved
    <3>8. sh = BlockSize - d.data /\ to = BlockSize + 0
      BY <3>1, <3>7
    <3>9. PICK lo, hi : lo = from - sh /\ hi = to - 1 - sh
      OBVIOUS
    <3>2. DOMAIN A = lo .. hi
      BY <3>6, <3>9
    <3>3. lo = d.data /\ hi = d.data - 1
      BY <1>0, <1>7, <3>1, <3>8, <3>9
    <3>4. d.data .. d.data - 1 = d.data .. end - d.max - 1
      BY <1>6, <2>1
    <3>5. \A k : k \notin d.data .. d.data - 1
      BY <1>6
    <3> QED BY <3>2, <3>3, <3>4, <3>5
  <2>2. CASE S # {}
    <3>1. from \in Int /\ size \in Int /\ from - d.data = d.max /\ from + size = end
      BY <1>6, <1>8, <1>9, <2>2
    <3>2. A = [k \in from - d.max .. end - 1 - d.max |-> flash[src].data[k + d.max]]
      BY <1>A, <3>1 DEF Moved
    <3>3. from - d.max .. end - 1 - d.max = d.data .. end - d.max - 1
      BY <1>0, <1>9, <2>2
    <3> QED BY <3>2, <3>3
  <2> QED BY <2>1, <2>2
<1>12. /\ DOMAIN H = DataStart(d.lb) .. d.data - 1
       /\ \A k \in DOMAIN H : H[k] = flash[src].data[k]
  <2>1. H = [k \in DataStart(d.lb) - 0 .. d.data - 1 - 0 |-> flash[src].data[k + 0]]
    BY <1>H DEF Moved
  <2>2. DataStart(d.lb) - 0 .. d.data - 1 - 0 = DataStart(d.lb) .. d.data - 1
    BY <1>6
  <2>3. \A k \in DataStart(d.lb) .. d.data - 1 : k + 0 = k
    BY <1>6
  <2> QED BY <2>1, <2>2, <2>3
<1>13. ASSUME NEW k \in Int, DataStart(d.lb) <= k, k < BlockSize
       PROVE  /\ flash[src].data[k] \in CellVals /\ Data[src][k] = flash[src].data[k]
  <2>1. src = B[d.lb].phy
    BY <1>4
  <2>2. k \in DataCells(src)
    BY <1>1, <1>4, <1>13, <2>1, CellIs
  <2> QED BY <1>4, <2>2 DEF DataOK, Data
<1>14. /\ DOMAIN C = DOMAIN A \cup DOMAIN H
       /\ \A k \in DOMAIN C : C[k] = IF k \in DOMAIN A THEN A[k] ELSE H[k]
  BY <1>10 DEF Over
<1>15. ASSUME NEW k \in DOMAIN C PROVE C[k] \in CellVals
  <2>1. CASE k \in DOMAIN A
    <3>1. k \in Int /\ DataStart(d.lb) <= k + d.max /\ k + d.max < BlockSize /\ k + d.max \in Int
      BY <1>6, <1>7, <1>11, <2>1
    <3> QED BY <1>11, <1>13, <1>14, <2>1, <3>1
  <2>2. CASE k \notin DOMAIN A
    <3>1. k \in DOMAIN H
      BY <1>14, <1>15, <2>2
    <3>2. k \in Int /\ DataStart(d.lb) <= k /\ k < BlockSize
      BY <1>6, <1>7, <1>12, <3>1
    <3> QED BY <1>12, <1>13, <1>14, <2>2, <3>1, <3>2
  <2> QED BY <2>1, <2>2
<1>16. ASSUME NEW k, InUse(d.lb, block(d.lb).free + d.max, k)
       PROVE  k \in DOMAIN C /\ C[k] = Data[src][IF k < d.data THEN k ELSE k + d.max]
  <2>1. k \in Int /\ DataStart(d.lb) <= k /\ k < end - d.max
    BY <1>4, <1>6, <1>7, <1>16, <1>end DEF InUse
  <2>2. CASE k < d.data
    <3>1. k \in DOMAIN H /\ k \notin DOMAIN A
      BY <1>6, <1>11, <1>12, <2>1, <2>2
    <3>2. k < BlockSize
      BY <1>6, <1>7, <2>1
    <3> QED BY <1>12, <1>13, <1>14, <2>1, <2>2, <3>1, <3>2
  <2>3. CASE ~(k < d.data)
    <3>1. k \in DOMAIN A
      BY <1>6, <1>11, <2>1, <2>3
    <3>2. k + d.max \in Int /\ DataStart(d.lb) <= k + d.max /\ k + d.max < BlockSize
      BY <1>6, <1>7, <2>1
    <3> QED BY <1>11, <1>13, <1>14, <2>3, <3>1, <3>2
  <2> QED BY <2>2, <2>3
<1> QED BY <1>15, <1>16

(* Data E and block metadata N after the file d is taken out of D and B.   *)
Shifted(B, D, N, E, d, chg) ==
    \A l \in LBlocks : \A k : InUse(l, N[l].free, k) =>
        E[N[l].phy][k] = IF l = chg THEN D[B[d.lb].phy][IF k < d.data THEN k ELSE k + d.max]
                         ELSE D[B[l].phy][k]

(* A file that stays is where its cells have been moved to.                *)
LEMMA MovedContents ==
    ASSUME NEW B \in [LBlocks -> BlockMeta], NEW F \in [Idx -> FileMeta \cup {Free}], LayoutOK(B, F),
           NEW N \in [LBlocks -> BlockMeta], NEW G \in [Idx -> FileMeta \cup {Free}], LayoutOK(N, G),
           NEW idx \in Idx, F[idx] # Free, NEW d, d = F[idx],
           NEW i \in Idx, i # idx, F[i] # Free, G[i] # Free, MovedBy(G[i], F[i], d),
           NEW D, NEW E, NEW chg, chg = IF d.max = 0 THEN None ELSE d.lb,
           Shifted(B, D, N, E, d, chg)
    PROVE  ContentsIn(N, E, G[i]) = ContentsIn(B, D, F[i])
<1>m. PICK m : m = F[i]
  OBVIOUS
<1>n. PICK n : n = G[i]
  OBVIOUS
<1>1. /\ n.id = m.id /\ n.del = m.del /\ n.lb = m.lb /\ n.max = m.max /\ n.cur = m.cur
      /\ n.once = m.once
      /\ n.data = IF m.lb = d.lb /\ m.data > d.data THEN m.data - d.max ELSE m.data
  BY <1>m, <1>n DEF MovedBy
<1>2. /\ m.lb \in LBlocks /\ m.data \in Int /\ m.cur \in Int /\ m.max \in Int
      /\ m.cur >= 0 /\ m.cur <= m.max
  BY <1>m, PlaceIs
<1>3. /\ n.data \in Int /\ DataStart(n.lb) <= n.data /\ n.data + n.max + N[n.lb].free <= BlockSize
      /\ N[n.lb].free \in Int
  BY <1>n, PlaceIs
<1>4. d.data \in Int /\ d.max \in Int /\ d.max >= 0 /\ d.lb \in LBlocks
  BY PlaceIs DEF LayoutOK, PlacedOK, Placed
<1>5. m.lb = d.lb => m.data + m.max <= d.data \/ d.data + d.max <= m.data
  BY <1>m DEF LayoutOK, ApartOK, Apart
<1>6. ASSUME NEW j \in Int, 0 <= j, j < m.cur
      PROVE  D[B[m.lb].phy][m.data + j] = E[N[n.lb].phy][n.data + j]
  <2>k. PICK k \in Int : k = n.data + j
    BY <1>3
  <2>1. InUse(n.lb, N[n.lb].free, k)
    <3>1. DataStart(n.lb) \in Int /\ BlockSize \in Int
      BY Numbers DEF DataStart
    <3> QED BY <1>1, <1>2, <1>3, <1>6, <2>k, <3>1 DEF InUse
  <2>2. E[N[n.lb].phy][k] = IF n.lb = chg THEN D[B[d.lb].phy][IF k < d.data THEN k ELSE k + d.max]
                            ELSE D[B[n.lb].phy][k]
    BY <1>1, <1>2, <2>1 DEF Shifted
  <2>3. CASE n.lb = chg
    <3>1. n.lb = d.lb /\ d.max # 0
      BY <1>1, <1>2, <2>3, Numbers
    <3>2. CASE m.data > d.data
      <4>1. d.data + d.max <= m.data /\ n.data = m.data - d.max
        BY <1>1, <1>2, <1>4, <1>5, <3>1, <3>2
      <4>2. ~(k < d.data) /\ k + d.max = m.data + j
        BY <1>2, <1>4, <1>6, <2>k, <4>1
      <4> QED BY <1>1, <2>k, <2>2, <2>3, <3>1, <4>2
    <3>3. CASE ~(m.data > d.data)
      <4>1. m.data + m.max <= d.data /\ n.data = m.data
        <5>1. n.data = m.data
          BY <1>1, <3>3
        <5>2. m.lb = d.lb /\ d.max > 0
          BY <1>1, <1>4, <3>1
        <5>3. ~(d.data + d.max <= m.data)
          BY <1>2, <1>4, <3>3, <5>2
        <5> QED BY <1>5, <5>1, <5>2, <5>3
      <4>2. k < d.data /\ k = m.data + j
        BY <1>2, <1>4, <1>6, <2>k, <4>1
      <4> QED BY <1>1, <2>k, <2>2, <2>3, <3>1, <4>2
    <3> QED BY <3>2, <3>3
  <2>4. CASE n.lb # chg
    <3>1. m.lb = d.lb => d.max = 0
      BY <1>1, <2>4
    <3>2. n.data = m.data
      BY <1>1, <1>2, <1>4, <3>1
    <3> QED BY <1>1, <2>k, <2>2, <2>4, <3>2
  <2> QED BY <2>3, <2>4
<1>7. ContentsIn(B, D, m) = ContentsIn(N, E, n)
  BY <1>1, <1>2, <1>3, <1>6, SameContents
<1> QED BY <1>7, <1>m, <1>n

(* its_flash_fs_delete_idx: what a restart will find.                      *)
LEMMA DeleteOutcome ==
    ASSUME Types, Valid, Current, ActiveMetaBlock = active, DataOK, UNCHANGED <<flash, active, sdb>>,
           Fine', mode' # "wipe", NEW idx \in Idx, Used(idx), plan' = DeleteFile(idx)
    PROVE  /\ PlanOK' /\ Committing' /\ ~Refused'
           /\ \A f : NewFile(f)' = IF file(idx).id = f /\ ~file(idx).del THEN None ELSE StoredFile(f)
<1>B. PICK B : B = flash[active].bmeta
  OBVIOUS
<1>F. PICK F : F = flash[active].fmeta
  OBVIOUS
<1>1. /\ BlocksOK(B, active, sdb) /\ FilesOK(F) /\ LayoutOK(B, F) /\ active \in {0, 1}
      /\ \A l \in LBlocks : block(l) = B[l]
      /\ \A i \in Idx : file(i) = F[i] /\ (Used(i) <=> F[i] # Free)
  BY <1>B, <1>F, ActiveIsValid DEF block, file, Used, Types
<1>2. B \in [LBlocks -> BlockMeta] /\ F \in [Idx -> FileMeta \cup {Free}]
  BY <1>1 DEF BlocksOK, FilesOK
<1>d. PICK d : d = file(idx)
  OBVIOUS
<1>3. d = F[idx] /\ F[idx] # Free /\ d \in FileMeta
  BY <1>1, <1>2, <1>d
<1>4. d.lb \in LBlocks /\ d.max \in Int
  BY <1>3 DEF FileMeta
<1>chg. PICK chg : chg = IF d.max = 0 THEN None ELSE d.lb
  OBVIOUS
<1>C. PICK C : C = CompactedData(idx)
  OBVIOUS
<1>5. PICK N : /\ Carries(Ops(DeleteFile(idx)), N, chg, CompactedData(idx))
               /\ Rehomed(N, chg) /\ FreeBecomes(N, d.lb, block(d.lb).free + d.max)
               /\ \E op \in Ops(DeleteFile(idx)) :
                     op.do = "write" /\ op.part = "fmeta" /\ op.cells = FilesWithout(idx)
  BY <1>d, <1>chg, DeleteOps
<1>6. Carries(Ops(plan'), N, chg, C) /\ N \in [LBlocks -> BlockMeta]
  BY <1>5, <1>C DEF Rehomed
<1>7. \A l \in LBlocks : l # chg => N[l].free = block(l).free
  <2>1. block(d.lb).free \in Int
    BY <1>1, <1>2, <1>4 DEF BlockMeta
  <2> QED BY <1>4, <1>5, <1>chg, <2>1 DEF FreeBecomes
<1>src. PICK src : src = block(d.lb).phy
  OBVIOUS
<1>8. chg # None => /\ d.max # 0 /\ chg = d.lb /\ N[chg].free = block(d.lb).free + d.max
                    /\ \A k \in DOMAIN C : C[k] \in CellVals
                    /\ \A k : InUse(d.lb, block(d.lb).free + d.max, k) =>
                         /\ k \in DOMAIN C
                         /\ C[k] = Data[src][IF k < d.data THEN k ELSE k + d.max]
  <2>1. chg # None => d.max # 0 /\ chg = d.lb /\ N[chg].free = block(d.lb).free + d.max
    BY <1>4, <1>5, <1>chg DEF FreeBecomes
  <2> QED BY <1>C, <1>d, <1>src, <2>1, CompactedIs
<1>9. chg # None => \A k \in DOMAIN C : C[k] \in CellVals
  BY <1>8
<1>10. chg = None \/ chg \in LBlocks
  BY <1>4, <1>chg
<1>11. /\ PlanOK' /\ Committing' /\ ~Refused' /\ NewBlocks' = N /\ Planned'
       /\ CellsBecome(N, NewData', chg, C)
  <2>1. Carries(Ops(plan'), N, chg, C)
    BY <1>6
  <2>2. Rehomed(N, chg)
    BY <1>5
  <2> QED BY <1>7, <1>9, <1>10, <2>1, <2>2, StartData
<1>G. PICK G : G = FilesWithout(idx)
  OBVIOUS
<1>12. /\ DOMAIN G = Idx /\ FilesOK(G) /\ G[idx] = Free
       /\ \A i \in Idx \ {idx} : /\ G[i] = Free <=> flash[active].fmeta[i] = Free
                                 /\ Used(i) => MovedBy(G[i], file(i), file(idx))
  BY <1>G, FilesWithoutIs
<1>13. G \in [Idx -> FileMeta \cup {Free}]
  BY <1>12 DEF FilesOK
<1>14. NewFiles' = G
  <2>1. PICK op \in Ops(plan') : op.do = "write" /\ op.part = "fmeta" /\ op.cells = G
    BY <1>5, <1>G
  <2>2. \A i \in Idx : G[i] = NewFiles'[i]
    BY <1>11, <1>12, <2>1 DEF Planned
  <2>3. NewFiles' = [i \in Idx |-> NewFiles'[i]]
    BY DEF NewFiles
  <2> QED BY <1>13, <2>2, <2>3
<1>15. LayoutOK(N, G)
  <2>1. LayoutOK(NewBlocks, NewFiles)'
    BY <1>11 DEF Planned
  <2>2. \A X, Y : LayoutOK(X, Y)' <=> LayoutOK(X, Y)
    BY DEF LayoutOK, FreeOK, PlacedOK, ApartOK, FilledOK, Placed, Occupies, Apart
  <2> QED BY <1>11, <1>14, <2>1 
<1>E. PICK E : E = NewData'
  OBVIOUS
<1>16. \A l \in LBlocks : \A k : InUse(l, N[l].free, k) =>
          E[N[l].phy][k] = IF l = chg THEN Data[B[d.lb].phy][IF k < d.data THEN k ELSE k + d.max]
                           ELSE Data[B[l].phy][k]
  <2> SUFFICES ASSUME NEW l \in LBlocks, NEW k, InUse(l, N[l].free, k)
               PROVE  E[N[l].phy][k]
                        = IF l = chg THEN Data[B[d.lb].phy][IF k < d.data THEN k ELSE k + d.max]
                          ELSE Data[B[l].phy][k]
    OBVIOUS
  <2>2. l = chg => k \in DOMAIN C /\ C[k] = Data[src][IF k < d.data THEN k ELSE k + d.max]
    BY <1>8, Numbers
  <2>1. E[N[l].phy][k] = IF l = chg THEN C[k] ELSE Data[block(l).phy][k]
    BY <1>11, <1>E, <2>2 DEF CellsBecome
  <2>3. src = B[d.lb].phy /\ block(l) = B[l]
    BY <1>1, <1>4, <1>src
  <2> QED BY <2>1, <2>2, <2>3
<1>17. \A f : NewFile(f)' = FileIn(G, N, E, f)
  BY <1>11, <1>14, <1>E DEF NewFile
<1>18. ValidHeader(active)
  BY DEF Current
<1>19. ASSUME NEW f PROVE StoredFile(f) = FileIn(F, B, Data, f)
  BY <1>1, <1>18, <1>B, <1>F, StoredIs
<1>20. ASSUME NEW f
       PROVE  FileIn(G, N, E, f) = IF d.id = f /\ ~d.del THEN None ELSE FileIn(F, B, Data, f)
  <2>1. \A i \in Idx : /\ G[i] # Free => i # idx /\ F[i] # Free
                       /\ i # idx /\ F[i] # Free => /\ G[i] # Free /\ MovedBy(G[i], F[i], d)
                                                    /\ G[i].id = F[i].id /\ G[i].del = F[i].del
    BY <1>1, <1>3, <1>12, <1>F, <1>d DEF MovedBy
  <2>2. CASE d.id = f /\ ~d.del
    <3>1. \A i \in Idx : G[i] # Free /\ G[i].id = f => G[i].del
      BY <1>1, <1>3, <2>1, <2>2 DEF FilesOK
    <3> QED BY <1>12, <2>2, <3>1, FileInIs
  <2>3. CASE ~(d.id = f /\ ~d.del)
    <3>1. CASE \A i \in Idx : F[i] # Free /\ F[i].id = f => F[i].del
      <4>1. \A i \in Idx : G[i] # Free /\ G[i].id = f => G[i].del
        BY <2>1, <3>1
      <4>2. FileIn(G, N, E, f) = None
        BY <1>12, <4>1, FileInIs
      <4>3. FileIn(F, B, Data, f) = None
        BY <1>1, <3>1, FileInIs
      <4> QED BY <2>3, <4>2, <4>3
    <3>2. CASE \E i \in Idx : F[i] # Free /\ F[i].id = f /\ ~F[i].del
      <4>1. PICK i \in Idx : F[i] # Free /\ F[i].id = f /\ ~F[i].del
        BY <3>2
      <4>2. i # idx
        BY <1>3, <2>3, <4>1
      <4>3. G[i] # Free /\ MovedBy(G[i], F[i], d) /\ G[i].id = f /\ ~G[i].del
        BY <2>1, <4>1, <4>2
      <4>4. FileIn(F, B, Data, f) = ContentsIn(B, Data, F[i])
        BY <1>1, <4>1, FileInIs
      <4>5. FileIn(G, N, E, f) = ContentsIn(N, E, G[i])
        BY <1>12, <4>3, FileInIs
      <4>D. PICK D : D = Data
        OBVIOUS
      <4>6. Shifted(B, D, N, E, d, chg)
        BY <1>16, <4>D DEF Shifted
      <4>8. LayoutOK(B, F) /\ N \in [LBlocks -> BlockMeta] /\ d = F[idx] /\ F[idx] # Free
        BY <1>1, <1>3, <1>6
      <4>9. F[i] # Free /\ G[i] # Free /\ MovedBy(G[i], F[i], d)
        BY <4>1, <4>3
      <4>7. ContentsIn(N, E, G[i]) = ContentsIn(B, D, F[i])
        BY <1>2, <1>13, <1>15, <1>chg, <4>2, <4>6, <4>8, <4>9, MovedContents
      <4> QED BY <2>3, <4>4, <4>5, <4>7, <4>D
    <3> QED BY <3>1, <3>2
  <2> QED BY <2>2, <2>3
<1>21. ASSUME NEW f
       PROVE  NewFile(f)' = IF file(idx).id = f /\ ~file(idx).del THEN None ELSE StoredFile(f)
  BY <1>17, <1>19, <1>20, <1>d
<1> QED BY <1>11, <1>21

-----------------------------------------------------------------------------
(* What its_flash_fs_file_write will leave: the file with one more chunk,  *)
(* the others as they are.                                                 *)

(* C is a copy of the cells a to b - 1 of block src.                       *)
CopyOf(C, src, a, b) == DOMAIN C = a .. b - 1 /\ \A k \in DOMAIN C : C[k] = flash[src].data[k]

LEMMA MovedIs ==
    ASSUME NEW src, NEW a \in Int, NEW b \in Int
    PROVE  CopyOf(Moved(src, a, b, 0), src, a, b)
<1>M. PICK M : M = Moved(src, a, b, 0)
  OBVIOUS
<1>1. M = [k \in a - 0 .. b - 1 - 0 |-> flash[src].data[k + 0]]
  BY <1>M DEF Moved
<1>2. a - 0 .. b - 1 - 0 = a .. b - 1 /\ \A k \in a .. b - 1 : k + 0 = k
  OBVIOUS
<1>3. CopyOf(M, src, a, b)
  BY <1>1, <1>2 DEF CopyOf
<1> QED BY <1>3, <1>M

(* its_flash_fs_dblock_write_file: the cells before the new data and behind *)
(* the file are copied.                                                    *)
LEMMA FileCellsAre ==
    ASSUME Types, Valid, Current, DataOK, NEW m \in FileMeta, NEW free \in Int, NEW off \in Int,
           NEW n \in Int, NEW v \in Vals, 0 <= off, 0 <= n, off + n <= m.max, 0 <= free,
           DataStart(m.lb) <= m.data, m.data + m.max + free <= BlockSize,
           NEW src, src = block(m.lb).phy, NEW C, C = FileCells(m, free, off, n, v)
    PROVE  /\ \A k \in DOMAIN C : C[k] \in CellVals
           /\ \A k \in Int : m.data + off <= k /\ k < m.data + off + n => k \in DOMAIN C /\ C[k] = v
           /\ \A k \in Int : \/ DataStart(m.lb) <= k /\ k < m.data + off
                             \/ m.data + m.max <= k /\ k < BlockSize - free
                => k \in DOMAIN C /\ C[k] = Data[src][k]
<1>1. m.lb \in LBlocks /\ m.data \in Int /\ m.max \in Int /\ BlockSize \in Nat /\ DataStart(m.lb) \in Nat
      /\ active \in {0, 1}
  BY Numbers DEF FileMeta, DataStart, Types
<1>B. PICK B : B = flash[active].bmeta
  OBVIOUS
<1>2. BlocksOK(B, active, sdb) /\ src = B[m.lb].phy
  BY <1>B, ActiveIsValid DEF block
<1>new. PICK new \in Int : new = m.data + off
  BY <1>1
<1>f. PICK fresh : fresh = [k \in new .. new + n - 1 |-> v]
  OBVIOUS
<1>A. PICK A : A = Moved(src, DataStart(m.lb), new, 0)
  OBVIOUS
<1>Z. PICK Z : Z = Moved(src, m.data + m.max, BlockSize - free, 0)
  OBVIOUS
<1>3. C = Over(fresh, Over(A, Z))
  BY <1>new, <1>f, <1>A, <1>Z DEF FileCells
<1>5. DOMAIN A = DataStart(m.lb) .. new - 1 /\ \A k \in DOMAIN A : A[k] = flash[src].data[k]
  <2>1. DataStart(m.lb) \in Int /\ new \in Int
    BY <1>1
  <2>2. CopyOf(A, src, DataStart(m.lb), new)
    BY <1>A, <2>1, MovedIs, Zenon
  <2> QED BY <2>2 DEF CopyOf
<1>6. DOMAIN Z = m.data + m.max .. BlockSize - free - 1 /\ \A k \in DOMAIN Z : Z[k] = flash[src].data[k]
  <2>1. m.data + m.max \in Int /\ BlockSize - free \in Int
    BY <1>1
  <2>2. CopyOf(Z, src, m.data + m.max, BlockSize - free)
    BY <1>Z, <2>1, MovedIs, Zenon
  <2> QED BY <2>2 DEF CopyOf
<1>7. DOMAIN fresh = new .. new + n - 1 /\ \A k \in DOMAIN fresh : fresh[k] = v
  BY <1>f
<1>8. /\ DOMAIN C = DOMAIN fresh \cup (DOMAIN A \cup DOMAIN Z)
      /\ \A k \in DOMAIN C : C[k] = IF k \in DOMAIN fresh THEN v ELSE flash[src].data[k]
  <2>O. PICK O : O = Over(A, Z)
    OBVIOUS
  <2>1. DOMAIN O = DOMAIN A \cup DOMAIN Z /\ \A k \in DOMAIN O : O[k] = flash[src].data[k]
    BY <1>5, <1>6, <2>O DEF Over
  <2> QED BY <1>3, <1>7, <2>O, <2>1 DEF Over
<1>9. ASSUME NEW k \in Int, DataStart(m.lb) <= k, k < BlockSize
      PROVE  /\ flash[src].data[k] \in CellVals /\ Data[src][k] = flash[src].data[k]
  <2>1. src \in Blocks /\ k \in DataCells(src)
    BY <1>1, <1>2, <1>9, CellIs
  <2> QED BY <2>1 DEF DataOK, Data
<1>10. \A k \in DOMAIN C : k \in DOMAIN fresh \/ (k \in Int /\ DataStart(m.lb) <= k /\ k < BlockSize)
  <2>1. \A k \in DOMAIN A : k \in Int /\ DataStart(m.lb) <= k /\ k < BlockSize
    <3>1. new <= BlockSize
      BY <1>1, <1>new
    <3> QED BY <1>1, <1>5, <3>1
  <2>2. \A k \in DOMAIN Z : k \in Int /\ DataStart(m.lb) <= k /\ k < BlockSize
    <3>1. PICK a \in Int, b \in Int : a = m.data + m.max /\ b = BlockSize - free
      BY <1>1
    <3>2. a >= DataStart(m.lb) /\ b <= BlockSize
      BY <1>1, <3>1
    <3>3. DOMAIN Z = a .. b - 1
      BY <1>6, <3>1
    <3> QED BY <1>1, <3>2, <3>3
  <2> QED BY <1>8, <2>1, <2>2
<1>11. ASSUME NEW k \in DOMAIN C PROVE C[k] \in CellVals
  BY <1>8, <1>9, <1>10 DEF CellVals
<1>12. ASSUME NEW k \in Int, m.data + off <= k, k < m.data + off + n
       PROVE  k \in DOMAIN C /\ C[k] = v
  <2>1. k \in DOMAIN fresh
    BY <1>7, <1>12, <1>new
  <2> QED BY <1>8, <2>1
<1>13. ASSUME NEW k \in Int, \/ DataStart(m.lb) <= k /\ k < m.data + off
                             \/ m.data + m.max <= k /\ k < BlockSize - free
       PROVE  k \in DOMAIN C /\ C[k] = Data[src][k]
  <2>1. k \notin DOMAIN fresh /\ DataStart(m.lb) <= k /\ k < BlockSize
    <3>1. CASE DataStart(m.lb) <= k /\ k < m.data + off
      <4>1. k < new /\ new <= BlockSize
        BY <1>1, <1>new, <3>1
      <4> QED BY <1>1, <1>7, <3>1, <4>1
    <3>2. CASE m.data + m.max <= k /\ k < BlockSize - free
      <4>1. new + n <= k /\ k < BlockSize /\ DataStart(m.lb) <= k
        BY <1>1, <1>new, <3>2
      <4> QED BY <1>1, <1>7, <4>1
    <3> QED BY <1>13, <3>1, <3>2
  <2>2. k \in DOMAIN A \/ k \in DOMAIN Z
    BY <1>1, <1>5, <1>6, <1>13, <1>new
  <2> QED BY <1>8, <1>9, <2>1, <2>2
<1> QED BY <1>11, <1>12, <1>13

(* An entry that the write of idx leaves out is written before, as the one *)
(* that is deleted for it.                                                 *)
MarksOld(mark, idx, old, f) ==
    /\ IsSeq(mark) /\ \A op \in Ops(mark) : op.do = "write" /\ op.part = "fmeta"
    /\ \A i \in Idx \ Entries(idx, old) :
          \E op \in Ops(mark) : /\ i \in DOMAIN op.cells /\ op.cells[i] # Free
                                /\ op.cells[i].del /\ op.cells[i].id = f
                                /\ file(i) # Free /\ file(i).id = f

(* What data E and block metadata N have of the cells of the entry m, and  *)
(* of those of the others in its block.                                    *)
FilledAs(N, E, m, to, v) ==
    \A k \in Int : m.data <= k /\ k < m.data + to => E[N[m.lb].phy][k] = v
OthersKept(N, E, m) ==
    \A l \in LBlocks : \A k : InUse(l, N[l].free, k) /\ (l = m.lb => k < m.data \/ m.data + m.max <= k)
        => E[N[l].phy][k] = Data[block(l).phy][k]

(* Cells that all hold v are read as v.                                    *)
LEMMA FilledContents ==
    ASSUME NEW B, NEW D, NEW m, NEW n, n = m.cur, n \in Int, n >= 0, m.data \in Int, NEW v,
           FilledAs(B, D, m, n, v)
    PROVE  ContentsIn(B, D, m) = Holding(v, n, m.once)
<1>X. PICK X : X = {D[B[m.lb].phy][k] : k \in m.data .. m.data + m.cur - 1}
  OBVIOUS
<1>1. CASE n = 0
  BY <1>1 DEF ContentsIn, Holding
<1>2. CASE n # 0
  <2>1. \A k \in m.data .. m.data + m.cur - 1 : D[B[m.lb].phy][k] = v
    BY DEF FilledAs
  <2>2. m.data \in m.data .. m.data + m.cur - 1
    BY <1>2
  <2>3. X = {v}
    BY <1>X, <2>1, <2>2
  <2>4. Cardinality(X) = 1 /\ (CHOOSE x \in X : TRUE) = v
    BY <2>3, FS_Singleton
  <2>5. ContentsIn(B, D, m) = [val |-> v, len |-> m.cur, once |-> m.once]
    BY <1>2, <1>X, <2>4 DEF ContentsIn
  <2>6. Holding(v, n, m.once) = [val |-> v, len |-> n, once |-> m.once]
    BY <1>2 DEF Holding
  <2> QED BY <2>5, <2>6
<1> QED BY <1>1, <1>2

(* its_flash_fs_dblock_write_file keeps what it does not write.            *)
LEMMA WrittenCells ==
    ASSUME Types, Valid, Current, DataOK, NEW m \in FileMeta, NEW free \in Int, NEW off \in Int,
           NEW n \in Int, NEW v \in Vals, 0 <= off, 0 <= n, off + n <= m.max, 0 <= free,
           DataStart(m.lb) <= m.data, m.data + m.max + free <= BlockSize,
           NEW chg, chg = IF n = 0 THEN None ELSE m.lb, NEW N, NEW E,
           N[m.lb].free = free,
           CellsBecome(N, E, chg, FileCells(m, free, off, n, v)),
           FilledAs(flash[active].bmeta, Data, m, off, v)
    PROVE  FilledAs(N, E, m, off + n, v) /\ OthersKept(N, E, m)
<1>1. /\ m.lb \in LBlocks /\ m.data \in Int /\ m.max \in Int /\ BlockSize \in Nat
      /\ DataStart(m.lb) \in Nat /\ None \notin LBlocks
  BY Numbers DEF FileMeta, DataStart
<1>src. PICK src : src = block(m.lb).phy
  OBVIOUS
<1>C. PICK C : C = FileCells(m, free, off, n, v)
  OBVIOUS
<1>2. /\ \A k \in Int : m.data + off <= k /\ k < m.data + off + n => k \in DOMAIN C /\ C[k] = v
      /\ \A k \in Int : \/ DataStart(m.lb) <= k /\ k < m.data + off
                        \/ m.data + m.max <= k /\ k < BlockSize - free
           => k \in DOMAIN C /\ C[k] = Data[src][k]
  BY <1>src, <1>C, FileCellsAre
<1>3. ASSUME NEW k \in Int, m.data <= k, k < m.data + off
      PROVE  Data[src][k] = v
  BY <1>3, <1>src DEF FilledAs, block
<1>4. ASSUME NEW l \in LBlocks, NEW k, InUse(l, N[l].free, k), l = chg => k \in DOMAIN C
      PROVE  E[N[l].phy][k] = IF l = chg THEN C[k] ELSE Data[block(l).phy][k]
  BY <1>4, <1>C DEF CellsBecome
<1>5. ASSUME NEW k \in Int, m.data <= k, k < m.data + (off + n)
      PROVE  E[N[m.lb].phy][k] = v
  <2>1. InUse(m.lb, N[m.lb].free, k)
    BY <1>1, <1>5 DEF InUse
  <2>2. CASE n = 0
    <3>1. m.lb # chg /\ k < m.data + off
      BY <1>1, <1>5, <2>2
    <3> QED BY <1>1, <1>3, <1>4, <1>5, <1>src, <2>1, <3>1
  <2>3. CASE n # 0
    <3>1. m.lb = chg
      BY <2>3
    <3>2. k \in DOMAIN C /\ C[k] = v
      <4>1. CASE k < m.data + off
        <5>1. DataStart(m.lb) <= k
          BY <1>1, <1>5
        <5> QED BY <1>2, <1>3, <1>5, <4>1, <5>1
      <4>2. CASE ~(k < m.data + off)
        <5>1. m.data + off <= k /\ k < m.data + off + n
          BY <1>1, <1>5, <4>2
        <5> QED BY <1>2, <5>1
      <4> QED BY <4>1, <4>2
    <3> QED BY <1>1, <1>4, <2>1, <3>1, <3>2
  <2> QED BY <2>2, <2>3
<1>6. ASSUME NEW l \in LBlocks, NEW k, InUse(l, N[l].free, k),
             l = m.lb => k < m.data \/ m.data + m.max <= k
      PROVE  E[N[l].phy][k] = Data[block(l).phy][k]
  <2>1. CASE l # chg
    BY <1>4, <1>6, <2>1
  <2>2. CASE l = chg
    <3>1. l = m.lb /\ k \in Int /\ DataStart(l) <= k /\ k < BlockSize - free
      BY <1>1, <1>6, <2>2 DEF InUse
    <3>2. k \in DOMAIN C /\ C[k] = Data[src][k]
      <4>1. CASE k < m.data
        <5>1. k < m.data + off
          BY <1>1, <3>1, <4>1
        <5> QED BY <1>2, <3>1, <5>1
      <4>2. CASE m.data + m.max <= k
        BY <1>2, <3>1, <4>2
      <4> QED BY <1>6, <3>1, <4>1, <4>2
    <3> QED BY <1>4, <1>6, <1>src, <2>2, <3>1, <3>2
  <2> QED BY <2>1, <2>2
<1>7. FilledAs(N, E, m, off + n, v)
  BY <1>5 DEF FilledAs
<1>8. OthersKept(N, E, m)
  BY <1>6 DEF OthersKept
<1> QED BY <1>7, <1>8

(* A file that is not written is kept.                                     *)
LEMMA OtherContents ==
    ASSUME NEW B, B = flash[active].bmeta, NEW N \in [LBlocks -> BlockMeta],
           NEW G \in [Idx -> FileMeta \cup {Free}], LayoutOK(N, G), NEW E,
           NEW idx \in Idx, G[idx] # Free, NEW i \in Idx, i # idx, G[i] # Free,
           NEW m, m.lb = G[idx].lb, m.data = G[idx].data, m.max = G[idx].max, OthersKept(N, E, m)
    PROVE  ContentsIn(N, E, G[i]) = ContentsIn(B, Data, G[i])
<1>g. PICK g : g = G[i]
  OBVIOUS
<1>1. /\ g.lb \in LBlocks /\ N[g.lb].free \in Int /\ g.data \in Int /\ g.cur \in Int /\ g.max \in Int
      /\ g.cur >= 0 /\ g.cur <= g.max /\ DataStart(g.lb) <= g.data
      /\ g.data + g.max + N[g.lb].free <= BlockSize /\ N[g.lb].free >= 0
      /\ DataStart(g.lb) \in Nat /\ BlockSize \in Nat
  BY <1>g, PlaceIs, Numbers
<1>2. m.data \in Int /\ m.max \in Int
  BY PlaceIs
<1>3. g.lb = m.lb => g.data + g.max <= m.data \/ m.data + m.max <= g.data
  BY <1>g DEF LayoutOK, ApartOK, Apart
<1>4. ASSUME NEW j \in Int, 0 <= j, j < g.cur
      PROVE  E[N[g.lb].phy][g.data + j] = Data[B[g.lb].phy][g.data + j]
  <2>k. PICK k \in Int : k = g.data + j
    BY <1>1
  <2>1. InUse(g.lb, N[g.lb].free, k)
    BY <1>1, <1>4, <2>k DEF InUse
  <2>2. g.lb = m.lb => k < m.data \/ m.data + m.max <= k
    BY <1>1, <1>2, <1>3, <1>4, <2>k
  <2>3. E[N[g.lb].phy][k] = Data[block(g.lb).phy][k]
    BY <1>1, <2>1, <2>2 DEF OthersKept
  <2> QED BY <2>k, <2>3 DEF block
<1>5. ContentsIn(N, E, g) = ContentsIn(B, Data, g)
  BY <1>1, <1>4, SameContents
<1> QED BY <1>5, <1>g

(* A block update starts after which the file g is c.                      *)
WillHold(g, c) ==
    /\ PlanOK' /\ Committing' /\ ~Refused'
    /\ \A f : NewFile(f)' = IF f = g THEN c ELSE StoredFile(f)

(* its_flash_fs_file_write: what a restart will find.                      *)
LEMMA WriteOutcome ==
    ASSUME Types, Valid, Current, ActiveMetaBlock = active, DataOK, UNCHANGED <<flash, active, sdb>>,
           Fine', mode' # "wipe", NEW idx \in Idx, NEW m \in FileMeta, NEW free \in Int, NEW old,
           NEW off \in Int, 0 <= off, NEW n \in Int, 0 <= n, NEW v \in Vals, NEW mark,
           MarksOld(mark, idx, old, m.id),
           plan' = Cat(mark, WriteFile(idx, m, free, old, off, n, v)),
           ~m.del, CurSize(m, off, n) = off + n, n = 0 => free = block(m.lb).free,
           FilledAs(flash[active].bmeta, Data, m, off, v),
           file(idx) = Free \/ file(idx).id = m.id
    PROVE  WillHold(m.id, Holding(v, off + n, m.once))
<1>B. PICK B : B = flash[active].bmeta
  OBVIOUS
<1>F. PICK F : F = flash[active].fmeta
  OBVIOUS
<1>1. /\ BlocksOK(B, active, sdb) /\ FilesOK(F) /\ LayoutOK(B, F) /\ active \in {0, 1}
      /\ \A l \in LBlocks : block(l) = B[l]
      /\ \A i \in Idx : file(i) = F[i]
  BY <1>B, <1>F, ActiveIsValid DEF block, file, Types
<1>2. m.lb \in LBlocks /\ m.data \in Int /\ m.max \in Int /\ m.cur \in Int
  BY DEF FileMeta
<1>chg. PICK chg : chg = IF n = 0 THEN None ELSE m.lb
  OBVIOUS
<1>C. PICK C : C = FileCells(m, free, off, n, v)
  OBVIOUS
<1>W. PICK W : W = Written(idx, m, old, off, n)
  OBVIOUS
<1>p. PICK p : p = plan'
  OBVIOUS
<1>3. PICK N : /\ Carries(Ops(p), N, chg, C)
               /\ Rehomed(N, chg) /\ FreeBecomes(N, m.lb, free)
               /\ \E op \in Ops(p) : op.do = "write" /\ op.part = "fmeta" /\ op.cells = W
               /\ \A op \in Ops(mark) : op \in Ops(p)
  <2>1. IsSeq(mark) /\ \A op \in Ops(mark) : op.do = "write" /\ op.part = "fmeta"
    BY DEF MarksOld
  <2>2. p = Cat(mark, WriteFile(idx, m, free, old, off, n, v))
    BY <1>p
  <2>3. \E N : /\ Carries(Ops(p), N, chg, FileCells(m, free, off, n, v))
               /\ Rehomed(N, chg) /\ FreeBecomes(N, m.lb, free)
               /\ \E op \in Ops(p) : /\ op.do = "write" /\ op.part = "fmeta"
                                     /\ op.cells = Written(idx, m, old, off, n)
               /\ \A op \in Ops(mark) : op \in Ops(p)
    <3>1. IsSeq(mark)
      BY <2>1
    <3>2. \A op \in Ops(mark) : op.do = "write" /\ op.part = "fmeta"
      BY <2>1
    <3>3. CarriesChunk(p, idx, m, free, old, off, n, v, mark, chg)
      BY <1>chg, <2>2, <3>1, <3>2, WriteOps
    <3> QED BY <3>3 DEF CarriesChunk
  <2> QED BY <1>C, <1>W, <2>3
<1>4. Carries(Ops(plan'), N, chg, C)
  BY <1>3, <1>p
<1>5. Rehomed(N, chg)
  BY <1>3
<1>6. N \in [LBlocks -> BlockMeta] /\ N[m.lb].free = free
  BY <1>2, <1>3 DEF Rehomed, FreeBecomes
<1>7. \A l \in LBlocks : l # chg => N[l].free = block(l).free
  BY <1>2, <1>3, <1>chg DEF FreeBecomes
<1>8. Planned' /\ NewBlocks' = N
  <2>1. Committing'
    BY <1>4 DEF Committing, Carries
  <2>2. (Fine /\ Committing /\ mode # "wipe" => Planned)'
    BY PlannedHere, PTL
  <2>3. Planned'
    BY <2>1, <2>2
  <2>4. PICK op \in Ops(plan') : op.do = "write" /\ op.part = "bmeta" /\ op.cells = N
    BY <1>4 DEF Carries
  <2>5. \A l \in LBlocks : N[l] = NewBlocks'[l]
    BY <1>6, <2>3, <2>4 DEF Planned
  <2>6. NewBlocks' = [l \in LBlocks |-> NewBlocks'[l]]
    BY DEF NewBlocks
  <2> QED BY <1>6, <2>3, <2>5, <2>6
<1>G. PICK G : G = NewFiles'
  OBVIOUS
<1>9. FilesOK(G) /\ LayoutOK(N, G)
  <2>1. LayoutOK(NewBlocks, NewFiles)' /\ FilesOK(NewFiles)'
    BY <1>8 DEF Planned
  <2>2. \A X, Y : LayoutOK(X, Y)' <=> LayoutOK(X, Y)
    BY DEF LayoutOK, FreeOK, PlacedOK, ApartOK, FilledOK, Placed, Occupies, Apart
  <2>3. \A X : FilesOK(X)' <=> FilesOK(X)
    BY DEF FilesOK, Clean, Marked
  <2> QED BY <1>8, <1>G, <2>1, <2>2, <2>3
<1>10. G \in [Idx -> FileMeta \cup {Free}]
  BY <1>9 DEF FilesOK
<1>e. PICK e : e = [m EXCEPT !.cur = CurSize(m, off, n)]
  OBVIOUS
<1>11. /\ e \in FileMeta /\ e.id = m.id /\ e.del = m.del /\ e.once = m.once
       /\ e.lb = m.lb /\ e.data = m.data /\ e.max = m.max /\ e.cur = off + n
  <2>1. e.once = m.once
    BY <1>e DEF FileMeta
  <2> QED BY <1>e, <2>1, EntryIs
<1>12. /\ DOMAIN W = Entries(idx, old)
       /\ \A i \in DOMAIN W : W[i] = IF i = idx THEN e ELSE F[i]
  BY <1>1, <1>W, <1>e, WrittenIs
<1>13. \A i \in DOMAIN W : G[i] = IF i = idx THEN e ELSE F[i]
  <2>1. PICK op \in Ops(plan') : op.do = "write" /\ op.part = "fmeta" /\ op.cells = W
    BY <1>3, <1>p
  <2>2. \A i \in DOMAIN W : W[i] = G[i]
    BY <1>8, <1>G, <2>1 DEF Planned
  <2> QED BY <1>12, <2>2
<1>14. \A i \in Idx \ DOMAIN W : /\ G[i] # Free /\ G[i].del /\ G[i].id = m.id
                                 /\ F[i] # Free /\ F[i].id = m.id
  <2> SUFFICES ASSUME NEW i \in Idx \ DOMAIN W
               PROVE  /\ G[i] # Free /\ G[i].del /\ G[i].id = m.id
                      /\ F[i] # Free /\ F[i].id = m.id
    OBVIOUS
  <2>1. PICK op \in Ops(mark) : /\ i \in DOMAIN op.cells /\ op.cells[i] # Free
                                /\ op.cells[i].del /\ op.cells[i].id = m.id
                                /\ file(i) # Free /\ file(i).id = m.id
    BY <1>12 DEF MarksOld
  <2>2. op \in Ops(plan') /\ op.do = "write" /\ op.part = "fmeta"
    BY <1>3, <1>p, <2>1 DEF MarksOld
  <2>3. op.cells[i] = G[i]
    BY <1>8, <1>G, <2>1, <2>2 DEF Planned
  <2> QED BY <1>1, <2>1, <2>3
<1>15. idx \in DOMAIN W /\ G[idx] = e /\ e # Free
  <2>1. idx \in DOMAIN W
    BY <1>12, Numbers DEF Entries
  <2>2. e # Free
    <3>1. LBlocks \subseteq Nat
      BY Numbers
    <3>2. e \in [id : Fids, lb : Nat, data : Int, max : Int, cur : Int, once : BOOLEAN, del : BOOLEAN]
      BY <1>11, <3>1 DEF FileMeta
    <3> QED BY <3>2, ConfigAssumption
  <2> QED BY <1>13, <2>1, <2>2
<1>16. /\ DataStart(m.lb) <= m.data /\ m.data + m.max + free <= BlockSize /\ 0 <= free
       /\ off + n <= m.max
  BY <1>6, <1>9, <1>10, <1>11, <1>15, PlaceIs
<1>17. chg # None => \A k \in DOMAIN C : C[k] \in CellVals
  <2>1. PICK src : src = block(m.lb).phy
    OBVIOUS
  <2> QED BY <1>16, <1>C, <2>1, FileCellsAre
<1>18. chg = None \/ chg \in LBlocks
  BY <1>2, <1>chg
<1>E. PICK E : E = NewData'
  OBVIOUS
<1>19. /\ PlanOK' /\ Committing' /\ ~Refused' /\ CellsBecome(N, E, chg, C)
  BY <1>4, <1>5, <1>7, <1>17, <1>18, <1>E, StartData
<1>20. FilledAs(N, E, m, off + n, v) /\ OthersKept(N, E, m)
  BY <1>6, <1>16, <1>19, <1>C, <1>chg, WrittenCells
<1>21. ValidHeader(active)
  BY DEF Current
<1>22. ASSUME NEW f PROVE StoredFile(f) = FileIn(F, B, Data, f)
  BY <1>1, <1>21, <1>B, <1>F, StoredIs
<1>23. \A f : NewFile(f)' = FileIn(G, N, E, f)
  BY <1>8, <1>G, <1>E DEF NewFile
<1>24. FileIn(G, N, E, m.id) = Holding(v, off + n, m.once)
  <2>1. FileIn(G, N, E, m.id) = ContentsIn(N, E, e)
    BY <1>9, <1>11, <1>15, FileInIs
  <2>2. FilledAs(N, E, e, e.cur, v)
    BY <1>11, <1>20 DEF FilledAs
  <2>3. e.cur \in Int
    BY <1>11
  <2>4. e.cur >= 0
    BY <1>11
  <2>5. e.data \in Int
    BY <1>2, <1>11
  <2>6. ContentsIn(N, E, e) = Holding(v, e.cur, e.once)
    BY <2>2, <2>3, <2>4, <2>5, FilledContents
  <2> QED BY <1>11, <2>1, <2>6
<1>25. ASSUME NEW f, f # m.id
       PROVE  FileIn(G, N, E, f) = FileIn(F, B, Data, f)
  <2>1. \A i \in Idx : (G[i] # Free /\ G[i].id = f) \/ (F[i] # Free /\ F[i].id = f)
                         => i # idx /\ i \in DOMAIN W /\ G[i] = F[i]
    BY <1>1, <1>11, <1>13, <1>14, <1>15, <1>25
  <2>2. CASE \A i \in Idx : F[i] # Free /\ F[i].id = f => F[i].del
    <3>1. \A i \in Idx : G[i] # Free /\ G[i].id = f => G[i].del
      BY <2>1, <2>2
    <3>2. FileIn(G, N, E, f) = None
      BY <1>9, <3>1, FileInIs
    <3>3. FileIn(F, B, Data, f) = None
      BY <1>1, <2>2, FileInIs
    <3> QED BY <3>2, <3>3
  <2>3. CASE \E i \in Idx : F[i] # Free /\ F[i].id = f /\ ~F[i].del
    <3>1. PICK i \in Idx : F[i] # Free /\ F[i].id = f /\ ~F[i].del
      BY <2>3
    <3>2. i # idx /\ G[i] = F[i]
      BY <2>1, <3>1
    <3>3. FileIn(G, N, E, f) = ContentsIn(N, E, G[i])
      BY <1>9, <3>1, <3>2, FileInIs
    <3>4. FileIn(F, B, Data, f) = ContentsIn(B, Data, F[i])
      BY <1>1, <3>1, FileInIs
    <3>5. m.lb = G[idx].lb /\ m.data = G[idx].data /\ m.max = G[idx].max /\ G[idx] # Free
      BY <1>11, <1>15
    <3>6. LayoutOK(N, G) /\ OthersKept(N, E, m) /\ G[i] # Free
      BY <1>9, <1>20, <3>1, <3>2
    <3>7. ContentsIn(N, E, G[i]) = ContentsIn(B, Data, G[i])
      BY <1>6, <1>10, <1>B, <3>2, <3>5, <3>6, OtherContents
    <3> QED BY <3>2, <3>3, <3>4, <3>7
  <2> QED BY <2>2, <2>3, EntryOrNot
<1> QED BY <1>19, <1>22, <1>23, <1>24, <1>25 DEF WillHold

(* A file that reads as n values v has them in its cells.                  *)
LEMMA ReadsAs ==
    ASSUME NEW B, NEW D, NEW m \in FileMeta, NEW n \in Int, n > 0, NEW v \in Vals, NEW once,
           ContentsIn(B, D, m) = Holding(v, n, once)
    PROVE  m.cur = n /\ m.once = once /\ FilledAs(B, D, m, n, v)
<1>1. m.cur \in Int /\ m.data \in Int
  BY DEF FileMeta
<1>X. PICK X : X = {D[B[m.lb].phy][k] : k \in m.data .. m.data + m.cur - 1}
  OBVIOUS
<1>u. PICK u : u = IF m.cur = 0 THEN None
                   ELSE IF Cardinality(X) = 1 THEN CHOOSE x \in X : TRUE ELSE Erased
  OBVIOUS
<1>2. ContentsIn(B, D, m) = [val |-> u, len |-> m.cur, once |-> m.once]
  BY <1>X, <1>u DEF ContentsIn
<1>3. Holding(v, n, once) = [val |-> v, len |-> n, once |-> once]
  BY DEF Holding
<1>4. u = v /\ m.cur = n /\ m.once = once
  <2>r. PICK r : r = [val |-> v, len |-> n, once |-> once]
    OBVIOUS
  <2>1. r.val = v /\ r.len = n /\ r.once = once
    BY <2>r
  <2>2. r = [val |-> u, len |-> m.cur, once |-> m.once]
    BY <1>2, <1>3, <2>r
  <2>3. r.val = u /\ r.len = m.cur /\ r.once = m.once
    BY <2>2
  <2> QED BY <2>1, <2>3
<1>5. Cardinality(X) = 1
  <2>1. Erased \notin Vals
    BY NoneAssumption
  <2> QED BY <1>4, <1>u, <2>1
<1>6. IsFiniteSet(X)
  <2>1. PICK I : I = m.data .. m.data + m.cur - 1
    OBVIOUS
  <2>2. PICK g : g = [k \in I |-> D[B[m.lb].phy][k]]
    OBVIOUS
  <2>3. IsFiniteSet(I)
    <3>1. PICK a \in Int, b \in Int : a = m.data /\ b = m.data + m.cur - 1
      BY <1>1
    <3>2. IsFiniteSet(a .. b)
      BY FS_Interval
    <3> QED BY <2>1, <3>1, <3>2
  <2>4. X = {g[k] : k \in I}
    BY <1>X, <2>1, <2>2
  <2>5. g \in [I -> X]
    BY <2>2, <2>4
  <2>6. g \in Surjection(I, X)
    BY <2>4, <2>5 DEF Surjection
  <2> QED BY <2>3, <2>6, FS_Surjection
<1>7. X = {v}
  <2>1. PICK x : X = {x}
    BY <1>5, <1>6, FS_Singleton
  <2>2. (CHOOSE y \in X : TRUE) = x
    BY <2>1
  <2> QED BY <1>4, <1>5, <1>u, <2>1, <2>2
<1>8. ASSUME NEW k \in Int, m.data <= k, k < m.data + n
      PROVE  D[B[m.lb].phy][k] = v
  <2>1. k \in m.data .. m.data + m.cur - 1
    BY <1>1, <1>4, <1>8
  <2> QED BY <1>7, <1>X, <2>1
<1>9. FilledAs(B, D, m, n, v)
  BY <1>8 DEF FilledAs
<1> QED BY <1>4, <1>9

(* A chunk is empty at the end of the asset only.                          *)
LEMMA ChunkEmpty ==
    ASSUME NEW c, c.size \in Int, c.off \in Int, c.off <= c.size
    PROVE  ChunkSize(c) = 0 <=> c.off = c.size
<1>S. PICK S : S = {c.size - c.off, BufSize}
  OBVIOUS
<1>1. S \subseteq Nat /\ S # {} /\ BufSize \in Nat /\ BufSize # 0
  BY <1>S, ConfigAssumption
<1>2. Min(S) \in S /\ \A y \in S : Min(S) <= y
  BY <1>1, MinInSet
<1>3. ChunkSize(c) = Min(S)
  BY <1>S DEF ChunkSize
<1> QED BY <1>S, <1>1, <1>2, <1>3

(* A chunk that does not fit: the request fails.                           *)
LEMMA RefusedOutcome ==
    ASSUME NEW mark, IsSeq(mark), \A op \in Ops(mark) : op.do = "write" /\ op.part = "fmeta",
           plan' = Cat(mark, <<Fail>>), mode' = "busy"
    PROVE  PlanOK' /\ ~Committing' /\ Refused'
<1>1. IsSeq(<<Fail>>) /\ Ops(<<Fail>>) = {Fail}
  BY Literals
<1>2. Ops(plan') = Ops(mark) \cup {Fail}
  BY <1>1, CatOps
<1>3. Fail.do = "fail"
  BY DEF Fail
<1>4. Refused' /\ ~Committing'
  BY <1>2, <1>3 DEF Refused, Committing
<1>5. \A op \in Ops(plan') : ~IsDataWrite(op) /\ op.do # "erase"
  BY <1>2, <1>3 DEF IsDataWrite
<1>6. OneWrite'
  BY <1>5 DEF OneWrite, IsDataWrite
<1>7. \A op \in Ops(plan') : DataOpOK(op)'
  BY <1>5 DEF DataOpOK, IsDataWrite
<1> QED BY <1>4, <1>6, <1>7 DEF PlanOK

(* A request writes its next chunk, or is refused.                         *)
ChunkStarts(c) == WillHold(c.fid, Holding(c.val, c.off + ChunkSize(c), c.once))
ChunkRefused(c) == c.off = 0 /\ PlanOK' /\ ~Committing' /\ Refused'

(* A chunk that fits extends the file.                                     *)
LEMMA ChunkWrites ==
    ASSUME Types, Valid, Current, ActiveMetaBlock = active, DataOK, UNCHANGED <<flash, active, sdb>>,
           Fine', mode' # "wipe", NEW idx \in Idx, NEW m \in FileMeta, NEW free \in Int, NEW old,
           NEW c \in SetCalls, 0 <= c.off, NEW n, n = ChunkSize(c), 0 <= n, NEW mark,
           MarksOld(mark, idx, old, m.id),
           plan' = Cat(mark, WriteFile(idx, m, free, old, c.off, n, c.val)),
           ~m.del, m.id = c.fid, m.once = c.once, m.cur = c.off,
           n = 0 => free = block(m.lb).free,
           c.off > 0 => FilledAs(flash[active].bmeta, Data, m, c.off, c.val),
           file(idx) = Free \/ file(idx).id = m.id
    PROVE  ChunkStarts(c)
<1>1. c.off \in Int /\ c.val \in Vals /\ c.size \in Int
  BY DEF SetCalls
<1>2. n \in Int
  BY <1>1, ChunkSizeIs
<1>off. PICK off \in Int : off = c.off
  BY <1>1
<1>v. PICK v \in Vals : v = c.val
  BY <1>1
<1>3. CurSize(m, off, n) = off + n
  BY <1>2, <1>off DEF CurSize
<1>4. FilledAs(flash[active].bmeta, Data, m, off, v)
  <2>1. CASE off > 0
    BY <1>off, <1>v, <2>1
  <2>2. CASE off = 0
    <3>1. m.data \in Int
      BY DEF FileMeta
    <3> QED BY <2>2, <3>1 DEF FilledAs
  <2> QED BY <1>off, <2>1, <2>2
<1>5. plan' = Cat(mark, WriteFile(idx, m, free, old, off, n, v)) /\ 0 <= off
  BY <1>off, <1>v
<1>6. WillHold(m.id, Holding(v, off + n, m.once))
  BY <1>2, <1>3, <1>4, <1>5, WriteOutcome
<1> QED BY <1>6, <1>off, <1>v DEF ChunkStarts

(* A chunk of a set is written, or the set fails before it wrote anything. *)
LEMMA ChunkOutcome ==
    ASSUME Types, Valid, Current, Clean(flash[active].fmeta), ActiveMetaBlock = active, DataOK,
           NEW c \in SetCalls, Start(c), UNCHANGED <<flash, active, count, sdb>>, mode' = "busy", Fine',
           c.off \in 0 .. c.size,
           c.off > 0 => /\ \E i \in Idx : Used(i) /\ file(i).id = c.fid /\ file(i).max = c.size
                        /\ StoredFile(c.fid) = Holding(c.val, c.off, c.once)
    PROVE  ChunkStarts(c) \/ ChunkRefused(c)
<1>B. PICK B : B = flash[active].bmeta
  OBVIOUS
<1>F. PICK F : F = flash[active].fmeta
  OBVIOUS
<1>1. /\ FilesOK(F) /\ LayoutOK(B, F) /\ B \in [LBlocks -> BlockMeta]
      /\ \A i \in Idx : file(i) = F[i] /\ (Used(i) => F[i] \in FileMeta)
                        /\ (Used(i) <=> F[i] # Free)
  BY <1>B, <1>F, ActiveIsValid DEF file, Used, BlocksOK
<1>2. c.size \in Int /\ c.off \in Int /\ c.fid \in Fids /\ c.once \in BOOLEAN /\ c.val \in Vals
  BY DEF SetCalls
<1>n. PICK n : n = ChunkSize(c)
  OBVIOUS
<1>3. n \in Int /\ 0 <= n /\ 0 <= c.off /\ c.off <= c.size
  BY <1>n, <1>2, ChunkSizeIs
<1>4. plan' = WriteChunk(c).ops
  BY DEF Start
<1>5. active \in {0, 1} /\ mode' # "wipe" /\ UNCHANGED <<flash, active, sdb>>
  BY DEF Types
<1>old. PICK old : old = FileIdx(c.fid)
  OBVIOUS
<1>6. /\ old = None => \A i \in Idx : Used(i) => file(i).id # c.fid
      /\ old # None => old \in Idx /\ Used(old) /\ file(old).id = c.fid
  BY <1>old, FileIdxIs
<1>S. PICK S : S = {i \in Idx : ~Used(i)}
  OBVIOUS
<1>lb. PICK lb : lb = RoomFor(c.size)
  OBVIOUS
<1>7. lb # None => lb \in LBlocks
  BY <1>lb, RoomForIs
<1>8. c.off = 0 /\ n = 0 => c.size = 0
  BY <1>2, <1>3, <1>n, ChunkEmpty
<1>9. IsSeq(<< >>) /\ Ops(<< >>) = {}
  BY Literals
<1>10. CASE old # None /\ (c.off > 0 \/ file(old).max = c.size)
  <2>m. PICK m : m = OldMeta(c, old)
    OBVIOUS
  <2>o. PICK o : o = F[old]
    OBVIOUS
  <2>1. o \in FileMeta /\ file(old) = o /\ old \in Idx /\ F[old] # Free /\ o.id = c.fid
    BY <1>1, <1>6, <1>10, <2>o
  <2>2. ~o.del
    BY <1>F, <2>o, <2>1 DEF Clean, Marked
  <2>3. /\ m \in FileMeta /\ m.id = o.id /\ m.del = o.del
        /\ m.lb = o.lb /\ m.data = o.data /\ m.max = o.max
    BY <2>m, <1>2, <2>1, <2>2, OldMetaIs
  <2>free. PICK free : free = block(m.lb).free
    OBVIOUS
  <2>4. free \in Int
    <3>1. m.lb \in LBlocks
      BY <2>3 DEF FileMeta
    <3>2. block(m.lb) \in BlockMeta
      BY <3>1, ActiveIsValid
    <3> QED BY <2>free, <3>2 DEF BlockMeta
  <2>5. plan' = Cat(<< >>, WriteFile(old, m, free, old, c.off, n, c.val))
    <3>1. WriteChunk(c).ops
            = Cat(<< >>, WriteFile(old, m, block(m.lb).free, old, c.off, ChunkSize(c), c.val))
      BY <1>old, <2>m, <1>10, ChunkReuse
    <3> QED BY <1>n, <2>free, <1>4, <3>1
  <2>6. MarksOld(<< >>, old, old, m.id)
    <3>1. Entries(old, old) = Idx
      BY Numbers DEF Entries
    <3> QED BY <1>9, <3>1 DEF MarksOld
  <2>7. /\ m.once = c.once /\ m.cur = c.off
        /\ c.off > 0 => FilledAs(B, Data, m, c.off, c.val)
    <3>1. CASE c.off > 0
      <4>1. m = o
        BY <2>m, <2>1, <3>1 DEF OldMeta
      <4>2. StoredFile(c.fid) = FileIn(F, B, Data, c.fid)
        BY <1>5, <1>B, <1>F, StoredIs DEF Current
      <4>3. FileIn(F, B, Data, c.fid) = ContentsIn(B, Data, o)
        BY <1>1, <2>o, <2>1, <2>2, FileInIs
      <4>4. ContentsIn(B, Data, o) = Holding(c.val, c.off, c.once)
        BY <3>1, <4>2, <4>3
      <4> QED BY <1>2, <2>1, <3>1, <4>1, <4>4, ReadsAs
    <3>2. CASE c.off = 0
      <4>1. m = [o EXCEPT !.cur = 0, !.once = c.once, !.del = FALSE]
        BY <1>2, <2>m, <2>1, <3>2 DEF OldMeta
      <4> QED BY <2>1, <3>2, <4>1 DEF FileMeta
    <3> QED BY <1>2, <1>3, <3>1, <3>2
  <2>8. m.id = c.fid /\ ~m.del /\ (file(old) = Free \/ file(old).id = m.id)
    BY <2>1, <2>2, <2>3
  <2>mark. PICK mark : mark = << >>
    OBVIOUS
  <2>9. MarksOld(mark, old, old, m.id) /\ plan' = Cat(mark, WriteFile(old, m, free, old, c.off, n, c.val))
    BY <2>5, <2>6, <2>mark
  <2>10. c.off > 0 => FilledAs(flash[active].bmeta, Data, m, c.off, c.val)
    BY <1>B, <2>7
  <2> QED BY <1>3, <1>5, <1>n, <2>1, <2>3, <2>4, <2>free, <2>7, <2>8, <2>9, <2>10, ChunkWrites
<1>off. c.off = 0 \/ (old # None /\ c.off > 0)
  BY <1>2, <1>3, <1>6
<1>11. CASE old # None /\ ~(c.off > 0 \/ file(old).max = c.size)
  <2>0. c.off = 0
    BY <1>11, <1>off
  <2>1. F[old] \in FileMeta /\ file(old) = F[old] /\ old \in Idx /\ F[old] # Free /\ F[old].id = c.fid
    BY <1>1, <1>6, <1>11
  <2>idx. PICK idx : idx = FirstIdx(S)
    OBVIOUS
  <2>cells. PICK cells : cells = [i \in {old} |-> [file(i) EXCEPT !.del = TRUE]]
    OBVIOUS
  <2>d. PICK d : d = [F[old] EXCEPT !.del = TRUE]
    OBVIOUS
  <2>2. d \in FileMeta /\ d.del = TRUE /\ d.id = c.fid /\ d # Free
    BY <2>d, <2>1, FileNotFree DEF FileMeta
  <2>3. DOMAIN cells = {old} /\ cells[old] = d
    BY <2>cells, <2>d, <2>1
  <2>wm. PICK wm : wm = Write(scratch, "fmeta", cells, None)
    OBVIOUS
  <2>4. wm.do = "write" /\ wm.part = "fmeta" /\ wm.cells = cells
    BY <2>wm, WriteIs
  <2>mark. PICK mark : mark = <<wm>>
    OBVIOUS
  <2>5. IsSeq(mark) /\ Ops(mark) = {wm}
    BY <2>mark, Literals
  <2>6. CASE Fits(c, lb, idx)
    <3>m. PICK m : m = NewMeta(c, lb)
      OBVIOUS
    <3>free. PICK free : free = block(lb).free - c.size
      OBVIOUS
    <3>1. /\ m \in FileMeta /\ m.id = c.fid /\ m.del = FALSE /\ free \in Int
          /\ m.lb = lb /\ m.cur = 0 /\ lb \in LBlocks
      BY <3>m, <3>free, <1>7, <2>6, NewMetaIs DEF Fits
    <3>2. m.once = c.once
      BY <3>m DEF NewMeta
    <3>3. idx \in Idx /\ F[idx] = Free /\ idx # old
      BY <2>idx, <1>S, <1>1, <2>1, <2>6, FreeIdxIs DEF Fits
    <3>4. plan' = Cat(mark, WriteFile(idx, m, free, old, c.off, n, c.val))
      <4>1. /\ WriteChunk(c).old = old
            /\ WriteChunk(c).ops
                 = Cat(<<wm>>, WriteFile(idx, NewMeta(c, lb), block(lb).free - c.size, old,
                                         c.off, ChunkSize(c), c.val))
        BY <1>old, <1>S, <1>lb, <2>idx, <2>wm, <2>cells, <1>11, <2>6, ChunkReplace, ZenonT(60)
      <4> QED BY <2>mark, <3>m, <3>free, <1>n, <1>4, <4>1
    <3>5. MarksOld(mark, idx, old, m.id)
      <4>1. Entries(idx, old) = Idx \ {old}
        BY <3>3 DEF Entries
      <4> QED BY <2>1, <2>2, <2>3, <2>4, <2>5, <3>1, <4>1 DEF MarksOld
    <3>6. n = 0 => free = block(m.lb).free
      <4>1. block(lb).free \in Int
        BY <3>1, ActiveIsValid DEF BlockMeta
      <4> QED BY <1>8, <2>0, <3>1, <3>free, <4>1
    <3>7. ~m.del /\ m.cur = c.off /\ (file(idx) = Free \/ file(idx).id = m.id)
          /\ (c.off > 0 => FilledAs(flash[active].bmeta, Data, m, c.off, c.val))
      BY <1>1, <2>0, <3>1, <3>3
    <3> QED BY <1>3, <1>5, <1>n, <3>1, <3>2, <3>3, <3>4, <3>5, <3>6, <3>7, ChunkWrites
  <2>7. CASE ~Fits(c, lb, idx)
    <3>1. plan' = Cat(mark, <<Fail>>)
      <4>1. WriteChunk(c).old = None /\ WriteChunk(c).ops = Cat(<<wm>>, <<Fail>>)
        BY <1>old, <1>S, <1>lb, <2>idx, <2>wm, <2>cells, <1>11, <2>7, ChunkReplace
      <4> QED BY <1>4, <2>mark, <4>1
    <3>2. \A op \in Ops(mark) : op.do = "write" /\ op.part = "fmeta"
      BY <2>4, <2>5
    <3> QED BY <2>0, <2>5, <3>1, <3>2, RefusedOutcome DEF ChunkRefused
  <2> QED BY <2>6, <2>7
<1>12. CASE old = None
  <2>0. c.off = 0
    BY <1>12, <1>off
  <2>idx. PICK idx : idx = IF S = {} THEN FirstIdx(S) ELSE FirstIdx(S \ {Min(S)})
    OBVIOUS
  <2>mark. PICK mark : mark = << >>
    OBVIOUS
  <2>2. CASE Fits(c, lb, idx)
    <3>m. PICK m : m = NewMeta(c, lb)
      OBVIOUS
    <3>free. PICK free : free = block(lb).free - c.size
      OBVIOUS
    <3>1. /\ m \in FileMeta /\ m.id = c.fid /\ m.del = FALSE /\ free \in Int
          /\ m.lb = lb /\ m.cur = 0 /\ lb \in LBlocks
      BY <3>m, <3>free, <1>7, <2>2, NewMetaIs DEF Fits
    <3>10. m.once = c.once
      BY <3>m DEF NewMeta
    <3>2. S # {}
      BY <2>idx, <2>2, Numbers, FirstIdxIs DEF Fits
    <3>3. idx \in Idx /\ ~Used(idx)
      BY <2>idx, <1>S, <2>2, <3>2, FreeIdxIs DEF Fits
    <3>4. plan' = Cat(mark, WriteFile(idx, m, free, old, c.off, n, c.val))
      <4>1. WriteChunk(c).ops
              = Cat(<< >>, WriteFile(idx, NewMeta(c, lb), block(lb).free - c.size, old,
                                     c.off, ChunkSize(c), c.val))
        BY <1>old, <1>S, <1>lb, <2>idx, <1>12, <2>2, ChunkNew, ZenonT(60)
      <4> QED BY <2>mark, <3>m, <3>free, <1>n, <1>4, <4>1
    <3>5. MarksOld(mark, idx, old, m.id)
      <4>1. Entries(idx, old) = Idx
        BY <1>12, Numbers DEF Entries
      <4> QED BY <1>9, <2>mark, <4>1 DEF MarksOld
    <3>6. n = 0 => free = block(m.lb).free
      <4>1. block(lb).free \in Int
        BY <3>1, ActiveIsValid DEF BlockMeta
      <4> QED BY <1>8, <2>0, <3>1, <3>free, <4>1
    <3>7. ~m.del /\ m.cur = c.off /\ (file(idx) = Free \/ file(idx).id = m.id)
          /\ (c.off > 0 => FilledAs(flash[active].bmeta, Data, m, c.off, c.val))
      BY <1>1, <2>0, <3>1, <3>3
    <3> QED BY <1>3, <1>5, <1>n, <3>1, <3>10, <3>3, <3>4, <3>5, <3>6, <3>7, ChunkWrites
  <2>3. CASE ~Fits(c, lb, idx)
    <3>1. plan' = Cat(mark, <<Fail>>)
      <4>1. WriteChunk(c).ops = Cat(<< >>, <<Fail>>)
        BY <1>old, <1>S, <1>lb, <2>idx, <1>12, <2>3, ChunkNew
      <4> QED BY <1>4, <2>mark, <4>1
    <3>2. IsSeq(mark) /\ \A op \in Ops(mark) : op.do = "write" /\ op.part = "fmeta"
      BY <1>9, <2>mark
    <3> QED BY <2>0, <3>1, <3>2, RefusedOutcome DEF ChunkRefused
  <2> QED BY <2>2, <2>3
<1> QED BY <1>10, <1>11, <1>12

-----------------------------------------------------------------------------
(* The second layer under the steps that lead to a commit and from it.     *)

(* No file changes.                                                        *)
Same == \A f : StoredFile(f)' = StoredFile(f)
NoFiles == [i \in Idx |-> Free]

LEMMA SameFlash ==
    ASSUME UNCHANGED flash
    PROVE  Same /\ ActiveMetaBlock' = ActiveMetaBlock /\ Data' = Data /\ \A b : ValidHeader(b)' <=> ValidHeader(b)
<1>1. \A b : ValidHeader(b)' <=> ValidHeader(b)
  BY DEF ValidHeader
<1>2. ActiveMetaBlock' = ActiveMetaBlock
  BY ChosenStays
<1>3. \A b, m : Contents(b, m)' = Contents(b, m)
  BY DEF Contents
<1>4. ASSUME NEW f PROVE StoredFile(f)' = StoredFile(f)
  BY <1>2, <1>3 DEF StoredFile
<1>5. Data' = Data
  BY DEF Data
<1> QED BY <1>1, <1>2, <1>4, <1>5 DEF Same

(* Blocks that are not live may change.                                    *)
LEMMA LiveKept ==
    ASSUME Types, Valid, Types', Valid', ValidHeader(active), ActiveMetaBlock = active,
           ActiveMetaBlock' = active, MetaKept(active), NEW s, s = flash[active].header.sdb,
           \A x \in Blocks : ~Spare(x, scratch, s) => Data'[x] = Data[x]
    PROVE  Same
<1>1. active \in {0, 1} /\ scratch # active /\ scratch \in {0, 1} /\ active \in Blocks
  BY ScratchIs DEF Types
<1>B. PICK B : B = flash[active].bmeta
  OBVIOUS
<1>2. BlocksOK(B, active, s)
  BY <1>1, <1>B DEF Valid
<1>3. ASSUME NEW l \in LBlocks PROVE Data'[B[l].phy] = Data[B[l].phy]
  <2>1. CASE l = 0
    <3>1. B[l].phy = active
      BY <1>2, <2>1 DEF BlocksOK
    <3>2. ~Spare(active, scratch, s)
      BY <1>1, <1>2, Numbers DEF Spare, BlocksOK
    <3> QED BY <1>1, <3>1, <3>2
  <2>2. CASE l # 0
    <3>1. B[l].phy \in DBlocks /\ B[l].phy # s
      BY <1>2, <2>2 DEF BlocksOK
    <3>2. B[l].phy \in Blocks /\ ~Spare(B[l].phy, scratch, s)
      BY <1>1, <3>1, Numbers DEF Spare
    <3> QED BY <3>2
  <2> QED BY <2>1, <2>2
<1>4. ASSUME NEW f PROVE StoredFile(f)' = StoredFile(f)
  <2>1. \A l \in LBlocks : Data'[flash[active].bmeta[l].phy] = Data[flash[active].bmeta[l].phy]
    BY <1>3, <1>B
  <2>2. PICK b \in {0, 1} : b = active
    BY <1>1
  <2> QED BY <2>1, <2>2, StoredKept
<1> QED BY <1>4 DEF Same

(* Nothing of the request changes.                                         *)
LEMMA CallStays ==
    ASSUME CallOK, UNCHANGED <<mode, call, replaced>>, Same, Committing' <=> Committing,
           Refused' <=> Refused, Committing => \A f : NewFile(f)' = NewFile(f),
           mode = "wipe" /\ plan' # << >> => NewFiles' = NoFiles
    PROVE  CallOK'
<1>1. Prefix' = Prefix /\ (DoneSoFar' <=> DoneSoFar)
  BY DEF Prefix, Holding, DoneSoFar, Finished
<1>2. Reached => Reached'
  BY <1>1 DEF Reached, Same
<1>3. Committing /\ Kept => Kept'
  BY DEF Kept, Same
<1>4. \A g, c : Committing /\ KeptBut(g, c) => KeptBut(g, c)'
  BY DEF KeptBut, Same
<1>5. Committing /\ Wanted => Wanted'
  <2>1. StoredFile(call.fid)' = StoredFile(call.fid)
    BY DEF Same
  <2>2. CASE call.op = "remove"
    <3>1. KeptBut(call.fid, None) /\ Committing => KeptBut(call.fid, None)'
      BY DEF KeptBut, Same
    <3> QED BY <2>2, <3>1 DEF Wanted
  <2>3. CASE call.op # "remove"
    <3>1. Committing /\ KeptBut(call.fid, Prefix) => KeptBut(call.fid, Prefix)'
      BY <1>1 DEF KeptBut, Same
    <3> QED BY <1>1, <1>3, <2>1, <2>3, <3>1 DEF Wanted
  <2> QED BY <2>2, <2>3
<1> QED BY <1>2, <1>3, <1>5 DEF CallOK, NoFiles

(* No header is written.                                                   *)
LEMMA HeadersStay ==
    ASSUME HeadersOK, \A b \in {0, 1} : ValidHeader(b)' => flash'[b].header = flash[b].header,
           UNCHANGED <<mode, count, active>>, active \in {0, 1},
           mode \notin {"off", "wipe"} => ValidHeader(active)' /\ ActiveMetaBlock' = active
    PROVE  HeadersOK'
<1>1. \A b \in {0, 1} : ValidHeader(b)' => flash'[b].header.count \in Counts
  BY DEF HeadersOK, ValidHeader
<1> QED BY <1>1 DEF HeadersOK

(* An operation less.                                                      *)
LEMMA PlanStays ==
    ASSUME PlanOK, Ops(plan') \subseteq Ops(plan), UNCHANGED <<mode, active>>,
           mode \notin {"off", "wipe"} => flash'[active].header.sdb = flash[active].header.sdb,
           Committing' <=> Committing, NewScratch' = NewScratch
    PROVE  PlanOK'
<1>1. scratch' = scratch
  BY DEF scratch
<1>2. OneWrite'
  BY DEF PlanOK, OneWrite, IsDataWrite
<1>3. ASSUME NEW op, mode \notin {"off", "wipe"} PROVE DataOpOK(op) => DataOpOK(op)'
  BY <1>1, <1>3 DEF DataOpOK, IsDataWrite, Spare
<1> QED BY <1>2, <1>3 DEF PlanOK, IsDataWrite

LEMMA NoneAlways == \A f : ActiveMetaBlock = None => StoredFile(f) = None
BY NoneStored

LEMMA SameNone ==
    ASSUME ActiveMetaBlock = None, ActiveMetaBlock' = None
    PROVE  Same
<1>1. (\A f : ActiveMetaBlock = None => StoredFile(f) = None)'
  BY NoneAlways, PTL
<1> QED BY <1>1, NoneAlways DEF Same

LEMMA NoFilesIn ==
    ASSUME NEW B, NEW D, NEW f
    PROVE  FileIn(NoFiles, B, D, f) = None
BY DEF FileIn, Found, NoFiles

(* A write leaves the headers and the metadata of other blocks alone.      *)
LEMMA WriteKeeps ==
    ASSUME FlashOK(flash), NEW op, op.blk \in Blocks, op.part \in {"data", "bmeta", "fmeta"},
           flash' = [flash EXCEPT ![op.blk][op.part] = Over(op.cells, @)]
    PROVE  \A b \in Blocks : /\ flash'[b].header = flash[b].header
                             /\ b # op.blk \/ op.part = "data" => MetaKept(b)
<1>1. PICK D : flash \in [Blocks -> BlockOf(D)]
  BY DEF FlashOK
<1> SUFFICES ASSUME NEW b \in Blocks
             PROVE  /\ flash'[b].header = flash[b].header
                    /\ b # op.blk \/ op.part = "data" => MetaKept(b)
  OBVIOUS
<1>2. CASE b # op.blk
  <2>1. flash'[b] = flash[b]
    BY <1>1, <1>2
  <2> QED BY <2>1 DEF MetaKept
<1>3. CASE b = op.blk
  <2>r. PICK r : r = flash[b]
    OBVIOUS
  <2>1. r \in BlockOf(D)
    BY <1>1, <2>r
  <2>c. PICK c : c = Over(op.cells, r[op.part])
    OBVIOUS
  <2>2. flash'[b] = [r EXCEPT ![op.part] = c]
    BY <1>1, <1>3, <2>r, <2>c
  <2>3. flash'[b].header = r.header
    BY <2>1, <2>2 DEF BlockOf
  <2>4. op.part = "data" => flash'[b].bmeta = r.bmeta /\ flash'[b].fmeta = r.fmeta
    BY <2>1, <2>2 DEF BlockOf
  <2> QED BY <1>3, <2>r, <2>3, <2>4 DEF MetaKept
<1> QED BY <1>2, <1>3

(* What the steps before the commit do to the flash.                       *)
LEMMA PreFlash ==
    ASSUME Types, DataOK, PlanOK, WriteStep \/ ScratchStep \/ EraseStep, NEW op, op = Head(plan),
           op \in Ops(plan), NEW N, NEW G, NEW z, OpOK(op, N, G, z), active \in {0, 1},
           mode = "wipe" <=> ~ValidHeader(active), mode # "off"
    PROVE  /\ DataOK'
           /\ \A b \in {0, 1} : flash'[b].header = flash[b].header
           /\ MetaKept(active)
           /\ mode # "wipe" => \A x \in Blocks : \A k \in DataCells(x) :
                flash'[x].data[k] = IF WritesData(op, x, k) THEN op.cells[k] ELSE flash[x].data[k]
<1>1. scratch \in {0, 1} /\ scratch # active /\ scratch \in Blocks /\ active \in Blocks /\ {0, 1} \subseteq Blocks
      /\ DBlocks \subseteq Blocks /\ 0 \notin DBlocks /\ 1 \notin DBlocks
  BY ScratchIs, Numbers
<1>2. CASE WriteStep
  <2>1. op.do = "write" /\ flash' = [flash EXCEPT ![op.blk][op.part] = Over(op.cells, @)]
    BY <1>2 DEF WriteStep, NextOp
  <2>2. /\ op.blk \in Blocks /\ op.part \in {"data", "bmeta", "fmeta"}
        /\ op.part # "data" => op.blk = scratch
    BY <1>1, <2>1 DEF OpOK
  <2>3. \A b \in Blocks : /\ flash'[b].header = flash[b].header
                          /\ b # op.blk \/ op.part = "data" => MetaKept(b)
    BY <2>1, <2>2, WriteKeeps DEF Types
  <2>4. \A x \in Blocks : \A k \in DataCells(x) :
          /\ k \in DOMAIN flash'[x].data
          /\ flash'[x].data[k] = IF WritesData(op, x, k) THEN op.cells[k] ELSE flash[x].data[k]
    <3>1. FlashOK(flash)
      BY DEF Types
    <3>2. CellsWritten(op)
      BY <2>1, <2>2, <3>1, WriteData
    <3> QED BY <3>2 DEF CellsWritten
  <2>5. \A x, k : WritesData(op, x, k) => op.cells[k] \in CellVals
    BY DEF PlanOK, DataOpOK, WritesData, IsDataWrite
  <2>6. DataOK'
    BY <2>4, <2>5 DEF DataOK
  <2> QED BY <1>1, <2>2, <2>3, <2>4, <2>6
<1>3. CASE ScratchStep
  <2>1. op.do = "scratch" /\ flash' = flash
    BY <1>3 DEF ScratchStep, NextOp
  <2>2. \A x, k : ~WritesData(op, x, k)
    BY <2>1 DEF WritesData
  <2> QED BY <2>1, <2>2 DEF DataOK, MetaKept
<1>4. CASE EraseStep
  <2>1. op.do = "erase" /\ flash' = [flash EXCEPT ![op.blk] = ErasedBlock(op.blk)]
    BY <1>4 DEF EraseStep, NextOp
  <2>2. op.blk \in DBlocks /\ mode = "wipe"
    BY <2>1 DEF OpOK
  <2>b. PICK b \in Blocks : b = op.blk
    BY <1>1, <2>2
  <2>3. /\ \A x \in Blocks \ {b} : flash'[x] = flash[x]
        /\ \A k \in DataCells(b) : k \in DOMAIN flash'[b].data /\ flash'[b].data[k] = Erased
    BY <2>b, <2>1, EraseData DEF Types
  <2>4. DataOK'
    <3> SUFFICES ASSUME NEW x \in Blocks, NEW k \in DataCells(x)
                 PROVE  k \in DOMAIN flash'[x].data /\ flash'[x].data[k] \in CellVals
      BY DEF DataOK
    <3>1. CASE x = b
      BY <2>3, <3>1 DEF CellVals
    <3>2. CASE x # b
      BY <2>3, <3>2 DEF DataOK
    <3> QED BY <3>1, <3>2
  <2>5. \A x \in {0, 1} : flash'[x] = flash[x]
    BY <1>1, <2>2, <2>3, <2>b
  <2> QED BY <2>2, <2>4, <2>5 DEF MetaKept
<1> QED BY <1>2, <1>3, <1>4

(* What is left to do leads to the same.                                   *)
PlanKept ==
    /\ NewFiles' = NewFiles /\ NewBlocks' = NewBlocks /\ NewScratch' = NewScratch
    /\ Committing /\ Committing' /\ ~Refused /\ ~Refused'

NewKnown ==
    \A pre, post, N, G, z : Leads(plan, pre, post, N, G, z) /\ EndsWith(post) =>
        /\ NewBlocks = N /\ NewFiles = G /\ NewScratch = z /\ Committing /\ ~Refused

LEMMA NewHere == NewKnown
BY NewIs DEF NewKnown

LEMMA StillPlanned ==
    ASSUME NEW pre, NEW post, NEW N, NEW G, NEW z, NEW rest,
           Leads(plan, pre, post, N, G, z), EndsWith(post),
           Leads(plan, rest, post, N, G, z)', EndsWith(post)'
    PROVE  PlanKept
<1>1. /\ NewBlocks = N /\ NewFiles = G /\ NewScratch = z /\ Committing /\ ~Refused
  BY NewIs
<1>2. NewKnown'
  BY NewHere, PTL
<1>3. /\ NewBlocks' = N /\ NewFiles' = G /\ NewScratch' = z /\ Committing' /\ ~Refused'
  BY <1>2 DEF NewKnown
<1> QED BY <1>1, <1>3 DEF PlanKept

(* The steps before the commit change no file and not what the commit      *)
(* will leave.                                                             *)
LEMMA UpdatingStep ==
    ASSUME Fine, Layer, Updating, WriteStep \/ ScratchStep \/ EraseStep
    PROVE  Layer' /\ Same
<1>1. Types /\ Valid /\ HeadersOK /\ DataOK /\ PlanOK /\ CallOK /\ active \in {0, 1}
  BY DEF Fine, Layer, Types
<1>op. PICK op : op = Head(plan)
  OBVIOUS
<1>2. plan # << >> /\ op.do \in {"write", "scratch", "erase"} /\ plan' = Tail(plan)
      /\ UNCHANGED <<active, count, mode, call, replaced>>
  BY <1>op DEF WriteStep, ScratchStep, EraseStep, NextOp
<1>3. PICK pre, post, N, G, z :
          Leads(plan, pre, post, N, G, z) /\ EndsWith(post) /\ Pending(G)
  BY DEF Updating
<1>4. pre # << >>
  <2>1. CASE pre = << >>
    <3>1. op = Commit
      BY <1>3, <1>op, <2>1, LeadsBy
    <3> QED BY <1>2, <3>1 DEF Commit
  <2> QED BY <2>1
<1>5. op = Head(pre) /\ OpOK(op, N, G, z)
  BY <1>3, <1>4, <1>op, LeadsBy
<1>6. Fine' /\ Leads(plan, Tail(pre), post, N, G, z)' /\ EndsWith(post)'
  <2>1. Leads(plan, pre, post, N, G, z) /\ EndsWith(post) /\ Pending(G) /\ pre # << >>
    BY <1>3, <1>4
  <2>2. CASE WriteStep
    BY <1>1, <2>1, <2>2, PreWrite
  <2>3. CASE ScratchStep
    BY <1>1, <2>1, <2>3, PreScratch
  <2>4. CASE EraseStep
    BY <1>1, <2>1, <2>4, PreErase
  <2> QED BY <2>2, <2>3, <2>4
<1>7. PlanKept
  BY <1>3, <1>6, StillPlanned
<1>8. Ops(plan) = {op} \cup Ops(plan')
  <2>1. IsSeq(plan)
    <3>1. IsSeq(pre) /\ IsSeq(post) /\ plan = Cat(pre, Cat(<<Commit>>, post))
      BY <1>3 DEF Leads
    <3>2. IsSeq(Cat(<<Commit>>, post))
      BY <3>1, ConsIs
    <3> QED BY <3>1, <3>2, CatOps
  <2> QED BY <1>2, <1>op, <2>1, TailIs
<1>9. mode \in {"busy", "recover", "wipe"} /\ (mode = "wipe" <=> ~ValidHeader(active)) /\ ~ValidHeader(scratch)
  BY DEF Updating
<1>10. /\ DataOK'
       /\ \A b \in {0, 1} : flash'[b].header = flash[b].header
       /\ MetaKept(active)
       /\ mode # "wipe" => \A x \in Blocks : \A k \in DataCells(x) :
            flash'[x].data[k] = IF WritesData(op, x, k) THEN op.cells[k] ELSE flash[x].data[k]
  <2>1. op \in Ops(plan) /\ mode # "off" /\ (mode = "wipe" <=> ~ValidHeader(active))
    BY <1>8, <1>9
  <2> QED BY <1>1, <1>5, <1>op, <2>1, PreFlash
<1>11. ActiveMetaBlock' = ActiveMetaBlock
  BY <1>10, ChosenStays
<1>12. mode # "wipe" => ActiveMetaBlock = active /\ ValidHeader(active)
  BY <1>1, <1>9 DEF HeadersOK
<1>13. HeadersOK'
  <2>1. \A b \in {0, 1} : ValidHeader(b)' => flash'[b].header = flash[b].header
    BY <1>10
  <2>2. mode \notin {"off", "wipe"} => ValidHeader(active)' /\ ActiveMetaBlock' = active
    BY <1>1, <1>2, <1>10, <1>11, <1>12 DEF ValidHeader
  <2> QED BY <1>1, <1>2, <2>1, <2>2, HeadersStay
<1>14. PlanOK'
  <2>1. mode \notin {"off", "wipe"} => flash'[active].header.sdb = flash[active].header.sdb
    BY <1>1, <1>10
  <2> QED BY <1>1, <1>2, <1>7, <1>8, <2>1, PlanStays DEF PlanKept
<1>15. Same
  <2>1. CASE mode = "wipe"
    <3>1. \A b \in {0, 1} : ~ValidHeader(b)
      BY <1>1, <1>9, <2>1, ScratchIs
    <3>2. ActiveMetaBlock = None
      BY <3>1, NoBlock
    <3> QED BY <1>11, <3>2, SameNone
  <2>2. CASE mode # "wipe"
    <3>1. Types' /\ Valid'
      BY <1>6 DEF Fine
    <3>s. PICK s : s = flash[active].header.sdb
      OBVIOUS
    <3>2. \A x \in Blocks : ~Spare(x, scratch, s) => Data'[x] = Data[x]
      <4> SUFFICES ASSUME NEW x \in Blocks, ~Spare(x, scratch, s) PROVE Data'[x] = Data[x]
        OBVIOUS
      <4>1. \A k : ~WritesData(op, x, k)
        <5>1. IsDataWrite(op) => Spare(op.blk, scratch, s)
          BY <1>1, <1>8, <1>9, <2>2, <3>s DEF PlanOK, DataOpOK
        <5> QED BY <5>1 DEF WritesData, IsDataWrite
      <4>2. \A k \in DataCells(x) : flash'[x].data[k] = flash[x].data[k]
        BY <1>10, <2>2, <4>1
      <4>3. {x} \subseteq Blocks /\ \A y \in {x} : \A k \in DataCells(y) : flash'[y].data[k] = flash[y].data[k]
        BY <4>2
      <4> QED BY <4>3, DataKept
    <3>3. ActiveMetaBlock' = active
      BY <1>11, <1>12, <2>2
    <3> QED BY <1>1, <1>10, <1>12, <2>2, <3>1, <3>2, <3>3, <3>s, LiveKept
  <2> QED BY <2>1, <2>2
<1>16. \A f : NewFile(f)' = NewFile(f)
  <2>1. CASE mode = "wipe"
    <3>1. NewFiles = NoFiles /\ NewFiles' = NoFiles
      BY <1>1, <1>2, <1>7, <2>1 DEF CallOK, PlanKept, NoFiles
    <3> QED BY <3>1, NoFilesIn DEF NewFile
  <2>2. CASE mode # "wipe"
    <3>1. NewData' = NewData
      BY <1>1, <1>8, <1>10, <2>2, NewDataStays DEF PlanOK
    <3> QED BY <1>7, <3>1 DEF NewFile, PlanKept
  <2> QED BY <2>1, <2>2
<1>17. CallOK'
  <2>1. mode = "wipe" /\ plan' # << >> => NewFiles' = NoFiles
    BY <1>1, <1>2, <1>7 DEF CallOK, PlanKept, NoFiles
  <2> QED BY <1>1, <1>2, <1>7, <1>15, <1>16, <2>1, CallStays DEF PlanKept
<1> QED BY <1>10, <1>13, <1>14, <1>15, <1>17 DEF Layer

(* its_flash_fs_mblock_reset_metablock writes empty file entries only.     *)
ResetOps(P) ==
    /\ \A op \in P : ~IsDataWrite(op) /\ (op.do = "write" /\ op.part = "fmeta" => op.cells = NoFiles)
    /\ \E op \in P : op.do = "write" /\ op.part = "fmeta"
    /\ \A op \in P : op.do # "fail"

LEMMA ResetOpsIs ==
    ASSUME NEW p \in {ResetMetaBlock, Tail(ResetMetaBlock)}
    PROVE  /\ IsSeq(p) /\ Head(p) \in {Erase(0), Erase(1)}
           /\ ResetOps(Ops(p)) /\ ResetOps(Ops(Tail(p)))
<1>3. PICK w0 : w0 = Write(1, "bmeta", [lb \in {0} |-> InitialMeta(lb)], None)
  OBVIOUS
<1>4. PICK w1 : w1 = Write(1, "bmeta", [lb \in Dedicated |-> InitialMeta(lb)], None)
  OBVIOUS
<1>5. PICK w2 : w2 = Write(1, "fmeta", NoFiles, None)
  OBVIOUS
<1>6. PICK n : n = Cardinality(Dedicated)
  OBVIOUS
<1>7. PICK s : s = [lb \in 1 .. n |-> Erase(lb + 2)]
  OBVIOUS
<1>8. n \in Nat
  BY <1>6, DedicatedIs
<1>9. IsSeq(s) /\ \A op \in Ops(s) : op.do = "erase"
  <2>1. PICK T : T = {Erase(lb + 2) : lb \in 1 .. n}
    OBVIOUS
  <2>2. s \in [1 .. n -> T]
    BY <1>7, <2>1
  <2>3. s \in Seq(T)
    BY <1>8, <2>2
  <2>4. \A l \in 1 .. n : s[l].do = "erase"
    BY <1>7 DEF Erase
  <2>5. DOMAIN s = 1 .. n
    BY <1>7
  <2> QED BY <2>3, <2>4, <2>5 DEF IsSeq, Ops
<1>10. ResetMetaBlock = Cat(Cat(<<Erase(0), Erase(1), w0>>, s), <<w1, w2, Commit>>)
  BY <1>3, <1>4, <1>5, <1>6, <1>7 DEF ResetMetaBlock, InitialMeta, Dedicated, Cat, NoFiles
<1>11. PICK pre : /\ IsSeq(pre) /\ Ops(pre) = ({w0} \cup Ops(s)) \cup {w1, w2}
                  /\ ResetMetaBlock
                       = Cat(<<Erase(0)>>, Cat(<<Erase(1)>>, Cat(pre, Cat(<<Commit>>, << >>))))
  BY <1>9, <1>10, ResetPlan
<1>r. PICK r : r = Cat(pre, Cat(<<Commit>>, << >>))
  OBVIOUS
<1>12. IsSeq(r) /\ Ops(r) = Ops(pre) \cup {Commit}
  <2>1. IsSeq(Cat(<<Commit>>, << >>)) /\ Ops(Cat(<<Commit>>, << >>)) = {Commit}
    BY Literals, Single
  <2> QED BY <1>11, <1>r, <2>1, CatOps
<1>q. PICK q : q = Cat(<<Erase(1)>>, r)
  OBVIOUS
<1>13. IsSeq(q) /\ Head(q) = Erase(1) /\ Tail(q) = r /\ Ops(q) = {Erase(1)} \cup Ops(r)
  BY <1>12, <1>q, ConsIs
<1>z. PICK z : z = Cat(<<Erase(0)>>, q)
  OBVIOUS
<1>14. IsSeq(z) /\ Head(z) = Erase(0) /\ Tail(z) = q /\ Ops(z) = {Erase(0)} \cup Ops(q)
  BY <1>13, <1>z, ConsIs
<1>15. ResetMetaBlock = z
  BY <1>11, <1>r, <1>q, <1>z
<1>16. /\ w0.do = "write" /\ w0.part = "bmeta" /\ w1.do = "write" /\ w1.part = "bmeta"
       /\ w2.do = "write" /\ w2.part = "fmeta" /\ w2.cells = NoFiles
  BY <1>3, <1>4, <1>5, WriteIs
<1>17. Commit.do = "commit" /\ \A b : Erase(b).do = "erase"
  BY DEF Commit, Erase
<1>18. ResetOps(Ops(r))
  BY <1>9, <1>11, <1>12, <1>16, <1>17 DEF ResetOps, IsDataWrite
<1>19. ResetOps(Ops(q))
  BY <1>13, <1>17, <1>18 DEF ResetOps, IsDataWrite
<1>20. ResetOps(Ops(z))
  BY <1>14, <1>17, <1>19 DEF ResetOps, IsDataWrite
<1>21. CASE p = ResetMetaBlock
  <2>1. p = z
    BY <1>15, <1>21
  <2> QED BY <1>14, <1>19, <1>20, <2>1
<1>22. CASE p = Tail(ResetMetaBlock)
  <2>1. p = q
    BY <1>14, <1>15, <1>22
  <2> QED BY <1>13, <1>18, <1>19, <2>1
<1> QED BY <1>21, <1>22

(* The reset will leave no file.                                           *)
LEMMA FreshFiles == ResetOps(Ops(plan)) => NewFiles = NoFiles
<1> SUFFICES ASSUME ResetOps(Ops(plan)) PROVE NewFiles = NoFiles
  OBVIOUS
<1>1. ASSUME NEW i \in Idx PROVE NewFiles[i] = Free
  <2>1. DOMAIN NoFiles = Idx /\ NoFiles[i] = Free
    BY DEF NoFiles
  <2>2. \E op \in Ops(plan) : Writes(op, "fmeta", i)
    BY <2>1 DEF ResetOps, Writes
  <2>w. PICK w : w = CHOOSE op \in Ops(plan) : Writes(op, "fmeta", i)
    OBVIOUS
  <2>3. w \in Ops(plan) /\ Writes(w, "fmeta", i)
    BY <2>2, <2>w
  <2>4. w.cells[i] = Free
    BY <2>1, <2>3 DEF ResetOps, Writes
  <2> QED BY <2>2, <2>4, <2>w DEF NewFiles
<1>2. NewFiles = [i \in Idx |-> NewFiles[i]]
  BY DEF NewFiles
<1> QED BY <1>1, <1>2 DEF NoFiles

(* The reset begins: nothing is stored.                                    *)
LEMMA WipingStep ==
    ASSUME Fine, Layer, Wiping, EraseStep
    PROVE  Layer' /\ Same
<1>1. Types /\ Valid /\ HeadersOK /\ DataOK /\ PlanOK /\ CallOK /\ {0, 1} \subseteq Blocks
  BY Numbers DEF Fine, Layer
<1>2. /\ plan # << >> /\ mode = "wipe" /\ active = 0 /\ plan \in {ResetMetaBlock, Tail(ResetMetaBlock)}
      /\ ~ValidHeader(0) /\ ~ValidHeader(1)
  BY DEF Wiping, EraseStep, NextOp
<1>3. Head(plan) \in {Erase(0), Erase(1)} /\ ResetOps(Ops(plan)) /\ ResetOps(Ops(Tail(plan)))
  BY <1>2, ResetOpsIs
<1>b. PICK b \in {0, 1} : Head(plan) = Erase(b)
  BY <1>3
<1>4. /\ flash' = [flash EXCEPT ![b] = ErasedBlock(b)] /\ plan' = Tail(plan)
      /\ UNCHANGED <<active, count, sdb, mode, call, replaced>>
  <2>1. Head(plan).blk = b
    BY <1>b DEF Erase
  <2> QED BY <2>1 DEF EraseStep
<1>5. (\A a \in Blocks \ {b} : MetaKept(a)) /\ flash'[b].header = Erased
  BY <1>1, <1>4, EraseWrite DEF Types
<1>6. ~ValidHeader(0)' /\ ~ValidHeader(1)'
  BY <1>1, <1>2, <1>5 DEF ValidHeader, MetaKept
<1>7. ActiveMetaBlock = None
  BY <1>2, NoBlock
<1>8. ActiveMetaBlock' = None
  BY <1>6 DEF ActiveMetaBlock
<1>9. Same
  BY <1>7, <1>8, SameNone
<1>10. DataOK'
  <2>1. /\ \A x \in Blocks \ {b} : flash'[x] = flash[x]
        /\ \A k \in DataCells(b) : k \in DOMAIN flash'[b].data /\ flash'[b].data[k] = Erased
    BY <1>1, <1>4, EraseData DEF Types
  <2> SUFFICES ASSUME NEW x \in Blocks, NEW k \in DataCells(x)
               PROVE  k \in DOMAIN flash'[x].data /\ flash'[x].data[k] \in CellVals
    BY DEF DataOK
  <2>2. CASE x = b
    BY <2>1, <2>2 DEF CellVals
  <2>3. CASE x # b
    BY <1>1, <2>1, <2>3 DEF DataOK
  <2> QED BY <2>2, <2>3
<1>11. HeadersOK'
  BY <1>1, <1>2, <1>4, <1>6 DEF HeadersOK
<1>12. PlanOK'
  <2>1. \A op \in Ops(plan') : ~IsDataWrite(op)
    BY <1>3, <1>4 DEF ResetOps
  <2> QED BY <1>2, <1>4, <2>1 DEF PlanOK, OneWrite, IsDataWrite
<1>13. NewFiles' = NoFiles
  <2>1. (ResetOps(Ops(plan)) => NewFiles = NoFiles)'
    BY FreshFiles, PTL
  <2>2. ResetOps(Ops(plan))'
    BY <1>3, <1>4 DEF ResetOps, IsDataWrite, NoFiles
  <2> QED BY <2>1, <2>2 DEF NoFiles
<1>14. CallOK'
  BY <1>1, <1>2, <1>4, <1>13 DEF CallOK, NoFiles
<1> QED BY <1>9, <1>10, <1>11, <1>12, <1>14 DEF Layer

LEMMA OnlyAlways ==
    active \in {0, 1} /\ ValidHeader(active) /\ ~ValidHeader(scratch) => ActiveMetaBlock = active
BY OnlyActive

LEMMA ErasedCells ==
    ASSUME FlashOK(flash), DataOK, NEW b \in Blocks, flash' = [flash EXCEPT ![b] = ErasedBlock(b)]
    PROVE  DataOK' /\ \A x \in Blocks : x # b => Data'[x] = Data[x]
<1>1. /\ \A x \in Blocks \ {b} : flash'[x] = flash[x]
      /\ \A k \in DataCells(b) : k \in DOMAIN flash'[b].data /\ flash'[b].data[k] = Erased
  BY EraseData
<1>2. ASSUME NEW x \in Blocks, NEW k \in DataCells(x)
      PROVE  k \in DOMAIN flash'[x].data /\ flash'[x].data[k] \in CellVals
  <2>2. CASE x = b
    BY <1>1, <1>2, <2>2 DEF CellVals
  <2>3. CASE x # b
    BY <1>1, <1>2, <2>3 DEF DataOK
  <2> QED BY <2>2, <2>3
<1>3. DataOK'
  BY <1>2 DEF DataOK
<1>4. \A x \in Blocks \ {b} : Data'[x] = Data[x]
  <2>1. \A x \in Blocks \ {b} : \A k \in DataCells(x) : flash'[x].data[k] = flash[x].data[k]
    BY <1>1
  <2> QED BY <2>1, DataKept
<1> QED BY <1>3, <1>4

(* Erasing the old blocks changes no file.                                 *)
LEMMA ErasingStep ==
    ASSUME Fine, Layer, Erasing, EraseStep
    PROVE  Layer' /\ Same
<1>1. Types /\ Valid /\ HeadersOK /\ DataOK /\ PlanOK /\ CallOK /\ active \in {0, 1} /\ FlashOK(flash)
  BY DEF Fine, Layer, Types
<1>op. PICK op : op = Head(plan)
  OBVIOUS
<1>2. /\ plan # << >> /\ op.do = "erase" /\ flash' = [flash EXCEPT ![op.blk] = ErasedBlock(op.blk)]
      /\ plan' = Tail(plan) /\ UNCHANGED <<active, count, sdb, mode, call, replaced>>
  BY <1>op DEF EraseStep, NextOp
<1>3. /\ mode \in {"idle", "boot", "busy", "recover"} /\ ValidHeader(active)
      /\ sdb = flash[active].header.sdb
      /\ IsSeq(plan) /\ \A o \in Ops(plan) : o.do = "erase" /\ o.blk \in Blocks \ {active}
  BY DEF Erasing, Current
<1>4. Ops(plan) = {op} \cup Ops(plan')
  BY <1>2, <1>3, <1>op, TailIs
<1>b. PICK b \in Blocks : b = op.blk /\ b # active
  BY <1>3, <1>4
<1>5. Fine'
  BY <1>1, EraseAfter
<1>6. ~Committing /\ ~Committing' /\ ~Refused /\ ~Refused' /\ NewScratch = sdb /\ NewScratch' = sdb
  BY <1>2, <1>3, <1>4 DEF Committing, Refused, NewScratch
<1>7. Spare(b, scratch, sdb)
  BY <1>1, <1>2, <1>3, <1>4, <1>6, <1>b DEF PlanOK, DataOpOK
<1>8. DataOK' /\ \A x \in Blocks : x # b => Data'[x] = Data[x]
  BY <1>1, <1>2, <1>b, ErasedCells
<1>9. (\A a \in Blocks \ {b} : MetaKept(a)) /\ flash'[b].header = Erased
  BY <1>1, <1>2, <1>b, EraseWrite
<1>10. scratch' = scratch /\ scratch \in {0, 1} /\ active \in Blocks /\ scratch # active
       /\ {0, 1} \subseteq Blocks /\ \A a \in {0, 1} : a = active \/ a = scratch
  BY <1>1, <1>2, ScratchIs, Numbers DEF scratch
<1>11. MetaKept(active)
  BY <1>9, <1>10, <1>b
<1>12. ActiveMetaBlock = active
  BY <1>1, <1>3 DEF HeadersOK
<1>13. ValidHeader(active)'
  BY <1>2, <1>3, <1>11 DEF ValidHeader, MetaKept
<1>14. ActiveMetaBlock' = active
  <2>1. CASE b = scratch
    <3>1. ~ValidHeader(scratch)'
      BY <1>9, <1>10, <2>1 DEF ValidHeader
    <3>2. (active \in {0, 1} /\ ValidHeader(active) /\ ~ValidHeader(scratch) => ActiveMetaBlock = active)'
      BY OnlyAlways, PTL
    <3> QED BY <1>1, <1>2, <1>13, <3>1, <3>2
  <2>2. CASE b # scratch
    <3>1. flash'[0].header = flash[0].header /\ flash'[1].header = flash[1].header
      BY <1>9, <1>10, <1>b, <2>2 DEF MetaKept
    <3> QED BY <1>12, <3>1, ChosenStays
  <2> QED BY <2>1, <2>2
<1>15. HeadersOK'
  <2>1. \A a \in {0, 1} : ValidHeader(a)' => flash'[a].header = flash[a].header
    BY <1>9, <1>10 DEF ValidHeader, MetaKept
  <2> QED BY <1>1, <1>2, <1>13, <1>14, <2>1, HeadersStay
<1>16. PlanOK'
  <2>1. flash'[active].header.sdb = flash[active].header.sdb
    BY <1>11 DEF MetaKept
  <2> QED BY <1>1, <1>2, <1>4, <1>6, <2>1, PlanStays
<1>17. Same
  <2>1. Types' /\ Valid'
    BY <1>5 DEF Fine
  <2>2. \A x \in Blocks : ~Spare(x, scratch, sdb) => Data'[x] = Data[x]
    BY <1>7, <1>8
  <2> QED BY <1>1, <1>3, <1>11, <1>12, <1>14, <2>1, <2>2, LiveKept
<1>18. CallOK'
  BY <1>1, <1>2, <1>3, <1>6, <1>17, CallStays
<1> QED BY <1>8, <1>15, <1>16, <1>17, <1>18 DEF Layer

(* A request that will fail has marked a file in the scratch block only.   *)
LEMMA FailingStep ==
    ASSUME Fine, Layer, Failing, WriteStep
    PROVE  Layer' /\ Same
<1>1. Types /\ Valid /\ HeadersOK /\ DataOK /\ PlanOK /\ CallOK /\ active \in {0, 1} /\ FlashOK(flash)
  BY DEF Fine, Layer, Types
<1>op. PICK op : op = Head(plan)
  OBVIOUS
<1>2. /\ plan # << >> /\ op.do = "write" /\ plan' = Tail(plan)
      /\ flash' = [flash EXCEPT ![op.blk][op.part] = Over(op.cells, @)]
      /\ UNCHANGED <<active, count, sdb, mode, call, replaced>>
  BY <1>op DEF WriteStep, NextOp
<1>3. mode = "busy" /\ ValidHeader(active) /\ sdb = flash[active].header.sdb
  BY DEF Failing, Current
<1>4. PICK pre : /\ IsSeq(pre) /\ plan = Cat(pre, <<Fail>>)
                 /\ \A o \in Ops(pre) : o.do = "write" /\ o.part = "fmeta" /\ o.blk = scratch
  BY DEF Failing
<1>5. IsSeq(<<Fail>>) /\ Ops(<<Fail>>) = {Fail} /\ Fail.do = "fail"
  BY Literals DEF Fail
<1>6. IsSeq(plan) /\ Ops(plan) = Ops(pre) \cup {Fail}
  BY <1>4, <1>5, CatOps
<1>7. Ops(plan) = {op} \cup Ops(plan')
  BY <1>2, <1>6, <1>op, TailIs
<1>8. op.part = "fmeta" /\ op.blk = scratch
  BY <1>2, <1>4, <1>5, <1>6, <1>7
<1>9. ~Committing /\ ~Committing' /\ Refused /\ Refused' /\ NewScratch = sdb /\ NewScratch' = sdb
  BY <1>2, <1>4, <1>5, <1>6, <1>7 DEF Committing, Refused, NewScratch
<1>10. scratch \in Blocks /\ active \in Blocks /\ scratch # active /\ {0, 1} \subseteq Blocks
  BY <1>1, ScratchIs, Numbers
<1>11. Fine'
  BY <1>1, WriteInFailing
<1>12. CellsWritten(op)
  BY <1>1, <1>2, <1>8, <1>10, WriteData
<1>13. \A b \in Blocks : /\ flash'[b].header = flash[b].header
                         /\ b # op.blk \/ op.part = "data" => MetaKept(b)
  BY <1>1, <1>2, <1>8, <1>10, WriteKeeps
<1>14. \A x, k : ~WritesData(op, x, k)
  BY <1>8 DEF WritesData
<1>15. DataOK'
  BY <1>1, <1>12, <1>14 DEF DataOK, CellsWritten
<1>16. \A x \in Blocks : Data'[x] = Data[x]
  <2>1. \A x \in Blocks : \A k \in DataCells(x) : flash'[x].data[k] = flash[x].data[k]
    BY <1>12, <1>14 DEF CellsWritten
  <2>2. PICK S : S = Blocks
    OBVIOUS
  <2> QED BY <2>1, <2>2, DataKept
<1>17. ActiveMetaBlock = active
  BY <1>1, <1>3 DEF HeadersOK
<1>18. ActiveMetaBlock' = active
  BY <1>10, <1>13, <1>17, ChosenStays
<1>19. MetaKept(active)
  BY <1>8, <1>10, <1>13
<1>20. HeadersOK'
  <2>1. \A a \in {0, 1} : ValidHeader(a)' => flash'[a].header = flash[a].header
    BY <1>10, <1>13
  <2>2. ValidHeader(active)'
    BY <1>2, <1>3, <1>19 DEF ValidHeader, MetaKept
  <2> QED BY <1>1, <1>2, <1>18, <2>1, <2>2, HeadersStay
<1>21. PlanOK'
  <2>1. flash'[active].header.sdb = flash[active].header.sdb
    BY <1>19 DEF MetaKept
  <2> QED BY <1>1, <1>2, <1>7, <1>9, <2>1, PlanStays
<1>22. Same
  <2>1. Types' /\ Valid'
    BY <1>11 DEF Fine
  <2> QED BY <1>1, <1>3, <1>16, <1>17, <1>18, <1>19, <2>1, LiveKept
<1>23. CallOK'
  BY <1>1, <1>2, <1>3, <1>9, <1>22, CallStays
<1> QED BY <1>15, <1>20, <1>21, <1>22, <1>23 DEF Layer

-----------------------------------------------------------------------------
(* The commit: what was planned is what a restart finds.                   *)

(* The committed block is the one a restart takes.                         *)
CommittedChosen ==
    \A a \in {0, 1} : \A n \in Counts :
        /\ flash[a].header # Erased /\ flash[a].header.count = NextCount(n)
        /\ flash[Other(a)].header # Erased => flash[Other(a)].header.count = n
        => ActiveMetaBlock = a

LEMMA CommittedIsChosen == CommittedChosen
<1> SUFFICES ASSUME NEW a \in {0, 1}, NEW n \in Counts,
                    flash[a].header # Erased, flash[a].header.count = NextCount(n),
                    flash[Other(a)].header # Erased => flash[Other(a)].header.count = n
             PROVE  ActiveMetaBlock = a
  BY DEF CommittedChosen
<1>1. LatestMetaBlock(n, NextCount(n)) = 1 /\ LatestMetaBlock(NextCount(n), n) = 0
  BY LatestIsLast
<1>2. CASE a = 0
  <2>1. Other(a) = 1
    BY <1>2 DEF Other
  <2> QED BY <1>1, <1>2, <2>1 DEF ActiveMetaBlock, ValidHeader
<1>3. CASE a = 1
  <2>1. Other(a) = 0
    BY <1>3 DEF Other
  <2> QED BY <1>1, <1>3, <2>1 DEF ActiveMetaBlock, ValidHeader
<1> QED BY <1>2, <1>3

StoredAsRead ==
    \A a \in {0, 1} : \A g : Types /\ Valid /\ ActiveMetaBlock = a /\ ValidHeader(a)
        => StoredFile(g) = FileIn(flash[a].fmeta, flash[a].bmeta, Data, g)

LEMMA StoredHere == StoredAsRead
BY StoredAlways DEF StoredAsRead

(* What a commit makes of the flash.                                       *)
CommitDone ==
    /\ DataOK' /\ HeadersOK' /\ active' = scratch /\ scratch' = active
    /\ ActiveMetaBlock' = scratch /\ sdb = NewScratch /\ flash'[scratch].header.sdb = sdb
    /\ Ops(plan) = {Commit} \cup Ops(plan') /\ \A op \in Ops(plan') : op.do = "erase"
    /\ mode = "wipe" => plan' = << >>
    /\ \A f : StoredFile(f)' = NewFile(f)

(* its_flash_fs_mblock_meta_update_finalize makes the planned files the    *)
(* stored ones.                                                            *)
LEMMA CommitOutcome ==
    ASSUME Fine, HeadersOK, DataOK, Updating, CommitStep
    PROVE  CommitDone
<1>1. Types /\ Valid /\ active \in {0, 1} /\ count \in Nat /\ sdb \in Nat /\ FlashOK(flash)
  BY DEF Fine, Types
<1>2. PICK pre, post, N, G, z :
          Leads(plan, pre, post, N, G, z) /\ EndsWith(post) /\ Pending(G)
  BY DEF Updating
<1>3. pre = << >>
  <2>1. CASE pre # << >>
    <3>1. Head(plan) = Head(pre) /\ OpOK(Head(pre), N, G, z)
      BY <1>2, <2>1, LeadsBy
    <3>2. Head(plan).do = "commit"
      BY DEF CommitStep, NextOp
    <3> QED BY <3>1, <3>2 DEF OpOK
  <2> QED BY <2>1
<1>4. Leads(plan, << >>, post, N, G, z)
  BY <1>2, <1>3
<1>5. Tail(plan) = post /\ IsSeq(post)
  BY <1>4, LeadsBy DEF Leads
<1>h. PICK h : h = [count |-> NextCount(count), sdb |-> sdb]
  OBVIOUS
<1>6. /\ flash' = [flash EXCEPT ![scratch].header = h]
      /\ count' = NextCount(count) /\ active' = scratch
      /\ plan' = post /\ UNCHANGED <<sdb, mode, replaced>>
  BY <1>5, <1>h DEF CommitStep
<1>7. scratch \in {0, 1} /\ scratch \in Blocks /\ active \in Blocks /\ scratch # active
      /\ Other(scratch) = active /\ \A b \in {0, 1} : b = active \/ b = scratch
  BY <1>1, ScratchIs
<1>8. scratch' = active
  BY <1>6, <1>7 DEF scratch
<1>9. h \in Header /\ h.count = NextCount(count) /\ h.sdb = sdb /\ h # Erased
  BY <1>1, <1>h, NextCountIs, HeaderNotErased DEF Header
<1>10. /\ MetaKept(active) /\ flash'[scratch].header = h
       /\ flash'[scratch].bmeta = flash[scratch].bmeta
       /\ flash'[scratch].fmeta = flash[scratch].fmeta
  BY <1>1, <1>6, <1>7, <1>9, HeaderWrite
<1>11. PreOK({}, N, G, z) /\ BlocksOK(N, scratch, z) /\ FilesOK(G) /\ LayoutOK(N, G)
  BY <1>4, Literals DEF Leads
<1>12. sdb = z /\ (\A l \in LBlocks : flash[scratch].bmeta[l] = N[l])
       /\ \A l \in Idx : flash[scratch].fmeta[l] = G[l]
  BY <1>11 DEF PreOK
<1>13. flash[scratch].bmeta \in BMetas /\ flash[scratch].fmeta \in FMetas
  BY <1>1, <1>7 DEF FlashOK, BlockOf
<1>14. flash[scratch].bmeta = N
  <2>1. N \in [LBlocks -> BlockMeta]
    BY <1>11 DEF BlocksOK
  <2> QED BY <1>12, <1>13, <2>1 DEF BMetas
<1>15. flash[scratch].fmeta = G
  <2>1. G \in [Idx -> FileMeta \cup {Free}]
    BY <1>11 DEF FilesOK
  <2> QED BY <1>12, <1>13, <2>1 DEF FMetas
<1>16. NewBlocks = N /\ NewFiles = G /\ NewScratch = z /\ Ops(plan) = Ops(<< >>) \cup {Commit} \cup Ops(post)
  BY <1>2, <1>4, NewIs
<1>17. Ops(plan) = {Commit} \cup Ops(plan') /\ \A op \in Ops(plan') : op.do = "erase"
  <2>1. Ops(<< >>) = {}
    BY Literals
  <2> QED BY <1>2, <1>6, <1>16, <2>1 DEF EndsWith
<1>18. mode = "wipe" => plan' = << >>
  BY <1>2, <1>6 DEF EndsWith
<1>19. count \in Counts /\ NextCount(count) \in Counts
  <2>1. mode # "off"
    BY DEF Updating
  <2> QED BY <2>1, NextCountValid DEF HeadersOK
<1>20. flash'[active].header # Erased => mode # "wipe" /\ flash'[active].header.count = count
  BY <1>10 DEF Updating, HeadersOK, MetaKept, ValidHeader
<1>21. ActiveMetaBlock' = scratch
  <2>1. CommittedChosen'
    BY CommittedIsChosen, PTL
  <2>2. flash'[scratch].header # Erased /\ flash'[scratch].header.count = NextCount(count)
    BY <1>9, <1>10
  <2> QED BY <1>7, <1>19, <1>20, <2>1, <2>2 DEF CommittedChosen, Counts, NextCount, Other
<1>22. HeadersOK'
  <2>1. \A b \in {0, 1} : ValidHeader(b)' => flash'[b].header.count \in Counts
    BY <1>7, <1>9, <1>10, <1>19, <1>20 DEF ValidHeader
  <2>2. count' \in Counts /\ flash'[active'].header.count = count' /\ ActiveMetaBlock' = active'
    BY <1>6, <1>9, <1>10, <1>19, <1>21
  <2> QED BY <2>1, <2>2 DEF HeadersOK, Counts
<1>23. \A x \in Blocks : flash'[x].data = flash[x].data
  BY <1>1, <1>6, <1>7, HeaderData
<1>24. DataOK'
  BY <1>23 DEF DataOK, CellVals, DataCells
<1>25. Data' = NewData
  <2>1. \A op \in Ops(plan) : \A x, k : ~WritesData(op, x, k)
    BY <1>17 DEF WritesData, Commit
  <2>2. NewData = Data
    BY <2>1 DEF NewData, Data
  <2>3. Data' = Data
    BY <1>23 DEF Data, DataCells
  <2> QED BY <2>2, <2>3
<1>26. Fine'
  BY <1>1, <1>2, <1>4, CommitUpdate
<1>27. ASSUME NEW f PROVE StoredFile(f)' = NewFile(f)
  <2>1. StoredAsRead'
    BY StoredHere, PTL
  <2>3. PICK a \in {0, 1} : a = scratch
    BY <1>7
  <2>4. ActiveMetaBlock' = a /\ ValidHeader(a)'
    BY <1>9, <1>10, <1>21, <2>3 DEF ValidHeader
  <2>5. StoredFile(f)' = FileIn(flash'[a].fmeta, flash'[a].bmeta, Data', f)
    BY <1>26, <2>1, <2>4 DEF StoredAsRead, Fine, FileIn, Found, ContentsIn
  <2> QED BY <1>10, <1>14, <1>15, <1>16, <1>25, <2>3, <2>5 DEF NewFile
<1> QED BY <1>6, <1>8, <1>9, <1>10, <1>12, <1>16, <1>17, <1>18, <1>21, <1>22, <1>24, <1>27
        DEF CommitDone

(* Only a block update has a commit.                                       *)
LEMMA CommitsOnlyUpdates ==
    ASSUME Fine, CommitStep
    PROVE  Updating
<1>1. Types /\ Phases /\ plan # << >> /\ Head(plan).do = "commit"
  BY DEF Fine, CommitStep, NextOp
<1>2. CASE Erasing
  <2>1. IsSeq(plan) /\ \A op \in Ops(plan) : op.do = "erase"
    BY <1>2 DEF Erasing
  <2>2. Head(plan) \in Ops(plan)
    BY <1>1, <2>1, TailIs
  <2> QED BY <1>1, <2>1, <2>2
<1>3. CASE Failing
  <2>1. PICK pre : /\ IsSeq(pre) /\ plan = Cat(pre, <<Fail>>)
                   /\ \A op \in Ops(pre) : op.do = "write"
    BY <1>3 DEF Failing
  <2>2. CASE pre = << >>
    <3>1. Head(plan) = Fail
      BY <2>1, <2>2, FailingBy
    <3> QED BY <1>1, <3>1 DEF Fail
  <2>3. CASE pre # << >>
    <3>1. Head(plan) = Head(pre) /\ Head(pre) \in Ops(pre)
      BY <2>1, <2>3, FailingBy
    <3> QED BY <1>1, <2>1, <3>1
  <2> QED BY <2>2, <2>3
<1>4. CASE Wiping
  BY <1>1, <1>4, WipeHead
<1> QED BY <1>1, <1>2, <1>3, <1>4 DEF Phases

(* The fields of a request that no step of it but the commit changes.      *)
SameRequest(c, d) ==
    /\ c.op = d.op /\ c.fid = d.fid
    /\ c.op = "set" => c.val = d.val /\ c.size = d.size /\ c.once = d.once /\ c.off = d.off

(* None is no request.                                                     *)
LEMMA NotNone ==
    ASSUME NEW c \in SetCalls \cup RemoveCalls
    PROVE  c # None /\ c.op \in {"set", "remove"} /\ (c.op = "set" <=> c \in SetCalls)
           /\ (c.op = "remove" <=> c \in RemoveCalls)
<1>1. None \notin SetCalls /\ None \notin RemoveCalls
  BY NoneAssumption DEF SetCalls, RemoveCalls, Done
<1> QED BY <1>1 DEF SetCalls, RemoveCalls

(* How far a request is after a commit.                                    *)
LEMMA DoneExactly ==
    ASSUME call \in SetCalls \cup RemoveCalls, call.op = "set" /\ call.done = "all" => Finished
    PROVE  /\ DoneAfterCommit \in SetCalls \cup RemoveCalls
           /\ SameRequest(DoneAfterCommit, call)
           /\ DoneAfterCommit.done = IF Finished THEN "all" ELSE "some"
<1>1. call # None
  BY NotNone
<1>2. CASE call.op = "set" /\ call.done = "all"
  <2>1. DoneAfterCommit = call
    BY <1>2 DEF DoneAfterCommit
  <2> QED BY <1>2, <2>1 DEF SameRequest
<1>3. CASE ~(call.op = "set" /\ call.done = "all")
  <2>d. PICK d : d = IF Finished THEN "all" ELSE "some"
    OBVIOUS
  <2>1. DoneAfterCommit = [call EXCEPT !.done = d] /\ d \in Done
    BY <1>1, <1>3, <2>d DEF DoneAfterCommit, Done
  <2>2. CASE call \in SetCalls
    BY <2>1, <2>2, <2>d DEF SetCalls, SameRequest
  <2>3. CASE call \in RemoveCalls
    BY <2>1, <2>3, <2>d DEF RemoveCalls, SameRequest
  <2> QED BY <2>2, <2>3
<1> QED BY <1>2, <1>3

(* What a commit does for the request.                                     *)
FilesAre(g, c) == \A f \in Fids : StoredFile(f)' = IF f = g THEN c ELSE StoredFile(f)
FilesStay == \A f \in Fids : StoredFile(f)' = StoredFile(f)

RequestGoesOn ==
    \/ call.op = "remove" /\ call.done = "nothing" /\ call'.done = "all" /\ FilesAre(call.fid, None)
    \/ call.op = "set" /\ call'.done = call.done /\ FilesStay
    \/ /\ call.op = "set" /\ call.done \in {"nothing", "some"} /\ call.off \in 0 .. call.size
       /\ call'.done = IF Finished THEN "all" ELSE "some"
       /\ FilesAre(call.fid, Prefix)
       /\ call.done = "some" => StoredFile(call.fid).len < call.off

CommitCall ==
    /\ mode # "busy" => call' = call /\ FilesStay
    /\ mode = "busy" => /\ call' \in SetCalls \cup RemoveCalls /\ SameRequest(call', call)
                        /\ RequestGoesOn

(* The commit of a block update of a request.                              *)
LEMMA RequestCommits ==
    ASSUME Fine, CallOK, Updating, CommitStep, CommitDone, mode = "busy"
    PROVE  CommitCall /\ Reached'
<1>1. call \in SetCalls \cup RemoveCalls /\ call' = DoneAfterCommit
  BY DEF Fine, Types, CommitStep
<1>2. Committing
  BY PhaseIs
<1>3. Wanted
  BY <1>2 DEF CallOK
<1>4. call.op \in {"set", "remove"}
  BY <1>1, NotNone
<1>5. call.op = "set" /\ call.done = "all" => Finished
  BY <1>3 DEF Wanted, DoneSoFar
<1>6. /\ call' \in SetCalls \cup RemoveCalls /\ SameRequest(call', call)
      /\ call'.done = IF Finished THEN "all" ELSE "some"
  BY <1>1, <1>5, DoneExactly
<1>7. \A f : StoredFile(f)' = NewFile(f)
  BY DEF CommitDone
<1>8. CASE call.op = "remove"
  <2>1. call.done = "nothing" /\ KeptBut(call.fid, None) /\ Finished
    BY <1>3, <1>8 DEF Wanted, Finished
  <2>2. FilesAre(call.fid, None)
    BY <1>7, <2>1 DEF FilesAre, KeptBut
  <2>3. Reached'
    BY <1>6, <1>8, <2>1 DEF Reached, SameRequest
  <2> QED BY <1>6, <1>8, <2>1, <2>2, <2>3 DEF CommitCall, RequestGoesOn
<1>9. CASE call.op = "set"
  <2>1. call'.op = "set" /\ call'.fid = call.fid /\ call'.off = call.off /\ call'.size = call.size
        /\ call'.val = call.val /\ call'.once = call.once
    BY <1>6, <1>9 DEF SameRequest
  <2>2. (Finished' <=> Finished) /\ Prefix' = Prefix
    BY <1>9, <2>1 DEF Finished, Prefix, Holding
  <2>3. DoneSoFar'
    BY <1>6, <2>2 DEF DoneSoFar
  <2>4. call.fid \in Fids
    BY <1>1 DEF SetCalls, RemoveCalls
  <2>5. CASE DoneSoFar /\ StoredFile(call.fid) = Prefix /\ Kept
    <3>1. FilesStay
      BY <1>7, <2>5 DEF FilesStay, Kept
    <3>2. StoredFile(call.fid)' = Prefix
      BY <2>1, <2>4, <2>5, <3>1 DEF FilesStay
    <3>3. Reached'
      BY <1>9, <2>1, <2>2, <2>3, <3>2 DEF Reached
    <3>4. call'.done = call.done
      BY <1>6, <2>5 DEF DoneSoFar
    <3> QED BY <1>6, <1>9, <3>1, <3>3, <3>4 DEF CommitCall, RequestGoesOn
  <2>6. CASE /\ call.done \in {"nothing", "some"} /\ KeptBut(call.fid, Prefix)
             /\ call.done = "some" => StoredFile(call.fid).len < call.off
    <3>1. FilesAre(call.fid, Prefix)
      BY <1>7, <2>6 DEF FilesAre, KeptBut
    <3>2. StoredFile(call.fid)' = Prefix
      BY <2>1, <2>4, <3>1 DEF FilesAre
    <3>3. Reached'
      BY <1>9, <2>1, <2>2, <2>3, <3>2 DEF Reached
    <3>4. call.off \in 0 .. call.size
      BY <1>9 DEF Updating, Pending, RoomKept
    <3> QED BY <1>6, <1>9, <2>6, <3>1, <3>3, <3>4 DEF CommitCall, RequestGoesOn
  <2> QED BY <1>3, <1>9, <2>5, <2>6 DEF Wanted
<1> QED BY <1>4, <1>8, <1>9

(* The commit keeps the invariant and changes the file of the request      *)
(* only.                                                                   *)
LEMMA CommitLayer ==
    ASSUME Fine, Layer, CommitStep
    PROVE  Layer' /\ CommitCall
<1>1. Types /\ HeadersOK /\ DataOK /\ PlanOK /\ CallOK /\ active \in {0, 1}
  BY DEF Fine, Layer, Types
<1>2. Updating
  BY CommitsOnlyUpdates
<1>3. CommitDone
  BY <1>1, <1>2, CommitOutcome
<1>4. Committing /\ mode \in {"busy", "recover", "wipe"} /\ plan # << >>
  BY <1>2, PhaseIs DEF Updating, CommitStep, NextOp
<1>5. UNCHANGED <<mode, replaced, sdb>> /\ call' = DoneAfterCommit
  BY DEF CommitStep
<1>6. ~Committing' /\ ~Refused' /\ NewScratch' = sdb /\ sdb = NewScratch
  BY <1>3, <1>5 DEF CommitDone, Committing, Refused, NewScratch
<1>7. PlanOK'
  <2>1. \A op \in Ops(plan') : op \in Ops(plan) /\ op.do = "erase" /\ ~IsDataWrite(op)
    BY <1>3 DEF CommitDone, IsDataWrite
  <2>2. ASSUME mode \notin {"off", "wipe"}, NEW op \in Ops(plan') PROVE DataOpOK(op)'
    <3>1. DataOpOK(op)
      BY <1>1, <2>1, <2>2 DEF PlanOK
    <3>2. Spare(op.blk, active, NewScratch)
      BY <1>4, <2>1, <3>1 DEF DataOpOK
    <3>3. scratch' = active
      BY <1>3 DEF CommitDone
    <3> QED BY <1>6, <2>1, <3>2, <3>3 DEF DataOpOK, Spare
  <2> QED BY <1>5, <2>1, <2>2 DEF PlanOK, OneWrite
<1>8. mode # "busy" => call' = call /\ call = None
  BY <1>1, <1>5 DEF CallOK, DoneAfterCommit
<1>9. CASE mode = "busy"
  <2>1. CommitCall /\ Reached'
    BY <1>1, <1>2, <1>3, <1>9, RequestCommits
  <2>2. SameRequest(call', call)
    BY <1>9, <2>1 DEF CommitCall
  <2>3. CallOK'
    BY <1>1, <1>5, <1>6, <1>9, <2>1, <2>2 DEF CallOK, SameRequest
  <2> QED BY <1>3, <1>7, <2>1, <2>3 DEF Layer, CommitDone
<1>10. CASE mode = "recover"
  <2>1. FilesStay
    BY <1>1, <1>3, <1>4, <1>10 DEF CallOK, Kept, FilesStay, CommitDone
  <2>2. CallOK'
    BY <1>5, <1>6, <1>8, <1>10 DEF CallOK
  <2> QED BY <1>3, <1>7, <1>8, <1>10, <2>1, <2>2 DEF Layer, CommitDone, CommitCall
<1>11. CASE mode = "wipe"
  <2>1. ~ValidHeader(active) /\ ~ValidHeader(scratch)
    BY <1>2, <1>11 DEF Updating
  <2>2. \A b \in {0, 1} : b = active \/ b = scratch
    BY <1>1, ScratchIs
  <2>3. ActiveMetaBlock = None
    BY <2>1, <2>2, NoBlock
  <2>4. NewFiles = NoFiles
    BY <1>1, <1>4, <1>11 DEF CallOK, NoFiles
  <2>5. \A f : NewFile(f) = None /\ StoredFile(f) = None
    BY <2>3, <2>4, NoFilesIn, NoneStored DEF NewFile
  <2>6. FilesStay
    BY <1>3, <2>5 DEF FilesStay, CommitDone
  <2>7. CallOK'
    BY <1>3, <1>5, <1>8, <1>11 DEF CallOK, CommitDone
  <2> QED BY <1>3, <1>7, <1>8, <1>11, <2>6, <2>7 DEF Layer, CommitDone, CommitCall
<1> QED BY <1>4, <1>9, <1>10, <1>11

-----------------------------------------------------------------------------
(* The other steps.                                                        *)

(* A write, an erase or an exchange of the scratch block changes no file.  *)
LEMMA FlashLayer ==
    ASSUME Fine, Layer, WriteStep \/ ScratchStep \/ EraseStep
    PROVE  Layer' /\ Same
<1>1. Types /\ Phases /\ plan # << >>
  BY DEF Fine, WriteStep, ScratchStep, EraseStep, NextOp
<1>do. PICK do : do = Head(plan).do
  OBVIOUS
<1>2. /\ WriteStep => do = "write"
      /\ ScratchStep => do = "scratch"
      /\ EraseStep => do = "erase"
  BY <1>do DEF WriteStep, ScratchStep, EraseStep, NextOp
<1>3. CASE Erasing
  <2>1. IsSeq(plan) /\ \A op \in Ops(plan) : op.do = "erase"
    BY <1>3 DEF Erasing
  <2>2. Head(plan) \in Ops(plan)
    BY <1>1, <2>1, TailIs
  <2>3. EraseStep
    BY <1>2, <1>do, <2>1, <2>2
  <2> QED BY <1>3, <2>3, ErasingStep
<1>4. CASE Updating
  BY <1>4, UpdatingStep
<1>5. CASE Failing
  <2>1. PICK pre : /\ IsSeq(pre) /\ plan = Cat(pre, <<Fail>>)
                   /\ \A op \in Ops(pre) : op.do = "write"
    BY <1>5 DEF Failing
  <2>2. CASE pre = << >>
    <3>1. Head(plan) = Fail
      BY <2>1, <2>2, FailingBy
    <3> QED BY <1>2, <1>do, <3>1 DEF Fail
  <2>3. CASE pre # << >>
    <3>1. Head(plan) = Head(pre) /\ Head(pre) \in Ops(pre)
      BY <2>1, <2>3, FailingBy
    <3>2. WriteStep
      BY <1>2, <1>do, <2>1, <3>1
    <3> QED BY <1>5, <3>2, FailingStep
  <2> QED BY <2>2, <2>3
<1>6. CASE Wiping
  <2>1. EraseStep
    BY <1>1, <1>2, <1>6, <1>do, WipeHead
  <2> QED BY <1>6, <2>1, WipingStep
<1> QED BY <1>1, <1>3, <1>4, <1>5, <1>6 DEF Phases

(* The steps that leave the flash alone.                                   *)
CountsOK == \A b \in {0, 1} : ValidHeader(b) => flash[b].header.count \in Counts

(* A step without a flash operation.                                       *)
LEMMA QuietFlash ==
    ASSUME Layer, UNCHANGED flash
    PROVE  Same /\ DataOK' /\ CountsOK' /\ ActiveMetaBlock' = ActiveMetaBlock
<1>1. Same /\ ActiveMetaBlock' = ActiveMetaBlock
  BY SameFlash
<1>2. DataOK'
  BY DEF Layer, DataOK, DataCells, CellVals
<1>3. CountsOK'
  BY DEF Layer, HeadersOK, CountsOK, ValidHeader, Counts
<1> QED BY <1>1, <1>2, <1>3

LEMMA NothingPlanned ==
    ASSUME plan' = << >>
    PROVE  PlanOK' /\ ~Committing' /\ ~Refused'
<1>1. Ops(<< >>) = {}
  BY Literals
<1> QED BY <1>1 DEF PlanOK, OneWrite, Committing, Refused

(* its_flash_fs_prepare: the block a restart takes, or a reset.            *)
LEMMA PrepareLayer ==
    ASSUME Fine, Layer, Prepare
    PROVE  Layer' /\ Same
<1>1. Types /\ Valid /\ mode = "off" /\ UNCHANGED <<flash, call, replaced>> /\ call = None
  BY DEF Fine, Prepare, Layer, CallOK
<1>2. Same /\ DataOK' /\ CountsOK' /\ ActiveMetaBlock' = ActiveMetaBlock
  BY <1>1, QuietFlash
<1>b. PICK b : b = ActiveMetaBlock
  OBVIOUS
<1>3. CASE b # None
  <2>1. b \in {0, 1} /\ ValidHeader(b)
    BY <1>b, <1>3, Numbers DEF ActiveMetaBlock, LatestMetaBlock
  <2>2. /\ active' = b /\ count' = flash[b].header.count /\ sdb' = flash[b].header.sdb
        /\ plan' = EraseScratch(b) /\ mode' = "boot"
    BY <1>b, <1>3 DEF Prepare
  <2>z. PICK z : z = flash[b].header.sdb
    OBVIOUS
  <2>3. HeadersOK'
    <3>1. flash[b].header.count \in Counts
      BY <2>1 DEF Layer, HeadersOK
    <3> QED BY <1>1, <1>2, <1>b, <2>2, <3>1 DEF HeadersOK, CountsOK, Counts
  <2>e. PICK e : e = IF NumBlocks > 2 THEN <<Erase(z)>> ELSE << >>
    OBVIOUS
  <2>4. IsSeq(e) /\ Ops(e) = IF NumBlocks > 2 THEN {Erase(z)} ELSE {}
    BY <2>e, Literals
  <2>5. plan' = Cat(<<Erase(Other(b))>>, e)
    BY <2>2, <2>z, <2>e DEF EraseScratch, Cat
  <2>6. Ops(plan') = {Erase(Other(b))} \cup Ops(e)
    BY <2>4, <2>5, ConsIs
  <2>7. /\ Erase(Other(b)).do = "erase" /\ Erase(Other(b)).blk = Other(b)
        /\ Erase(z).do = "erase" /\ Erase(z).blk = z
    BY DEF Erase
  <2>8. scratch' = Other(b)
    BY <2>2 DEF scratch, Other
  <2>9. \A op \in Ops(plan') : op.do = "erase" /\ Spare(op.blk, Other(b), z)
    BY <2>4, <2>6, <2>7 DEF Spare
  <2>10. ~Committing' /\ ~Refused' /\ NewScratch' = z
    BY <2>2, <2>9, <2>z DEF Committing, Refused, NewScratch
  <2>11. \A op \in Ops(plan') : DataOpOK(op)' /\ ~IsDataWrite(op)
    BY <2>8, <2>9, <2>10 DEF DataOpOK, IsDataWrite, Spare
  <2>12. PlanOK'
    BY <2>2, <2>11 DEF PlanOK, OneWrite, IsDataWrite
  <2>13. CallOK'
    BY <1>1, <2>2 DEF CallOK
  <2> QED BY <1>2, <2>3, <2>12, <2>13 DEF Layer
<1>4. CASE b = None
  <2>1. /\ active' = 0 /\ count' = (IF EraseVal = 0 THEN 1 ELSE 0)
        /\ plan' = ResetMetaBlock /\ mode' = "wipe"
    BY <1>b, <1>4 DEF Prepare
  <2>2. count' \in Counts
    BY <2>1, ConfigAssumption DEF Counts
  <2>3. HeadersOK'
    BY <1>2, <2>1, <2>2 DEF HeadersOK, CountsOK, Counts
  <2>4. ResetOps(Ops(plan'))
    BY <2>1, ResetOpsIs
  <2>5. NewFiles' = NoFiles
    <3>1. (ResetOps(Ops(plan)) => NewFiles = NoFiles)'
      BY FreshFiles, PTL
    <3>2. ResetOps(Ops(plan))'
      BY <2>4 DEF ResetOps, IsDataWrite, NoFiles
    <3> QED BY <3>1, <3>2 DEF NoFiles
  <2>6. PlanOK'
    BY <2>1, <2>4 DEF PlanOK, OneWrite, IsDataWrite, ResetOps
  <2>7. CallOK'
    BY <1>1, <2>1, <2>5 DEF CallOK, NoFiles
  <2> QED BY <1>2, <2>3, <2>6, <2>7 DEF Layer
<1> QED BY <1>3, <1>4

(* A file marked for deletion is deleted before the first request.         *)
LEMMA PreparedLayer ==
    ASSUME Fine, Layer, Prepared
    PROVE  Layer' /\ Same
<1>1. Types /\ Valid /\ Phases /\ plan = << >> /\ HeadersOK /\ DataOK /\ CallOK
      /\ UNCHANGED <<flash, active, count, sdb, call, replaced>>
  BY DEF Fine, Prepared, Layer
<1>2. Same /\ DataOK' /\ CountsOK' /\ ActiveMetaBlock' = ActiveMetaBlock
  BY <1>1, QuietFlash
<1>3. CASE mode = "wipe" /\ mode' = "off" /\ UNCHANGED plan
  <2>1. PlanOK' /\ ~Committing' /\ ~Refused'
    BY <1>1, <1>3, NothingPlanned
  <2>2. HeadersOK' /\ CallOK'
    BY <1>1, <1>2, <1>3 DEF HeadersOK, CallOK, CountsOK, Counts
  <2> QED BY <1>2, <2>1, <2>2 DEF Layer
<1>4. CASE mode = "boot" /\ DeletedIdx # None /\ plan' = DeleteFile(DeletedIdx) /\ mode' = "recover"
  <2>idx. PICK idx : idx = DeletedIdx
    OBVIOUS
  <2>1. idx \in Idx /\ Used(idx) /\ file(idx).del
    BY <1>4, <2>idx, DeletedIdxIs
  <2>2. Current
    BY <1>1, <1>4, EmptyPlan
  <2>3. HeadersOK' /\ ActiveMetaBlock = active
    BY <1>1, <1>2, <1>4 DEF HeadersOK, CountsOK, Counts
  <2>4. Fine'
    BY PreparedFine
  <2>5. /\ PlanOK' /\ Committing' /\ ~Refused'
        /\ \A f : NewFile(f)' = IF file(idx).id = f /\ ~file(idx).del THEN None ELSE StoredFile(f)
    BY <1>1, <1>4, <2>1, <2>2, <2>3, <2>4, <2>idx, DeleteOutcome
  <2>6. Kept'
    BY <1>2, <2>1, <2>5 DEF Kept, Same
  <2>7. CallOK'
    BY <1>1, <1>4, <2>6 DEF CallOK
  <2> QED BY <1>2, <2>3, <2>5, <2>7 DEF Layer
<1>5. CASE /\ mode = "recover" \/ (mode = "boot" /\ DeletedIdx = None)
           /\ mode' = "idle" /\ UNCHANGED plan
  <2>1. PlanOK' /\ ~Committing' /\ ~Refused'
    BY <1>1, <1>5, NothingPlanned
  <2>2. HeadersOK' /\ CallOK'
    BY <1>1, <1>2, <1>5 DEF HeadersOK, CallOK, CountsOK, Counts
  <2> QED BY <1>2, <2>1, <2>2 DEF Layer
<1> QED BY <1>3, <1>4, <1>5 DEF Prepared

(* A request begins, goes on or ends.                                      *)
LEMMA BetweenLayer ==
    ASSUME Layer, UNCHANGED <<flash, active, count>>, mode \in {"idle", "busy"}, mode' \in {"idle", "busy"}
    PROVE  HeadersOK' /\ DataOK' /\ Same /\ ActiveMetaBlock = active
<1>1. Same /\ DataOK' /\ CountsOK' /\ ActiveMetaBlock' = ActiveMetaBlock
  BY QuietFlash
<1>2. count \in Counts /\ flash[active].header.count = count /\ ActiveMetaBlock = active
  BY DEF Layer, HeadersOK
<1>3. HeadersOK'
  BY <1>1, <1>2 DEF HeadersOK, CountsOK, Counts
<1> QED BY <1>1, <1>2, <1>3

(* A write of the file system starts.                                      *)
ChunkReady(c) ==
    /\ c \in SetCalls /\ c.off \in 0 .. c.size /\ (c.off = 0 \/ c.off # c.size)
    /\ c.off = 0 => c.done = "nothing"
    /\ c.off > 0 => /\ \E i \in Idx : Used(i) /\ file(i).id = c.fid /\ file(i).max = c.size
                    /\ StoredFile(c.fid) = Holding(c.val, c.off, c.once) /\ c.done = "some"

LEMMA ChunkLayer ==
    ASSUME Fine, Layer, mode \in {"idle", "busy"}, Current, Clean(flash[active].fmeta),
           NEW c, ChunkReady(c), c \in SetCalls, Start(c), UNCHANGED <<flash, active, count, sdb>>,
           mode' = "busy", Fine'
    PROVE  Layer' /\ Same
<1>1. HeadersOK' /\ DataOK' /\ Same /\ ActiveMetaBlock = active
  BY BetweenLayer
<1>2. Types /\ Valid /\ DataOK
  BY DEF Fine, Layer
<1>3. /\ c.off \in 0 .. c.size /\ (c.off = 0 \/ c.off # c.size)
      /\ c.off > 0 => /\ \E i \in Idx : Used(i) /\ file(i).id = c.fid /\ file(i).max = c.size
                      /\ StoredFile(c.fid) = Holding(c.val, c.off, c.once)
  BY DEF ChunkReady
<1>4. ChunkStarts(c) \/ ChunkRefused(c)
  BY <1>1, <1>2, <1>3, ChunkOutcome
<1>n. PICK n : n = ChunkSize(c)
  OBVIOUS
<1>5. c.size \in Int /\ c.off \in Int /\ c.op = "set" /\ c.off >= 0 /\ c.off <= c.size
  BY <1>3 DEF SetCalls
<1>6. n \in Int /\ n >= 0 /\ c.off + n <= c.size /\ (n = 0 <=> c.off = c.size)
  BY <1>5, <1>n, ChunkSizeIs, ChunkEmpty
<1>7. call' = [c EXCEPT !.off = c.off + n]
  BY <1>n DEF Start
<1>8. /\ call'.op = "set" /\ call'.fid = c.fid /\ call'.val = c.val /\ call'.size = c.size
      /\ call'.once = c.once /\ call'.done = c.done /\ call'.off = c.off + n
  BY <1>5, <1>7 DEF SetCalls
<1>9. call'.size \in Nat /\ (call'.off = call'.size \/ call'.off > 0)
  BY <1>5, <1>6, <1>8
<1>10. Prefix' = Holding(c.val, c.off + n, c.once)
  BY <1>8 DEF Prefix, Holding
<1>11. CASE ChunkStarts(c)
  <2>1. /\ PlanOK' /\ Committing' /\ ~Refused'
        /\ \A f : NewFile(f)' = IF f = c.fid THEN Holding(c.val, c.off + n, c.once) ELSE StoredFile(f)
    BY <1>11, <1>n DEF ChunkStarts, WillHold
  <2>2. KeptBut(call.fid, Prefix)'
    BY <1>1, <1>8, <1>10, <2>1 DEF KeptBut, Same
  <2>3. call'.done \in {"nothing", "some"}
    BY <1>5, <1>8 DEF ChunkReady
  <2>4. call'.done = "some" => StoredFile(call.fid)'.len < call'.off
    <3> SUFFICES ASSUME call'.done = "some" PROVE StoredFile(call.fid)'.len < call'.off
      OBVIOUS
    <3>1. c.off > 0
      BY <1>5, <1>8 DEF ChunkReady
    <3>2. StoredFile(c.fid)' = Holding(c.val, c.off, c.once)
      BY <1>1, <1>3, <3>1 DEF Same
    <3>3. StoredFile(call.fid)' = StoredFile(c.fid)'
      BY <1>8 DEF StoredFile
    <3>4. Holding(c.val, c.off, c.once).len = c.off
      BY DEF Holding
    <3>5. n > 0
      BY <1>3, <1>6, <3>1
    <3> QED BY <1>5, <1>6, <1>8, <3>2, <3>3, <3>4, <3>5
  <2>5. Wanted'
    BY <1>8, <2>2, <2>3, <2>4 DEF Wanted
  <2>6. CallOK'
    BY <1>8, <1>9, <2>1, <2>5 DEF CallOK
  <2> QED BY <1>1, <2>1, <2>6 DEF Layer
<1>12. CASE ChunkRefused(c)
  <2>1. c.off = 0 /\ PlanOK' /\ ~Committing' /\ Refused'
    BY <1>12 DEF ChunkRefused
  <2>2. call'.done = "nothing"
    BY <1>8, <2>1 DEF ChunkReady
  <2>3. CallOK'
    BY <1>8, <1>9, <2>1, <2>2 DEF CallOK
  <2> QED BY <1>1, <2>1, <2>3 DEF Layer
<1> QED BY <1>4, <1>11, <1>12

LEMMA SetLayer ==
    ASSUME Fine, Layer, NEW f \in Fids, NEW v \in Vals, NEW n \in 0 .. MaxRequest,
           NEW once \in CreateFlags, Set(f, v, n, once)
    PROVE  Layer' /\ Same
<1>c. PICK c : c = [op |-> "set", fid |-> f, val |-> v, size |-> n, once |-> once,
                    off |-> 0, done |-> "nothing"]
  OBVIOUS
<1>1. n \in Int /\ n >= 0 /\ once \in BOOLEAN
  BY ConfigAssumption
<1>2. c \in SetCalls
  BY <1>1, <1>c DEF SetCalls, Done
<1>3. Start(c) /\ mode = "idle" /\ mode' = "busy" /\ UNCHANGED <<flash, active, count, sdb>>
  BY <1>c DEF Set
<1>4. Current /\ Clean(flash[active].fmeta)
  BY <1>3, IdleIs
<1>5. c.off = 0 /\ c.size = n /\ c.done = "nothing"
  BY <1>c
<1>6. ChunkReady(c)
  BY <1>1, <1>2, <1>5 DEF ChunkReady
<1>7. Fine'
  BY SetFine
<1> QED BY <1>2, <1>3, <1>4, <1>6, <1>7, ChunkLayer

LEMMA RemoveLayer ==
    ASSUME Fine, Layer, NEW f \in Fids, Remove(f)
    PROVE  Layer' /\ Same
<1>idx. PICK idx : idx = FileIdx(f)
  OBVIOUS
<1>1. /\ mode = "idle" /\ idx # None /\ plan' = DeleteFile(idx) /\ mode' = "busy"
      /\ call' = [op |-> "remove", fid |-> f, done |-> "nothing"]
      /\ UNCHANGED <<flash, active, count, sdb, replaced>>
  BY <1>idx DEF Remove
<1>2. Current /\ Clean(flash[active].fmeta) /\ replaced = None
  BY <1>1, IdleIs
<1>3. idx \in Idx /\ Used(idx) /\ file(idx).id = f
  BY <1>1, <1>idx, FileIdxIs
<1>4. ~file(idx).del
  BY <1>2, <1>3 DEF Clean, Marked, Used, file
<1>5. HeadersOK' /\ DataOK' /\ Same /\ ActiveMetaBlock = active
  BY <1>1, BetweenLayer
<1>6. Fine'
  BY RemoveFine
<1>7. /\ PlanOK' /\ Committing' /\ ~Refused'
      /\ \A g : NewFile(g)' = IF file(idx).id = g /\ ~file(idx).del THEN None ELSE StoredFile(g)
  <2>1. Types /\ Valid /\ DataOK
    BY DEF Fine, Layer
  <2> QED BY <1>1, <1>2, <1>3, <1>5, <1>6, <2>1, DeleteOutcome
<1>8. call'.op = "remove" /\ call'.fid = f /\ call'.done = "nothing"
  BY <1>1
<1>9. KeptBut(call.fid, None)'
  BY <1>3, <1>4, <1>5, <1>7, <1>8 DEF KeptBut, Same
<1>10. CallOK'
  BY <1>1, <1>2, <1>7, <1>8, <1>9 DEF CallOK, Wanted
<1> QED BY <1>5, <1>7, <1>10 DEF Layer

(* Between two block updates of a request.                                 *)
LEMMA BusyIs ==
    ASSUME Fine, Layer, mode = "busy", plan = << >>
    PROVE  /\ call \in SetCalls \cup RemoveCalls /\ Current /\ Pending(flash[active].fmeta)
           /\ Reached /\ (call.op = "remove" => replaced = None)
           /\ call.op = "set" => call.off = call.size \/ call.off > 0
<1>1. ~Committing /\ ~Refused
  BY PhaseIs
<1>2. Current /\ Pending(flash[active].fmeta) /\ call \in SetCalls \cup RemoveCalls
  BY EmptyPlan DEF Fine, Types
<1> QED BY <1>1, <1>2 DEF Layer, CallOK

(* The old file of a set was marked by the commit that wrote the new one.  *)
LEMMA DeleteReplacedLayer ==
    ASSUME Fine, Layer, DeleteReplaced
    PROVE  Layer' /\ Same
<1>idx. PICK idx : idx = replaced
  OBVIOUS
<1>1. /\ mode = "busy" /\ plan = << >> /\ idx # None /\ plan' = DeleteFile(idx) /\ replaced' = None
      /\ UNCHANGED <<flash, active, count, sdb, mode, call>>
  BY <1>idx DEF DeleteReplaced
<1>2. /\ call \in SetCalls \cup RemoveCalls /\ Current /\ Pending(flash[active].fmeta)
      /\ Reached /\ (call.op = "remove" => replaced = None)
  BY <1>1, BusyIs
<1>3. call.op = "set"
  BY <1>1, <1>2, <1>idx, NotNone
<1>4. idx \in Idx /\ Used(idx) /\ file(idx).del
  BY <1>1, <1>2, <1>idx DEF Pending, Marked, Used, file
<1>5. HeadersOK' /\ DataOK' /\ Same /\ ActiveMetaBlock = active
  BY <1>1, BetweenLayer
<1>6. Fine'
  BY BetweenFine
<1>7. /\ PlanOK' /\ Committing' /\ ~Refused'
      /\ \A g : NewFile(g)' = IF file(idx).id = g /\ ~file(idx).del THEN None ELSE StoredFile(g)
  <2>1. Types /\ Valid /\ DataOK
    BY DEF Fine, Layer
  <2> QED BY <1>1, <1>2, <1>4, <1>5, <1>6, <2>1, DeleteOutcome
<1>8. Kept'
  BY <1>4, <1>5, <1>7 DEF Kept, Same
<1>9. (DoneSoFar /\ StoredFile(call.fid) = Prefix)'
  <2>1. DoneSoFar /\ StoredFile(call.fid) = Prefix
    BY <1>2, <1>3 DEF Reached
  <2>2. DoneSoFar' /\ Prefix' = Prefix
    BY <1>1, <2>1 DEF DoneSoFar, Finished, Prefix, Holding
  <2> QED BY <1>1, <1>5, <2>1, <2>2 DEF Same
<1>10. Wanted'
  BY <1>1, <1>3, <1>8, <1>9 DEF Wanted
<1>11. CallOK'
  BY <1>1, <1>3, <1>7, <1>10 DEF CallOK, Layer
<1> QED BY <1>5, <1>7, <1>11 DEF Layer

(* The next chunk of a set.                                                *)
LEMMA NextChunkLayer ==
    ASSUME Fine, Layer, NextChunk
    PROVE  Layer' /\ Same
<1>c. PICK c : c = call
  OBVIOUS
<1>1. /\ mode = "busy" /\ plan = << >> /\ replaced = None /\ ~Finished /\ call.op = "set" /\ Start(c)
      /\ mode' = "busy" /\ UNCHANGED <<flash, active, count, sdb>>
  BY <1>c DEF NextChunk, Finished
<1>2. /\ call \in SetCalls \cup RemoveCalls /\ Current /\ Pending(flash[active].fmeta)
      /\ Reached /\ (call.off = call.size \/ call.off > 0)
  BY <1>1, BusyIs
<1>3. c \in SetCalls
  BY <1>1, <1>2, <1>c, NotNone
<1>4. c.off # c.size /\ c.off > 0 /\ c.off \in 0 .. c.size
  BY <1>1, <1>2, <1>c DEF Finished, Pending, RoomKept
<1>5. \E i \in Idx : Used(i) /\ file(i).id = c.fid /\ file(i).max = c.size
  BY <1>1, <1>2, <1>c DEF Pending, RoomKept, Used, file
<1>6. StoredFile(c.fid) = Holding(c.val, c.off, c.once) /\ c.done = "some"
  BY <1>1, <1>2, <1>c DEF Reached, DoneSoFar, Prefix
<1>7. ChunkReady(c)
  BY <1>3, <1>4, <1>5, <1>6 DEF ChunkReady
<1>8. Clean(flash[active].fmeta)
  BY <1>1, <1>2 DEF Pending
<1>9. Fine'
  BY BetweenFine
<1> QED BY <1>1, <1>2, <1>3, <1>7, <1>8, <1>9, ChunkLayer

(* A request ends.                                                         *)
LEMMA EndLayer ==
    ASSUME Layer, mode = "busy", UNCHANGED <<flash, active, count>>, NEW r, EndCall(r)
    PROVE  Layer' /\ Same
<1>1. mode' = "idle" /\ plan' = << >> /\ call' = None
  BY DEF EndCall
<1>2. HeadersOK' /\ DataOK' /\ Same
  BY <1>1, BetweenLayer
<1>3. PlanOK' /\ ~Committing' /\ ~Refused'
  BY <1>1, NothingPlanned
<1>4. CallOK'
  BY <1>1 DEF CallOK
<1> QED BY <1>2, <1>3, <1>4 DEF Layer

LEMMA PowerLayer ==
    ASSUME Layer, PowerFailure
    PROVE  Layer' /\ Same
<1>1. mode' = "off" /\ plan' = << >> /\ call' = None /\ UNCHANGED flash
  BY DEF PowerFailure
<1>2. Same /\ DataOK' /\ CountsOK'
  BY <1>1, QuietFlash
<1>3. PlanOK' /\ ~Committing' /\ ~Refused'
  BY <1>1, NothingPlanned
<1>4. HeadersOK' /\ CallOK'
  BY <1>1, <1>2 DEF HeadersOK, CountsOK, Counts, CallOK
<1> QED BY <1>2, <1>3, <1>4 DEF Layer

LEMMA StutterLayer ==
    ASSUME Layer, UNCHANGED vars
    PROVE  Layer' /\ Same
<1>1. UNCHANGED <<flash, active, count, sdb, mode, plan, call, replaced>>
  BY DEF vars
<1>2. Same /\ DataOK' /\ CountsOK' /\ ActiveMetaBlock' = ActiveMetaBlock
  BY <1>1, QuietFlash
<1>3. HeadersOK'
  BY <1>1, <1>2 DEF Layer, HeadersOK, CountsOK, Counts
<1>4. /\ NewFiles' = NewFiles /\ NewBlocks' = NewBlocks /\ NewScratch' = NewScratch /\ NewData' = NewData
      /\ (Committing' <=> Committing) /\ (Refused' <=> Refused)
  BY <1>1 DEF NewFiles, NewBlocks, NewScratch, NewData, Committing, Refused, scratch, Other
<1>5. PlanOK'
  BY <1>1, <1>4, PlanStays DEF Layer
<1>6. CallOK'
  <2>1. \A f : NewFile(f)' = NewFile(f)
    BY <1>4 DEF NewFile
  <2>2. mode = "wipe" /\ plan' # << >> => NewFiles' = NoFiles
    BY <1>1, <1>4 DEF Layer, CallOK, NoFiles
  <2> QED BY <1>1, <1>2, <1>4, <2>1, <2>2, CallStays DEF Layer
<1> QED BY <1>2, <1>3, <1>5, <1>6 DEF Layer

(* Erased flash holds no file.                                             *)
LEMMA InitLayer ==
    ASSUME Init
    PROVE  Layer /\ \A f : StoredFile(f) = None
<1>1. /\ flash = [b \in Blocks |-> ErasedBlock(b)] /\ mode = "off" /\ plan = << >> /\ call = None
  BY DEF Init
<1>2. {0, 1} \subseteq Blocks
  BY Numbers
<1>3. \A b \in Blocks : flash[b] = ErasedBlock(b)
  BY <1>1
<1>4. ~ValidHeader(0) /\ ~ValidHeader(1)
  <2>1. \A b : ErasedBlock(b).header = Erased
    BY DEF ErasedBlock
  <2> QED BY <1>2, <1>3, <2>1 DEF ValidHeader
<1>5. DataOK
  <2>1. \A b : ErasedBlock(b).data = [k \in DataCells(b) |-> Erased]
    BY DEF ErasedBlock, DataCells
  <2>2. \A b \in Blocks : flash[b].data = [k \in DataCells(b) |-> Erased]
    BY <1>3, <2>1
  <2>3. ASSUME NEW b \in Blocks, NEW k \in DataCells(b)
        PROVE  k \in DOMAIN flash[b].data /\ flash[b].data[k] = Erased
    BY <2>2, <2>3
  <2> QED BY <2>3 DEF DataOK, CellVals
<1>6. PlanOK
  BY <1>1, Literals DEF PlanOK, OneWrite
<1>7. HeadersOK /\ CallOK
  BY <1>1, <1>4 DEF HeadersOK, CallOK
<1>8. \A f : StoredFile(f) = None
  BY <1>4, NoBlock, NoneStored
<1> QED BY <1>5, <1>6, <1>7, <1>8 DEF Layer

-----------------------------------------------------------------------------
(* The file system implements the store.                                   *)

(* The invariant of both layers.                                           *)
FileInv == errors \in Nat /\ (errors = 0 => Fine /\ Layer)

(* Only a set without room fails on its own.                               *)
LEMMA FailsOnlyRefused ==
    ASSUME Fine, FailStep
    PROVE  Failing
<1>1. Phases /\ plan # << >> /\ Head(plan).do = "fail"
  BY DEF Fine, FailStep, NextOp
<1>2. CASE Erasing
  <2>1. IsSeq(plan) /\ \A op \in Ops(plan) : op.do = "erase"
    BY <1>2 DEF Erasing
  <2>2. Head(plan) \in Ops(plan)
    BY <1>1, <2>1, TailIs
  <2> QED BY <1>1, <2>1, <2>2
<1>3. CASE Updating
  <2>1. PICK pre, post, N, G, z : Leads(plan, pre, post, N, G, z)
    BY <1>3 DEF Updating
  <2>2. CASE pre = << >>
    <3>1. Head(plan) = Commit
      BY <2>1, <2>2, LeadsBy
    <3> QED BY <1>1, <3>1 DEF Commit
  <2>3. CASE pre # << >>
    <3>1. Head(plan) = Head(pre) /\ OpOK(Head(pre), N, G, z)
      BY <2>1, <2>3, LeadsBy
    <3> QED BY <1>1, <3>1 DEF OpOK
  <2> QED BY <2>2, <2>3
<1>4. CASE Wiping
  BY <1>1, <1>4, WipeHead
<1> QED BY <1>1, <1>2, <1>3, <1>4 DEF Phases

(* Only a commit changes what a restart finds.                             *)
LEMMA StepLayer ==
    ASSUME Fine, Layer, Next, NotRefused, errors = 0, errors' = 0
    PROVE  Layer' /\ (Same \/ (CommitStep /\ CommitCall)) /\ ~FlashFailure
<1>1. CASE Request
  <2>1. PICK f \in Fids :
          \/ \E v \in Vals, n \in 0 .. MaxRequest, once \in CreateFlags : Set(f, v, n, once)
          \/ Remove(f)
    BY <1>1 DEF Request
  <2>2. mode = "idle"
    BY <2>1 DEF Set, Remove
  <2>3. ~FlashFailure
    BY <2>2 DEF FlashFailure
  <2>4. CASE \E v \in Vals, n \in 0 .. MaxRequest, once \in CreateFlags : Set(f, v, n, once)
    BY <2>3, <2>4, SetLayer
  <2>5. CASE Remove(f)
    BY <2>3, <2>5, RemoveLayer
  <2> QED BY <2>1, <2>4, <2>5
<1>2. ~FlashFailure
  BY DEF FlashFailure, NotRefused
<1>3. CASE Prepare
  BY <1>2, <1>3, PrepareLayer
<1>4. CASE Prepared
  BY <1>2, <1>4, PreparedLayer
<1>5. CASE DeleteReplaced
  BY <1>2, <1>5, DeleteReplacedLayer
<1>6. CASE NextChunk
  BY <1>2, <1>6, NextChunkLayer
<1>7. CASE Succeed
  <2>1. mode = "busy" /\ UNCHANGED <<flash, active, count>> /\ EndCall("success")
    BY <1>7 DEF Succeed
  <2> QED BY <1>2, <2>1, EndLayer
<1>8. CASE WriteStep \/ ScratchStep \/ EraseStep
  BY <1>2, <1>8, FlashLayer
<1>9. CASE CommitStep
  BY <1>2, <1>9, CommitLayer
<1>10. CASE FailStep
  <2>1. UNCHANGED <<flash, active, count>> /\ EndCall("failure")
    BY <1>10 DEF FailStep
  <2>2. Failing
    BY <1>10, FailsOnlyRefused
  <2>3. mode = "busy"
    BY <2>2 DEF Failing
  <2> QED BY <1>2, <2>1, <2>3, EndLayer
<1>11. CASE PowerFailure
  BY <1>2, <1>11, PowerLayer
<1> QED BY <1>1, <1>2, <1>3, <1>4, <1>5, <1>6, <1>7, <1>8, <1>9, <1>10, <1>11 DEF Next, Progress

LEMMA StepFileInv ==
    ASSUME FileInv, [Next]_vars, [NotRefused]_vars
    PROVE  FileInv'
<1>1. errors \in Nat
  BY DEF FileInv
<1>2. IndInv
  BY DEF FileInv, IndInv
<1>3. IndInv'
  BY <1>2, StepFine
<1>4. errors' = 0 => errors = 0
  <2>1. CASE Next
    <3>1. errors' \in {errors, errors + 1}
      BY <2>1 DEF Next, Request, Set, Remove, Progress, Prepare, Prepared, DeleteReplaced, NextChunk,
                  Succeed, WriteStep, ScratchStep, CommitStep, EraseStep, FailStep, FlashFailure,
                  PowerFailure
    <3> QED BY <1>1, <3>1
  <2>2. CASE UNCHANGED vars
    BY <2>2 DEF vars
  <2> QED BY <2>1, <2>2
<1>5. ASSUME errors' = 0 PROVE Layer'
  <2>1. errors = 0 /\ Fine /\ Layer
    BY <1>4, <1>5 DEF FileInv
  <2>2. CASE UNCHANGED vars
    BY <2>1, <2>2, StutterLayer
  <2>3. CASE Next /\ NotRefused
    BY <1>5, <2>1, <2>3, StepLayer
  <2> QED BY <2>2, <2>3
<1> QED BY <1>3, <1>5 DEF FileInv, IndInv

(* As long as no flash operation fails, the next commit leaves every file  *)
(* as it is but for the one of the request, whose file it makes what the   *)
(* request asked for so far, and no operation before or after it touches   *)
(* what a restart would read (its_flash_fs_file_write,                     *)
(* its_flash_fs_delete_idx, its_flash_fs_mblock_meta_update_finalize).     *)
THEOREM FilesCommitted == Spec /\ [][NotRefused]_vars => []FileInv
<1>1. ASSUME Init PROVE FileInv
  <2>1. Fine /\ Layer /\ errors = 0
    BY <1>1, InitFine, InitLayer DEF Init
  <2> QED BY <2>1 DEF FileInv
<1>2. FileInv /\ [Next]_vars /\ [NotRefused]_vars => FileInv'
  BY StepFileInv
<1> QED BY <1>1, <1>2, PTL DEF Spec

(* The request as FileStore sees it.                                       *)
SetView(c) ==
    [op |-> "set", fid |-> c.fid, val |-> c.val, size |-> c.size, once |-> c.once, done |-> c.done]

CallView ==
    /\ call = None => CurrentCall = None
    /\ call \in RemoveCalls => CurrentCall = call /\ CurrentCall # None
    /\ call \in SetCalls => CurrentCall = SetView(call) /\ CurrentCall # None

LEMMA ViewHere == CallView
<1>1. ASSUME call \in RemoveCalls PROVE CurrentCall = call /\ CurrentCall # None
  BY <1>1, NotNone DEF CurrentCall
<1>2. ASSUME call \in SetCalls PROVE CurrentCall = SetView(call) /\ CurrentCall # None
  <2>1. CurrentCall = SetView(call)
    BY <1>2, NotNone DEF CurrentCall, SetView, SetCalls
  <2>2. SetView(call) \in [op : {"set"}, fid : Fids, val : Vals, size : Int, once : BOOLEAN, done : Done]
    BY <1>2 DEF SetView, SetCalls
  <2>3. None \notin [op : {"set"}, fid : Fids, val : Vals, size : Int, once : BOOLEAN, done : Done]
    BY NoneAssumption DEF Done
  <2> QED BY <2>1, <2>2, <2>3
<1>3. call = None => CurrentCall = None
  BY DEF CurrentCall
<1> QED BY <1>1, <1>2, <1>3 DEF CallView

(* Between requests the entry of a file is the file a restart would find.  *)
LEMMA StoredEntry ==
    ASSUME Fine, Layer, mode = "idle", NEW f
    PROVE  /\ StoredFile(f) = None <=> FileIdx(f) = None
           /\ FileIdx(f) # None => StoredFile(f).once = file(FileIdx(f)).once
<1>1. Types /\ Valid /\ active \in {0, 1} /\ DataOK
  BY DEF Fine, Types, Layer
<1>2. ValidHeader(active) /\ Clean(flash[active].fmeta) /\ ActiveMetaBlock = active
  BY IdleIs DEF Current, Layer, HeadersOK
<1>B. PICK B : B = flash[active].bmeta
  OBVIOUS
<1>F. PICK F : F = flash[active].fmeta
  OBVIOUS
<1>D. PICK D : D = Data
  OBVIOUS
<1>3. StoredFile(f) = FileIn(F, B, D, f)
  BY <1>1, <1>2, <1>B, <1>F, <1>D, StoredIs
<1>4. /\ BlocksOK(B, active, flash[active].header.sdb) /\ FilesOK(F) /\ LayoutOK(B, F)
  BY <1>1, <1>2, <1>B, <1>F DEF Valid
<1>5. CASE FileIdx(f) = None
  <2>1. \A i \in Idx : F[i] # Free => F[i].id # f
    BY <1>5, <1>F, FileIdxIs DEF Used, file
  <2>2. \A i \in Idx : F[i] # Free /\ F[i].id = f => F[i].del
    BY <2>1
  <2> QED BY <1>3, <1>4, <1>5, <2>2, FileInIs
<1>6. CASE FileIdx(f) # None
  <2>i. PICK i : i = FileIdx(f)
    OBVIOUS
  <2>1. i \in Idx /\ F[i] # Free /\ F[i].id = f /\ F[i] = file(i)
    BY <1>6, <1>F, <2>i, FileIdxIs DEF Used, file
  <2>2. ~F[i].del
    BY <1>2, <1>F, <2>1 DEF Clean, Marked
  <2>3. StoredFile(f) = ContentsIn(B, D, F[i])
    BY <1>3, <1>4, <2>1, <2>2, FileInIs
  <2>m. PICK m : m = F[i]
    OBVIOUS
  <2>4. B \in [LBlocks -> BlockMeta] /\ F \in [Idx -> FileMeta \cup {Free}]
    BY <1>4 DEF BlocksOK, FilesOK
  <2>5. /\ m \in FileMeta /\ m.lb \in LBlocks /\ B[m.lb].free \in Int
        /\ m.data \in Int /\ m.cur \in Int /\ m.max \in Int
        /\ m.cur >= 0 /\ m.cur <= m.max /\ DataStart(m.lb) <= m.data
        /\ m.data + m.max + B[m.lb].free <= BlockSize
        /\ B[m.lb].free >= 0 /\ DataStart(m.lb) \in Nat /\ BlockSize \in Nat
    BY <1>4, <2>1, <2>4, <2>m, PlaceIs, Numbers
  <2>6. ASSUME NEW k \in Int, m.data <= k, k < m.data + m.cur PROVE D[B[m.lb].phy][k] \in CellVals
    <3>1. DataStart(m.lb) <= k /\ k < BlockSize
      BY <2>5, <2>6
    <3>2. B[m.lb].phy \in Blocks /\ k \in DataCells(B[m.lb].phy)
      BY <1>1, <1>4, <2>5, <2>6, <3>1, CellIs
    <3>b. PICK b \in Blocks : b = B[m.lb].phy
      BY <3>2
    <3>3. D[b][k] = flash[b].data[k]
      BY <1>D, <3>2, <3>b DEF Data
    <3> QED BY <1>1, <3>2, <3>3, <3>b DEF DataOK
  <2>7. ContentsIn(B, D, m) # None /\ ContentsIn(B, D, m).once = m.once
    BY <2>5, <2>6, ContentsType
  <2> QED BY <1>6, <2>1, <2>3, <2>7, <2>i, <2>m
<1> QED BY <1>5, <1>6

(* The files as FileStore sees them.                                       *)
LEMMA FilesAreStored ==
    /\ FilesStay => UNCHANGED StoredFiles
    /\ \A g \in Fids : \A c : FilesAre(g, c) => StoredFiles' = [StoredFiles EXCEPT ![g] = c]
BY DEF FilesStay, FilesAre, StoredFiles

(* tfm_its_set, tfm_its_remove.                                            *)
LEMMA SetImplements ==
    ASSUME Fine, Layer, Fine', NEW f \in Fids, NEW v \in Vals, NEW n \in 0 .. MaxRequest,
           NEW once \in CreateFlags, Set(f, v, n, once)
    PROVE  Abstract!Next
<1>1. once \in BOOLEAN
  BY ConfigAssumption
<1>c. PICK c : c = [op |-> "set", fid |-> f, val |-> v, size |-> n, once |-> once,
                    off |-> 0, done |-> "nothing"]
  OBVIOUS
<1>2. Start(c) /\ mode = "idle" /\ mode' = "busy" /\ UNCHANGED flash /\ ~WriteProtected(f)
      /\ result' = "none"
  BY <1>c DEF Set
<1>3. call = None /\ CurrentCall = None
  BY <1>2 DEF Layer, CallOK, CurrentCall
<1>4. call' = [c EXCEPT !.off = c.off + ChunkSize(c)]
  BY <1>2 DEF Start
<1>5. /\ call'.op = "set" /\ call'.fid = f /\ call'.val = v /\ call'.size = n
      /\ call'.once = once /\ call'.done = "nothing"
  BY <1>4, <1>c
<1>6. call' \in SetCalls
  <2>1. call' \in SetCalls \cup RemoveCalls
    BY <1>2 DEF Fine, Types, SetCalls, RemoveCalls, Done
  <2> QED BY <1>5, <2>1, NotNone
<1>7. CurrentCall' = [op |-> "set", fid |-> f, val |-> v, size |-> n, once |-> once, done |-> "nothing"]
  <2>1. CallView'
    BY ViewHere, PTL
  <2>2. CurrentCall' = SetView(call')
    BY <1>6, <2>1 DEF CallView, SetCalls, SetView, Done
  <2> QED BY <1>5, <2>2 DEF SetView
<1>8. UNCHANGED StoredFiles
  <2>1. Same
    BY <1>2, SameFlash
  <2> QED BY <2>1, FilesAreStored DEF Same, FilesStay
<1>9. ~(StoredFiles[f] # None /\ StoredFiles[f].once)
  <2>1. StoredFiles[f] = StoredFile(f)
    BY DEF StoredFiles
  <2> QED BY <1>2, <2>1, StoredEntry DEF WriteProtected
<1>10. Abstract!BeginSet(f, v, n, once)
  BY <1>2, <1>3, <1>7, <1>8, <1>9 DEF Abstract!BeginSet, Abstract!WriteOnce
<1> QED BY <1>1, <1>10 DEF Abstract!Next

LEMMA RemoveImplements ==
    ASSUME Fine, Layer, NEW f \in Fids, Remove(f)
    PROVE  Abstract!Next
<1>1. /\ mode = "idle" /\ UNCHANGED flash /\ FileIdx(f) # None /\ ~WriteProtected(f)
      /\ result' = "none" /\ call' = [op |-> "remove", fid |-> f, done |-> "nothing"]
  BY DEF Remove
<1>2. call = None /\ CurrentCall = None
  BY <1>1 DEF Layer, CallOK, CurrentCall
<1>3. CurrentCall' = call'
  <2>1. CallView'
    BY ViewHere, PTL
  <2>2. call' \in RemoveCalls
    BY <1>1 DEF RemoveCalls, Done
  <2> QED BY <2>1, <2>2 DEF CallView, RemoveCalls, Done
<1>4. UNCHANGED StoredFiles
  <2>1. Same
    BY <1>1, SameFlash
  <2> QED BY <2>1, FilesAreStored DEF Same, FilesStay
<1>5. StoredFiles[f] # None /\ ~StoredFiles[f].once
  <2>1. StoredFiles[f] = StoredFile(f)
    BY DEF StoredFiles
  <2> QED BY <1>1, <2>1, StoredEntry DEF WriteProtected
<1>6. Abstract!BeginRemove(f)
  BY <1>1, <1>2, <1>3, <1>4, <1>5 DEF Abstract!BeginRemove, Abstract!WriteOnce
<1> QED BY <1>6 DEF Abstract!Next

(* A commit is a write or a removal of the store, or deletes a file that a *)
(* set has replaced already.                                               *)
LEMMA CommitImplements ==
    ASSUME Fine, CommitStep, CommitCall
    PROVE  Abstract!Next \/ UNCHANGED Abstract!fsvars
<1>1. UNCHANGED result
  BY DEF CommitStep
<1>2. CallView /\ CallView'
  BY ViewHere, PTL
<1>3. CASE mode # "busy"
  <2>1. call' = call /\ FilesStay
    BY <1>3 DEF CommitCall
  <2>2. CurrentCall' = CurrentCall
    BY <2>1 DEF CurrentCall
  <2>3. UNCHANGED StoredFiles
    BY <2>1, FilesAreStored
  <2> QED BY <1>1, <2>2, <2>3 DEF Abstract!fsvars
<1>4. CASE mode = "busy"
  <2>1. /\ call' \in SetCalls \cup RemoveCalls /\ SameRequest(call', call) /\ RequestGoesOn
        /\ call \in SetCalls \cup RemoveCalls
    BY <1>4 DEF CommitCall, Fine, Types
  <2>2. call.fid \in Fids
    BY <2>1 DEF SetCalls, RemoveCalls
  <2>3. CASE call.op = "remove" /\ call.done = "nothing" /\ call'.done = "all" /\ FilesAre(call.fid, None)
    <3>1. call \in RemoveCalls /\ call' \in RemoveCalls /\ call'.fid = call.fid
      BY <2>1, <2>3, NotNone DEF SameRequest
    <3>2. CurrentCall = call /\ CurrentCall # None /\ CurrentCall' = call'
      BY <1>2, <3>1 DEF CallView, RemoveCalls, Done
    <3>3. call' = [call EXCEPT !.done = "all"]
      BY <2>3, <3>1 DEF RemoveCalls
    <3>4. StoredFiles' = [StoredFiles EXCEPT ![call.fid] = None]
      BY <2>2, <2>3, FilesAreStored
    <3>5. Abstract!Remove
      BY <1>1, <2>3, <3>2, <3>3, <3>4 DEF Abstract!Remove
    <3> QED BY <3>5 DEF Abstract!Next
  <2>4. ASSUME call.op = "set"
        PROVE  /\ CurrentCall = SetView(call) /\ CurrentCall # None /\ CurrentCall' = SetView(call')
               /\ call'.val = call.val /\ call'.size = call.size /\ call'.once = call.once
               /\ call'.fid = call.fid /\ call.off \in Int /\ call.size \in Int
    <3>1. call \in SetCalls /\ call' \in SetCalls
      BY <2>1, <2>4, NotNone DEF SameRequest
    <3>2. CurrentCall = SetView(call) /\ CurrentCall # None /\ CurrentCall' = SetView(call')
      BY <1>2, <3>1 DEF CallView, SetCalls, SetView, Done
    <3> QED BY <2>1, <2>4, <3>1, <3>2 DEF SameRequest, SetCalls
  <2>5. CASE call.op = "set" /\ call'.done = call.done /\ FilesStay
    <3>1. CurrentCall' = CurrentCall
      BY <2>4, <2>5 DEF SetView
    <3>2. UNCHANGED StoredFiles
      BY <2>5, FilesAreStored
    <3> QED BY <1>1, <3>1, <3>2 DEF Abstract!fsvars
  <2>6. CASE /\ call.op = "set" /\ call.done \in {"nothing", "some"} /\ call.off \in 0 .. call.size
             /\ call'.done = IF Finished THEN "all" ELSE "some"
             /\ FilesAre(call.fid, Prefix)
             /\ call.done = "some" => StoredFile(call.fid).len < call.off
    <3>c. PICK c : c = CurrentCall
      OBVIOUS
    <3>1. /\ c # None /\ c.op = "set" /\ c.fid = call.fid /\ c.val = call.val /\ c.size = call.size
          /\ c.once = call.once /\ c.done = call.done
      BY <2>4, <2>6, <3>c DEF SetView
    <3>n. PICK n : n = call.off
      OBVIOUS
    <3>2. n \in 0 .. c.size
      BY <2>6, <3>1, <3>n
    <3>3. CurrentCall' = [c EXCEPT !.done = IF n = c.size THEN "all" ELSE "some"]
      <4>d. PICK d : d = IF n = c.size THEN "all" ELSE "some"
        OBVIOUS
      <4>1. call'.done = d
        BY <2>6, <3>1, <3>n, <4>d DEF Finished
      <4>2. c = SetView(call) /\ CurrentCall' = SetView(call')
        BY <2>4, <2>6, <3>c
      <4> QED BY <2>4, <2>6, <4>1, <4>2, <4>d DEF SetView
    <3>4. c.done = "some" => n > StoredFiles[c.fid].len
      <4>1. StoredFiles[c.fid] = StoredFile(call.fid)
        BY <2>2, <3>1 DEF StoredFiles
      <4> QED BY <2>6, <3>1, <3>n, <4>1
    <3>5. StoredFiles' = [StoredFiles EXCEPT ![c.fid] = [val |-> IF n = 0 THEN None ELSE c.val,
                                                         len |-> n, once |-> c.once]]
      <4>1. StoredFiles' = [StoredFiles EXCEPT ![call.fid] = Prefix]
        BY <2>2, <2>6, FilesAreStored
      <4>2. Prefix = [val |-> IF n = 0 THEN None ELSE c.val, len |-> n, once |-> c.once]
        BY <3>1, <3>n DEF Prefix, Holding
      <4> QED BY <3>1, <4>1, <4>2
    <3>6. c.done # "all"
      BY <2>6, <3>1
    <3>7. Abstract!WriteSome
      BY <1>1, <3>1, <3>2, <3>3, <3>4, <3>5, <3>6, <3>c DEF Abstract!WriteSome
    <3> QED BY <3>7 DEF Abstract!Next
  <2> QED BY <2>1, <2>3, <2>5, <2>6 DEF RequestGoesOn
<1> QED BY <1>3, <1>4

(* A request returns success when all of it is done, failure when nothing  *)
(* is.                                                                     *)
LEMMA Returns ==
    ASSUME call \in SetCalls \cup RemoveCalls, UNCHANGED flash, call' = None,
           \/ call.done = "all" /\ result' = "success"
           \/ call.done = "nothing" /\ result' = "failure"
    PROVE  Abstract!Next
<1>1. CallView
  BY ViewHere
<1>2. CurrentCall # None /\ CurrentCall.done = call.done
  BY <1>1 DEF CallView, SetView
<1>3. CurrentCall' = None
  BY DEF CurrentCall
<1>4. UNCHANGED StoredFiles
  <2>1. Same
    BY SameFlash
  <2> QED BY <2>1, FilesAreStored DEF Same, FilesStay
<1>5. Abstract!Return
  BY <1>2, <1>3, <1>4 DEF Abstract!Return
<1> QED BY <1>5 DEF Abstract!Next

LEMMA EndImplements ==
    ASSUME Fine, Layer, Succeed \/ FailStep
    PROVE  Abstract!Next
<1>1. CASE Succeed
  <2>1. mode = "busy" /\ plan = << >> /\ Finished /\ UNCHANGED flash /\ call' = None /\ result' = "success"
    BY <1>1 DEF Succeed, EndCall
  <2>2. Reached /\ call \in SetCalls \cup RemoveCalls
    BY <2>1, BusyIs
  <2>3. call.done = "all"
    BY <2>1, <2>2 DEF Reached, DoneSoFar
  <2> QED BY <2>1, <2>2, <2>3, Returns
<1>2. CASE FailStep
  <2>1. UNCHANGED flash /\ call' = None /\ result' = "failure"
    BY <1>2 DEF FailStep, EndCall
  <2>2. Failing
    BY <1>2, FailsOnlyRefused
  <2>3. mode = "busy" /\ ~Committing /\ Refused
    BY <2>2, PhaseIs DEF Failing
  <2>4. call.done = "nothing" /\ call \in SetCalls \cup RemoveCalls
    BY <2>3 DEF Layer, CallOK, Fine, Types
  <2> QED BY <2>1, <2>4, Returns
<1> QED BY <1>1, <1>2

(* A step that leaves the flash, the request and its outcome alone.        *)
LEMMA QuietImplements ==
    ASSUME Same, CurrentCall' = CurrentCall, UNCHANGED result
    PROVE  UNCHANGED Abstract!fsvars
<1>1. UNCHANGED StoredFiles
  BY FilesAreStored DEF Same, FilesStay
<1> QED BY <1>1 DEF Abstract!fsvars

LEMMA NextChunkQuiet ==
    ASSUME Fine, NextChunk, Fine'
    PROVE  CurrentCall' = CurrentCall
<1>c. PICK c : c = call
  OBVIOUS
<1>1. mode = "busy" /\ mode' = "busy" /\ call.op = "set" /\ Start(c)
  BY <1>c DEF NextChunk, Finished
<1>2. call' = [c EXCEPT !.off = c.off + ChunkSize(c)]
  BY <1>1 DEF Start
<1>3. c \in SetCalls
  BY <1>1, <1>c, NotNone DEF Fine, Types
<1>4. /\ call'.op = "set" /\ call'.fid = c.fid /\ call'.val = c.val /\ call'.size = c.size
      /\ call'.once = c.once /\ call'.done = c.done
  BY <1>2, <1>3 DEF SetCalls
<1>5. call' \in SetCalls
  <2>1. call' \in SetCalls \cup RemoveCalls
    BY <1>1 DEF Fine, Types, SetCalls, RemoveCalls, Done
  <2> QED BY <1>4, <2>1, NotNone
<1>6. CallView /\ CallView'
  BY ViewHere, PTL
<1>7. CurrentCall = SetView(c) /\ CurrentCall' = SetView(call')
  BY <1>3, <1>5, <1>6, <1>c DEF CallView, SetCalls, SetView, Done
<1> QED BY <1>4, <1>7 DEF SetView

(* Every step is a step of the store or changes nothing of it.             *)
LEMMA StepImplements ==
    ASSUME Fine, Layer, Fine', Next, NotRefused, errors = 0, errors' = 0
    PROVE  Abstract!Next \/ UNCHANGED Abstract!fsvars
<1>1. Layer' /\ (Same \/ (CommitStep /\ CommitCall)) /\ ~FlashFailure
  BY StepLayer
<1>2. CASE Request
  <2>1. PICK f \in Fids :
          \/ \E v \in Vals, n \in 0 .. MaxRequest, once \in CreateFlags : Set(f, v, n, once)
          \/ Remove(f)
    BY <1>2 DEF Request
  <2>2. CASE \E v \in Vals, n \in 0 .. MaxRequest, once \in CreateFlags : Set(f, v, n, once)
    BY <2>2, SetImplements
  <2>3. CASE Remove(f)
    BY <2>3, RemoveImplements
  <2> QED BY <2>1, <2>2, <2>3
<1>3. CASE CommitStep
  <2>1. CommitCall
    BY <1>3, CommitLayer
  <2> QED BY <1>3, <2>1, CommitImplements
<1>4. CASE Succeed \/ FailStep
  BY <1>4, EndImplements
<1>5. CASE PowerFailure
  <2>1. call' = None /\ result' = "none" /\ UNCHANGED flash
    BY <1>5 DEF PowerFailure
  <2>2. CurrentCall' = None
    BY <2>1 DEF CurrentCall
  <2>3. Same
    BY <2>1, SameFlash
  <2>4. UNCHANGED StoredFiles
    BY <2>3, FilesAreStored DEF Same, FilesStay
  <2>5. Abstract!PowerFailure
    BY <2>1, <2>2, <2>4 DEF Abstract!PowerFailure
  <2> QED BY <2>5 DEF Abstract!Next
<1>6. CASE NextChunk
  <2>1. UNCHANGED <<flash, result>>
    BY <1>6 DEF NextChunk
  <2>2. Same
    BY <2>1, SameFlash
  <2>3. CurrentCall' = CurrentCall
    BY <1>6, NextChunkQuiet
  <2> QED BY <2>1, <2>2, <2>3, QuietImplements
<1>7. CASE Prepare \/ Prepared \/ DeleteReplaced \/ WriteStep \/ ScratchStep \/ EraseStep
  <2>1. UNCHANGED <<call, result>>
    BY <1>7 DEF Prepare, Prepared, DeleteReplaced, WriteStep, ScratchStep, EraseStep
  <2>2. CurrentCall' = CurrentCall
    BY <2>1 DEF CurrentCall
  <2>3. CASE Same
    BY <2>1, <2>2, <2>3, QuietImplements
  <2>4. CASE CommitStep /\ CommitCall
    BY <2>4, CommitImplements
  <2> QED BY <1>1, <2>3, <2>4
<1> QED BY <1>1, <1>2, <1>3, <1>4, <1>5, <1>6, <1>7 DEF Next, Progress

(* Nothing changes but the file of the request.                            *)
LEMMA StepIntact ==
    ASSUME Fine, Layer, Next, NotRefused, errors = 0, errors' = 0, NEW f \in Fids,
           StoredFile(f)' # StoredFile(f)
    PROVE  call # None /\ call.fid = f
<1>1. CommitStep /\ CommitCall
  BY StepLayer DEF Same
<1>2. mode = "busy" /\ RequestGoesOn
  BY <1>1 DEF CommitCall, FilesStay
<1>3. call # None
  BY <1>2, NotNone DEF Fine, Types
<1>4. call.fid = f
  BY <1>2 DEF RequestGoesOn, FilesAre, FilesStay
<1> QED BY <1>3, <1>4

LEMMA InitImplements ==
    ASSUME Init
    PROVE  Abstract!Init
<1>1. call = None /\ result = "none"
  BY DEF Init
<1>2. \A f : StoredFile(f) = None
  BY InitLayer
<1>3. CurrentCall = None
  BY <1>1 DEF CurrentCall
<1>4. StoredFiles = [f \in Fids |-> None]
  BY <1>2 DEF StoredFiles
<1> QED BY <1>1, <1>3, <1>4 DEF Abstract!Init

(* The file system implements the store of FileStore for every number of   *)
(* blocks, files and values, every size of a block and of the asset        *)
(* buffer, whatever the moments power fails at, as long as the flash       *)
(* operations succeed: a restart finds every file as a completed write     *)
(* left it, a request that succeeds has done all it was asked for and one  *)
(* that fails nothing (its_flash_fs_prepare, its_flash_fs_file_write,      *)
(* its_flash_fs_delete_idx).                                               *)
THEOREM FileStoreImplemented ==
    Spec /\ [][NotRefused]_vars /\ [](errors = 0) => ImplementsFileStore
<1>1. Init => Abstract!Init
  BY InitImplements
<1>2. /\ FileInv /\ FileInv' /\ [Next]_vars /\ [NotRefused]_vars /\ errors = 0 /\ (errors = 0)'
      => [Abstract!Next]_Abstract!fsvars
  <2> SUFFICES ASSUME FileInv, FileInv', [Next]_vars, [NotRefused]_vars, errors = 0, errors' = 0
               PROVE  Abstract!Next \/ UNCHANGED Abstract!fsvars
    OBVIOUS
  <2>1. Fine /\ Layer /\ Fine'
    BY DEF FileInv
  <2>2. CASE UNCHANGED vars
    <3>1. UNCHANGED <<flash, call, result>>
      BY <2>2 DEF vars
    <3>2. Same
      BY <3>1, SameFlash
    <3>3. CurrentCall' = CurrentCall
      BY <3>1 DEF CurrentCall
    <3> QED BY <3>1, <3>2, <3>3, QuietImplements
  <2>3. CASE Next /\ NotRefused
    BY <2>1, <2>3, StepImplements
  <2> QED BY <2>2, <2>3
<1>3. Spec /\ [][NotRefused]_vars => []FileInv
  BY FilesCommitted
<1> QED BY <1>1, <1>2, <1>3, PTL DEF Spec, ImplementsFileStore, Abstract!Spec

(* No step changes a file but a request its own, under the same            *)
(* conditions: the copies of a block update, the compaction and the        *)
(* recovery after a power failure lose or mix up no other file's data      *)
(* (its_flash_fs_dblock_compact_block, its_flash_fs_dblock_write_file).    *)
THEOREM OthersIntact ==
    Spec /\ [][NotRefused]_vars /\ [](errors = 0) => OtherFilesIntact
<1>1. /\ FileInv /\ [Next]_vars /\ [NotRefused]_vars /\ errors = 0 /\ (errors = 0)'
      => [errors' = 0 \/ NumBlocks = 2 =>
            \A f \in Fids : StoredFile(f)' # StoredFile(f) => call # None /\ call.fid = f]_vars
  <2> SUFFICES ASSUME FileInv, Next, NotRefused, errors = 0, errors' = 0, NEW f \in Fids,
                      StoredFile(f)' # StoredFile(f)
               PROVE  call # None /\ call.fid = f
    OBVIOUS
  <2>1. Fine /\ Layer
    BY DEF FileInv
  <2> QED BY <2>1, StepIntact
<1>2. Spec /\ [][NotRefused]_vars => []FileInv
  BY FilesCommitted
<1> QED BY <1>1, <1>2, PTL DEF Spec, OtherFilesIntact

(* Without a budget for errors no flash operation fails.                   *)
LEMMA NoErrors ==
    ASSUME MaxErrors = 0
    PROVE  Spec => [](errors = 0)
<1>1. Init => errors = 0
  BY DEF Init
<1>2. errors = 0 /\ [Next]_vars => (errors = 0)'
  <2> SUFFICES ASSUME errors = 0, [Next]_vars PROVE errors' = 0
    OBVIOUS
  <2>1. CASE FlashFailure
    BY <2>1 DEF FlashFailure
  <2>2. CASE Next /\ ~FlashFailure
    <3>1. errors' = errors
      BY <2>2 DEF Next, Request, Set, Remove, Progress, Prepare, Prepared, DeleteReplaced, NextChunk,
                  Succeed, WriteStep, ScratchStep, CommitStep, EraseStep, FailStep, PowerFailure
    <3> QED BY <3>1
  <2>3. CASE UNCHANGED vars
    BY <2>3 DEF vars
  <2> QED BY <2>1, <2>2, <2>3
<1> QED BY <1>1, <1>2, PTL DEF Spec

(* Over flash whose operations succeed and that refuses no write, power    *)
(* failures alone never show: the specification itself implements the      *)
(* store and keeps the files of others (its_flash_fs.c).                   *)
THEOREM PowerFailSafe ==
    ASSUME Nor = FALSE, MaxErrors = 0
    PROVE  Spec => ImplementsFileStore /\ OtherFilesIntact
<1>1. Spec => [][NotRefused]_vars
  BY NothingRefused
<1>2. Spec => [](errors = 0)
  BY NoErrors
<1> QED BY <1>1, <1>2, FileStoreImplemented, OthersIntact, PTL
=============================================================================
