----------------------- MODULE CryptoOperationsProofs -----------------------
(***************************************************************************)
(* The contexts of the crypto service for every number of contexts,        *)
(* clients and operation objects, and whatever clients write over their    *)
(* handles.                                                                *)
(***************************************************************************)
EXTENDS CryptoOperations, WellFoundedInduction, TLAPS

Context == [owner : Clients \cup {None}, type : Types \cup {None}, data : SUBSET Objects]

(* What a context may hold.                                                *)
Sound(r) ==
    /\ r \in Context
    /\ r.type = None => r = Free
    /\ \A o \in r.data : ClientOf[o] = r.owner /\ TypeOf[o] = r.type

AllSound == \A i \in Contexts : Sound(operations[i])

IInv == TypeOK /\ AllSound

(* The client and the kind of operation of object o.                       *)
Fits(r, o) == r.owner = ClientOf[o] /\ r.type = TypeOf[o]

(* A request of object o changes at most one context, a free one or one    *)
(* for the client and the kind of o, and leaves it as such a one.          *)
Effect(o) ==
    \/ UNCHANGED operations
    \/ \E i \in Contexts, r \in Context :
           /\ InUse(i) => Fits(operations[i], o)
           /\ r.type # None => Fits(r, o)
           /\ Sound(r)
           /\ operations' = [operations EXCEPT ![i] = r]

-----------------------------------------------------------------------------
(* The first free context is a free context.                               *)
LEMMA AllocIsFree ==
    ASSUME FreeContexts # {}
    PROVE  Alloc \in Contexts /\ ~InUse(Alloc)
<1> DEFINE R == {ss \in Nat \X Nat : ss[1] < ss[2]}
<1> DEFINE S == FreeContexts
<1>1. IsWellFoundedOn(R, Nat)
    BY NatLessThanWellFounded, Zenon DEF OpToRel
<1>2. S \subseteq Nat /\ S # {}
    BY CryptoAssumption DEF FreeContexts, Contexts
<1>3. PICK x \in S : \A y \in S : ~(<<y, x>> \in R)
    <2> HIDE DEF R, S
    <2> QED
        BY <1>1, <1>2, WFMin
<1>4. ASSUME NEW y \in S
      PROVE  x <= y
    <2>1. x \in Nat /\ y \in Nat
        BY <1>2
    <2>2. ~(y < x)
        BY <1>3, <2>1
    <2> QED
        BY <2>1, <2>2
<1>5. Alloc \in S
    <2> HIDE DEF S
    <2>1. Min(S) \in S
        BY <1>4 DEF Min
    <2> QED
        BY <2>1 DEF Alloc, S
<1> QED
    BY <1>5 DEF FreeContexts

LEMMA FreeIsSound == Sound(Free)
<1>1. Free \in Context /\ Free.type = None /\ Free.data = {}
    BY DEF Free, Context
<1> QED
    BY <1>1 DEF Sound

(* A context that was set up for object o.                                 *)
LEMMA TakenIsSound ==
    ASSUME NEW o \in Objects, NEW D \in SUBSET Objects,
           \A d \in D : ClientOf[d] = ClientOf[o] /\ TypeOf[d] = TypeOf[o]
    PROVE  Sound([owner |-> ClientOf[o], type |-> TypeOf[o], data |-> D])
<1>1. TypeOf[o] \in Types /\ TypeOf[o] # None /\ ClientOf[o] \in Clients
    BY CryptoAssumption DEF Clients
<1> QED
    BY <1>1 DEF Sound, Context

(* The context that a request finds, with other contents.                  *)
LEMMA FoundContext ==
    ASSUME IInv, NEW o \in Objects, Found(o)
    PROVE  /\ handle[o] \in Contexts
           /\ Fits(operations[handle[o]], o)
           /\ operations[handle[o]].data \in SUBSET Objects
           /\ \A D : [operations EXCEPT ![handle[o]].data = D]
                  = [operations EXCEPT ![handle[o]] =
                         [owner |-> ClientOf[o], type |-> TypeOf[o], data |-> D]]
<1> DEFINE i == handle[o]
<1>1. i \in Contexts /\ operations[i].owner = ClientOf[o] /\ operations[i].type = TypeOf[o]
    BY DEF Found
<1>2. operations[i] \in Context
    BY <1>1 DEF IInv, AllSound, Sound
<1>3. operations[i].data \in SUBSET Objects
    BY <1>2 DEF Context
<1>4. ASSUME NEW D
      PROVE  [operations[i] EXCEPT !.data = D]
                 = [owner |-> ClientOf[o], type |-> TypeOf[o], data |-> D]
    BY <1>1, <1>2 DEF Context
<1>5. ASSUME NEW D
      PROVE  [operations EXCEPT ![i].data = D]
                 = [operations EXCEPT ![i] = [owner |-> ClientOf[o], type |-> TypeOf[o], data |-> D]]
    BY <1>1, <1>4
<1> QED
    BY <1>1, <1>3, <1>5 DEF Fits

-----------------------------------------------------------------------------
(* The ways in which requests change the table.                            *)

LEMMA ReleasedEffect ==
    ASSUME IInv, NEW o \in Objects, Found(o), operations' = Released(handle[o])
    PROVE  Effect(o)
<1>1. Free \in Context /\ Sound(Free) /\ Free.type = None
    BY FreeIsSound DEF Sound, Free
<1> QED
    BY FoundContext, <1>1 DEF Released, Effect

LEMMA DataEffect ==
    ASSUME IInv, NEW o \in Objects, Found(o), NEW D \in SUBSET Objects,
           \A d \in D : ClientOf[d] = ClientOf[o] /\ TypeOf[d] = TypeOf[o],
           operations' = [operations EXCEPT ![handle[o]].data = D]
    PROVE  Effect(o)
<1> DEFINE r == [owner |-> ClientOf[o], type |-> TypeOf[o], data |-> D]
<1>1. Sound(r) /\ r \in Context /\ Fits(r, o)
    BY TakenIsSound DEF Sound, Fits
<1>2. operations' = [operations EXCEPT ![handle[o]] = r]
    BY FoundContext
<1> HIDE DEF r
<1> QED
    BY FoundContext, <1>1, <1>2 DEF Effect

LEMMA AbortedEffect ==
    ASSUME IInv, NEW o \in Objects, Found(o), operations' = Aborted(handle[o])
    PROVE  Effect(o)
<1>1. operations' = [operations EXCEPT ![handle[o]].data = {}]
    BY DEF Aborted
<1> QED
    BY <1>1, DataEffect, ZenonT(40)

LEMMA AllocEffect ==
    ASSUME IInv, NEW o \in Objects, FreeContexts # {}, NEW r, Sound(r), Fits(r, o),
           operations' = [operations EXCEPT ![Alloc] = r]
    PROVE  Effect(o)
BY AllocIsFree DEF Effect, Sound

LEMMA TakenEffect ==
    ASSUME IInv, NEW o \in Objects, FreeContexts # {},
           operations' = [operations EXCEPT ![Alloc] = Taken(o)]
    PROVE  Effect(o)
<1>1. Sound(Taken(o)) /\ Fits(Taken(o), o)
    BY TakenIsSound DEF Taken, Fits
<1> QED
    BY <1>1, AllocEffect

-----------------------------------------------------------------------------
(* Every request of object o.                                              *)
Request(o) ==
    \/ Setup(o) \/ Update(o) \/ IvFails(o) \/ Finish(o) \/ Abort(o)
    \/ \E p \in Objects : Clone(o, p)

LEMMA HandleKept ==
    ASSUME TypeOK, NEW o \in Objects, NEW h \in (0 .. NumContexts) \cup Garbage,
           handle' = [handle EXCEPT ![o] = h]
    PROVE  handle' \in [Objects -> (0 .. NumContexts) \cup Garbage]
BY DEF TypeOK

LEMMA NewHandle ==
    ASSUME TypeOK, NEW o \in Objects, FreeContexts # {},
           handle' = [handle EXCEPT ![o] = Alloc]
    PROVE  handle' \in [Objects -> (0 .. NumContexts) \cup Garbage]
<1>1. Alloc \in 0 .. NumContexts
    BY AllocIsFree, CryptoAssumption DEF Contexts
<1> QED
    BY <1>1, HandleKept

LEMMA RequestEffect ==
    ASSUME IInv, NEW o \in Objects, Request(o)
    PROVE  /\ Effect(o)
           /\ handle' \in [Objects -> (0 .. NumContexts) \cup Garbage]
           /\ caller' = ClientOf[o]
<1> DEFINE Goal == /\ Effect(o)
                   /\ handle' \in [Objects -> (0 .. NumContexts) \cup Garbage]
                   /\ caller' = ClientOf[o]
<1>0. /\ TypeOK
      /\ handle \in [Objects -> (0 .. NumContexts) \cup Garbage]
      /\ 0 \in 0 .. NumContexts
    BY CryptoAssumption DEF IInv, TypeOK
<1>1. UNCHANGED handle => handle' \in [Objects -> (0 .. NumContexts) \cup Garbage]
    BY <1>0
<1>2. UNCHANGED operations => Effect(o)
    BY DEF Effect
<1>3. ASSUME Found(o), Ended(o)
      PROVE  Effect(o) /\ handle' \in [Objects -> (0 .. NumContexts) \cup Garbage]
    BY <1>0, <1>3, ReleasedEffect, HandleKept DEF Ended
<1>4. CASE Setup(o)
    <2>1. CASE NoEffect
        BY <1>1, <1>2, <1>4, <2>1 DEF Setup, NoEffect, From
    <2>2. CASE /\ FreeContexts # {}
               /\ operations' = [operations EXCEPT ![Alloc] = Taken(o)]
               /\ handle' = [handle EXCEPT ![o] = Alloc]
        BY <1>0, <1>4, <2>2, TakenEffect, NewHandle DEF Setup, From
    <2>3. CASE SetupFails(o) /\ UNCHANGED handle
        BY <1>1, <1>2, <1>4, <2>3 DEF Setup, SetupFails, From
    <2> QED
        BY <1>4, <2>1, <2>2, <2>3 DEF Setup
<1>5. CASE Update(o)
    <2>1. CASE NoEffect
        BY <1>1, <1>2, <1>5, <2>1 DEF Update, NoEffect, From
    <2>2. CASE /\ Found(o)
               /\ operations' = [operations EXCEPT ![handle[o]].data = @ \cup {o}]
               /\ UNCHANGED handle
        <3> DEFINE D == operations[handle[o]].data \cup {o}
        <3>1. operations' = [operations EXCEPT ![handle[o]].data = D]
            BY <2>2
        <3>2. D \in SUBSET Objects
            BY <2>2, FoundContext
        <3>3. \A d \in D : ClientOf[d] = ClientOf[o] /\ TypeOf[d] = TypeOf[o]
            BY <2>2 DEF IInv, AllSound, Sound, Found
        <3> HIDE DEF D
        <3>4. Effect(o)
            BY <2>2, <3>1, <3>2, <3>3, DataEffect
        <3> QED
            BY <1>1, <1>5, <2>2, <3>4 DEF Update, From
    <2>3. CASE Found(o) /\ operations' = AfterError(o) /\ UNCHANGED handle
        BY <1>1, <1>5, <2>3, ReleasedEffect, AbortedEffect DEF Update, From, AfterError
    <2> QED
        BY <1>5, <2>1, <2>2, <2>3 DEF Update
<1>6. CASE IvFails(o)
    BY <1>1, <1>6, AbortedEffect DEF IvFails, From
<1>7. CASE Finish(o)
    BY <1>1, <1>2, <1>3, <1>7, AbortedEffect DEF Finish, From, NoEffect
<1>8. CASE Abort(o)
    BY <1>1, <1>2, <1>3, <1>8 DEF Abort, From, NoEffect
<1>9. ASSUME NEW p \in Objects, Clone(o, p)
      PROVE  Goal
    <2>1. CASE NoEffect
        BY <1>1, <1>2, <1>9, <2>1 DEF Clone, NoEffect, From
    <2>2. CASE /\ Found(o) /\ FreeContexts # {}
               /\ operations' = [operations EXCEPT ![Alloc] =
                      [Taken(p) EXCEPT !.data = @ \cup (operations[handle[o]].data \ {o})]]
               /\ handle' = [handle EXCEPT ![p] = Alloc]
        <3> DEFINE D == {p} \cup (operations[handle[o]].data \ {o})
        <3> DEFINE r == [owner |-> ClientOf[p], type |-> TypeOf[p], data |-> D]
        <3>1. operations' = [operations EXCEPT ![Alloc] = r]
            <4>1. [Taken(p) EXCEPT !.data = @ \cup (operations[handle[o]].data \ {o})] = r
                BY DEF Taken
            <4> QED
                BY <2>2, <4>1
        <3>2. D \in SUBSET Objects
            BY <2>2, FoundContext
        <3>3. \A d \in D : ClientOf[d] = ClientOf[p] /\ TypeOf[d] = TypeOf[p]
            BY <1>9, <2>2 DEF IInv, AllSound, Sound, Found, Clone
        <3> HIDE DEF D
        <3>4. Sound(r) /\ Fits(r, o)
            BY <1>9, <3>2, <3>3, TakenIsSound DEF Fits, Clone
        <3> HIDE DEF r
        <3>5. Effect(o)
            BY <2>2, <3>1, <3>4, AllocEffect
        <3> QED
            BY <1>0, <1>9, <2>2, <3>5, NewHandle DEF Clone, From
    <2>3. CASE SetupFails(p) /\ UNCHANGED handle
        BY <1>1, <1>2, <1>9, <2>3 DEF Clone, SetupFails, From
    <2> QED
        BY <1>9, <2>1, <2>2, <2>3 DEF Clone
<1> QED
    BY <1>4, <1>5, <1>6, <1>7, <1>8, <1>9 DEF Request

LEMMA EffectKeepsSound ==
    ASSUME IInv, NEW o \in Objects, Effect(o)
    PROVE  AllSound' /\ operations' \in [Contexts -> Context]
<1>0. operations \in [Contexts -> Context]
    BY DEF IInv, TypeOK, Context
<1>1. CASE UNCHANGED operations
    BY <1>0, <1>1 DEF IInv, AllSound
<1>2. ASSUME NEW i \in Contexts, NEW r \in Context, Sound(r),
             operations' = [operations EXCEPT ![i] = r]
      PROVE  AllSound' /\ operations' \in [Contexts -> Context]
    <2>1. operations' \in [Contexts -> Context]
        BY <1>0, <1>2
    <2>2. ASSUME NEW j \in Contexts
          PROVE  Sound(operations'[j])
        BY <1>0, <1>2 DEF IInv, AllSound
    <2>3. AllSound'
        BY <2>2 DEF AllSound
    <2> QED
        BY <2>1, <2>3
<1> QED
    BY <1>1, <1>2 DEF Effect

-----------------------------------------------------------------------------
LEMMA Invariance == Spec => []IInv
<1>1. Init => IInv
    <2> SUFFICES ASSUME Init PROVE IInv
        OBVIOUS
    <2>1. \A i \in Contexts : operations[i] = Free
        BY DEF Init
    <2>2. AllSound
        BY <2>1, FreeIsSound DEF AllSound
    <2>3. Free \in Context
        BY FreeIsSound DEF Sound
    <2>4. operations \in [Contexts -> Context]
        BY <2>3 DEF Init
    <2>5. handle \in [Objects -> (0 .. NumContexts) \cup Garbage]
        BY CryptoAssumption DEF Init
    <2>6. caller \in Clients \cup {None}
        BY DEF Init
    <2> QED
        BY <2>2, <2>4, <2>5, <2>6 DEF IInv, TypeOK, Context
<1>2. IInv /\ [Next]_vars => IInv'
    <2> SUFFICES ASSUME IInv, [Next]_vars PROVE IInv'
        OBVIOUS
    <2>1. ASSUME NEW o \in Objects, Request(o)
          PROVE  IInv'
        <3>1. AllSound' /\ operations' \in [Contexts -> Context]
            BY <2>1, RequestEffect, EffectKeepsSound
        <3>2. caller' \in Clients \cup {None}
            BY <2>1, RequestEffect DEF Clients
        <3> QED
            BY <2>1, <3>1, <3>2, RequestEffect DEF IInv, TypeOK, Context
    <2>2. ASSUME NEW o \in Objects, Overwrite(o)
          PROVE  IInv'
        <3>1. handle' \in [Objects -> (0 .. NumContexts) \cup Garbage]
            BY <2>2, HandleKept DEF Overwrite, IInv
        <3> QED
            BY <2>2, <3>1 DEF IInv, TypeOK, AllSound, Overwrite
    <2>3. CASE UNCHANGED vars
        BY <2>3 DEF IInv, TypeOK, AllSound, vars
    <2> QED
        BY <2>1, <2>2, <2>3 DEF Next, Request
<1> QED
    BY <1>1, <1>2, PTL DEF Spec

(* Handles name contexts or are what clients wrote, and contexts keep      *)
(* their type.                                                             *)
THEOREM TypeCorrect == Spec => []TypeOK
BY Invariance, PTL DEF IInv

(* Whatever handles clients send, the library works on a context only for  *)
(* the client and the kind of operation it was set up for                  *)
(* (tfm_crypto_operation_lookup).                                          *)
THEOREM ContextsKeepTheirOwner == Spec => []ContextOfItsOwner
<1>1. IInv => ContextOfItsOwner
    BY DEF IInv, AllSound, Sound, ContextOfItsOwner
<1> QED
    BY <1>1, Invariance, PTL

(* A context that is handed out holds nothing of an earlier operation      *)
(* (tfm_crypto_operation_release).                                         *)
THEOREM FreeContextsAreClear == Spec => []NoResidue
<1>1. IInv => NoResidue
    BY DEF IInv, AllSound, Sound, NoResidue, InUse
<1> QED
    BY <1>1, Invariance, PTL

(* No request changes or ends an operation of another client.              *)
THEOREM ClientsAreIsolated == Spec => OthersUntouched
<1> DEFINE A == \A i \in Contexts : InUse(i) /\ operations'[i] # operations[i]
                    => operations[i].owner = caller'
<1>1. IInv /\ [Next]_vars => [A]_vars
    <2> SUFFICES ASSUME IInv, Next PROVE A
        OBVIOUS
    <2>1. ASSUME NEW o \in Objects, Request(o)
          PROVE  A
        <3>1. Effect(o) /\ caller' = ClientOf[o]
            BY <2>1, RequestEffect
        <3>2. operations \in [Contexts -> Context]
            BY DEF IInv, TypeOK, Context
        <3> QED
            BY <3>1, <3>2 DEF Effect, Fits
    <2>2. ASSUME NEW o \in Objects, Overwrite(o)
          PROVE  A
        BY <2>2 DEF Overwrite
    <2> QED
        BY <2>1, <2>2 DEF Next, Request
<1> QED
    BY <1>1, Invariance, PTL DEF Spec, OthersUntouched

-----------------------------------------------------------------------------
(* Regular operations: those that are no cipher operations, of clients     *)
(* that leave their handles alone.                                         *)

Accounted(ops, hdl) ==
    /\ \A i \in Contexts : ops[i].type # None /\ Regular(ops[i].owner, ops[i].type)
           => \E o \in RegularObjects : hdl[o] = i
    /\ \A o \in RegularObjects : hdl[o] # 0 =>
           /\ hdl[o] \in Contexts
           /\ ops[hdl[o]].type = TypeOf[o] /\ ops[hdl[o]].owner = ClientOf[o]
           /\ ops[hdl[o]].data \subseteq {o}
           /\ \A p \in RegularObjects : hdl[p] = hdl[o] => p = o

LEMMA AccountedIs ==
    /\ ContextsAccounted <=> Accounted(operations, handle)
    /\ ContextsAccounted' <=> Accounted(operations', handle')
BY DEF ContextsAccounted, Accounted, Found, InUse

LEMMA RegularIsObject ==
    ASSUME NEW o \in RegularObjects
    PROVE  o \in Objects /\ Regular(ClientOf[o], TypeOf[o]) /\ TypeOf[o] # "cipher"
BY DEF RegularObjects, Regular

LEMMA TakeKeepsAccount ==
    ASSUME IInv, ContextsAccounted, NEW o \in RegularObjects, handle[o] = 0, FreeContexts # {},
           operations' = [operations EXCEPT ![Alloc] = Taken(o)],
           handle' = [handle EXCEPT ![o] = Alloc]
    PROVE  ContextsAccounted'
<1>1. Alloc \in Contexts /\ ~InUse(Alloc) /\ 0 \notin Contexts
    BY AllocIsFree DEF Contexts
<1>2. Accounted(operations, handle)
    BY AccountedIs
<1>3. /\ operations \in [Contexts -> Context]
      /\ handle \in [Objects -> (0 .. NumContexts) \cup Garbage]
    BY DEF IInv, TypeOK, Context
<1>4. \A p \in RegularObjects : handle[p] # Alloc
    <2> SUFFICES ASSUME NEW p \in RegularObjects, handle[p] = Alloc PROVE FALSE
        OBVIOUS
    <2>1. operations[Alloc].type = TypeOf[p]
        BY <1>1, <1>2 DEF Accounted
    <2> QED
        BY <1>1, <2>1, RegularIsObject, CryptoAssumption DEF InUse
<1>5. /\ operations'[Alloc].type = TypeOf[o] /\ operations'[Alloc].owner = ClientOf[o]
      /\ operations'[Alloc].data = {o}
      /\ \A i \in Contexts : i # Alloc => operations'[i] = operations[i]
    BY <1>1, <1>3 DEF Taken
<1>6. handle'[o] = Alloc /\ \A p \in RegularObjects : p # o => handle'[p] = handle[p]
    BY <1>3, RegularIsObject
<1>7. ASSUME NEW i \in Contexts, operations'[i].type # None,
             Regular(operations'[i].owner, operations'[i].type)
      PROVE  \E p \in RegularObjects : handle'[p] = i
    <2>1. CASE i = Alloc
        BY <1>6, <2>1
    <2>2. CASE i # Alloc
        <3>1. PICK p \in RegularObjects : handle[p] = i
            BY <1>2, <1>5, <1>7, <2>2 DEF Accounted
        <3>2. p # o
            BY <1>1, <3>1
        <3> QED
            BY <1>6, <3>1, <3>2
    <2> QED
        BY <2>1, <2>2
<1>8. ASSUME NEW p \in RegularObjects, handle'[p] # 0
      PROVE  /\ handle'[p] \in Contexts
             /\ operations'[handle'[p]].type = TypeOf[p]
             /\ operations'[handle'[p]].owner = ClientOf[p]
             /\ operations'[handle'[p]].data \subseteq {p}
             /\ \A q \in RegularObjects : handle'[q] = handle'[p] => q = p
    <2>1. CASE p = o
        BY <1>1, <1>4, <1>5, <1>6, <2>1
    <2>2. CASE p # o
        BY <1>2, <1>4, <1>5, <1>6, <1>8, <2>2 DEF Accounted
    <2> QED
        BY <2>1, <2>2
<1>9. Accounted(operations', handle')
    BY <1>7, <1>8 DEF Accounted
<1> QED
    BY <1>9, AccountedIs

LEMMA EndKeepsAccount ==
    ASSUME IInv, ContextsAccounted, NEW o \in RegularObjects, Found(o), Ended(o)
    PROVE  ContextsAccounted'
<1>1. Accounted(operations, handle)
    BY AccountedIs
<1>2. /\ operations \in [Contexts -> Context]
      /\ handle \in [Objects -> (0 .. NumContexts) \cup Garbage]
      /\ handle[o] \in Contexts /\ handle[o] # 0 /\ 0 \notin Contexts
    BY CryptoAssumption, RegularIsObject DEF IInv, TypeOK, Context, Found, Contexts
<1>3. /\ operations'[handle[o]].type = None
      /\ \A i \in Contexts : i # handle[o] => operations'[i] = operations[i]
    BY <1>2 DEF Ended, Released, Free
<1>4. handle'[o] = 0 /\ \A p \in RegularObjects : p # o => handle'[p] = handle[p]
    BY <1>2, RegularIsObject DEF Ended
<1>5. \A p \in RegularObjects : p # o => handle[p] # handle[o]
    BY <1>1, <1>2 DEF Accounted
<1>6. ASSUME NEW i \in Contexts, operations'[i].type # None,
             Regular(operations'[i].owner, operations'[i].type)
      PROVE  \E p \in RegularObjects : handle'[p] = i
    <2>1. /\ i # handle[o] /\ operations[i].type # None
          /\ Regular(operations[i].owner, operations[i].type)
        BY <1>3, <1>6
    <2>2. PICK p \in RegularObjects : handle[p] = i
        BY <1>1, <2>1 DEF Accounted
    <2> QED
        BY <1>4, <2>1, <2>2
<1>7. ASSUME NEW p \in RegularObjects, handle'[p] # 0
      PROVE  /\ handle'[p] \in Contexts
             /\ operations'[handle'[p]].type = TypeOf[p]
             /\ operations'[handle'[p]].owner = ClientOf[p]
             /\ operations'[handle'[p]].data \subseteq {p}
             /\ \A q \in RegularObjects : handle'[q] = handle'[p] => q = p
    <2>1. p # o /\ handle'[p] = handle[p] /\ handle[p] # handle[o]
        BY <1>4, <1>5, <1>7
    <2>2. handle[p] \in Contexts
        BY <1>1, <1>7, <2>1 DEF Accounted
    <2>3. operations'[handle[p]] = operations[handle[p]]
        BY <1>3, <2>1, <2>2
    <2> QED
        BY <1>1, <1>4, <1>7, <2>1, <2>2, <2>3 DEF Accounted
<1>8. Accounted(operations', handle')
    BY <1>6, <1>7 DEF Accounted
<1> QED
    BY <1>8, AccountedIs

LEMMA DataKeepsAccount ==
    ASSUME IInv, ContextsAccounted, NEW o \in RegularObjects, Found(o), NEW D \in SUBSET {o},
           operations' = [operations EXCEPT ![handle[o]].data = D], UNCHANGED handle
    PROVE  ContextsAccounted'
<1>1. Accounted(operations, handle)
    BY AccountedIs
<1>2. /\ operations \in [Contexts -> Context]
      /\ handle[o] \in Contexts /\ handle[o] # 0
    BY CryptoAssumption DEF IInv, TypeOK, Context, Found, Contexts
<1> DEFINE r == [owner |-> ClientOf[o], type |-> TypeOf[o], data |-> D]
<1>3. operations' = [operations EXCEPT ![handle[o]] = r]
    BY FoundContext, RegularIsObject
<1>4. /\ operations'[handle[o]].type = TypeOf[o] /\ operations'[handle[o]].owner = ClientOf[o]
      /\ operations'[handle[o]].data \subseteq {o}
      /\ \A i \in Contexts : i # handle[o] => operations'[i] = operations[i]
    BY <1>2, <1>3
<1>5. ASSUME NEW i \in Contexts, operations'[i].type # None,
             Regular(operations'[i].owner, operations'[i].type)
      PROVE  \E p \in RegularObjects : handle[p] = i
    BY <1>1, <1>4, <1>5 DEF Accounted
<1>6. ASSUME NEW p \in RegularObjects, handle[p] # 0
      PROVE  /\ handle[p] \in Contexts
             /\ operations'[handle[p]].type = TypeOf[p]
             /\ operations'[handle[p]].owner = ClientOf[p]
             /\ operations'[handle[p]].data \subseteq {p}
             /\ \A q \in RegularObjects : handle[q] = handle[p] => q = p
    BY <1>1, <1>2, <1>4, <1>6 DEF Accounted
<1>7. Accounted(operations', handle')
    BY <1>5, <1>6 DEF Accounted
<1> QED
    BY <1>7, AccountedIs

LEMMA RequestKeepsAccount ==
    ASSUME IInv, ContextsAccounted, NEW o \in RegularObjects, Request(o)
    PROVE  ContextsAccounted'
<1>0. o \in Objects /\ TypeOf[o] # "cipher"
    BY RegularIsObject
<1>1. ASSUME UNCHANGED <<operations, handle>>
      PROVE  ContextsAccounted'
    BY <1>1, AccountedIs
<1>2. ASSUME Found(o), operations' = Aborted(handle[o]), UNCHANGED handle
      PROVE  ContextsAccounted'
    <2>1. operations' = [operations EXCEPT ![handle[o]].data = {}]
        BY <1>2 DEF Aborted
    <2> QED
        BY <1>2, <2>1, DataKeepsAccount
<1>3. ASSUME Found(o)
      PROVE  handle[o] # 0 /\ operations[handle[o]].data \subseteq {o}
    BY <1>3, CryptoAssumption DEF ContextsAccounted, Found, Contexts
<1>4. CASE Setup(o)
    BY <1>1, <1>4, TakeKeepsAccount DEF Setup, NoEffect, SetupFails
<1>5. CASE Update(o)
    <2>1. CASE NoEffect
        BY <1>1, <2>1 DEF NoEffect
    <2>2. CASE /\ Found(o)
               /\ operations' = [operations EXCEPT ![handle[o]].data = @ \cup {o}]
               /\ UNCHANGED handle
        <3> DEFINE D == operations[handle[o]].data \cup {o}
        <3>1. operations' = [operations EXCEPT ![handle[o]].data = D]
            BY <2>2
        <3>2. D \in SUBSET {o}
            BY <1>3, <2>2
        <3> HIDE DEF D
        <3> QED
            BY <2>2, <3>1, <3>2, DataKeepsAccount
    <2>3. CASE Found(o) /\ operations' = AfterError(o) /\ UNCHANGED handle
        BY <1>0, <1>2, <2>3 DEF AfterError
    <2> QED
        BY <1>5, <2>1, <2>2, <2>3 DEF Update
<1>6. CASE IvFails(o)
    BY <1>2, <1>6 DEF IvFails
<1>7. CASE Finish(o)
    BY <1>1, <1>2, <1>7, EndKeepsAccount DEF Finish, NoEffect
<1>8. CASE Abort(o)
    BY <1>1, <1>8, EndKeepsAccount DEF Abort, NoEffect
<1>9. ASSUME NEW p \in Objects, Clone(o, p)
      PROVE  ContextsAccounted'
    <2>1. CASE UNCHANGED <<operations, handle>>
        BY <1>1, <2>1
    <2>2. CASE /\ Found(o) /\ FreeContexts # {}
               /\ operations' = [operations EXCEPT ![Alloc] =
                      [Taken(p) EXCEPT !.data = @ \cup (operations[handle[o]].data \ {o})]]
               /\ handle' = [handle EXCEPT ![p] = Alloc]
        <3>1. [Taken(p) EXCEPT !.data = @ \cup (operations[handle[o]].data \ {o})]
                  = [owner |-> ClientOf[p], type |-> TypeOf[p],
                     data |-> {p} \cup (operations[handle[o]].data \ {o})]
            BY DEF Taken
        <3>2. {p} \cup (operations[handle[o]].data \ {o}) = {p}
            BY <1>3, <2>2
        <3>3. [Taken(p) EXCEPT !.data = @ \cup (operations[handle[o]].data \ {o})] = Taken(p)
            BY <3>1, <3>2 DEF Taken
        <3>4. operations' = [operations EXCEPT ![Alloc] = Taken(p)]
            BY <2>2, <3>3
        <3>5. handle[p] = 0 /\ p \in RegularObjects
            BY <1>9 DEF Clone, RegularObjects
        <3> QED
            BY <2>2, <3>4, <3>5, TakeKeepsAccount
    <2> QED
        BY <1>9, <2>1, <2>2 DEF Clone, NoEffect, SetupFails
<1> QED
    BY <1>4, <1>5, <1>6, <1>7, <1>8, <1>9 DEF Request

(* A request changes the handles of objects of its client and kind only.   *)
LEMMA HandlesOfOwnKind ==
    ASSUME IInv, NEW o \in Objects, Request(o) \/ Overwrite(o),
           NEW q \in Objects, handle'[q] # handle[q]
    PROVE  ClientOf[q] = ClientOf[o] /\ TypeOf[q] = TypeOf[o]
<1>1. handle \in [Objects -> (0 .. NumContexts) \cup Garbage]
    BY DEF IInv, TypeOK
<1>2. ASSUME NEW h, handle' = [handle EXCEPT ![o] = h]
      PROVE  q = o
    BY <1>1, <1>2
<1>3. CASE Setup(o)
    BY <1>2, <1>3 DEF Setup, NoEffect
<1>4. CASE Update(o)
    BY <1>4 DEF Update, NoEffect
<1>5. CASE IvFails(o)
    BY <1>5 DEF IvFails
<1>6. CASE Finish(o)
    BY <1>2, <1>6 DEF Finish, NoEffect, Ended
<1>7. CASE Abort(o)
    BY <1>2, <1>7 DEF Abort, NoEffect, Ended
<1>8. ASSUME NEW p \in Objects, Clone(o, p)
      PROVE  ClientOf[q] = ClientOf[o] /\ TypeOf[q] = TypeOf[o]
    <2>1. handle' = [handle EXCEPT ![p] = Alloc] => q = p
        BY <1>1
    <2> QED
        BY <1>8, <2>1 DEF Clone, NoEffect
<1>9. CASE Overwrite(o)
    BY <1>2, <1>9 DEF Overwrite
<1> QED
    BY <1>3, <1>4, <1>5, <1>6, <1>7, <1>8, <1>9 DEF Request

(* The other operations do not touch the regular ones.                     *)
LEMMA OtherKeepsAccount ==
    ASSUME IInv, ContextsAccounted, NEW o \in Objects,
           ~Regular(ClientOf[o], TypeOf[o]), Request(o) \/ Overwrite(o)
    PROVE  ContextsAccounted'
<1>1. Accounted(operations, handle)
    BY AccountedIs
<1>2. operations \in [Contexts -> Context]
    BY DEF IInv, TypeOK, Context
<1>3. \A q \in RegularObjects : handle'[q] = handle[q]
    <2> SUFFICES ASSUME NEW q \in RegularObjects, handle'[q] # handle[q] PROVE FALSE
        OBVIOUS
    <2>1. q \in Objects /\ Regular(ClientOf[q], TypeOf[q])
        BY RegularIsObject
    <2>2. ClientOf[q] = ClientOf[o] /\ TypeOf[q] = TypeOf[o]
        BY <2>1, HandlesOfOwnKind
    <2> QED
        BY <2>1, <2>2
<1>4. Effect(o)
    <2>1. CASE Request(o)
        BY <2>1, RequestEffect
    <2>2. CASE Overwrite(o)
        BY <2>2 DEF Overwrite, Effect
    <2> QED
        BY <2>1, <2>2
<1>5. CASE UNCHANGED operations
    BY <1>1, <1>3, <1>5, AccountedIs DEF Accounted
<1>6. ASSUME NEW k \in Contexts, NEW r \in Context,
             InUse(k) => Fits(operations[k], o), r.type # None => Fits(r, o),
             operations' = [operations EXCEPT ![k] = r]
      PROVE  ContextsAccounted'
    <2>1. operations'[k] = r /\ \A i \in Contexts : i # k => operations'[i] = operations[i]
        BY <1>2, <1>6
    <2>2. ASSUME NEW i \in Contexts, operations'[i].type # None,
                 Regular(operations'[i].owner, operations'[i].type)
          PROVE  \E p \in RegularObjects : handle'[p] = i
        <3>1. i # k
            BY <1>6, <2>1, <2>2 DEF Fits
        <3> QED
            BY <1>1, <1>3, <2>1, <2>2, <3>1 DEF Accounted
    <2>3. ASSUME NEW p \in RegularObjects, handle'[p] # 0
          PROVE  /\ handle'[p] \in Contexts
                 /\ operations'[handle'[p]].type = TypeOf[p]
                 /\ operations'[handle'[p]].owner = ClientOf[p]
                 /\ operations'[handle'[p]].data \subseteq {p}
                 /\ \A q \in RegularObjects : handle'[q] = handle'[p] => q = p
        <3>1. /\ handle[p] \in Contexts /\ handle'[p] = handle[p]
              /\ operations[handle[p]].type = TypeOf[p]
              /\ operations[handle[p]].owner = ClientOf[p]
            BY <1>1, <1>3, <2>3 DEF Accounted
        <3>2. handle[p] # k
            <4>1. Regular(ClientOf[p], TypeOf[p]) /\ TypeOf[p] # None
                BY RegularIsObject, CryptoAssumption
            <4> QED
                BY <1>6, <3>1, <4>1 DEF Fits, InUse
        <3> QED
            BY <1>1, <1>3, <2>1, <2>3, <3>1, <3>2 DEF Accounted
    <2>4. Accounted(operations', handle')
        BY <2>2, <2>3 DEF Accounted
    <2> QED
        BY <2>4, AccountedIs
<1> QED
    BY <1>4, <1>5, <1>6 DEF Effect

(* Hash, MAC, AEAD and key derivation operations of clients that leave     *)
(* their handles alone lose no context on any error path and share none,   *)
(* whatever the other clients send.                                        *)
THEOREM NoContextLost == Spec => []ContextsAccounted
<1>1. Init => ContextsAccounted
    <2> SUFFICES ASSUME Init PROVE ContextsAccounted
        OBVIOUS
    <2>1. \A i \in Contexts : operations[i].type = None
        BY DEF Init, Free
    <2>2. \A o \in RegularObjects : handle[o] = 0
        BY RegularIsObject DEF Init
    <2> QED
        BY <2>1, <2>2 DEF ContextsAccounted, InUse
<1>2. IInv /\ ContextsAccounted /\ [Next]_vars => ContextsAccounted'
    <2> SUFFICES ASSUME IInv, ContextsAccounted, [Next]_vars PROVE ContextsAccounted'
        OBVIOUS
    <2>1. ASSUME NEW o \in Objects, Request(o)
          PROVE  ContextsAccounted'
        <3>1. CASE o \in RegularObjects
            BY <2>1, <3>1, RequestKeepsAccount
        <3>2. CASE o \notin RegularObjects
            BY <2>1, <3>2, OtherKeepsAccount DEF RegularObjects
        <3> QED
            BY <3>1, <3>2
    <2>2. ASSUME NEW o \in Objects, Overwrite(o)
          PROVE  ContextsAccounted'
        <3>1. ~Regular(ClientOf[o], TypeOf[o])
            BY <2>2 DEF Overwrite, Regular
        <3> QED
            BY <2>2, <3>1, OtherKeepsAccount
    <2>3. CASE UNCHANGED vars
        BY <2>3, AccountedIs DEF vars
    <2> QED
        BY <2>1, <2>2, <2>3 DEF Next, Request
<1> QED
    BY <1>1, <1>2, Invariance, PTL DEF Spec

=============================================================================
