----------------------- MODULE NsMailboxThreadProofs -----------------------
(* Safety of the non-secure mailbox with a mailbox thread, for every       *)
(* number of tasks and slots.                                              *)
EXTENDS NsMailboxThread, TLAPS, FiniteSetTheorems, WellFoundedInduction

-----------------------------------------------------------------------------
(* The inductive invariant.                                                *)

ThreadState ==
    [pc : {"receive", "acquire", "full", "sleep", "woken", "claim", "fill"},
     req : Clients \cup {None}, slot : Slots \cup {None}]

TypeOK ==
    /\ task \in [Clients -> {"idle", "check", "sleep"}]
    /\ wokenFlag \in [Clients -> BOOLEAN]
    /\ mq \in Seq(Clients)
    /\ thread \in ThreadState
    /\ empty \subseteq Slots /\ pend \subseteq Slots /\ replied \subseteq Slots
    /\ owner \in [Slots -> Clients \cup {None}]

(* The thread holds a request except while it waits for one, and what it   *)
(* read of the empty slots still holds when it uses it: others only add to *)
(* them.                                                                   *)
ThreadHolds ==
    /\ thread.pc = "receive" <=> thread.req = None
    /\ thread.pc = "claim" => thread.slot \in empty
    /\ thread.pc = "fill" => thread.slot \in Slots /\ thread.slot \notin pend \cup replied

Used == pend \cup replied

SlotsHaveOwners ==
    /\ pend \cap replied = {}
    /\ \A i \in Used : owner[i] \in Clients
    /\ \A i, j \in Used : owner[i] = owner[j] => i = j

QueuedOnce == \A i, j \in DOMAIN mq : mq[i] = mq[j] => i = j

InMq(c) == \E j \in DOMAIN mq : mq[j] = c
InSlot(c) == \E i \in Used : owner[i] = c

(* The request of a task that waits is in exactly one place, and that of   *)
(* an idle task is nowhere.                                                *)
OnePlaceEach ==
    \A c \in Clients :
        /\ task[c] # "idle" => InMq(c) \/ thread.req = c \/ InSlot(c) \/ wokenFlag[c]
        /\ InMq(c) => task[c] # "idle" /\ thread.req # c /\ ~InSlot(c) /\ ~wokenFlag[c]
        /\ thread.req = c => task[c] # "idle" /\ ~InSlot(c) /\ ~wokenFlag[c]
        /\ InSlot(c) => task[c] # "idle" /\ ~wokenFlag[c]

IndInv ==
    TypeOK /\ ThreadHolds /\ SlotsHaveOwners /\ SlotsAccounted /\ QueuedOnce /\ OnePlaceEach

-----------------------------------------------------------------------------
(* The least element of a non-empty set of numbers.                        *)
LEMMA MinIsLeast ==
    ASSUME NEW S, S \subseteq Nat, S # {}
    PROVE  Min(S) \in S
<1>1. \E x \in S : \A y \in S : ~(<<y, x>> \in OpToRel(<, Nat))
  BY NatLessThanWellFounded, WFMin
<1>2. \E x \in S : \A y \in S : x <= y
  <2>1. PICK x \in S : \A y \in S : ~(<<y, x>> \in OpToRel(<, Nat))
    BY <1>1
  <2>2. \A y \in S : ~(y < x)
    BY <2>1 DEF OpToRel
  <2> QED BY <2>2
<1> QED BY <1>2 DEF Min

(* Nothing is requested at the start.                                      *)
LEMMA InitInv ==
    ASSUME Init
    PROVE  IndInv
<1> USE ThreadAssumption
<1>1. mq = << >> /\ DOMAIN mq = {} /\ pend = {} /\ replied = {} /\ thread.req = None
      /\ thread.pc = "receive" /\ empty = Slots /\ \A c \in Clients : task[c] = "idle"
  BY DEF Init
<1>2. TypeOK
  BY DEF Init, TypeOK, ThreadState
<1>3. ThreadHolds /\ SlotsHaveOwners /\ SlotsAccounted /\ QueuedOnce
  BY <1>1 DEF ThreadHolds, SlotsHaveOwners, SlotsAccounted, QueuedOnce, Used
<1>4. OnePlaceEach
  BY <1>1 DEF OnePlaceEach, InMq, InSlot, Used
<1> QED BY <1>2, <1>3, <1>4 DEF IndInv

(* A task sends a request.                                                 *)
LEMMA SendInv ==
    ASSUME IndInv, NEW c \in Clients, Send(c)
    PROVE  IndInv'
<1> USE ThreadAssumption DEF IndInv
<1>1. /\ task[c] = "idle" /\ mq' = Append(mq, c) /\ wokenFlag' = [wokenFlag EXCEPT ![c] = FALSE]
      /\ task' = [task EXCEPT ![c] = "check"]
      /\ thread' = thread /\ empty' = empty /\ owner' = owner /\ pend' = pend
      /\ replied' = replied
  BY DEF Send, shared
<1>2. /\ mq \in Seq(Clients) /\ DOMAIN mq' = DOMAIN mq \cup {Len(mq) + 1}
      /\ Len(mq) + 1 \notin DOMAIN mq
      /\ \A j \in DOMAIN mq : mq'[j] = mq[j] /\ mq[j] \in Clients
      /\ mq'[Len(mq) + 1] = c
  BY <1>1 DEF TypeOK
<1>3. TypeOK'
  BY <1>1 DEF TypeOK
<1>4. ThreadHolds' /\ SlotsHaveOwners' /\ SlotsAccounted'
  BY <1>1 DEF ThreadHolds, SlotsHaveOwners, SlotsAccounted, Used
<1>5. ~InMq(c) /\ thread.req # c /\ ~InSlot(c)
  BY <1>1 DEF OnePlaceEach
<1>6. \A d \in Clients : (InMq(d)' <=> InMq(d) \/ d = c) /\ (InSlot(d)' <=> InSlot(d))
  BY <1>1, <1>2 DEF InMq, InSlot, Used
<1>7. QueuedOnce'
  BY <1>2, <1>5 DEF QueuedOnce, InMq
<1>8. /\ ~wokenFlag'[c] /\ task'[c] = "check"
      /\ \A d \in Clients \ {c} : wokenFlag'[d] = wokenFlag[d] /\ task'[d] = task[d]
  BY <1>1 DEF TypeOK
<1>9. OnePlaceEach'
  BY <1>1, <1>5, <1>6, <1>8 DEF OnePlaceEach
<1> QED BY <1>3, <1>4, <1>7, <1>9

(* A task looks at its flag or is woken.                                   *)
LEMMA TaskStepInv ==
    ASSUME IndInv, NEW c \in Clients, TaskStep(c)
    PROVE  IndInv'
<1> USE ThreadAssumption DEF IndInv
<1>1. /\ task[c] # "idle" /\ wokenFlag' = wokenFlag /\ mq' = mq
      /\ thread' = thread /\ empty' = empty /\ owner' = owner /\ pend' = pend
      /\ replied' = replied
  BY DEF TaskStep, CheckReply, WaitReply, shared
<1>2. PICK q \in {"idle", "check", "sleep"} : task' = [task EXCEPT ![c] = q]
                                            /\ (q = "idle" => wokenFlag[c])
  BY DEF TaskStep, CheckReply, WaitReply
<1>3. TypeOK'
  BY <1>1, <1>2 DEF TypeOK
<1>4. ThreadHolds' /\ SlotsHaveOwners' /\ SlotsAccounted' /\ QueuedOnce'
  BY <1>1 DEF ThreadHolds, SlotsHaveOwners, SlotsAccounted, QueuedOnce, Used
<1>5. \A d \in Clients : (InMq(d)' <=> InMq(d)) /\ (InSlot(d)' <=> InSlot(d))
  BY <1>1 DEF InMq, InSlot, Used
<1>6. task'[c] = q /\ \A d \in Clients \ {c} : task'[d] = task[d]
  BY <1>2 DEF TypeOK
<1>7. OnePlaceEach'
  BY <1>1, <1>2, <1>5, <1>6 DEF OnePlaceEach
<1> QED BY <1>3, <1>4, <1>7

(* The thread takes the oldest request from the queue.                     *)
LEMMA ReceiveInv ==
    ASSUME IndInv, Receive
    PROVE  IndInv'
<1> USE ThreadAssumption DEF IndInv
<1> PICK c : c = Head(mq)
  OBVIOUS
<1>1. /\ thread.pc = "receive" /\ thread.req = None
      /\ thread' = [pc |-> "acquire", req |-> c, slot |-> None] /\ mq' = Tail(mq)
      /\ task' = task /\ wokenFlag' = wokenFlag /\ empty' = empty /\ owner' = owner
      /\ pend' = pend /\ replied' = replied
  BY DEF Receive, shared, taskvars, ThreadHolds
<1>2. /\ mq \in Seq(Clients) /\ mq' \in Seq(Clients) /\ c \in Clients /\ Len(mq) \in Nat \ {0}
      /\ 1 \in DOMAIN mq /\ mq[1] = c /\ DOMAIN mq = 1 .. Len(mq)
      /\ DOMAIN mq' = 1 .. Len(mq) - 1
      /\ \A j \in DOMAIN mq' : mq'[j] = mq[j + 1]
  BY <1>1 DEF TypeOK, Receive
<1>3. TypeOK'
  BY <1>1, <1>2 DEF TypeOK, ThreadState
<1>4. ThreadHolds' /\ SlotsHaveOwners' /\ SlotsAccounted'
  BY <1>1, <1>2 DEF ThreadHolds, SlotsHaveOwners, SlotsAccounted, Used
<1>5. QueuedOnce'
  <2> SUFFICES ASSUME NEW i \in DOMAIN mq', NEW j \in DOMAIN mq', mq'[i] = mq'[j] PROVE i = j
    BY DEF QueuedOnce
  <2>1. i + 1 \in DOMAIN mq /\ j + 1 \in DOMAIN mq /\ mq[i + 1] = mq[j + 1]
    BY <1>2
  <2>2. i + 1 = j + 1
    BY <2>1 DEF QueuedOnce
  <2> QED BY <2>2, <1>2
<1>6. ASSUME NEW d \in Clients PROVE InMq(d)' <=> InMq(d) /\ d # c
  <2>1. ASSUME InMq(d)' PROVE InMq(d) /\ d # c
    <3>1. PICK j \in DOMAIN mq' : mq'[j] = d
      BY <2>1 DEF InMq
    <3>2. j + 1 \in DOMAIN mq /\ mq[j + 1] = d /\ j + 1 # 1
      BY <3>1, <1>2
    <3> QED BY <3>2, <1>2 DEF InMq, QueuedOnce
  <2>2. ASSUME InMq(d), d # c PROVE InMq(d)'
    <3>1. PICK j \in DOMAIN mq : mq[j] = d
      BY <2>2 DEF InMq
    <3>2. j # 1
      BY <3>1, <2>2, <1>2
    <3>3. j - 1 \in DOMAIN mq' /\ mq'[j - 1] = d
      BY <3>1, <3>2, <1>2
    <3> QED BY <3>3 DEF InMq
  <2> QED BY <2>1, <2>2
<1>7. \A d \in Clients : InSlot(d)' <=> InSlot(d)
  BY <1>1 DEF InSlot, Used
<1>8. InMq(c)
  BY <1>2 DEF InMq
<1>9. OnePlaceEach'
  BY <1>1, <1>2, <1>6, <1>7, <1>8 DEF OnePlaceEach
<1> QED BY <1>3, <1>4, <1>5, <1>9

(* The thread looks for an empty slot, waits for one and claims it.        *)
LEMMA AcquireInv ==
    ASSUME IndInv, ReadEmpty \/ SetFull \/ ThreadWait \/ ClearFull \/ Claim
    PROVE  IndInv'
<1> USE ThreadAssumption DEF IndInv
<1>1. /\ mq' = mq /\ task' = task /\ wokenFlag' = wokenFlag /\ owner' = owner
      /\ pend' = pend /\ replied' = replied
  BY DEF ReadEmpty, SetFull, ThreadWait, ClearFull, Claim, shared, taskvars
<1>2. thread \in ThreadState /\ empty \subseteq Slots /\ Slots \subseteq Nat
  BY DEF TypeOK, Slots
<1>3. empty # {} => Min(empty) \in empty
  BY <1>2, MinIsLeast
<1>4. /\ thread' \in ThreadState /\ thread'.req = thread.req
      /\ thread.pc # "receive" /\ thread'.pc # "receive"
      /\ empty' \subseteq Slots
  BY <1>2, <1>3 DEF ReadEmpty, SetFull, ThreadWait, ClearFull, Claim, ThreadState, Chosen
<1>5. ThreadHolds' /\ SlotsAccounted'
  <2>1. CASE Claim
    <3>1. /\ thread.pc = "claim" /\ thread.slot \in empty /\ empty' = empty \ {thread.slot}
          /\ thread'.pc = "fill" /\ thread'.slot = thread.slot
      BY <2>1, <1>2 DEF Claim, ThreadHolds, ThreadState
    <3> QED BY <3>1, <1>1, <1>2, <1>4 DEF ThreadHolds, SlotsAccounted
  <2>2. CASE ReadEmpty
    <3>1. /\ empty' = empty /\ thread.pc = "acquire" /\ thread'.pc \in {"full", "claim"}
          /\ thread'.pc = "claim" => thread'.slot \in empty
      BY <2>2, <1>2, <1>3 DEF ReadEmpty, Chosen, ThreadState
    <3> QED BY <3>1, <1>1, <1>4 DEF ThreadHolds, SlotsAccounted
  <2>3. CASE SetFull \/ ThreadWait \/ ClearFull
    <3>1. /\ empty' = empty /\ thread.pc \in {"full", "sleep", "woken"}
          /\ thread'.pc \in {"sleep", "woken", "acquire"}
      BY <2>3, <1>2 DEF SetFull, ThreadWait, ClearFull, ThreadState
    <3> QED BY <3>1, <1>1, <1>4 DEF ThreadHolds, SlotsAccounted
  <2> QED BY <2>1, <2>2, <2>3
<1>6. TypeOK'
  BY <1>1, <1>4 DEF TypeOK
<1>7. SlotsHaveOwners' /\ QueuedOnce'
  BY <1>1 DEF SlotsHaveOwners, QueuedOnce, Used
<1>8. \A d \in Clients : (InMq(d)' <=> InMq(d)) /\ (InSlot(d)' <=> InSlot(d))
  BY <1>1 DEF InMq, InSlot, Used
<1>9. OnePlaceEach'
  BY <1>1, <1>4, <1>8 DEF OnePlaceEach
<1> QED BY <1>5, <1>6, <1>7, <1>9

(* The thread fills the slot it claimed.                                   *)
LEMMA FillInv ==
    ASSUME IndInv, FillAndPend
    PROVE  IndInv'
<1> USE ThreadAssumption DEF IndInv
<1> PICK i : i = thread.slot
  OBVIOUS
<1> PICK c : c = thread.req
  OBVIOUS
<1>1. /\ thread.pc = "fill" /\ owner' = [owner EXCEPT ![i] = c] /\ pend' = pend \cup {i}
      /\ thread' = [pc |-> "receive", req |-> None, slot |-> None]
      /\ task' = task /\ wokenFlag' = wokenFlag /\ mq' = mq /\ empty' = empty
      /\ replied' = replied
  BY DEF FillAndPend, taskvars
<1>2. i \in Slots /\ i \notin pend /\ i \notin replied /\ c \in Clients
  BY <1>1 DEF ThreadHolds, TypeOK, ThreadState
<1>3. owner'[i] = c /\ \A j \in Slots \ {i} : owner'[j] = owner[j]
  BY <1>1, <1>2 DEF TypeOK
<1>4. TypeOK'
  BY <1>1, <1>2 DEF TypeOK, ThreadState
<1>5. ThreadHolds'
  BY <1>1 DEF ThreadHolds
<1>6. SlotsAccounted'
  BY <1>1, <1>2 DEF SlotsAccounted
<1>7. ~InSlot(c) /\ ~InMq(c) /\ task[c] # "idle" /\ ~wokenFlag[c]
  BY <1>2 DEF OnePlaceEach
<1>8. SlotsHaveOwners'
  <2>1. Used' = Used \cup {i} /\ Used \subseteq Slots \ {i}
    BY <1>1, <1>2 DEF Used, TypeOK
  <2>2. \A j \in Used : owner[j] # c
    BY <1>7 DEF InSlot
  <2> QED BY <1>1, <1>2, <1>3, <2>1, <2>2 DEF SlotsHaveOwners
<1>9. QueuedOnce'
  BY <1>1 DEF QueuedOnce
<1>10. \A d \in Clients : (InMq(d)' <=> InMq(d)) /\ (InSlot(d)' <=> InSlot(d) \/ d = c)
  <2>1. Used' = Used \cup {i} /\ Used \subseteq Slots \ {i}
    BY <1>1, <1>2 DEF Used, TypeOK
  <2> QED BY <1>1, <1>3, <2>1 DEF InMq, InSlot
<1>11. thread'.req = None
  BY <1>1
<1>12. OnePlaceEach'
  BY <1>1, <1>2, <1>7, <1>10, <1>11 DEF OnePlaceEach
<1> QED BY <1>4, <1>5, <1>6, <1>8, <1>9, <1>12

(* The secure core answers a pending slot.                                 *)
LEMMA SecureReplyInv ==
    ASSUME IndInv, NEW i \in Slots, SecureReply(i)
    PROVE  IndInv'
<1> USE ThreadAssumption DEF IndInv
<1>1. /\ i \in pend /\ pend' = pend \ {i} /\ replied' = replied \cup {i}
      /\ task' = task /\ wokenFlag' = wokenFlag /\ mq' = mq /\ empty' = empty
      /\ thread' = thread /\ owner' = owner
  BY DEF SecureReply, taskvars
<1>2. TypeOK'
  BY <1>1 DEF TypeOK
<1>3. Used' = Used
  BY <1>1 DEF Used
<1>4. SlotsHaveOwners'
  BY <1>1, <1>3 DEF SlotsHaveOwners
<1>5. ThreadHolds' /\ SlotsAccounted' /\ QueuedOnce'
  BY <1>1, <1>3 DEF ThreadHolds, SlotsAccounted, QueuedOnce, Used
<1>6. \A d \in Clients : (InMq(d)' <=> InMq(d)) /\ (InSlot(d)' <=> InSlot(d))
  BY <1>1, <1>3 DEF InMq, InSlot
<1>7. OnePlaceEach'
  BY <1>1, <1>6 DEF OnePlaceEach
<1> QED BY <1>2, <1>4, <1>5, <1>7

(* The interrupt wakes the owners of the answered slots and frees those.   *)
LEMMA ReplyIsrInv ==
    ASSUME IndInv, ReplyIsr
    PROVE  IndInv'
<1> USE ThreadAssumption DEF IndInv
<1>1. /\ replied' = {} /\ empty' = empty \cup replied /\ task' = task /\ mq' = mq
      /\ wokenFlag' = [c \in Clients |-> wokenFlag[c] \/ c \in {owner[i] : i \in replied}]
      /\ thread' = thread /\ owner' = owner /\ pend' = pend
  BY DEF ReplyIsr, FreedSlots, Completed
<1>2. \A c \in Clients : wokenFlag'[c] <=> wokenFlag[c] \/ \E i \in replied : owner[i] = c
  BY <1>1
<1>3. wokenFlag' \in [Clients -> BOOLEAN]
  <2>1. \A c \in Clients : (wokenFlag[c] \/ c \in {owner[i] : i \in replied}) \in BOOLEAN
    OBVIOUS
  <2> QED BY <1>1, <2>1
<1>4. TypeOK'
  BY <1>1, <1>3 DEF TypeOK
<1>5. Used' = Used \ replied /\ pend' = Used'
  BY <1>1 DEF Used, SlotsHaveOwners
<1>6. SlotsHaveOwners'
  BY <1>1, <1>5 DEF SlotsHaveOwners
<1>7. ThreadHolds' /\ SlotsAccounted' /\ QueuedOnce'
  <2>1. ThreadHolds' /\ QueuedOnce'
    BY <1>1 DEF ThreadHolds, QueuedOnce
  <2>2. SlotsAccounted'
    BY <1>1 DEF SlotsAccounted, SlotsHaveOwners, TypeOK, ThreadHolds
  <2> QED BY <2>1, <2>2
<1>8. ASSUME NEW c \in Clients
      PROVE  /\ InMq(c)' <=> InMq(c)
             /\ InSlot(c)' <=> InSlot(c) /\ ~\E i \in replied : owner[i] = c
             /\ (\E i \in replied : owner[i] = c) => InSlot(c)
  BY <1>1, <1>5 DEF InMq, InSlot, SlotsHaveOwners, Used
<1>9. OnePlaceEach'
  <2> SUFFICES ASSUME NEW c \in Clients
               PROVE  /\ task[c] # "idle" => InMq(c)' \/ thread.req = c \/ InSlot(c)' \/ wokenFlag'[c]
                      /\ InMq(c)' => task[c] # "idle" /\ thread.req # c /\ ~InSlot(c)' /\ ~wokenFlag'[c]
                      /\ thread.req = c => task[c] # "idle" /\ ~InSlot(c)' /\ ~wokenFlag'[c]
                      /\ InSlot(c)' => task[c] # "idle" /\ ~wokenFlag'[c]
    BY <1>1 DEF OnePlaceEach
  <2> QED BY <1>2, <1>8 DEF OnePlaceEach
<1> QED BY <1>4, <1>6, <1>7, <1>9

(* Every step keeps the invariant.                                         *)
LEMMA NextInv ==
    ASSUME IndInv, [Next]_vars
    PROVE  IndInv'
<1>1. CASE UNCHANGED vars
  BY <1>1 DEF vars, IndInv, TypeOK, ThreadHolds, SlotsHaveOwners, SlotsAccounted, QueuedOnce,
              OnePlaceEach, InMq, InSlot, Used
<1>2. CASE Next
  BY <1>2, SendInv, TaskStepInv, ReceiveInv, AcquireInv, FillInv, SecureReplyInv, ReplyIsrInv
     DEF Next, ThreadStep
<1> QED BY <1>1, <1>2

(* The inductive invariant holds in every reachable state, for any number  *)
(* of tasks and slots.                                                     *)
THEOREM ThreadInvariance == Spec => []IndInv
<1>1. Init => IndInv
  BY InitInv
<1>2. IndInv /\ [Next]_vars => IndInv'
  BY NextInv
<1> QED BY <1>1, <1>2, PTL DEF Spec

(* A slot is free exactly if no request is in it or on its way to it       *)
(* (acquire_empty_slot, set_queue_slot_all_empty).                         *)
THEOREM SlotsAreAccounted == Spec => []SlotsAccounted
<1>1. IndInv => SlotsAccounted
  BY DEF IndInv
<1> QED BY <1>1, ThreadInvariance, PTL

(* The request of a task is in exactly one place until the task returns:   *)
(* none is lost, and none is overwritten in its slot, though the thread    *)
(* uses what it read under the lock after it gave up the lock.             *)
THEOREM RequestsInOnePlace == Spec => []RequestInOnePlace
<1>1. ASSUME IndInv, NEW c \in Clients, task[c] # "idle"
      PROVE  Cardinality(Places(c)) = 1
  <2> PICK M : M = {<<"mq", j>> : j \in {j \in DOMAIN mq : mq[j] = c}}
    OBVIOUS
  <2> PICK T : T = IF thread.req = c THEN {<<"thread", 0>>} ELSE {}
    OBVIOUS
  <2> PICK L : L = {<<"slot", i>> : i \in {i \in pend \cup replied : owner[i] = c}}
    OBVIOUS
  <2> PICK A : A = IF wokenFlag[c] THEN {<<"answered", 0>>} ELSE {}
    OBVIOUS
  <2>1. Places(c) = M \cup T \cup L \cup A
    BY DEF Places
  <2>2. /\ ~InMq(c) => M = {}
        /\ ~InSlot(c) => L = {}
        /\ thread.req # c => T = {}
        /\ ~wokenFlag[c] => A = {}
    BY DEF InMq, InSlot, Used
  <2>3. CASE InMq(c)
    <3>1. PICK j \in DOMAIN mq : mq[j] = c
      BY <2>3 DEF InMq
    <3>2. M = {<<"mq", j>>}
      BY <1>1, <3>1 DEF IndInv, QueuedOnce
    <3>3. T = {} /\ L = {} /\ A = {}
      BY <1>1, <2>2, <2>3 DEF IndInv, OnePlaceEach
    <3>4. PICK x : M = {x}
      BY <3>2
    <3>5. Places(c) = {x}
      BY <2>1, <3>3, <3>4
    <3> QED BY <3>5, FS_Singleton
  <2>4. CASE thread.req = c
    <3>1. M = {} /\ L = {} /\ A = {}
      BY <1>1, <2>2, <2>4 DEF IndInv, OnePlaceEach
    <3>2. PICK x : T = {x}
      BY <2>4
    <3>3. Places(c) = {x}
      BY <2>1, <3>1, <3>2
    <3> QED BY <3>3, FS_Singleton
  <2>5. CASE InSlot(c)
    <3>1. PICK i \in Used : owner[i] = c
      BY <2>5 DEF InSlot
    <3>2. L = {<<"slot", i>>}
      BY <1>1, <3>1 DEF IndInv, SlotsHaveOwners, Used
    <3>3. M = {} /\ T = {} /\ A = {}
      BY <1>1, <2>2, <2>5 DEF IndInv, OnePlaceEach
    <3>4. PICK x : L = {x}
      BY <3>2
    <3>5. Places(c) = {x}
      BY <2>1, <3>3, <3>4
    <3> QED BY <3>5, FS_Singleton
  <2>6. CASE wokenFlag[c]
    <3>1. M = {} /\ T = {} /\ L = {}
      BY <1>1, <2>2, <2>6 DEF IndInv, OnePlaceEach
    <3>2. PICK x : A = {x}
      BY <2>6
    <3>3. Places(c) = {x}
      BY <2>1, <3>1, <3>2
    <3> QED BY <3>3, FS_Singleton
  <2> QED BY <1>1, <2>3, <2>4, <2>5, <2>6 DEF IndInv, OnePlaceEach
<1>2. IndInv => RequestInOnePlace
  BY <1>1 DEF RequestInOnePlace
<1> QED BY <1>2, ThreadInvariance, PTL

=============================================================================
