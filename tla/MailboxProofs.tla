---------------------------- MODULE MailboxProofs ----------------------------
(* Safety of the mailbox for every number of tasks, slots and connections. *)
(* The tasks make all kinds of calls.  What is proved holds until a        *)
(* psa_close comes from another slot than its connection remembers; the    *)
(* history variable stray tells when, and the invariant is about the       *)
(* states before.                                                          *)
EXTENDS Mailbox, TLAPS, FiniteSetTheorems, WellFoundedInduction

(* The calls a task may make.                                              *)
CallTypes == {"version", "call", "connect", "conn_call", "close", "close_null", "unknown"}

-----------------------------------------------------------------------------
(* The inductive invariant.                                                *)

Message == [client : Clients \cup {None}, op : CallTypes \cup {"none"},
            conn : Conns \cup {None}]

Task == [pc : {"idle", "filled", "pended", "waiting", "answered"},
         slot : Slots \cup {None}, op : CallTypes \cup {"none"}, conn : Conns \cup {None}]

Queue == [handle : [Slots -> Nat], empty : SUBSET Slots]

AgentState == [pc : {"wait", "mail", "dispatch", "async"}, async : BOOLEAN,
               snapshot : SUBSET Slots, todo : SUBSET Slots, out : SUBSET Slots]

Connection == [state : {"free", "active", "answered", "to_free", "idle"},
               client : Clients \cup {None}, op : CallTypes \cup {"none"},
               data : Slots \cup {None}]

TypeOK ==
    /\ task \in [Clients -> Task]
    /\ empty \subseteq Slots
    /\ owner \in [Slots -> Clients \cup {None}]
    /\ woken \in [Slots -> BOOLEAN]
    /\ msg \in [Slots -> Message]
    /\ reply \in [Slots -> Message]
    /\ pend \subseteq Slots
    /\ replied \subseteq Slots
    /\ spe \in Queue
    /\ agent \in AgentState
    /\ conn \in [Conns -> Connection]
    /\ answers \in Seq(Conns)

(* A slot is empty or belongs to the one task whose request is in it.      *)
TaskOwnsSlot ==
    \A c \in Clients : task[c].pc # "idle" =>
        /\ task[c].slot \in Slots \ empty
        /\ owner[task[c].slot] = c
        /\ msg[task[c].slot] = [client |-> c, op |-> task[c].op, conn |-> task[c].conn]
        /\ task[c].op \in CallTypes
        /\ task[c].op = "connect" => task[c].conn = None
        /\ task[c].op = "close" => task[c].conn # None

SlotHasTask ==
    \A i \in Slots \ empty :
        owner[i] \in Clients /\ task[owner[i]].pc # "idle" /\ task[owner[i]].slot = i

(* The task that owns the slot waits for the result.                       *)
Waits(i) == i \notin empty /\ task[owner[i]].pc \in {"pended", "waiting"}

(* A request is in the hands of one core just while its task waits; one of *)
(* an unknown type is in those of none once it was dispatched.             *)
InOneHand ==
    \A i \in Slots :
        /\ Unseen(i) \/ InSpe(i) \/ i \in replied \/ woken[i] \/ i \in pend => Waits(i)
        /\ Waits(i) /\ msg[i].op # "unknown" =>
               Unseen(i) \/ InSpe(i) \/ i \in replied \/ woken[i]
        /\ i \in pend => i \notin replied /\ ~woken[i]
        /\ Unseen(i) => ~InSpe(i) /\ i \notin replied /\ ~woken[i]
        /\ InSpe(i) => i \notin replied /\ ~woken[i]
        /\ ~(i \in replied /\ woken[i])

(* The agent's batch, and the replies it is about to take.                 *)
Batch ==
    /\ agent.pc = "dispatch" =>
        /\ agent.todo \subseteq agent.snapshot
        /\ agent.snapshot \subseteq pend
        /\ agent.out \subseteq agent.snapshot \ agent.todo
        /\ agent.out \subseteq spe.empty
    /\ agent.pc # "dispatch" => agent.out = {}
    /\ agent.pc = "async" \/ agent.async => answers # << >>

(* The result of the task's request is on its way to it.                   *)
Ready(i) ==
    \/ agent.pc = "dispatch" /\ i \in agent.out
    \/ i \in replied
    \/ woken[i]
    \/ i \notin empty /\ task[owner[i]].pc = "answered"

OwnResult ==
    \A i \in Slots : Ready(i) =>
        /\ reply[i].client = msg[i].client
        /\ reply[i].op = msg[i].op
        /\ msg[i].op \notin NeverAnswered

(* A connection that carries a request remembers the slot it came from,    *)
(* where the handle still is.                                              *)
Carries(k) == conn[k].state \in {"active", "answered", "to_free"}

Remembers ==
    /\ \A i \in Slots \ spe.empty : spe.handle[i] = i + 1
    /\ \A k \in Conns : Carries(k) =>
        /\ conn[k].data \in Slots \ spe.empty
        /\ conn[k].client = msg[conn[k].data].client
        /\ conn[k].op = msg[conn[k].data].op
        /\ conn[k].op \in {"conn_call", "close"} => msg[conn[k].data].conn = k
        /\ conn[k].op \in {"call", "connect", "conn_call", "close"}
        /\ conn[k].state = "answered" => conn[k].op \in {"connect", "conn_call"}
        /\ conn[k].state = "to_free" => conn[k].op \in {"call", "connect", "close"}
    /\ \A k, l \in Conns : Carries(k) /\ Carries(l) /\ conn[k].data = conn[l].data => k = l

(* Each answer is that of another connection, which still carries it.      *)
AnswersDistinct ==
    /\ \A a \in DOMAIN answers : conn[answers[a]].state \in {"answered", "to_free"}
    /\ \A a, b \in DOMAIN answers : answers[a] = answers[b] => a = b

(* A client holds its connection until the answer to its psa_close is on   *)
(* the way: then the SPM has freed it and may give it to another client.   *)
Closed(c) == task[c].pc # "idle" /\ task[c].op = "close" /\ Ready(task[c].slot)
Holds(c, k) == task[c].conn = k /\ ~Closed(c)

(* The connection a client holds is its own and lives.                     *)
HoldsOwn ==
    \A c \in Clients : \A k \in Conns : Holds(c, k) =>
        /\ conn[k].client = c
        /\ conn[k].state # "free"
        /\ Carries(k) => conn[k].op \in {"conn_call", "close"}

(* The connection a connect returns is its client's and idle.              *)
Returned(k, i) == Ready(i) /\ msg[i].op = "connect" /\ reply[i].conn = k

ReturnsOwn ==
    \A i \in Slots : \A k \in Conns : Returned(k, i) =>
        conn[k].state = "idle" /\ conn[k].client = msg[i].client

IdleIsHeld ==
    \A k \in Conns : conn[k].state = "idle" =>
        \E c \in Clients :
            conn[k].client = c /\ (Holds(c, k) \/ \E i \in Slots : Returned(k, i))

IndInv ==
    /\ TypeOK
    /\ TaskOwnsSlot
    /\ SlotHasTask
    /\ InOneHand
    /\ Batch
    /\ OwnResult
    /\ Remembers
    /\ AnswersDistinct
    /\ HoldsOwn
    /\ ReturnsOwn
    /\ IdleIsHeld

-----------------------------------------------------------------------------
(* The least element of a non-empty set of numbers.                        *)
LEMMA MinIsLeast ==
    ASSUME NEW S, S \subseteq Nat, S # {}
    PROVE  Min(S) \in S
<1>1. \E x \in S : \A y \in S : ~(<<y, x>> \in OpToRel(<, Nat))
  BY NatLessThanWellFounded, WFMin
<1>2. \E x \in S : \A y \in S : x <= y
  <2>1. PICK x \in S : \A y \in S : ~(<<y, x>> \in OpToRel(<, Nat))
    BY <1>1
  <2>2. \A y \in S : ~(y < x)
    BY <2>1 DEF OpToRel
  <2> QED BY <2>2
<1> QED BY <1>2 DEF Min

(* What holds of a slot that nobody's request is in, and of one whose      *)
(* result is on its way.                                                   *)
LEMMA SlotFacts ==
    ASSUME IndInv, NEW i \in Slots
    PROVE  /\ ~Waits(i) => /\ ~Unseen(i) /\ ~InSpe(i) /\ i \notin replied /\ ~woken[i]
                           /\ i \notin pend /\ i \in spe.empty
           /\ Ready(i) => i \notin empty
           /\ i \notin empty => /\ owner[i] \in Clients
                                /\ task[owner[i]].pc # "idle"
                                /\ task[owner[i]].slot = i
                                /\ msg[i].client = owner[i]
                                /\ msg[i].op = task[owner[i]].op
                                /\ msg[i].conn = task[owner[i]].conn
                                /\ msg[i].op \in CallTypes
                                /\ msg[i].op = "connect" => task[owner[i]].conn = None
                                /\ msg[i].op = "close" => task[owner[i]].conn # None
<1>1. Unseen(i) \/ InSpe(i) \/ i \in replied \/ woken[i] \/ i \in pend => Waits(i)
  BY DEF IndInv, InOneHand
<1>3. i \notin spe.empty => InSpe(i)
  BY DEF InSpe
<1>4. Ready(i) => i \notin empty
  BY <1>1 DEF Ready, InSpe, Waits
<1>5. ASSUME i \notin empty
      PROVE  /\ owner[i] \in Clients
             /\ task[owner[i]].pc # "idle"
             /\ task[owner[i]].slot = i
  BY <1>5 DEF IndInv, SlotHasTask
<1>6. ASSUME i \notin empty
      PROVE  /\ msg[i] = [client |-> owner[i], op |-> task[owner[i]].op,
                          conn |-> task[owner[i]].conn]
             /\ task[owner[i]].op \in CallTypes
             /\ task[owner[i]].op = "connect" => task[owner[i]].conn = None
             /\ task[owner[i]].op = "close" => task[owner[i]].conn # None
  BY <1>5, <1>6 DEF IndInv, TaskOwnsSlot
<1> QED BY <1>1, <1>3, <1>4, <1>5, <1>6

(* A client whose task waits in one slot has no request in another.        *)
LEMMA SlotOfClient ==
    ASSUME IndInv, NEW i \in Slots \ empty, NEW j \in Slots \ empty,
           msg[i].client = msg[j].client
    PROVE  i = j
<1>1. owner[i] = owner[j] /\ task[owner[i]].slot = i /\ task[owner[j]].slot = j
  BY SlotFacts
<1> QED BY <1>1

(* Steps that leave the agent, the connections and the answers alone and   *)
(* the request of no connection.                                           *)
LEMMA ConnsKept ==
    ASSUME IndInv,
           spe' = spe, conn' = conn, answers' = answers,
           \A i \in Slots \ spe.empty : msg'[i] = msg[i]
    PROVE  Remembers' /\ AnswersDistinct'
<1>1. Remembers'
  BY DEF IndInv, Remembers, Carries
<1>2. AnswersDistinct'
  BY DEF IndInv, AnswersDistinct
<1> QED BY <1>1, <1>2

(* A task fills an empty slot.                                             *)
LEMMA CallInv ==
    ASSUME IndInv, NEW c \in Clients, NEW op \in Ops[c], Call(c, op)
    PROVE  IndInv'
<1> USE MailboxAssumption
<1> PICK i : i = Min(empty)
  OBVIOUS
<1>1. TypeOK
  BY DEF IndInv
<1>2. /\ i \in empty /\ i \in Slots /\ op \in CallTypes
  <2>1. empty \subseteq Slots /\ Slots \subseteq Nat /\ empty # {}
    BY <1>1 DEF TypeOK, Slots, Call
  <2> QED BY <2>1, MinIsLeast DEF CallTypes
<1>3. /\ task[c].pc = "idle"
      /\ CanCall(c, op)
      /\ empty' = empty \ {i}
      /\ msg' = [msg EXCEPT ![i] = [client |-> c, op |-> op, conn |-> task[c].conn]]
      /\ owner' = [owner EXCEPT ![i] = c]
      /\ task' = [task EXCEPT ![c] = [@ EXCEPT !.pc = "filled", !.slot = i, !.op = op]]
      /\ woken' = woken /\ reply' = reply /\ pend' = pend /\ replied' = replied
      /\ spe' = spe /\ agent' = agent /\ conn' = conn /\ answers' = answers
  BY DEF Call, shared
<1>4. /\ task'[c] = [pc |-> "filled", slot |-> i, op |-> op, conn |-> task[c].conn]
      /\ \A d \in Clients \ {c} : task'[d] = task[d]
      /\ msg'[i] = [client |-> c, op |-> op, conn |-> task[c].conn]
      /\ \A j \in Slots \ {i} : msg'[j] = msg[j] /\ owner'[j] = owner[j]
      /\ owner'[i] = c
      /\ task'[c] \in Task
  <2>1. task[c] \in Task
    BY <1>1 DEF TypeOK
  <2>2. PICK r : r = [task[c] EXCEPT !.pc = "filled", !.slot = i, !.op = op]
    OBVIOUS
  <2>3. r = [pc |-> "filled", slot |-> i, op |-> op, conn |-> task[c].conn] /\ r \in Task
    BY <2>1, <2>2, <1>2 DEF Task
  <2>4. task' = [task EXCEPT ![c] = r]
    BY <2>2, <1>3
  <2>5. task'[c] = r /\ \A d \in Clients \ {c} : task'[d] = task[d]
    BY <2>4, <1>1 DEF TypeOK
  <2>6. /\ msg'[i] = [client |-> c, op |-> op, conn |-> task[c].conn]
        /\ \A j \in Slots \ {i} : msg'[j] = msg[j] /\ owner'[j] = owner[j]
        /\ owner'[i] = c
    BY <1>1, <1>2, <1>3 DEF TypeOK
  <2> QED BY <2>3, <2>5, <2>6
<1>5. ASSUME NEW j \in Slots, j \notin empty PROVE owner[j] \in Clients \ {c}
  BY <1>3, <1>5, SlotFacts
<1>6. TypeOK'
  <2>1. task[c].conn \in Conns \cup {None}
    BY <1>1 DEF TypeOK, Task
  <2>2. task' \in [Clients -> Task]
    BY <1>1, <1>3, <1>4 DEF TypeOK
  <2>3. msg' \in [Slots -> Message]
    BY <2>1, <1>1, <1>2, <1>3 DEF TypeOK, Message
  <2>4. owner' \in [Slots -> Clients \cup {None}]
    BY <1>1, <1>2, <1>3 DEF TypeOK
  <2> QED BY <2>2, <2>3, <2>4, <1>1, <1>3 DEF TypeOK
<1>7. TaskOwnsSlot'
  <2> SUFFICES ASSUME NEW d \in Clients, task'[d].pc # "idle"
               PROVE  /\ task'[d].slot \in Slots \ empty'
                      /\ owner'[task'[d].slot] = d
                      /\ msg'[task'[d].slot] = [client |-> d, op |-> task'[d].op,
                                                conn |-> task'[d].conn]
                      /\ task'[d].op \in CallTypes
                      /\ task'[d].op = "connect" => task'[d].conn = None
                      /\ task'[d].op = "close" => task'[d].conn # None
    BY DEF TaskOwnsSlot
  <2>1. CASE d = c
    BY <2>1, <1>2, <1>3, <1>4 DEF CanCall
  <2>2. CASE d # c
    <3>1. task'[d] = task[d] /\ task[d].slot \in Slots \ empty
      BY <2>2, <1>4 DEF IndInv, TaskOwnsSlot
    <3> QED BY <3>1, <2>2, <1>2, <1>3, <1>4 DEF IndInv, TaskOwnsSlot
  <2> QED BY <2>1, <2>2
<1>8. SlotHasTask'
  <2> SUFFICES ASSUME NEW j \in Slots, j \notin empty'
               PROVE  /\ owner'[j] \in Clients
                      /\ task'[owner'[j]].pc # "idle"
                      /\ task'[owner'[j]].slot = j
    BY DEF SlotHasTask
  <2>1. CASE j = i
    BY <2>1, <1>4
  <2>2. CASE j # i
    BY <2>2, <1>3, <1>4, <1>5, SlotFacts
  <2> QED BY <2>1, <2>2
<1>9. /\ \A j \in Slots : Unseen(j)' <=> Unseen(j)
      /\ \A j \in Slots : InSpe(j)' <=> InSpe(j)
  BY <1>3 DEF Unseen, InSpe
<1>10. \A j \in Slots : Waits(j)' <=> Waits(j)
  <2>1. ~Waits(i) /\ ~Waits(i)'
    BY <1>2, <1>4 DEF Waits
  <2>2. \A j \in Slots \ {i} : Waits(j)' <=> Waits(j)
    BY <1>3, <1>4, <1>5 DEF Waits
  <2> QED BY <2>1, <2>2
<1>11. InOneHand'
  <2>1. ~Waits(i)
    BY <1>2 DEF Waits
  <2> QED BY <2>1, <1>3, <1>4, <1>9, <1>10 DEF IndInv, InOneHand
<1>12. Batch'
  BY <1>3 DEF IndInv, Batch
<1>13. /\ ~Ready(i) /\ ~Ready(i)'
       /\ \A j \in Slots \ {i} : Ready(j)' <=> Ready(j)
  <2>1. ~Ready(i)
    BY <1>2, SlotFacts
  <2>2. ~Ready(i)'
    BY <2>1, <1>3, <1>4 DEF Ready
  <2>3. \A j \in Slots \ {i} : Ready(j)' <=> Ready(j)
    BY <1>3, <1>4, <1>5 DEF Ready
  <2> QED BY <2>1, <2>2, <2>3
<1>14. OwnResult'
  BY <1>3, <1>4, <1>13 DEF IndInv, OwnResult
<1>15. Remembers' /\ AnswersDistinct'
  <2>1. i \in spe.empty
    BY <1>2, SlotFacts DEF Waits
  <2> QED BY <2>1, <1>3, <1>4, ConnsKept
<1>20. \A d \in Clients, k \in Conns : Holds(d, k)' <=> Holds(d, k)
  <2> SUFFICES ASSUME NEW d \in Clients
               PROVE  task'[d].conn = task[d].conn /\ (Closed(d)' <=> Closed(d))
    BY DEF Holds
  <2>1. CASE d = c
    BY <2>1, <1>3, <1>4, <1>13 DEF Closed
  <2>2. CASE d # c
    <3>1. task'[d] = task[d]
      BY <2>2, <1>4
    <3>2. task[d].pc # "idle" => task[d].slot \in Slots \ {i}
      BY <1>2 DEF IndInv, TaskOwnsSlot
    <3> QED BY <3>1, <3>2, <1>13 DEF Closed
  <2> QED BY <2>1, <2>2
<1>16. HoldsOwn'
  BY <1>3, <1>20 DEF IndInv, HoldsOwn, Carries
<1>17. \A k \in Conns, j \in Slots : Returned(k, j)' <=> Returned(k, j)
  BY <1>3, <1>4, <1>13 DEF Returned
<1>18. ReturnsOwn'
  BY <1>3, <1>4, <1>13, <1>17 DEF IndInv, ReturnsOwn, Returned
<1>19. IdleIsHeld'
  BY <1>3, <1>17, <1>20 DEF IndInv, IdleIsHeld
<1> QED BY <1>6, <1>7, <1>8, <1>11, <1>12, <1>14, <1>15, <1>16, <1>18, <1>19 DEF IndInv

(* Steps of a task that waits for its result: only its pc changes, and no  *)
(* result gets lost or appears.                                            *)
LEMMA TaskMovesInv ==
    ASSUME IndInv, NEW c \in Clients, NEW q,
           q \in {"filled", "pended", "waiting", "answered"},
           task[c].pc # "idle",
           task' = [task EXCEPT ![c].pc = q],
           empty' = empty, owner' = owner, msg' = msg, reply' = reply, spe' = spe,
           agent' = agent, conn' = conn, answers' = answers, replied' = replied,
           pend' \subseteq Slots, woken' \in [Slots -> BOOLEAN],
           InOneHand', Batch',
           \A j \in Slots : Ready(j)' <=> Ready(j)
    PROVE  IndInv'
<1>1. TypeOK
  BY DEF IndInv
<1>2. /\ task'[c].pc = q /\ task'[c].slot = task[c].slot
      /\ task'[c].op = task[c].op /\ task'[c].conn = task[c].conn
      /\ task'[c] \in Task
      /\ \A d \in Clients \ {c} : task'[d] = task[d]
      /\ task' \in [Clients -> Task]
  <2>1. task[c] \in Task /\ task \in [Clients -> Task]
    BY <1>1 DEF TypeOK
  <2>2. PICK r : r = [task[c] EXCEPT !.pc = q]
    OBVIOUS
  <2>3. r \in Task /\ r.pc = q /\ r.slot = task[c].slot /\ r.op = task[c].op /\ r.conn = task[c].conn
    BY <2>1, <2>2 DEF Task
  <2>4. task' = [task EXCEPT ![c] = r]
    BY <2>2
  <2> QED BY <2>1, <2>3, <2>4
<1>3. TypeOK'
  BY <1>1, <1>2 DEF TypeOK
<1>4. TaskOwnsSlot'
  <2> SUFFICES ASSUME NEW d \in Clients, task'[d].pc # "idle"
               PROVE  /\ task'[d].slot \in Slots \ empty'
                      /\ owner'[task'[d].slot] = d
                      /\ msg'[task'[d].slot] = [client |-> d, op |-> task'[d].op,
                                                conn |-> task'[d].conn]
                      /\ task'[d].op \in CallTypes
                      /\ task'[d].op = "connect" => task'[d].conn = None
                      /\ task'[d].op = "close" => task'[d].conn # None
    BY DEF TaskOwnsSlot
  <2>1. /\ task'[d].slot = task[d].slot /\ task'[d].op = task[d].op
        /\ task'[d].conn = task[d].conn /\ task[d].pc # "idle"
    BY <1>2
  <2> QED BY <2>1 DEF IndInv, TaskOwnsSlot
<1>5. SlotHasTask'
  <2> SUFFICES ASSUME NEW j \in Slots, j \notin empty
               PROVE  /\ owner[j] \in Clients
                      /\ task'[owner[j]].pc # "idle"
                      /\ task'[owner[j]].slot = j
    BY DEF SlotHasTask
  <2>1. owner[j] \in Clients /\ task[owner[j]].pc # "idle" /\ task[owner[j]].slot = j
    BY SlotFacts
  <2> QED BY <2>1, <1>2
<1>6. OwnResult'
  BY DEF IndInv, OwnResult
<1>7. Remembers' /\ AnswersDistinct'
  BY ConnsKept
<1>8. \A d \in Clients, k \in Conns : Holds(d, k)' <=> Holds(d, k)
  <2> SUFFICES ASSUME NEW d \in Clients
               PROVE  task'[d].conn = task[d].conn /\ (Closed(d)' <=> Closed(d))
    BY DEF Holds
  <2>1. /\ task'[d].conn = task[d].conn /\ task'[d].op = task[d].op
        /\ task'[d].slot = task[d].slot /\ (task'[d].pc = "idle" <=> task[d].pc = "idle")
    BY <1>2
  <2>2. task[d].pc # "idle" => task[d].slot \in Slots
    BY DEF IndInv, TaskOwnsSlot
  <2> QED BY <2>1, <2>2 DEF Closed
<1>9. HoldsOwn'
  BY <1>8 DEF IndInv, HoldsOwn, Carries
<1>10. \A k \in Conns, j \in Slots : Returned(k, j)' <=> Returned(k, j)
  BY DEF Returned
<1>11. ReturnsOwn'
  BY <1>10 DEF IndInv, ReturnsOwn
<1>12. IdleIsHeld'
  BY <1>8, <1>10 DEF IndInv, IdleIsHeld
<1> QED BY <1>3, <1>4, <1>5, <1>6, <1>7, <1>9, <1>11, <1>12 DEF IndInv

(* A task marks its slot as pending, and then notifies the secure core.    *)
LEMMA SetPendInv ==
    ASSUME IndInv, NEW c \in Clients, SetPend(c)
    PROVE  IndInv'
<1> PICK i : i = task[c].slot
  OBVIOUS
<1>1. TypeOK
  BY DEF IndInv
<1>2. /\ task[c].pc = "filled"
      /\ pend' = pend \cup {i}
      /\ task' = [task EXCEPT ![c].pc = "pended"]
      /\ empty' = empty /\ owner' = owner /\ msg' = msg /\ reply' = reply /\ spe' = spe
      /\ agent' = agent /\ conn' = conn /\ answers' = answers /\ replied' = replied
      /\ woken' = woken
  BY DEF SetPend
<1>3. i \in Slots /\ i \notin empty /\ owner[i] = c
  BY <1>2 DEF IndInv, TaskOwnsSlot
<1>4. ASSUME NEW j \in Slots, j # i, j \notin empty PROVE owner[j] \in Clients \ {c}
  BY <1>4, SlotFacts
<1>5. /\ task'[c].pc = "pended"
      /\ \A d \in Clients \ {c} : task'[d] = task[d]
  BY <1>1, <1>2 DEF TypeOK, Task
<1>6. ~Waits(i) /\ Waits(i)' /\ \A j \in Slots \ {i} : Waits(j)' <=> Waits(j)
  BY <1>2, <1>3, <1>4, <1>5 DEF Waits
<1>7. /\ ~Unseen(i) /\ ~InSpe(i) /\ i \notin replied /\ ~woken[i] /\ i \notin pend
  BY <1>3, <1>6, SlotFacts
<1>8. Unseen(i)'
  <2>1. agent.pc = "dispatch" => i \notin agent.snapshot
    BY <1>7 DEF IndInv, Batch
  <2> QED BY <2>1, <1>2 DEF Unseen
<1>9. /\ \A j \in Slots \ {i} : Unseen(j)' <=> Unseen(j)
      /\ \A j \in Slots : InSpe(j)' <=> InSpe(j)
  BY <1>2 DEF Unseen, InSpe
<1>10. InOneHand'
  BY <1>2, <1>3, <1>6, <1>7, <1>8, <1>9 DEF IndInv, InOneHand
<1>11. Batch'
  BY <1>2 DEF IndInv, Batch
<1>12. \A j \in Slots : Ready(j)' <=> Ready(j)
  BY <1>2, <1>3, <1>4, <1>5 DEF Ready
<1>13. pend' \subseteq Slots /\ woken' \in [Slots -> BOOLEAN]
  BY <1>1, <1>2, <1>3 DEF TypeOK
<1> QED BY <1>2, <1>10, <1>11, <1>12, <1>13, TaskMovesInv

(* A task notifies the secure core and waits.                              *)
LEMMA NotifySpeInv ==
    ASSUME IndInv, NEW c \in Clients, NotifySpe(c)
    PROVE  IndInv'
<1>1. TypeOK
  BY DEF IndInv
<1>2. /\ task[c].pc = "pended"
      /\ task' = [task EXCEPT ![c].pc = "waiting"]
      /\ pend' = pend
      /\ empty' = empty /\ owner' = owner /\ msg' = msg /\ reply' = reply /\ spe' = spe
      /\ agent' = agent /\ conn' = conn /\ answers' = answers /\ replied' = replied
      /\ woken' = woken
  BY DEF NotifySpe, shared
<1>3. /\ task'[c].pc = "waiting"
      /\ \A d \in Clients \ {c} : task'[d] = task[d]
  BY <1>1, <1>2 DEF TypeOK, Task
<1>4. \A j \in Slots : j \notin empty => owner[j] \in Clients
  BY SlotFacts
<1>5. \A j \in Slots : Waits(j)' <=> Waits(j)
  BY <1>2, <1>3, <1>4 DEF Waits
<1>6. \A j \in Slots : /\ Unseen(j)' <=> Unseen(j)
                       /\ InSpe(j)' <=> InSpe(j)
  BY <1>2 DEF Unseen, InSpe
<1>7. InOneHand'
  BY <1>2, <1>5, <1>6 DEF IndInv, InOneHand
<1>8. Batch'
  BY <1>2 DEF IndInv, Batch
<1>9. \A j \in Slots : Ready(j)' <=> Ready(j)
  BY <1>2, <1>3, <1>4 DEF Ready
<1>10. pend' \subseteq Slots /\ woken' \in [Slots -> BOOLEAN]
  BY <1>1, <1>2 DEF TypeOK
<1> QED BY <1>2, <1>7, <1>8, <1>9, <1>10, TaskMovesInv

(* A task wakes up; it goes on when its slot was marked for it.            *)
LEMMA WakeInv ==
    ASSUME IndInv, NEW c \in Clients, Wake(c), woken[task[c].slot]
    PROVE  IndInv'
<1> PICK i : i = task[c].slot
  OBVIOUS
<1>1. TypeOK
  BY DEF IndInv
<1>2. /\ task[c].pc = "waiting" /\ woken[i]
      /\ task' = [task EXCEPT ![c].pc = "answered"]
      /\ woken' = [woken EXCEPT ![i] = FALSE]
      /\ pend' = pend
      /\ empty' = empty /\ owner' = owner /\ msg' = msg /\ reply' = reply /\ spe' = spe
      /\ agent' = agent /\ conn' = conn /\ answers' = answers /\ replied' = replied
  BY DEF Wake, shared
<1>3. i \in Slots /\ i \notin empty /\ owner[i] = c
  BY <1>2 DEF IndInv, TaskOwnsSlot
<1>4. ASSUME NEW j \in Slots, j # i, j \notin empty PROVE owner[j] \in Clients \ {c}
  BY <1>4, SlotFacts
<1>5. /\ task'[c].pc = "answered"
      /\ \A d \in Clients \ {c} : task'[d] = task[d]
  BY <1>1, <1>2 DEF TypeOK, Task
<1>6. /\ ~woken'[i] /\ \A j \in Slots \ {i} : woken'[j] = woken[j]
      /\ woken' \in [Slots -> BOOLEAN]
  BY <1>1, <1>2, <1>3 DEF TypeOK
<1>7. ~Waits(i)' /\ \A j \in Slots \ {i} : Waits(j)' <=> Waits(j)
  BY <1>2, <1>3, <1>4, <1>5 DEF Waits
<1>8. \A j \in Slots : /\ Unseen(j)' <=> Unseen(j)
                       /\ InSpe(j)' <=> InSpe(j)
  BY <1>2 DEF Unseen, InSpe
<1>9. ~Unseen(i) /\ ~InSpe(i) /\ i \notin replied /\ i \notin pend
  BY <1>2, <1>3 DEF IndInv, InOneHand
<1>10. InOneHand'
  BY <1>2, <1>3, <1>6, <1>7, <1>8, <1>9 DEF IndInv, InOneHand
<1>11. Batch'
  BY <1>2 DEF IndInv, Batch
<1>12. \A j \in Slots : Ready(j)' <=> Ready(j)
  <2>1. Ready(i) /\ Ready(i)'
    BY <1>2, <1>3, <1>5 DEF Ready
  <2>2. \A j \in Slots \ {i} : Ready(j)' <=> Ready(j)
    BY <1>2, <1>4, <1>5, <1>6 DEF Ready
  <2> QED BY <2>1, <2>2
<1>13. pend' \subseteq Slots
  BY <1>1, <1>2 DEF TypeOK
<1> QED BY <1>2, <1>6, <1>10, <1>11, <1>12, <1>13, TaskMovesInv

(* A task takes the result from its slot and gives the slot back.          *)
LEMMA ReceiveInv ==
    ASSUME IndInv, NEW c \in Clients, Receive(c)
    PROVE  IndInv'
<1> USE MailboxAssumption
<1> PICK i : i = task[c].slot
  OBVIOUS
<1> PICK h : h = CASE task[c].op = "connect" -> reply[i].conn
                   [] task[c].op = "close" -> None
                   [] OTHER -> task[c].conn
  OBVIOUS
<1>1. TypeOK
  BY DEF IndInv
<1>2. /\ task[c].pc = "answered"
      /\ owner' = [owner EXCEPT ![i] = None]
      /\ woken' = [woken EXCEPT ![i] = FALSE]
      /\ empty' = empty \cup {i}
      /\ pend' = pend /\ msg' = msg /\ reply' = reply /\ spe' = spe
      /\ agent' = agent /\ conn' = conn /\ answers' = answers /\ replied' = replied
  BY DEF Receive, shared
<1>3. /\ i \in Slots /\ i \notin empty /\ owner[i] = c
      /\ msg[i].client = c /\ msg[i].op = task[c].op /\ task[c].op \in CallTypes
      /\ task[c].op = "connect" => task[c].conn = None
  <2>1. i \in Slots \ empty /\ owner[i] = c
    BY <1>2 DEF IndInv, TaskOwnsSlot
  <2> QED BY <2>1, SlotFacts
<1>4. task' = [task EXCEPT ![c] = [pc |-> "idle", slot |-> None, op |-> "none", conn |-> h]]
  BY DEF Receive
<1>5. h \in Conns \cup {None}
  <2>1. task[c] \in Task /\ reply[i] \in Message
    BY <1>1, <1>3 DEF TypeOK
  <2> QED BY <2>1 DEF Task, Message
<1>6. /\ task'[c].pc = "idle" /\ task'[c].conn = h
      /\ \A d \in Clients \ {c} : task'[d] = task[d]
      /\ task' \in [Clients -> Task]
  <2>1. PICK r : r = [pc |-> "idle", slot |-> None, op |-> "none", conn |-> h]
    OBVIOUS
  <2>2. r \in Task
    BY <2>1, <1>5 DEF Task
  <2>3. task' = [task EXCEPT ![c] = r]
    BY <2>1, <1>4
  <2> QED BY <2>1, <2>2, <2>3, <1>1 DEF TypeOK
<1>7. ASSUME NEW j \in Slots, j # i, j \notin empty PROVE owner[j] \in Clients \ {c}
  BY <1>7, SlotFacts
<1>8. /\ ~woken'[i]
      /\ \A j \in Slots \ {i} : woken'[j] = woken[j] /\ owner'[j] = owner[j]
      /\ woken' \in [Slots -> BOOLEAN] /\ owner' \in [Slots -> Clients \cup {None}]
  BY <1>1, <1>2, <1>3 DEF TypeOK
<1>9. TypeOK'
  BY <1>1, <1>2, <1>3, <1>6, <1>8 DEF TypeOK
<1>10. TaskOwnsSlot'
  <2> SUFFICES ASSUME NEW d \in Clients, task'[d].pc # "idle"
               PROVE  /\ task'[d].slot \in Slots \ empty'
                      /\ owner'[task'[d].slot] = d
                      /\ msg'[task'[d].slot] = [client |-> d, op |-> task'[d].op,
                                                conn |-> task'[d].conn]
                      /\ task'[d].op \in CallTypes
                      /\ task'[d].op = "connect" => task'[d].conn = None
                      /\ task'[d].op = "close" => task'[d].conn # None
    BY DEF TaskOwnsSlot
  <2>1. d # c /\ task'[d] = task[d]
    BY <1>6
  <2>2. task[d].slot \in Slots \ empty /\ owner[task[d].slot] = d
    BY <2>1 DEF IndInv, TaskOwnsSlot
  <2>3. task[d].slot # i
    BY <2>1, <2>2, <1>3
  <2> QED BY <2>1, <2>2, <2>3, <1>2, <1>8 DEF IndInv, TaskOwnsSlot
<1>11. SlotHasTask'
  <2> SUFFICES ASSUME NEW j \in Slots, j \notin empty'
               PROVE  /\ owner'[j] \in Clients
                      /\ task'[owner'[j]].pc # "idle"
                      /\ task'[owner'[j]].slot = j
    BY DEF SlotHasTask
  <2>1. j # i /\ j \notin empty
    BY <1>2
  <2> QED BY <2>1, <1>6, <1>7, <1>8, SlotFacts
<1>12. ~Waits(i) /\ ~Waits(i)' /\ \A j \in Slots \ {i} : Waits(j)' <=> Waits(j)
  BY <1>2, <1>3, <1>6, <1>7, <1>8 DEF Waits
<1>13. \A j \in Slots : /\ Unseen(j)' <=> Unseen(j)
                        /\ InSpe(j)' <=> InSpe(j)
  BY <1>2 DEF Unseen, InSpe
<1>14. ~woken[i] /\ ~InSpe(i) /\ i \notin replied /\ i \notin pend /\ ~Unseen(i)
  BY <1>3, <1>12, SlotFacts
<1>15. InOneHand'
  BY <1>2, <1>3, <1>8, <1>12, <1>13, <1>14 DEF IndInv, InOneHand
<1>16. Batch'
  BY <1>2 DEF IndInv, Batch
<1>17. /\ Ready(i) /\ ~Ready(i)'
       /\ \A j \in Slots \ {i} : Ready(j)' <=> Ready(j)
  <2>1. Ready(i)
    BY <1>2, <1>3 DEF Ready
  <2>2. ~Ready(i)'
    BY <1>2, <1>8, <1>14 DEF Ready, InSpe
  <2>3. \A j \in Slots \ {i} : Ready(j)' <=> Ready(j)
    BY <1>2, <1>6, <1>7, <1>8 DEF Ready
  <2> QED BY <2>1, <2>2, <2>3
<1>18. OwnResult'
  BY <1>2, <1>17 DEF IndInv, OwnResult
<1>19. Remembers' /\ AnswersDistinct'
  BY <1>2, ConnsKept
<1>20. task[c].op = "connect" /\ h # None =>
         conn[h].state = "idle" /\ conn[h].client = c
  BY <1>3, <1>5, <1>17 DEF IndInv, ReturnsOwn, Returned
<1>25. \A d \in Clients \ {c}, k \in Conns : Holds(d, k)' <=> Holds(d, k)
  <2> SUFFICES ASSUME NEW d \in Clients \ {c} PROVE Closed(d)' <=> Closed(d)
    BY <1>6 DEF Holds
  <2>1. task[d].pc # "idle" => task[d].slot \in Slots \ {i}
    BY <1>3 DEF IndInv, TaskOwnsSlot
  <2> QED BY <2>1, <1>6, <1>17 DEF Closed
<1>26. \A k \in Conns : Holds(c, k)' <=> h = k
  BY <1>6 DEF Holds, Closed
<1>27. task[c].op # "connect" => \A k \in Conns : h = k <=> Holds(c, k)
  <2>1. Closed(c) <=> task[c].op = "close"
    BY <1>2, <1>17 DEF Closed
  <2>2. \A k \in Conns : k # None
    BY DEF Conns
  <2> QED BY <2>1, <2>2 DEF Holds
<1>21. HoldsOwn'
  <2> SUFFICES ASSUME NEW d \in Clients, NEW k \in Conns, Holds(d, k)'
               PROVE  /\ conn[k].client = d
                      /\ conn[k].state # "free"
                      /\ Carries(k) => conn[k].op \in {"conn_call", "close"}
    BY <1>2 DEF HoldsOwn, Carries
  <2>1. CASE d = c /\ task[c].op = "connect"
    <3>1. h = k /\ h # None
      BY <2>1, <1>26 DEF Conns
    <3> QED BY <2>1, <3>1, <1>20 DEF Carries
  <2>2. CASE ~(d = c /\ task[c].op = "connect")
    <3>1. Holds(d, k)
      BY <2>2, <1>25, <1>26, <1>27
    <3> QED BY <3>1 DEF IndInv, HoldsOwn
  <2> QED BY <2>1, <2>2
<1>22. \A k \in Conns : /\ ~Returned(k, i)'
                        /\ \A j \in Slots \ {i} : Returned(k, j)' <=> Returned(k, j)
  BY <1>2, <1>17 DEF Returned
<1>23. ReturnsOwn'
  BY <1>2, <1>3, <1>22 DEF IndInv, ReturnsOwn
<1>24. IdleIsHeld'
  <2> SUFFICES ASSUME NEW k \in Conns, conn[k].state = "idle"
               PROVE  \E d \in Clients : /\ conn[k].client = d
                                         /\ Holds(d, k)' \/ \E j \in Slots : Returned(k, j)'
    BY <1>2 DEF IdleIsHeld
  <2>0. k # None
    BY DEF Conns
  <2>1. PICK d \in Clients : conn[k].client = d /\ (Holds(d, k) \/ \E j \in Slots : Returned(k, j))
    BY DEF IndInv, IdleIsHeld
  <2>2. CASE Holds(d, k)
    <3>1. d = c => task[c].op # "connect"
      BY <2>0, <2>2, <1>3 DEF Holds
    <3>2. Holds(d, k)'
      BY <2>2, <3>1, <1>25, <1>26, <1>27
    <3> QED BY <3>2, <2>1
  <2>3. ASSUME NEW j \in Slots, Returned(k, j)
        PROVE  Holds(d, k)' \/ \E l \in Slots : Returned(k, l)'
    <3>1. CASE j = i
      <4>1. msg[i].op = "connect" /\ reply[i].conn = k
        BY <2>3, <3>1 DEF Returned
      <4>2. task[c].op = "connect" /\ h = k
        BY <4>1, <1>3
      <4>3. d = c
        BY <4>2, <2>0, <2>1, <1>20
      <4> QED BY <4>2, <4>3, <1>26
    <3>2. CASE j # i
      BY <3>2, <2>3, <1>22
    <3> QED BY <3>1, <3>2
  <2> QED BY <2>1, <2>2, <2>3
<1> QED BY <1>9, <1>10, <1>11, <1>15, <1>16, <1>18, <1>19, <1>21, <1>23, <1>24 DEF IndInv

(* Steps that leave the tasks and their slots alone.                       *)
LEMMA TasksKept ==
    ASSUME IndInv, task' = task, empty' = empty, owner' = owner, msg' = msg
    PROVE  TaskOwnsSlot' /\ SlotHasTask' /\ \A j \in Slots : Waits(j)' <=> Waits(j)
<1>1. TaskOwnsSlot'
  BY DEF IndInv, TaskOwnsSlot
<1>2. SlotHasTask'
  BY DEF IndInv, SlotHasTask
<1>3. \A j \in Slots : Waits(j)' <=> Waits(j)
  BY DEF Waits
<1> QED BY <1>1, <1>2, <1>3

(* A client holds its connection as long as no result appears.             *)
LEMMA HoldsKept ==
    ASSUME IndInv, task' = task,
           \A j \in Slots : msg[j].op # "close" \/ j \in empty \/ (Ready(j)' <=> Ready(j))
    PROVE  \A d \in Clients, k \in Conns : Holds(d, k)' <=> Holds(d, k)
<1> SUFFICES ASSUME NEW d \in Clients PROVE Closed(d)' <=> Closed(d)
  BY DEF Holds
<1>1. task[d].pc # "idle" =>
        /\ task[d].slot \in Slots \ empty
        /\ msg[task[d].slot] = [client |-> d, op |-> task[d].op, conn |-> task[d].conn]
  BY DEF IndInv, TaskOwnsSlot
<1>2. task[d].pc # "idle" => msg[task[d].slot].op = task[d].op
  BY <1>1
<1> QED BY <1>1, <1>2 DEF Closed

(* Steps that leave the connections alone too, and no result gets lost or  *)
(* appears.                                                                *)
LEMMA ResultsKept ==
    ASSUME IndInv, task' = task, empty' = empty, owner' = owner, msg' = msg,
           reply' = reply, spe' = spe, conn' = conn, answers' = answers,
           TypeOK', InOneHand', Batch',
           \A j \in Slots : Ready(j)' <=> Ready(j)
    PROVE  IndInv'
<1>1. TaskOwnsSlot' /\ SlotHasTask'
  BY TasksKept
<1>2. OwnResult'
  BY DEF IndInv, OwnResult
<1>3. Remembers' /\ AnswersDistinct'
  BY ConnsKept
<1>8. \A d \in Clients, k \in Conns : Holds(d, k)' <=> Holds(d, k)
  BY HoldsKept
<1>4. HoldsOwn'
  BY <1>8 DEF IndInv, HoldsOwn, Carries
<1>5. \A k \in Conns, j \in Slots : Returned(k, j)' <=> Returned(k, j)
  BY DEF Returned
<1>6. ReturnsOwn'
  BY <1>5 DEF IndInv, ReturnsOwn
<1>7. IdleIsHeld'
  BY <1>5, <1>8 DEF IndInv, IdleIsHeld
<1> QED BY <1>1, <1>2, <1>3, <1>4, <1>6, <1>7 DEF IndInv

(* The interrupt of the non-secure core marks the replied slots.           *)
LEMMA NsIsrInv ==
    ASSUME IndInv, NsIsr
    PROVE  IndInv'
<1>1. TypeOK
  BY DEF IndInv
<1>2. /\ replied' = {}
      /\ woken' = [i \in Slots |-> woken[i] \/ i \in replied]
      /\ task' = task /\ empty' = empty /\ owner' = owner /\ msg' = msg
      /\ reply' = reply /\ pend' = pend /\ spe' = spe /\ agent' = agent
      /\ conn' = conn /\ answers' = answers
  BY DEF NsIsr
<1>3. \A j \in Slots : woken'[j] <=> woken[j] \/ j \in replied
  BY <1>2
<1>4. woken' \in [Slots -> BOOLEAN]
  <2>1. \A j \in Slots : (woken[j] \/ j \in replied) \in BOOLEAN
    OBVIOUS
  <2> QED BY <2>1, <1>2
<1>5. TypeOK'
  BY <1>1, <1>2, <1>4 DEF TypeOK
<1>6. \A j \in Slots : /\ Unseen(j)' <=> Unseen(j)
                       /\ InSpe(j)' <=> InSpe(j)
                       /\ Waits(j)' <=> Waits(j)
                       /\ j \notin replied'
  BY <1>2 DEF Unseen, InSpe, Waits
<1>7. InOneHand'
  BY <1>2, <1>3, <1>6 DEF IndInv, InOneHand
<1>8. Batch'
  BY <1>2 DEF IndInv, Batch
<1>9. \A j \in Slots : Ready(j)' <=> Ready(j)
  BY <1>2, <1>3, <1>6 DEF Ready
<1> QED BY <1>2, <1>5, <1>7, <1>8, <1>9, ResultsKept

(* The agent wakes up for the mailbox or for an answer.                    *)
LEMMA WaitSignalsInv ==
    ASSUME IndInv, WaitSignals
    PROVE  IndInv'
<1>1. TypeOK
  BY DEF IndInv
<1>2. /\ agent.pc = "wait"
      /\ agent' = [Waiting EXCEPT !.pc = IF sIrq THEN "mail" ELSE "async",
                                  !.async = answers # << >>]
      /\ ~sIrq => answers # << >>
      /\ task' = task /\ empty' = empty /\ owner' = owner /\ msg' = msg /\ woken' = woken
      /\ reply' = reply /\ pend' = pend /\ replied' = replied /\ spe' = spe
      /\ conn' = conn /\ answers' = answers
  BY DEF WaitSignals, nsvars, shared
<1>3. agent' = [pc |-> IF sIrq THEN "mail" ELSE "async", async |-> answers # << >>,
                snapshot |-> {}, todo |-> {}, out |-> {}]
  BY <1>2 DEF Waiting
<1>4. /\ agent'.pc \in {"mail", "async"}
      /\ agent'.out = {}
      /\ agent'.pc = "async" \/ agent'.async => answers # << >>
      /\ agent' \in AgentState
  <2>1. PICK b \in BOOLEAN : b <=> answers # << >>
    OBVIOUS
  <2>2. PICK p \in {"mail", "async"} : p = IF sIrq THEN "mail" ELSE "async"
    OBVIOUS
  <2>3. agent' = [pc |-> p, async |-> b, snapshot |-> {}, todo |-> {}, out |-> {}]
    BY <2>1, <2>2, <1>3
  <2>4. agent' \in AgentState
    BY <2>3 DEF AgentState
  <2> QED BY <2>1, <2>2, <2>3, <2>4, <1>2
<1>5. TypeOK'
  BY <1>1, <1>2, <1>4 DEF TypeOK
<1>6. agent.pc # "dispatch" /\ agent'.pc # "dispatch"
  BY <1>2, <1>4
<1>7. \A j \in Slots : /\ Unseen(j)' <=> Unseen(j)
                       /\ InSpe(j)' <=> InSpe(j)
                       /\ Waits(j)' <=> Waits(j)
  BY <1>2, <1>6 DEF Unseen, InSpe, Waits
<1>8. InOneHand'
  BY <1>2, <1>7 DEF IndInv, InOneHand
<1>9. Batch'
  BY <1>2, <1>4, <1>6 DEF Batch
<1>10. \A j \in Slots : Ready(j)' <=> Ready(j)
  BY <1>2, <1>6 DEF Ready
<1> QED BY <1>2, <1>5, <1>8, <1>9, <1>10, ResultsKept

(* The agent's state after a batch.                                        *)
LEMMA AfterMailState ==
    ASSUME agent.async \in BOOLEAN
    PROVE  /\ AfterMail \in AgentState
           /\ AfterMail.pc \in {"wait", "async"}
           /\ AfterMail.out = {}
           /\ AfterMail.pc = "async" \/ AfterMail.async => agent.async
BY DEF AfterMail, Waiting, AgentState

(* The agent takes a snapshot of the pending slots.                        *)
LEMMA SnapshotInv ==
    ASSUME IndInv, Snapshot
    PROVE  IndInv'
<1>1. TypeOK /\ agent \in AgentState /\ agent.async \in BOOLEAN /\ pend \subseteq Slots
  BY DEF IndInv, TypeOK, AgentState
<1>2. /\ agent.pc = "mail"
      /\ agent' = IF pend = {} THEN AfterMail
                  ELSE [agent EXCEPT !.pc = "dispatch", !.snapshot = pend, !.todo = pend]
      /\ task' = task /\ empty' = empty /\ owner' = owner /\ msg' = msg /\ woken' = woken
      /\ reply' = reply /\ pend' = pend /\ replied' = replied /\ spe' = spe
      /\ conn' = conn /\ answers' = answers
  BY DEF Snapshot, nsvars, shared
<1>3. agent.out = {} /\ (agent.async => answers # << >>)
  BY <1>2 DEF IndInv, Batch
<1>4. /\ agent' \in AgentState
      /\ agent'.out = {}
      /\ agent'.pc = "dispatch" => agent'.snapshot = pend /\ agent'.todo = pend
      /\ agent'.pc = "async" \/ agent'.async => answers # << >>
  <2>1. CASE pend = {}
    BY <2>1, <1>1, <1>2, <1>3, AfterMailState
  <2>2. CASE pend # {}
    <3>1. agent' = [agent EXCEPT !.pc = "dispatch", !.snapshot = pend, !.todo = pend]
      BY <2>2, <1>2
    <3> QED BY <3>1, <1>1, <1>3 DEF AgentState
  <2> QED BY <2>1, <2>2
<1>5. TypeOK'
  BY <1>1, <1>2, <1>4 DEF TypeOK
<1>6. \A j \in Slots : /\ Unseen(j)' <=> Unseen(j)
                       /\ InSpe(j)' <=> InSpe(j)
                       /\ Waits(j)' <=> Waits(j)
  BY <1>2, <1>3, <1>4 DEF Unseen, InSpe, Waits
<1>7. InOneHand'
  BY <1>2, <1>6 DEF IndInv, InOneHand
<1>8. Batch'
  BY <1>2, <1>4 DEF Batch
<1>9. \A j \in Slots : Ready(j)' <=> Ready(j)
  BY <1>2, <1>3, <1>4 DEF Ready
<1> QED BY <1>2, <1>5, <1>7, <1>8, <1>9, ResultsKept

(* The batch ends: its slots are no longer pending, and the direct replies *)
(* are passed to the non-secure core.                                      *)
LEMMA FinishBatchInv ==
    ASSUME IndInv, FinishBatch
    PROVE  IndInv'
<1>1. TypeOK /\ agent \in AgentState /\ agent.async \in BOOLEAN /\ agent.out \subseteq Slots
  BY DEF IndInv, TypeOK, AgentState
<1>2. /\ agent.pc = "dispatch" /\ agent.todo = {}
      /\ pend' = pend \ agent.snapshot
      /\ replied' = replied \cup agent.out
      /\ agent' = AfterMail
      /\ task' = task /\ empty' = empty /\ owner' = owner /\ msg' = msg /\ woken' = woken
      /\ reply' = reply /\ spe' = spe /\ conn' = conn /\ answers' = answers
  BY DEF FinishBatch, nsvars, Cleared
<1>3. /\ agent.snapshot \subseteq pend
      /\ agent.out \subseteq agent.snapshot
      /\ agent.out \subseteq spe.empty
      /\ agent.async => answers # << >>
  BY <1>2 DEF IndInv, Batch
<1>4. /\ agent' \in AgentState
      /\ agent'.pc \in {"wait", "async"}
      /\ agent'.out = {}
      /\ agent'.pc = "async" \/ agent'.async => agent.async
  BY <1>1, <1>2, AfterMailState
<1>5. TypeOK'
  BY <1>1, <1>2, <1>4 DEF TypeOK
<1>6. ASSUME NEW j \in Slots
      PROVE  /\ Unseen(j)' <=> Unseen(j)
             /\ j \in agent.out => InSpe(j) /\ ~InSpe(j)' /\ j \in replied'
             /\ j \notin agent.out => (InSpe(j)' <=> InSpe(j)) /\ (j \in replied' <=> j \in replied)
             /\ Waits(j)' <=> Waits(j)
  <2>1. Unseen(j)' <=> Unseen(j)
    BY <1>2, <1>3, <1>4 DEF Unseen
  <2>2. InSpe(j)' <=> j \notin spe.empty
    BY <1>2, <1>4 DEF InSpe
  <2>3. InSpe(j) <=> j \notin spe.empty \/ j \in agent.out
    BY <1>2 DEF InSpe
  <2>4. Waits(j)' <=> Waits(j)
    BY <1>2 DEF Waits
  <2> QED BY <2>1, <2>2, <2>3, <2>4, <1>2, <1>3
<1>7. InOneHand'
  <2> SUFFICES ASSUME NEW j \in Slots
               PROVE /\ Unseen(j)' \/ InSpe(j)' \/ j \in replied' \/ woken'[j] \/ j \in pend'
                           => Waits(j)'
                     /\ Waits(j)' /\ msg'[j].op # "unknown" =>
                           Unseen(j)' \/ InSpe(j)' \/ j \in replied' \/ woken'[j]
                     /\ j \in pend' => j \notin replied' /\ ~woken'[j]
                     /\ Unseen(j)' => ~InSpe(j)' /\ j \notin replied' /\ ~woken'[j]
                     /\ InSpe(j)' => j \notin replied' /\ ~woken'[j]
                     /\ ~(j \in replied' /\ woken'[j])
    BY DEF InOneHand
  <2>1. /\ Unseen(j) \/ InSpe(j) \/ j \in replied \/ woken[j] \/ j \in pend => Waits(j)
        /\ Waits(j) /\ msg[j].op # "unknown" =>
              Unseen(j) \/ InSpe(j) \/ j \in replied \/ woken[j]
        /\ j \in pend => j \notin replied /\ ~woken[j]
        /\ Unseen(j) => ~InSpe(j) /\ j \notin replied /\ ~woken[j]
        /\ InSpe(j) => j \notin replied /\ ~woken[j]
        /\ ~(j \in replied /\ woken[j])
    BY DEF IndInv, InOneHand
  <2>2. j \in pend' => j \in pend /\ j \notin agent.out
    BY <1>2, <1>3
  <2>3. j \in agent.out => j \in pend /\ InSpe(j)
    BY <1>3, <1>6
  <2> QED BY <2>1, <2>2, <2>3, <1>2, <1>6
<1>8. Batch'
  BY <1>2, <1>3, <1>4 DEF Batch
<1>9. \A j \in Slots : Ready(j)' <=> Ready(j)
  BY <1>2, <1>4 DEF Ready
<1> QED BY <1>2, <1>5, <1>7, <1>8, <1>9, ResultsKept

(* A slot of the snapshot that is still to be dispatched.                  *)
LEMMA TodoFacts ==
    ASSUME IndInv, agent.pc = "dispatch", NEW i \in agent.todo
    PROVE  /\ i \in Slots \ empty /\ i \in spe.empty /\ i \in pend /\ i \in agent.snapshot
           /\ Unseen(i) /\ ~InSpe(i) /\ Waits(i) /\ ~Ready(i)
           /\ \A k \in Conns : Carries(k) => conn[k].data # i
<1>1. i \in Slots /\ i \in pend /\ i \in agent.snapshot
  BY DEF IndInv, TypeOK, Batch
<1>2. Unseen(i)
  BY <1>1 DEF Unseen
<1>3. ~InSpe(i) /\ Waits(i) /\ i \notin replied /\ ~woken[i]
  BY <1>1, <1>2 DEF IndInv, InOneHand
<1>4. i \in spe.empty /\ i \notin agent.out
  BY <1>3 DEF InSpe
<1>5. i \notin empty /\ task[owner[i]].pc # "answered"
  BY <1>3 DEF Waits
<1>6. ~Ready(i)
  BY <1>3, <1>4, <1>5 DEF Ready
<1>7. \A k \in Conns : Carries(k) => conn[k].data # i
  BY <1>4 DEF IndInv, Remembers
<1> QED BY <1>1, <1>2, <1>3, <1>4, <1>5, <1>6, <1>7

(* A dispatched request goes from the pending slots to the secure side; a  *)
(* request of an unknown type goes nowhere.                                *)
LEMMA TakenInv ==
    ASSUME IndInv, agent.pc = "dispatch", NEW i \in agent.todo,
           agent'.pc = "dispatch", agent'.async = agent.async,
           agent'.snapshot = agent.snapshot, agent'.todo = agent.todo \ {i},
           \/ agent'.out = agent.out \cup {i} /\ spe'.empty = spe.empty
           \/ agent'.out = agent.out /\ spe'.empty = spe.empty \ {i}
           \/ /\ agent'.out = agent.out /\ spe'.empty = spe.empty
              /\ msg[i].op = "unknown",
           task' = task, empty' = empty, owner' = owner, msg' = msg, woken' = woken,
           pend' = pend, replied' = replied, answers' = answers
    PROVE  InOneHand' /\ Batch'
<1>1. /\ i \in Slots \ empty /\ i \in spe.empty /\ i \in pend /\ i \in agent.snapshot
      /\ Unseen(i) /\ ~InSpe(i) /\ Waits(i)
  BY TodoFacts
<1>2. /\ agent.todo \subseteq agent.snapshot
      /\ agent.snapshot \subseteq pend
      /\ agent.out \subseteq agent.snapshot \ agent.todo
      /\ agent.out \subseteq spe.empty
      /\ agent.async => answers # << >>
  BY DEF IndInv, Batch
<1>3. Batch'
  BY <1>1, <1>2 DEF Batch
<1>4. ~Unseen(i)' /\ (InSpe(i)' \/ msg[i].op = "unknown")
  BY <1>1 DEF Unseen, InSpe
<1>5. \A j \in Slots \ {i} : (Unseen(j)' <=> Unseen(j)) /\ (InSpe(j)' <=> InSpe(j))
  BY DEF Unseen, InSpe
<1>6. \A j \in Slots : Waits(j)' <=> Waits(j)
  BY TasksKept
<1>7. InOneHand'
  <2> SUFFICES ASSUME NEW j \in Slots
               PROVE /\ Unseen(j)' \/ InSpe(j)' \/ j \in replied' \/ woken'[j] \/ j \in pend'
                           => Waits(j)'
                     /\ Waits(j)' /\ msg'[j].op # "unknown" =>
                           Unseen(j)' \/ InSpe(j)' \/ j \in replied' \/ woken'[j]
                     /\ j \in pend' => j \notin replied' /\ ~woken'[j]
                     /\ Unseen(j)' => ~InSpe(j)' /\ j \notin replied' /\ ~woken'[j]
                     /\ InSpe(j)' => j \notin replied' /\ ~woken'[j]
                     /\ ~(j \in replied' /\ woken'[j])
    BY DEF InOneHand
  <2>1. /\ Unseen(j) \/ InSpe(j) \/ j \in replied \/ woken[j] \/ j \in pend => Waits(j)
        /\ Waits(j) /\ msg[j].op # "unknown" =>
              Unseen(j) \/ InSpe(j) \/ j \in replied \/ woken[j]
        /\ j \in pend => j \notin replied /\ ~woken[j]
        /\ Unseen(j) => ~InSpe(j) /\ j \notin replied /\ ~woken[j]
        /\ InSpe(j) => j \notin replied /\ ~woken[j]
        /\ ~(j \in replied /\ woken[j])
    BY DEF IndInv, InOneHand
  <2>2. CASE j = i
    BY <2>1, <2>2, <1>1, <1>4, <1>6
  <2>3. CASE j # i
    BY <2>1, <2>3, <1>5, <1>6
  <2> QED BY <2>2, <2>3
<1> QED BY <1>3, <1>7

(* What a request leaves alone while it is dispatched.                     *)
Dispatching ==
    /\ agent.pc = "dispatch"
    /\ task' = task /\ empty' = empty /\ owner' = owner /\ msg' = msg /\ woken' = woken
    /\ pend' = pend /\ replied' = replied /\ answers' = answers

(* A result that is known at once.                                         *)
LEMMA SyncReplyInv ==
    ASSUME IndInv, Dispatching, NEW i \in agent.todo, SyncReply(i),
           msg[i].op \notin {"close", "close_null", "unknown"}
    PROVE  IndInv'
<1> USE MailboxAssumption
<1>1. TypeOK /\ agent \in AgentState /\ spe \in Queue
  BY DEF IndInv, TypeOK
<1>2. /\ i \in Slots \ empty /\ i \in spe.empty /\ i \in pend /\ i \in agent.snapshot
      /\ ~Ready(i)
  BY TodoFacts DEF Dispatching
<1>3. /\ reply' = [reply EXCEPT ![i] = [client |-> msg[i].client, op |-> msg[i].op, conn |-> None]]
      /\ agent' = [agent EXCEPT !.todo = @ \ {i}, !.out = @ \cup {i}]
      /\ spe' = CleanSlot(TakeSlot(i), i)
      /\ conn' = conn
  BY DEF SyncReply, Answer
<1>4. /\ reply' \in [Slots -> Message]
      /\ reply'[i] = [client |-> msg[i].client, op |-> msg[i].op, conn |-> None]
      /\ \A j \in Slots \ {i} : reply'[j] = reply[j]
  <2>1. [client |-> msg[i].client, op |-> msg[i].op, conn |-> None] \in Message
    BY <1>1, <1>2 DEF TypeOK, Message
  <2> QED BY <2>1, <1>1, <1>2, <1>3 DEF TypeOK
<1>5. /\ agent' \in AgentState
      /\ agent'.pc = "dispatch" /\ agent'.async = agent.async
      /\ agent'.snapshot = agent.snapshot /\ agent'.todo = agent.todo \ {i}
      /\ agent'.out = agent.out \cup {i}
  BY <1>1, <1>2, <1>3 DEF AgentState, Dispatching
<1>6. /\ spe' \in Queue
      /\ spe'.empty = spe.empty
      /\ \A j \in Slots \ spe.empty : spe'.handle[j] = spe.handle[j]
  <2>1. PICK q : q = TakeSlot(i)
    OBVIOUS
  <2>2. /\ q \in Queue
        /\ q.empty = spe.empty \ {i}
        /\ \A j \in Slots \ {i} : q.handle[j] = spe.handle[j]
    <3>1. i + 1 \in Nat
      BY <1>2 DEF Slots
    <3> QED BY <3>1, <2>1, <1>1, <1>2 DEF TakeSlot, Queue
  <2>3. /\ spe' \in Queue
        /\ spe'.empty = q.empty \cup {i}
        /\ \A j \in Slots \ {i} : spe'.handle[j] = q.handle[j]
    BY <2>1, <2>2, <1>2, <1>3 DEF CleanSlot, Queue, NullHandle
  <2> QED BY <2>2, <2>3, <1>2
<1>7. TypeOK'
  BY <1>1, <1>3, <1>4, <1>5, <1>6 DEF TypeOK, Dispatching
<1>8. TaskOwnsSlot' /\ SlotHasTask'
  BY TasksKept DEF Dispatching
<1>9. InOneHand' /\ Batch'
  BY <1>5, <1>6, TakenInv DEF Dispatching
<1>10. \A j \in Slots \ {i} : Ready(j)' <=> Ready(j)
  BY <1>5 DEF Ready, Dispatching
<1>11. OwnResult'
  <2> SUFFICES ASSUME NEW j \in Slots, Ready(j)'
               PROVE  /\ reply'[j].client = msg[j].client
                      /\ reply'[j].op = msg[j].op
                      /\ msg[j].op \notin NeverAnswered
    BY DEF OwnResult, Dispatching
  <2>1. CASE j = i
    BY <2>1, <1>4 DEF NeverAnswered
  <2>2. CASE j # i
    BY <2>2, <1>4, <1>10 DEF IndInv, OwnResult
  <2> QED BY <2>1, <2>2
<1>12. Remembers'
  BY <1>3, <1>6 DEF IndInv, Remembers, Carries, Dispatching
<1>13. AnswersDistinct'
  BY <1>3 DEF IndInv, AnswersDistinct, Dispatching
<1>18. \A d \in Clients, k \in Conns : Holds(d, k)' <=> Holds(d, k)
  <2>1. \A j \in Slots : msg[j].op # "close" \/ (Ready(j)' <=> Ready(j))
    BY <1>10
  <2> QED BY <2>1, HoldsKept DEF Dispatching
<1>14. HoldsOwn'
  BY <1>3, <1>18 DEF IndInv, HoldsOwn, Carries
<1>15. \A k \in Conns, j \in Slots : Returned(k, j)' <=> Returned(k, j)
  <2> SUFFICES ASSUME NEW k \in Conns, NEW j \in Slots
               PROVE  Returned(k, j)' <=> Returned(k, j)
    OBVIOUS
  <2>1. CASE j = i
    <3>1. k # None
      BY DEF Conns
    <3> QED BY <3>1, <2>1, <1>2, <1>4 DEF Returned
  <2>2. CASE j # i
    BY <2>2, <1>4, <1>10 DEF Returned, Dispatching
  <2> QED BY <2>1, <2>2
<1>16. ReturnsOwn'
  BY <1>3, <1>15 DEF IndInv, ReturnsOwn, Dispatching
<1>17. IdleIsHeld'
  BY <1>3, <1>15, <1>18 DEF IndInv, IdleIsHeld
<1> QED BY <1>7, <1>8, <1>9, <1>11, <1>12, <1>13, <1>14, <1>16, <1>17 DEF IndInv

(* A request that a connection carries until its service answers.  The     *)
(* connection was free, or idle and that of the request's client.          *)
LEMMA CarriedInv ==
    ASSUME IndInv, Dispatching, NEW i \in agent.todo, NEW k \in Conns, NoReplyYet(i),
           msg[i].op \in {"call", "connect", "conn_call", "close"},
           conn' = [conn EXCEPT ![k] = [state |-> "active", client |-> msg[i].client,
                                        op |-> msg[i].op, data |-> i]],
           \/ conn[k].state = "free" /\ msg[i].op \in {"call", "connect"}
           \/ /\ conn[k].state = "idle" /\ msg[i].op \in {"conn_call", "close"}
              /\ msg[i].conn = k /\ conn[k].client = msg[i].client
    PROVE  IndInv'
<1> USE MailboxAssumption
<1>1. TypeOK /\ agent \in AgentState /\ spe \in Queue
  BY DEF IndInv, TypeOK
<1>2. /\ i \in Slots \ empty /\ i \in spe.empty /\ i \in pend /\ i \in agent.snapshot
      /\ ~Ready(i) /\ \A l \in Conns : Carries(l) => conn[l].data # i
  BY TodoFacts DEF Dispatching
<1>3. /\ reply' = reply
      /\ agent' = [agent EXCEPT !.todo = @ \ {i}]
      /\ spe' = TakeSlot(i)
  BY DEF NoReplyYet
<1>4. /\ conn' \in [Conns -> Connection]
      /\ conn'[k].state = "active" /\ conn'[k].client = msg[i].client
      /\ conn'[k].op = msg[i].op /\ conn'[k].data = i
      /\ \A l \in Conns \ {k} : conn'[l] = conn[l]
  <2>1. PICK r : r = [state |-> "active", client |-> msg[i].client, op |-> msg[i].op, data |-> i]
    OBVIOUS
  <2>2. msg[i] \in Message
    BY <1>1, <1>2 DEF TypeOK
  <2>3. r \in Connection
    BY <2>1, <2>2, <1>2 DEF Connection, Message
  <2>4. conn' = [conn EXCEPT ![k] = r]
    BY <2>1
  <2>5. /\ conn' \in [Conns -> Connection] /\ conn'[k] = r
        /\ \A l \in Conns \ {k} : conn'[l] = conn[l]
    BY <2>3, <2>4, <1>1 DEF TypeOK
  <2> QED BY <2>1, <2>5
<1>5. /\ agent' \in AgentState
      /\ agent'.pc = "dispatch" /\ agent'.async = agent.async
      /\ agent'.snapshot = agent.snapshot /\ agent'.todo = agent.todo \ {i}
      /\ agent'.out = agent.out
  BY <1>1, <1>2, <1>3 DEF AgentState, Dispatching
<1>6. /\ spe' \in Queue
      /\ spe'.empty = spe.empty \ {i}
      /\ spe'.handle[i] = i + 1
      /\ \A j \in Slots \ {i} : spe'.handle[j] = spe.handle[j]
  <2>1. i + 1 \in Nat
    BY <1>2 DEF Slots
  <2> QED BY <2>1, <1>1, <1>2, <1>3 DEF TakeSlot, Queue
<1>7. TypeOK'
  BY <1>1, <1>3, <1>4, <1>5, <1>6 DEF TypeOK, Dispatching
<1>8. TaskOwnsSlot' /\ SlotHasTask'
  BY TasksKept DEF Dispatching
<1>9. InOneHand' /\ Batch'
  BY <1>5, <1>6, TakenInv DEF Dispatching
<1>10. \A j \in Slots : Ready(j)' <=> Ready(j)
  BY <1>5 DEF Ready, Dispatching
<1>11. OwnResult'
  BY <1>3, <1>10 DEF IndInv, OwnResult, Dispatching
<1>12. ~Carries(k) /\ Carries(k)' /\ \A l \in Conns \ {k} : Carries(l)' <=> Carries(l)
  BY <1>4 DEF Carries
<1>13. Remembers'
  <2>1. \A j \in Slots \ spe'.empty : spe'.handle[j] = j + 1
    BY <1>6 DEF IndInv, Remembers
  <2>2. ASSUME NEW l \in Conns, Carries(l)'
        PROVE  /\ conn'[l].data \in Slots \ spe'.empty
               /\ conn'[l].client = msg'[conn'[l].data].client
               /\ conn'[l].op = msg'[conn'[l].data].op
               /\ conn'[l].op \in {"conn_call", "close"} => msg'[conn'[l].data].conn = l
               /\ conn'[l].op \in {"call", "connect", "conn_call", "close"}
               /\ conn'[l].state = "answered" => conn'[l].op \in {"connect", "conn_call"}
               /\ conn'[l].state = "to_free" => conn'[l].op \in {"call", "connect", "close"}
    <3>1. CASE l = k
      BY <3>1, <1>2, <1>4, <1>6 DEF Dispatching
    <3>2. CASE l # k
      <4>1. Carries(l) /\ conn'[l] = conn[l]
        BY <2>2, <3>2, <1>4, <1>12
      <4> QED BY <4>1, <1>6 DEF IndInv, Remembers, Dispatching
    <3> QED BY <3>1, <3>2
  <2>3. ASSUME NEW l \in Conns, NEW m \in Conns, Carries(l)', Carries(m)',
               conn'[l].data = conn'[m].data
        PROVE  l = m
    <3>1. \A n \in Conns \ {k} : Carries(n)' => Carries(n) /\ conn'[n].data = conn[n].data
                                                  /\ conn'[n].data # i
      BY <1>2, <1>4, <1>12
    <3> QED BY <2>3, <3>1, <1>4 DEF IndInv, Remembers
  <2> QED BY <2>1, <2>2, <2>3 DEF Remembers
<1>14. AnswersDistinct'
  <2>1. ASSUME NEW a \in DOMAIN answers PROVE conn'[answers[a]] = conn[answers[a]]
    <3>1. answers[a] \in Conns
      BY <1>1, <2>1 DEF TypeOK
    <3>2. conn[answers[a]].state \in {"answered", "to_free"}
      BY <2>1 DEF IndInv, AnswersDistinct
    <3> QED BY <3>1, <3>2, <1>4
  <2> QED BY <2>1 DEF IndInv, AnswersDistinct, Dispatching
<1>20. \A d \in Clients, l \in Conns : Holds(d, l)' <=> Holds(d, l)
  BY <1>10, HoldsKept DEF Dispatching
<1>15. HoldsOwn'
  <2> SUFFICES ASSUME NEW c \in Clients, NEW l \in Conns, Holds(c, l)
               PROVE  /\ conn'[l].client = c
                      /\ conn'[l].state # "free"
                      /\ Carries(l)' => conn'[l].op \in {"conn_call", "close"}
    BY <1>20 DEF HoldsOwn
  <2>1. /\ conn[l].client = c
        /\ conn[l].state # "free"
        /\ Carries(l) => conn[l].op \in {"conn_call", "close"}
    BY DEF IndInv, HoldsOwn
  <2>2. CASE l = k
    BY <2>1, <2>2, <1>4
  <2>3. CASE l # k
    BY <2>1, <2>3, <1>4, <1>12
  <2> QED BY <2>2, <2>3
<1>16. \A l \in Conns, j \in Slots : Returned(l, j)' <=> Returned(l, j)
  BY <1>3, <1>10 DEF Returned, Dispatching
<1>17. ASSUME NEW j \in Slots, Returned(k, j) PROVE FALSE
  <2>1. /\ conn[k].state = "idle" /\ conn[k].client = msg[j].client
        /\ Ready(j) /\ msg[j].op = "connect"
    BY <1>17 DEF IndInv, ReturnsOwn, Returned
  <2>2. msg[i].op \in {"conn_call", "close"} /\ msg[j].client = msg[i].client
    BY <2>1
  <2>5. i = j
    BY <2>1, <2>2, <1>2, SlotFacts, SlotOfClient
  <2> QED BY <2>1, <2>2, <2>5
<1>18. ReturnsOwn'
  <2> SUFFICES ASSUME NEW j \in Slots, NEW l \in Conns, Returned(l, j)'
               PROVE  conn'[l].state = "idle" /\ conn'[l].client = msg[j].client
    BY DEF ReturnsOwn, Dispatching
  <2>1. Returned(l, j)
    BY <1>16
  <2>2. l # k
    BY <2>1, <1>17
  <2> QED BY <2>1, <2>2, <1>4 DEF IndInv, ReturnsOwn
<1>19. IdleIsHeld'
  <2> SUFFICES ASSUME NEW l \in Conns, conn'[l].state = "idle"
               PROVE  \E d \in Clients : /\ conn'[l].client = d
                                         /\ Holds(d, l)' \/ \E j \in Slots : Returned(l, j)'
    BY DEF IdleIsHeld
  <2>1. l # k /\ conn'[l] = conn[l]
    BY <1>4
  <2> QED BY <2>1, <1>16, <1>20 DEF IndInv, IdleIsHeld
<1> QED BY <1>7, <1>8, <1>9, <1>11, <1>13, <1>14, <1>15, <1>18, <1>19 DEF IndInv

(* A request without an answer: a psa_close of the null handle keeps its   *)
(* slot, a call of an unknown type does not.                               *)
LEMMA DroppedInv ==
    ASSUME IndInv, Dispatching, NEW i \in agent.todo,
           agent' = [agent EXCEPT !.todo = @ \ {i}], reply' = reply, conn' = conn,
           \/ spe' = TakeSlot(i)
           \/ spe' = CleanSlot(TakeSlot(i), i) /\ msg[i].op = "unknown"
    PROVE  IndInv'
<1> USE MailboxAssumption
<1>1. TypeOK /\ agent \in AgentState /\ spe \in Queue
  BY DEF IndInv, TypeOK
<1>2. /\ i \in Slots \ empty /\ i \in spe.empty
      /\ \A l \in Conns : Carries(l) => conn[l].data # i
  BY TodoFacts DEF Dispatching
<1>3. /\ agent' \in AgentState
      /\ agent'.pc = "dispatch" /\ agent'.async = agent.async
      /\ agent'.snapshot = agent.snapshot /\ agent'.todo = agent.todo \ {i}
      /\ agent'.out = agent.out
  BY <1>1, <1>2 DEF AgentState, Dispatching
<1>4. /\ spe' \in Queue
      /\ \/ spe'.empty = spe.empty \ {i} /\ spe'.handle[i] = i + 1
         \/ spe'.empty = spe.empty /\ msg[i].op = "unknown"
      /\ \A j \in Slots \ {i} : spe'.handle[j] = spe.handle[j]
  <2>1. PICK q : q = TakeSlot(i)
    OBVIOUS
  <2>2. /\ q \in Queue
        /\ q.empty = spe.empty \ {i} /\ q.handle[i] = i + 1
        /\ \A j \in Slots \ {i} : q.handle[j] = spe.handle[j]
    <3>1. i + 1 \in Nat
      BY <1>2 DEF Slots
    <3> QED BY <3>1, <2>1, <1>1, <1>2 DEF TakeSlot, Queue
  <2>3. CASE spe' = q
    BY <2>2, <2>3
  <2>4. CASE spe' = CleanSlot(q, i) /\ msg[i].op = "unknown"
    <3>1. /\ spe' \in Queue
          /\ spe'.empty = q.empty \cup {i}
          /\ \A j \in Slots \ {i} : spe'.handle[j] = q.handle[j]
      BY <2>2, <2>4, <1>2 DEF CleanSlot, Queue, NullHandle
    <3> QED BY <3>1, <2>2, <2>4, <1>2
  <2> QED BY <2>1, <2>3, <2>4
<1>5. TypeOK'
  BY <1>1, <1>3, <1>4 DEF TypeOK, Dispatching
<1>6. TaskOwnsSlot' /\ SlotHasTask'
  BY TasksKept DEF Dispatching
<1>7. InOneHand' /\ Batch'
  BY <1>3, <1>4, TakenInv DEF Dispatching
<1>8. \A j \in Slots : Ready(j)' <=> Ready(j)
  BY <1>3 DEF Ready, Dispatching
<1>9. OwnResult'
  BY <1>8 DEF IndInv, OwnResult, Dispatching
<1>10. Remembers'
  <2>1. \A j \in Slots \ spe'.empty : spe'.handle[j] = j + 1
    BY <1>2, <1>4 DEF IndInv, Remembers
  <2>2. \A k \in Conns : Carries(k) => conn[k].data \in Slots \ spe'.empty
    BY <1>2, <1>4 DEF IndInv, Remembers
  <2> QED BY <2>1, <2>2 DEF IndInv, Remembers, Carries, Dispatching
<1>11. AnswersDistinct'
  BY DEF IndInv, AnswersDistinct, Dispatching
<1>12. \A d \in Clients, k \in Conns : Holds(d, k)' <=> Holds(d, k)
  BY <1>8, HoldsKept DEF Dispatching
<1>13. HoldsOwn'
  BY <1>12 DEF IndInv, HoldsOwn, Carries
<1>14. \A k \in Conns, j \in Slots : Returned(k, j)' <=> Returned(k, j)
  BY <1>8 DEF Returned, Dispatching
<1>15. ReturnsOwn'
  BY <1>14 DEF IndInv, ReturnsOwn, Dispatching
<1>16. IdleIsHeld'
  BY <1>12, <1>14 DEF IndInv, IdleIsHeld
<1> QED BY <1>5, <1>6, <1>7, <1>9, <1>10, <1>11, <1>13, <1>15, <1>16 DEF IndInv

(* A connection that a client holds carries only the request in the slot   *)
(* of that client's task.                                                  *)
LEMMA CarriesOwn ==
    ASSUME IndInv, NEW c \in Clients, NEW k \in Conns, Holds(c, k), Carries(k)
    PROVE  /\ conn[k].data \in Slots \ spe.empty
           /\ conn[k].data \notin empty
           /\ msg[conn[k].data].client = c
<1>1. conn[k].data \in Slots \ spe.empty /\ msg[conn[k].data].client = c
  BY DEF IndInv, HoldsOwn, Remembers
<1> QED BY <1>1, SlotFacts DEF Waits

(* The agent passes a request to the SPM; a psa_close comes from the slot  *)
(* its connection remembers.                                               *)
LEMMA DispatchInv ==
    ASSUME IndInv, Dispatch, ~stray'
    PROVE  IndInv'
<1> USE MailboxAssumption
<1> PICK i : i = Min(agent.todo)
  OBVIOUS
<1>1. TypeOK /\ agent \in AgentState
  BY DEF IndInv, TypeOK
<1>2. i \in agent.todo
  <2>1. agent.todo \subseteq Nat /\ agent.todo # {}
    BY <1>1 DEF AgentState, Slots, Dispatch
  <2> QED BY <2>1, MinIsLeast
<1>3. Dispatching
  BY DEF Dispatch, Dispatching, nsvars
<1>4. i \in Slots \ empty /\ i \in spe.empty /\ ~Ready(i)
  BY <1>2, <1>3, TodoFacts DEF Dispatching
<1>5. msg[i].op \in CallTypes /\ msg[i] \in Message
  BY <1>1, <1>4, SlotFacts DEF TypeOK
<1>6. CASE SyncReply(i) /\ msg[i].op \notin {"close", "close_null", "unknown"}
  BY <1>2, <1>3, <1>6, SyncReplyInv
<1>7. CASE msg[i].op \in {"call", "connect"}
  <2>1. NewRequest(i)
    BY <1>7 DEF Dispatch
  <2>2. CASE FreeConns = {}
    BY <2>1, <2>2, <1>6, <1>7 DEF NewRequest
  <2>3. CASE FreeConns # {}
    <3>1. Min(FreeConns) \in FreeConns
      <4>1. FreeConns \subseteq Nat
        BY DEF FreeConns, Conns
      <4> QED BY <4>1, <2>3, MinIsLeast
    <3>2. PICK k \in Conns : k = Min(FreeConns) /\ conn[k].state = "free"
      BY <3>1 DEF FreeConns
    <3>3. /\ conn' = [conn EXCEPT ![k] = [state |-> "active", client |-> msg[i].client,
                                          op |-> msg[i].op, data |-> i]]
          /\ NoReplyYet(i)
      BY <2>1, <2>3, <3>2 DEF NewRequest
    <3> QED BY <3>2, <3>3, <1>2, <1>3, <1>7, CarriedInv
  <2> QED BY <2>2, <2>3
<1>8. CASE msg[i].op \in {"conn_call", "close"}
  <2>1. ConnRequest(i)
    BY <1>8 DEF Dispatch
  <2>2. CASE ~IdleConn(msg[i])
    <3>1. CASE msg[i].op = "conn_call"
      BY <2>1, <2>2, <3>1, <1>6 DEF ConnRequest
    <3>2. CASE msg[i].op = "close"
      <4> PICK c : c = owner[i]
        OBVIOUS
      <4>1. /\ c \in Clients /\ task[c].slot = i /\ msg[i].client = c
            /\ msg[i].conn = task[c].conn /\ task[c].conn # None
        BY <3>2, <1>4, SlotFacts
      <4>2. PICK k \in Conns : k = task[c].conn
        BY <4>1, <1>5 DEF Message
      <4>3. Holds(c, k)
        BY <4>1, <4>2, <1>4 DEF Holds, Closed
      <4>4. conn[k].client = c /\ conn[k].state # "free" /\ conn[k] \in Connection
        <5>1. conn[k] \in Connection
          BY <1>1 DEF TypeOK
        <5> QED BY <4>1, <4>3, <5>1 DEF IndInv, HoldsOwn
      <4>5. Carries(k)
        BY <2>2, <4>1, <4>2, <4>4 DEF IdleConn, Carries, Connection
      <4>6. conn[k].data = i
        BY <4>1, <4>3, <4>5, <1>4, CarriesOwn, SlotOfClient
      <4>7. conn[k].data \notin spe.empty
        BY <4>1, <4>3, <4>5, CarriesOwn
      <4> QED BY <4>6, <4>7, <1>4
    <3> QED BY <3>1, <3>2, <1>8
  <2>3. CASE IdleConn(msg[i])
    <3>1. PICK k \in Conns : k = msg[i].conn
      BY <2>3, <1>5 DEF IdleConn, Message
    <3>2. conn[k].state = "idle" /\ conn[k].client = msg[i].client
      BY <2>3, <3>1 DEF IdleConn
    <3>3. /\ conn' = [conn EXCEPT ![k] = [conn[k] EXCEPT !.state = "active", !.op = msg[i].op,
                                                         !.data = i]]
          /\ NoReplyYet(i)
      <4>1. PICK d : d = IF msg[i].op = "close" THEN conn[k].data ELSE i
        OBVIOUS
      <4>2. /\ conn' = [conn EXCEPT ![k] = [conn[k] EXCEPT !.state = "active", !.op = msg[i].op,
                                                           !.data = d]]
            /\ NoReplyYet(i)
            /\ stray' = (stray \/ (msg[i].op = "close" /\ conn[k].data # i))
        <5>1. d = IF msg[i].op = "close" THEN conn[msg[i].conn].data ELSE i
          BY <3>1, <4>1
        <5>2. PICK e : e = [conn[k] EXCEPT !.state = "active", !.op = msg[i].op, !.data = d]
          OBVIOUS
        <5>3. e = [conn[msg[i].conn] EXCEPT !.state = "active", !.op = msg[i].op,
                     !.data = IF msg[i].op = "close" THEN conn[msg[i].conn].data ELSE i]
          BY <3>1, <5>1, <5>2
        <5>4. conn' = [conn EXCEPT ![k] = e]
          BY <2>1, <2>3, <3>1, <5>3 DEF ConnRequest
        <5>5. NoReplyYet(i) /\ stray' = (stray \/ (msg[i].op = "close" /\ conn[k].data # i))
          BY <2>1, <2>3, <3>1 DEF ConnRequest
        <5> QED BY <5>2, <5>4, <5>5
      <4>3. d = i
        BY <4>1, <4>2
      <4> QED BY <4>2, <4>3
    <3>4. [conn[k] EXCEPT !.state = "active", !.op = msg[i].op, !.data = i]
            = [state |-> "active", client |-> msg[i].client, op |-> msg[i].op, data |-> i]
      <4>1. conn[k] \in Connection
        BY <1>1 DEF TypeOK
      <4>2. PICK e \in Connection : e = conn[k]
        BY <4>1
      <4>3. PICK o \in CallTypes : o = msg[i].op
        BY <1>5
      <4>4. PICK r : r = [e EXCEPT !.state = "active", !.op = o, !.data = i]
        OBVIOUS
      <4>5. r \in Connection /\ r.state = "active" /\ r.client = e.client /\ r.op = o /\ r.data = i
        BY <4>4, <1>4 DEF Connection
      <4>6. r = [state |-> "active", client |-> e.client, op |-> o, data |-> i]
        BY <4>5 DEF Connection
      <4> QED BY <4>2, <4>3, <4>4, <4>6, <3>2
    <3>5. conn' = [conn EXCEPT ![k] = [state |-> "active", client |-> msg[i].client,
                                       op |-> msg[i].op, data |-> i]]
      BY <3>3, <3>4
    <3> QED BY <3>1, <3>2, <3>3, <3>5, <1>2, <1>3, <1>8, CarriedInv
  <2> QED BY <2>2, <2>3
<1>9. CASE msg[i].op = "version"
  BY <1>6, <1>9 DEF Dispatch
<1>10. CASE msg[i].op = "close_null"
  BY <1>2, <1>3, <1>10, DroppedInv DEF Dispatch, NoReplyYet
<1>11. CASE msg[i].op = "unknown"
  BY <1>2, <1>3, <1>11, DroppedInv DEF Dispatch
<1> QED BY <1>5, <1>7, <1>8, <1>9, <1>10, <1>11 DEF CallTypes

(* A service answers: its connection joins the answers.                    *)
LEMMA ServiceRepliesInv ==
    ASSUME IndInv, NEW k \in Conns, ServiceReplies(k)
    PROVE  IndInv'
<1>1. TypeOK
  BY DEF IndInv
<1>2. PICK ok \in BOOLEAN :
        /\ conn[k].op # "connect" => ok
        /\ conn' = [conn EXCEPT ![k].state =
                       IF conn[k].op \in {"call", "close"} \/ ~ok
                       THEN "to_free" ELSE "answered"]
  BY DEF ServiceReplies
<1>3. /\ conn[k].state = "active"
      /\ answers' = Append(answers, k)
      /\ task' = task /\ empty' = empty /\ owner' = owner /\ msg' = msg /\ woken' = woken
      /\ reply' = reply /\ pend' = pend /\ replied' = replied /\ spe' = spe
      /\ agent' = agent
  BY DEF ServiceReplies, nsvars, shared
<1> PICK st : st = IF conn[k].op \in {"call", "close"} \/ ~ok THEN "to_free" ELSE "answered"
  OBVIOUS
<1>4. /\ conn'[k].state = st /\ conn'[k].client = conn[k].client
      /\ conn'[k].op = conn[k].op /\ conn'[k].data = conn[k].data
      /\ conn' \in [Conns -> Connection]
      /\ \A l \in Conns \ {k} : conn'[l] = conn[l]
  <2>1. conn[k] \in Connection /\ conn \in [Conns -> Connection]
    BY <1>1 DEF TypeOK
  <2>2. PICK r : r = [conn[k] EXCEPT !.state = st]
    OBVIOUS
  <2>3. /\ r \in Connection /\ r.state = st /\ r.client = conn[k].client
        /\ r.op = conn[k].op /\ r.data = conn[k].data
    BY <2>1, <2>2 DEF Connection
  <2>4. conn' = [conn EXCEPT ![k] = r]
    BY <2>2, <1>2
  <2> QED BY <2>1, <2>3, <2>4
<1>5. TypeOK'
  BY <1>1, <1>3, <1>4 DEF TypeOK
<1>6. TaskOwnsSlot' /\ SlotHasTask'
  BY <1>3, TasksKept
<1>7. \A j \in Slots : /\ Unseen(j)' <=> Unseen(j)
                       /\ InSpe(j)' <=> InSpe(j)
                       /\ Waits(j)' <=> Waits(j)
                       /\ Ready(j)' <=> Ready(j)
  BY <1>3 DEF Unseen, InSpe, Waits, Ready
<1>8. InOneHand'
  BY <1>3, <1>7 DEF IndInv, InOneHand
<1>9. /\ answers \in Seq(Conns)
      /\ Len(answers) \in Nat
      /\ DOMAIN answers = 1 .. Len(answers)
      /\ DOMAIN answers' = 1 .. Len(answers) + 1
      /\ \A a \in 1 .. Len(answers) : answers'[a] = answers[a]
      /\ answers'[Len(answers) + 1] = k
  BY <1>1, <1>3 DEF TypeOK
<1>10. Batch'
  <2>1. answers' # << >>
    BY <1>9, <1>3
  <2> QED BY <2>1, <1>3 DEF IndInv, Batch
<1>11. OwnResult'
  BY <1>3, <1>7 DEF IndInv, OwnResult
<1>12. \A l \in Conns : /\ Carries(l)' <=> Carries(l)
                        /\ conn'[l].client = conn[l].client
                        /\ conn'[l].op = conn[l].op
                        /\ conn'[l].data = conn[l].data
  BY <1>3, <1>4 DEF Carries
<1>13. conn[k].op \in {"call", "connect", "conn_call", "close"}
  BY <1>3 DEF IndInv, Remembers, Carries
<1>14. Remembers'
  <2>1. ASSUME NEW l \in Conns, Carries(l)'
        PROVE  /\ conn'[l].state = "answered" => conn'[l].op \in {"connect", "conn_call"}
               /\ conn'[l].state = "to_free" => conn'[l].op \in {"call", "connect", "close"}
    <3>1. CASE l = k
      BY <3>1, <1>2, <1>4, <1>13
    <3>2. CASE l # k
      BY <3>2, <2>1, <1>4, <1>12 DEF IndInv, Remembers
    <3> QED BY <3>1, <3>2
  <2>2. ASSUME NEW l \in Conns, Carries(l)'
        PROVE  /\ conn'[l].data \in Slots \ spe'.empty
               /\ conn'[l].client = msg'[conn'[l].data].client
               /\ conn'[l].op = msg'[conn'[l].data].op
               /\ conn'[l].op \in {"conn_call", "close"} => msg'[conn'[l].data].conn = l
               /\ conn'[l].op \in {"call", "connect", "conn_call", "close"}
    BY <2>2, <1>3, <1>12 DEF IndInv, Remembers
  <2>3. ASSUME NEW l \in Conns, NEW m \in Conns, Carries(l)', Carries(m)',
               conn'[l].data = conn'[m].data
        PROVE  l = m
    BY <2>3, <1>12 DEF IndInv, Remembers
  <2>4. \A j \in Slots \ spe'.empty : spe'.handle[j] = j + 1
    BY <1>3 DEF IndInv, Remembers
  <2> QED BY <2>1, <2>2, <2>3, <2>4 DEF Remembers
<1>15. AnswersDistinct'
  <2>1. \A a \in 1 .. Len(answers) : /\ answers[a] \in Conns \ {k}
                                     /\ conn[answers[a]].state \in {"answered", "to_free"}
    BY <1>3, <1>9 DEF IndInv, AnswersDistinct
  <2>2. st \in {"answered", "to_free"}
    OBVIOUS
  <2>3. ASSUME NEW a \in DOMAIN answers' PROVE conn'[answers'[a]].state \in {"answered", "to_free"}
    BY <2>1, <2>2, <1>4, <1>9
  <2>4. ASSUME NEW a \in DOMAIN answers', NEW b \in DOMAIN answers', answers'[a] = answers'[b]
        PROVE  a = b
    <3>1. \A x, y \in 1 .. Len(answers) : answers[x] = answers[y] => x = y
      BY <1>9 DEF IndInv, AnswersDistinct
    <3> QED BY <2>1, <2>4, <3>1, <1>9
  <2> QED BY <2>3, <2>4 DEF AnswersDistinct
<1>21. \A d \in Clients, l \in Conns : Holds(d, l)' <=> Holds(d, l)
  BY <1>3, <1>7, HoldsKept
<1>16. HoldsOwn'
  <2>1. \A l \in Conns : conn'[l].state = "free" => conn[l].state = "free"
    BY <1>4
  <2> QED BY <2>1, <1>12, <1>21 DEF IndInv, HoldsOwn
<1>17. \A l \in Conns : conn'[l].state = "idle" <=> conn[l].state = "idle"
  BY <1>3, <1>4
<1>18. \A l \in Conns, j \in Slots : Returned(l, j)' <=> Returned(l, j)
  BY <1>3, <1>7 DEF Returned
<1>19. ReturnsOwn'
  BY <1>3, <1>12, <1>17, <1>18 DEF IndInv, ReturnsOwn
<1>20. IdleIsHeld'
  BY <1>12, <1>17, <1>18, <1>21 DEF IndInv, IdleIsHeld
<1> QED BY <1>5, <1>6, <1>8, <1>10, <1>11, <1>14, <1>15, <1>16, <1>19, <1>20 DEF IndInv

(* The agent passes an answer to the slot the request came from.           *)
LEMMA AsyncReplyInv ==
    ASSUME IndInv, AsyncReply
    PROVE  IndInv'
<1> USE MailboxAssumption
<1> PICK k : k = Head(answers)
  OBVIOUS
<1> PICK i : i = conn[k].data
  OBVIOUS
<1>1. TypeOK /\ spe \in Queue
  BY DEF IndInv, TypeOK
<1>2. /\ agent.pc = "async"
      /\ answers' = Tail(answers)
      /\ agent' = Waiting
      /\ conn' = [conn EXCEPT ![k] = AfterReply(conn[k])]
      /\ task' = task /\ empty' = empty /\ owner' = owner /\ msg' = msg /\ woken' = woken
      /\ pend' = pend
  BY DEF AsyncReply, nsvars
<1>3. /\ answers \in Seq(Conns) /\ answers # << >>
      /\ Len(answers) \in Nat \ {0}
      /\ DOMAIN answers = 1 .. Len(answers)
      /\ DOMAIN answers' = 1 .. Len(answers) - 1
      /\ answers' \in Seq(Conns)
      /\ \A a \in 1 .. Len(answers) - 1 : answers'[a] = answers[a + 1]
      /\ k = answers[1] /\ k \in Conns
  <2>1. answers \in Seq(Conns) /\ answers # << >>
    BY <1>1, <1>2 DEF IndInv, Batch, TypeOK
  <2> QED BY <2>1, <1>2
<1>4. conn[k].state \in {"answered", "to_free"} /\ Carries(k)
  BY <1>3 DEF IndInv, AnswersDistinct, Carries
<1>5. /\ i \in Slots \ spe.empty /\ spe.handle[i] = i + 1
      /\ conn[k].client = msg[i].client
      /\ conn[k].op = msg[i].op
      /\ conn[k].op \in {"conn_call", "close"} => msg[i].conn = k
      /\ conn[k].op \in {"call", "connect", "conn_call", "close"}
      /\ conn[k].state = "answered" => conn[k].op \in {"connect", "conn_call"}
      /\ conn[k].state = "to_free" => conn[k].op \in {"call", "connect", "close"}
      /\ \A l \in Conns \ {k} : Carries(l) => conn[l].data # i
  BY <1>3, <1>4 DEF IndInv, Remembers
<1>6. ReplySlot(k) = i
  <2>1. i \in Nat /\ i # None
    BY <1>5 DEF Slots
  <2>2. i + 1 # 0 /\ (i + 1) - 1 = i
    BY <2>1
  <2> QED BY <2>1, <2>2, <1>5 DEF ReplySlot, NullHandle
<1> PICK h : h = IF conn[k].op = "connect" /\ conn[k].state = "answered" THEN k ELSE None
  OBVIOUS
<1>7. /\ reply' = [reply EXCEPT ![i] = [client |-> conn[k].client, op |-> conn[k].op, conn |-> h]]
      /\ spe' = CleanSlot(spe, i)
      /\ replied' = replied \cup {i}
  BY <1>5, <1>6 DEF AsyncReply, Answer
<1>8. InSpe(i) /\ ~Unseen(i) /\ i \notin replied /\ ~woken[i] /\ Waits(i)
  BY <1>5 DEF InSpe, IndInv, InOneHand
<1>9. /\ agent' \in AgentState /\ agent'.pc = "wait" /\ ~agent'.async /\ agent'.out = {}
  BY <1>2 DEF Waiting, AgentState
<1>10. /\ reply' \in [Slots -> Message]
       /\ reply'[i].client = msg[i].client /\ reply'[i].op = msg[i].op /\ reply'[i].conn = h
       /\ \A j \in Slots \ {i} : reply'[j] = reply[j]
  <2>1. PICK r : r = [client |-> conn[k].client, op |-> conn[k].op, conn |-> h]
    OBVIOUS
  <2>2. conn[k] \in Connection
    BY <1>1, <1>3 DEF TypeOK
  <2>3. r \in Message
    BY <2>1, <2>2, <1>3 DEF Message, Connection
  <2>4. reply' = [reply EXCEPT ![i] = r]
    BY <2>1, <1>7
  <2>5. /\ reply' \in [Slots -> Message] /\ reply'[i] = r
        /\ \A j \in Slots \ {i} : reply'[j] = reply[j]
    BY <2>3, <2>4, <1>1, <1>5 DEF TypeOK
  <2> QED BY <2>1, <2>5, <1>5
<1>11. /\ spe' \in Queue
       /\ spe'.empty = spe.empty \cup {i}
       /\ \A j \in Slots \ {i} : spe'.handle[j] = spe.handle[j]
  BY <1>1, <1>5, <1>7 DEF CleanSlot, Queue, NullHandle
<1>12. /\ conn' \in [Conns -> Connection]
       /\ conn[k].state = "to_free" => conn'[k].state = "free"
       /\ conn[k].state = "answered" => conn'[k].state = "idle" /\ conn'[k].client = conn[k].client
       /\ \A l \in Conns \ {k} : conn'[l] = conn[l]
  <2>1. conn[k] \in Connection /\ conn \in [Conns -> Connection]
    BY <1>1, <1>3 DEF TypeOK
  <2>2. PICK r : r = AfterReply(conn[k])
    OBVIOUS
  <2>3. /\ r \in Connection
        /\ conn[k].state = "to_free" => r.state = "free"
        /\ conn[k].state = "answered" => r.state = "idle" /\ r.client = conn[k].client
    <3>1. CASE conn[k].state = "to_free"
      BY <2>2, <3>1 DEF AfterReply, FreeConn, Connection
    <3>2. CASE conn[k].state = "answered"
      <4>1. r = [conn[k] EXCEPT !.state = "idle"]
        BY <2>2, <3>2 DEF AfterReply
      <4> QED BY <4>1, <2>1, <3>2 DEF Connection
    <3> QED BY <3>1, <3>2, <1>4
  <2>4. conn' = [conn EXCEPT ![k] = r]
    BY <2>2, <1>2
  <2> QED BY <2>1, <2>3, <2>4, <1>3
<1>13. TypeOK'
  BY <1>1, <1>2, <1>3, <1>5, <1>7, <1>9, <1>10, <1>11, <1>12 DEF TypeOK
<1>14. TaskOwnsSlot' /\ SlotHasTask' /\ \A j \in Slots : Waits(j)' <=> Waits(j)
  BY <1>2, TasksKept
<1>15. ~InSpe(i)' /\ \A j \in Slots \ {i} : InSpe(j)' <=> InSpe(j)
  BY <1>2, <1>5, <1>9, <1>11 DEF InSpe
<1>16. \A j \in Slots : Unseen(j)' <=> Unseen(j)
  BY <1>2, <1>9 DEF Unseen
<1>17. InOneHand'
  <2> SUFFICES ASSUME NEW j \in Slots
               PROVE /\ Unseen(j)' \/ InSpe(j)' \/ j \in replied' \/ woken'[j] \/ j \in pend'
                           => Waits(j)'
                     /\ Waits(j)' /\ msg'[j].op # "unknown" =>
                           Unseen(j)' \/ InSpe(j)' \/ j \in replied' \/ woken'[j]
                     /\ j \in pend' => j \notin replied' /\ ~woken'[j]
                     /\ Unseen(j)' => ~InSpe(j)' /\ j \notin replied' /\ ~woken'[j]
                     /\ InSpe(j)' => j \notin replied' /\ ~woken'[j]
                     /\ ~(j \in replied' /\ woken'[j])
    BY DEF InOneHand
  <2>1. /\ Unseen(j) \/ InSpe(j) \/ j \in replied \/ woken[j] \/ j \in pend => Waits(j)
        /\ Waits(j) /\ msg[j].op # "unknown" =>
              Unseen(j) \/ InSpe(j) \/ j \in replied \/ woken[j]
        /\ j \in pend => j \notin replied /\ ~woken[j]
        /\ Unseen(j) => ~InSpe(j) /\ j \notin replied /\ ~woken[j]
        /\ InSpe(j) => j \notin replied /\ ~woken[j]
        /\ ~(j \in replied /\ woken[j])
    BY DEF IndInv, InOneHand
  <2>2. CASE j = i
    <3>1. i \notin pend
      BY <1>2, <1>8 DEF Unseen
    <3> QED BY <2>1, <2>2, <3>1, <1>2, <1>7, <1>8, <1>14, <1>15, <1>16
  <2>3. CASE j # i
    BY <2>1, <2>3, <1>2, <1>7, <1>14, <1>15, <1>16
  <2> QED BY <2>2, <2>3
<1>18. Batch'
  BY <1>9 DEF Batch
<1>19. Ready(i)' /\ ~Ready(i) /\ \A j \in Slots \ {i} : Ready(j)' <=> Ready(j)
  <2>1. Ready(i)'
    BY <1>7 DEF Ready
  <2>2. ~Ready(i)
    BY <1>2, <1>8 DEF Ready, Waits
  <2>3. \A j \in Slots \ {i} : Ready(j)' <=> Ready(j)
    BY <1>2, <1>7, <1>9 DEF Ready
  <2> QED BY <2>1, <2>2, <2>3
<1>20. OwnResult'
  <2> SUFFICES ASSUME NEW j \in Slots, Ready(j)'
               PROVE  /\ reply'[j].client = msg[j].client
                      /\ reply'[j].op = msg[j].op
                      /\ msg[j].op \notin NeverAnswered
    BY <1>2 DEF OwnResult
  <2>1. CASE j = i
    BY <2>1, <1>5, <1>10 DEF NeverAnswered
  <2>2. CASE j # i
    BY <2>2, <1>10, <1>19 DEF IndInv, OwnResult
  <2> QED BY <2>1, <2>2
<1>21. ~Carries(k)' /\ \A l \in Conns \ {k} : Carries(l)' <=> Carries(l)
  BY <1>4, <1>12 DEF Carries
<1>22. Remembers'
  <2>1. \A j \in Slots \ spe'.empty : spe'.handle[j] = j + 1
    BY <1>11 DEF IndInv, Remembers
  <2>2. ASSUME NEW l \in Conns, Carries(l)'
        PROVE  /\ l # k /\ conn'[l] = conn[l] /\ Carries(l)
               /\ conn[l].data \in Slots \ spe'.empty
    <3>1. l # k /\ Carries(l) /\ conn'[l] = conn[l]
      BY <2>2, <1>12, <1>21
    <3> QED BY <3>1, <1>5, <1>11 DEF IndInv, Remembers
  <2>3. ASSUME NEW l \in Conns, Carries(l)'
        PROVE  /\ conn'[l].data \in Slots \ spe'.empty
               /\ conn'[l].client = msg'[conn'[l].data].client
               /\ conn'[l].op = msg'[conn'[l].data].op
               /\ conn'[l].op \in {"conn_call", "close"} => msg'[conn'[l].data].conn = l
               /\ conn'[l].op \in {"call", "connect", "conn_call", "close"}
               /\ conn'[l].state = "answered" => conn'[l].op \in {"connect", "conn_call"}
               /\ conn'[l].state = "to_free" => conn'[l].op \in {"call", "connect", "close"}
    BY <2>2, <2>3, <1>2 DEF IndInv, Remembers
  <2>4. ASSUME NEW l \in Conns, NEW m \in Conns, Carries(l)', Carries(m)',
               conn'[l].data = conn'[m].data
        PROVE  l = m
    BY <2>2, <2>4 DEF IndInv, Remembers
  <2> QED BY <2>1, <2>3, <2>4 DEF Remembers
<1>23. AnswersDistinct'
  <2>1. \A a, b \in 1 .. Len(answers) : answers[a] = answers[b] => a = b
    BY <1>3 DEF IndInv, AnswersDistinct
  <2>2. ASSUME NEW a \in DOMAIN answers' PROVE conn'[answers'[a]].state \in {"answered", "to_free"}
    <3>1. a + 1 \in 1 .. Len(answers) /\ 1 \in 1 .. Len(answers) /\ a + 1 # 1
      BY <2>2, <1>3
    <3>2. answers'[a] = answers[a + 1] /\ answers[a + 1] # k /\ answers[a + 1] \in Conns
      BY <2>1, <2>2, <3>1, <1>3
    <3>3. conn[answers[a + 1]].state \in {"answered", "to_free"}
      BY <3>1, <1>3 DEF IndInv, AnswersDistinct
    <3> QED BY <3>2, <3>3, <1>12
  <2>3. ASSUME NEW a \in DOMAIN answers', NEW b \in DOMAIN answers', answers'[a] = answers'[b]
        PROVE  a = b
    <3>1. /\ a \in 1 .. Len(answers) - 1 /\ b \in 1 .. Len(answers) - 1
          /\ a + 1 \in 1 .. Len(answers) /\ b + 1 \in 1 .. Len(answers)
      BY <1>3
    <3>2. answers[a + 1] = answers[b + 1]
      BY <2>3, <3>1, <1>3
    <3>3. a + 1 = b + 1
      BY <2>1, <3>1, <3>2
    <3> QED BY <3>1, <3>3
  <2> QED BY <2>2, <2>3 DEF AnswersDistinct
<1>24. /\ i \notin empty /\ owner[i] \in Clients /\ msg[i].client = owner[i]
       /\ msg[i].conn = task[owner[i]].conn /\ msg[i].op = task[owner[i]].op
       /\ task[owner[i]].slot = i /\ task[owner[i]].pc # "idle"
  BY <1>5, <1>8, SlotFacts DEF Waits
<1>29. \A d \in Clients, l \in Conns : Holds(d, l)' => Holds(d, l)
  <2> SUFFICES ASSUME NEW d \in Clients, Closed(d) PROVE Closed(d)'
    BY <1>2 DEF Holds
  <2>1. task[d].slot \in Slots /\ Ready(task[d].slot)
    BY DEF IndInv, TaskOwnsSlot, Closed
  <2> QED BY <2>1, <1>2, <1>19 DEF Closed
<1>30. ASSUME conn[k].op # "close"
       PROVE  \A d \in Clients, l \in Conns : Holds(d, l)' <=> Holds(d, l)
  <2>1. \A j \in Slots : msg[j].op # "close" \/ (Ready(j)' <=> Ready(j))
    BY <1>5, <1>19, <1>30
  <2> QED BY <2>1, <1>2, HoldsKept
<1>25. HoldsOwn'
  <2> SUFFICES ASSUME NEW c \in Clients, NEW l \in Conns, Holds(c, l)'
               PROVE  /\ conn'[l].client = c
                      /\ conn'[l].state # "free"
                      /\ Carries(l)' => conn'[l].op \in {"conn_call", "close"}
    BY DEF HoldsOwn
  <2>1. Holds(c, l)
    BY <1>29
  <2>2. /\ conn[l].client = c
        /\ conn[l].state # "free"
        /\ Carries(l) => conn[l].op \in {"conn_call", "close"}
    BY <2>1 DEF IndInv, HoldsOwn
  <2>3. CASE l = k
    <3>1. conn[k].op # "close"
      <4> SUFFICES ASSUME conn[k].op = "close" PROVE FALSE
        OBVIOUS
      <4>1. c = owner[i]
        BY <2>2, <2>3, <1>5, <1>24
      <4>2. Closed(c)'
        BY <4>1, <1>2, <1>5, <1>19, <1>24 DEF Closed
      <4> QED BY <4>2 DEF Holds
    <3>2. conn[k].state = "answered"
      BY <2>2, <2>3, <3>1, <1>4, <1>5
    <3> QED BY <2>2, <2>3, <3>2, <1>12, <1>21
  <2>4. CASE l # k
    BY <2>2, <2>4, <1>12, <1>21
  <2> QED BY <2>3, <2>4
<1>26. \A l \in Conns : \A j \in Slots \ {i} : Returned(l, j)' <=> Returned(l, j)
  BY <1>2, <1>10, <1>19 DEF Returned
<1>27. ReturnsOwn'
  <2> SUFFICES ASSUME NEW j \in Slots, NEW l \in Conns, Returned(l, j)'
               PROVE  conn'[l].state = "idle" /\ conn'[l].client = msg[j].client
    BY <1>2 DEF ReturnsOwn
  <2>1. CASE j = i
    <3>1. l = h /\ l # None
      BY <2>1, <1>10 DEF Returned, Conns
    <3>2. l = k /\ conn[k].state = "answered"
      BY <3>1
    <3> QED BY <2>1, <3>2, <1>5, <1>12
  <2>2. CASE j # i
    <3>1. conn[l].state = "idle" /\ conn[l].client = msg[j].client
      BY <2>2, <1>26 DEF IndInv, ReturnsOwn
    <3>2. l # k
      BY <3>1, <1>4
    <3> QED BY <3>1, <3>2, <1>12
  <2> QED BY <2>1, <2>2
<1>28. IdleIsHeld'
  <2> SUFFICES ASSUME NEW l \in Conns, conn'[l].state = "idle"
               PROVE  \E d \in Clients : /\ conn'[l].client = d
                                         /\ Holds(d, l)' \/ \E j \in Slots : Returned(l, j)'
    BY DEF IdleIsHeld
  <2>1. CASE l = k
    <3>1. PICK d \in Clients : d = owner[i]
      BY <1>24
    <3>4. conn[k].state = "answered" /\ conn'[k].client = d
      BY <2>1, <3>1, <1>4, <1>5, <1>12, <1>24
    <3>2. CASE conn[k].op = "connect"
      <4>1. Returned(k, i)'
        BY <3>2, <3>4, <1>2, <1>5, <1>10, <1>19 DEF Returned
      <4>2. \E j \in Slots : Returned(k, j)'
        BY <4>1, <1>5
      <4> QED BY <2>1, <3>4, <4>2
    <3>3. CASE conn[k].op = "conn_call"
      <4>1. Holds(d, k)
        BY <3>1, <3>3, <1>5, <1>24 DEF Holds, Closed
      <4>2. Holds(d, k)'
        BY <3>3, <4>1, <1>3, <1>30
      <4> QED BY <2>1, <3>4, <4>2
    <3> QED BY <3>2, <3>3, <3>4, <1>5
  <2>2. CASE l # k
    <3>1. conn'[l] = conn[l]
      BY <2>2, <1>12
    <3>2. ASSUME NEW j \in Slots, Returned(l, j) PROVE Returned(l, j)'
      BY <3>2, <1>19, <1>26 DEF Returned
    <3>3. ASSUME NEW d \in Clients, Holds(d, l) PROVE Holds(d, l)'
      <4>1. CASE conn[k].op # "close"
        BY <3>3, <4>1, <1>30
      <4>2. CASE conn[k].op = "close"
        <5>1. d # owner[i]
          BY <2>2, <3>3, <4>2, <1>5, <1>24 DEF Holds
        <5>2. task[d].pc # "idle" => task[d].slot \in Slots \ {i}
          BY <5>1 DEF IndInv, TaskOwnsSlot
        <5> QED BY <3>3, <5>2, <1>2, <1>19 DEF Holds, Closed
      <4> QED BY <4>1, <4>2
    <3> QED BY <3>1, <3>2, <3>3 DEF IndInv, IdleIsHeld
  <2> QED BY <2>1, <2>2
<1> QED BY <1>13, <1>14, <1>17, <1>18, <1>20, <1>22, <1>23, <1>25, <1>27, <1>28 DEF IndInv

(* Steps that change only interrupts and the events tasks wait for.        *)
LEMMA IdleStepInv ==
    ASSUME IndInv, task' = task, empty' = empty, owner' = owner, woken' = woken, msg' = msg,
           reply' = reply, pend' = pend, replied' = replied, spe' = spe, agent' = agent,
           conn' = conn, answers' = answers
    PROVE  IndInv'
<1>1. TypeOK'
  BY DEF IndInv, TypeOK
<1>2. \A j \in Slots : /\ Unseen(j)' <=> Unseen(j)
                       /\ InSpe(j)' <=> InSpe(j)
                       /\ Waits(j)' <=> Waits(j)
                       /\ Ready(j)' <=> Ready(j)
  BY DEF Unseen, InSpe, Waits, Ready
<1>3. InOneHand'
  BY <1>2 DEF IndInv, InOneHand
<1>4. Batch'
  BY DEF IndInv, Batch
<1> QED BY <1>1, <1>2, <1>3, <1>4, ResultsKept

(* The queues are empty and all connections free at the start.             *)
LEMMA InitInv ==
    ASSUME Init
    PROVE  IndInv
<1> USE MailboxAssumption
<1>1. /\ \A c \in Clients : /\ task[c] = [pc |-> "idle", slot |-> None, op |-> "none",
                                          conn |-> None]
                            /\ task[c].pc = "idle" /\ task[c].conn = None
      /\ empty = Slots /\ pend = {} /\ replied = {} /\ answers = << >>
      /\ \A j \in Slots : ~woken[j]
      /\ \A k \in Conns : conn[k] = FreeConn /\ conn[k].state = "free"
      /\ spe.empty = Slots
      /\ agent.pc = "wait" /\ ~agent.async /\ agent.out = {}
  BY DEF Init, FreeConn, Waiting
<1>2. task \in [Clients -> Task] /\ owner \in [Slots -> Clients \cup {None}]
  BY DEF Init, Task
<1>3. msg \in [Slots -> Message] /\ reply \in [Slots -> Message]
  BY DEF Init, Message, NoMsg
<1>4. conn \in [Conns -> Connection] /\ answers \in Seq(Conns)
  BY DEF Init, Connection, FreeConn
<1>5. spe \in Queue /\ agent \in AgentState
  BY DEF Init, Queue, NullHandle, AgentState, Waiting
<1>6. woken \in [Slots -> BOOLEAN]
  BY DEF Init
<1>7. TypeOK
  BY <1>1, <1>2, <1>3, <1>4, <1>5, <1>6 DEF TypeOK
<1>8. TaskOwnsSlot /\ SlotHasTask
  BY <1>1 DEF TaskOwnsSlot, SlotHasTask
<1>9. InOneHand
  BY <1>1 DEF InOneHand, Waits, Unseen, InSpe
<1>10. Batch
  BY <1>1 DEF Batch
<1>11. \A j \in Slots : ~Ready(j)
  BY <1>1 DEF Ready
<1>12. OwnResult /\ ReturnsOwn
  BY <1>11 DEF OwnResult, ReturnsOwn, Returned
<1>13. Remembers /\ AnswersDistinct
  BY <1>1 DEF Remembers, AnswersDistinct, Carries
<1>14. HoldsOwn /\ IdleIsHeld
  <2>1. \A k \in Conns : k # None
    BY DEF Conns
  <2> QED BY <1>1, <2>1 DEF HoldsOwn, IdleIsHeld, Holds
<1> QED BY <1>7, <1>8, <1>9, <1>10, <1>12, <1>13, <1>14 DEF IndInv

(* Once a psa_close was sent from another slot, that is remembered.        *)
LEMMA StrayIsKept ==
    ASSUME [Next]_vars, stray
    PROVE  stray'
<1>1. ASSUME NEW c \in Clients, NEW op \in Ops[c], Call(c, op) PROVE stray'
  BY <1>1 DEF Call
<1>2. ASSUME NEW c \in Clients, TaskStep(c) \/ OtherEvent(c) PROVE stray'
  BY <1>2 DEF TaskStep, SetPend, NotifySpe, Wake, Receive, OtherEvent
<1>3. CASE NsIsr
  BY <1>3 DEF NsIsr
<1>4. CASE WaitSignals \/ Snapshot \/ FinishBatch \/ AsyncReply
  BY <1>4 DEF WaitSignals, Snapshot, FinishBatch, AsyncReply
<1>5. CASE Dispatch
  <2> PICK i : i = Min(agent.todo)
    OBVIOUS
  <2>1. SyncReply(i) => stray'
    BY DEF SyncReply
  <2>2. NewRequest(i) => stray'
    BY <2>1 DEF NewRequest
  <2>3. ConnRequest(i) => stray'
    BY <2>1 DEF ConnRequest
  <2>4. CASE msg[i].op \in {"version", "call", "connect", "conn_call", "close"}
    BY <1>5, <2>1, <2>2, <2>3, <2>4 DEF Dispatch
  <2>5. CASE msg[i].op \notin {"version", "call", "connect", "conn_call", "close"}
    BY <1>5, <2>5 DEF Dispatch
  <2> QED BY <2>4, <2>5
<1>6. ASSUME NEW k \in Conns, ServiceReplies(k) PROVE stray'
  BY <1>6 DEF ServiceReplies
<1>7. CASE UNCHANGED vars
  BY <1>7 DEF vars
<1> QED BY <1>1, <1>2, <1>3, <1>4, <1>5, <1>6, <1>7 DEF Next, AgentStep

(* Every step of a task, of the agent, of a service or of the interrupt    *)
(* handler keeps the invariant, and so do the events of others.            *)
MailboxInv == ~stray => IndInv

LEMMA NextInv ==
    ASSUME MailboxInv, [Next]_vars
    PROVE  MailboxInv'
<1> SUFFICES ASSUME ~stray' PROVE IndInv'
  BY DEF MailboxInv
<1>7. IndInv
  BY StrayIsKept DEF MailboxInv
<1>1. ASSUME NEW c \in Clients, NEW op \in Ops[c], Call(c, op) PROVE IndInv'
  BY <1>1, <1>7, CallInv
<1>2. ASSUME NEW c \in Clients, TaskStep(c) PROVE IndInv'
  <2>1. CASE SetPend(c)
    BY <2>1, <1>7, SetPendInv
  <2>2. CASE NotifySpe(c)
    BY <2>2, <1>7, NotifySpeInv
  <2>3. CASE Wake(c)
    <3>1. CASE woken[task[c].slot]
      BY <2>3, <3>1, <1>7, WakeInv
    <3>2. CASE ~woken[task[c].slot]
      BY <2>3, <3>2, <1>7, IdleStepInv DEF Wake, shared
    <3> QED BY <3>1, <3>2
  <2>4. CASE Receive(c)
    BY <2>4, <1>7, ReceiveInv
  <2> QED BY <1>2, <2>1, <2>2, <2>3, <2>4 DEF TaskStep
<1>8. ASSUME NEW c \in Clients, OtherEvent(c) PROVE IndInv'
  BY <1>7, <1>8, IdleStepInv DEF OtherEvent, shared
<1>3. CASE NsIsr
  BY <1>3, <1>7, NsIsrInv
<1>4. CASE AgentStep
  BY <1>4, <1>7, WaitSignalsInv, SnapshotInv, DispatchInv, FinishBatchInv, AsyncReplyInv
     DEF AgentStep
<1>5. ASSUME NEW k \in Conns, ServiceReplies(k) PROVE IndInv'
  BY <1>5, <1>7, ServiceRepliesInv
<1>6. CASE UNCHANGED vars
  BY <1>6, <1>7, IdleStepInv DEF vars
<1> QED BY <1>1, <1>2, <1>3, <1>4, <1>5, <1>6, <1>8 DEF Next

(* The inductive invariant holds in every reachable state before a stray   *)
(* psa_close, for any number of tasks, slots and connections and whatever  *)
(* calls the tasks make.                                                   *)
THEOREM MailboxInvariance == Spec => []MailboxInv
<1>1. Init => MailboxInv
  BY InitInv DEF MailboxInv
<1>2. MailboxInv /\ [Next]_vars => MailboxInv'
  BY NextInv
<1> QED BY <1>1, <1>2, PTL DEF Spec

-----------------------------------------------------------------------------
(* What the mailbox promises.                                              *)

(* A task that was woken finds the result of its own request in its slot   *)
(* (tfm_mailbox_reply_msg, mailbox_rx_client_reply).                       *)
THEOREM RepliesAreOwn == Spec => []ReplyIsOwn
<1>1. ASSUME IndInv, NEW c \in Clients, task[c].pc = "answered"
      PROVE  /\ reply[task[c].slot].client = c /\ reply[task[c].slot].op = task[c].op
             /\ task[c].op \notin NeverAnswered
  <2>1. /\ task[c].slot \in Slots \ empty
        /\ owner[task[c].slot] = c
        /\ msg[task[c].slot] = [client |-> c, op |-> task[c].op, conn |-> task[c].conn]
    BY <1>1 DEF IndInv, TaskOwnsSlot
  <2>2. Ready(task[c].slot)
    BY <1>1, <2>1 DEF Ready
  <2> QED BY <1>1, <2>1, <2>2 DEF IndInv, OwnResult
<1>2. MailboxInv => ReplyIsOwn
  BY <1>1 DEF ReplyIsOwn, MailboxInv
<1> QED BY <1>2, MailboxInvariance, PTL

(* A slot that acquire_empty_slot may take is used by neither core.        *)
THEOREM EmptySlotsAreUnused == Spec => []EmptySlotIsUnused
<1>1. ASSUME IndInv, NEW i \in empty
      PROVE  i \notin pend \cup replied /\ i \in spe.empty /\ ~woken[i]
  <2>1. i \in Slots
    BY <1>1 DEF IndInv, TypeOK
  <2>2. ~Waits(i)
    BY DEF Waits
  <2> QED BY <1>1, <2>1, <2>2, SlotFacts
<1>2. MailboxInv => EmptySlotIsUnused
  BY <1>1 DEF EmptySlotIsUnused, MailboxInv
<1> QED BY <1>2, MailboxInvariance, PTL

(* A set with just one of four elements.                                   *)
LEMMA OneOfFour ==
    ASSUME NEW S, S \subseteq 1 .. 4,
           1 \in S \/ 2 \in S \/ 3 \in S \/ 4 \in S,
           1 \in S => 2 \notin S /\ 3 \notin S /\ 4 \notin S,
           2 \in S => 3 \notin S /\ 4 \notin S,
           ~(3 \in S /\ 4 \in S)
    PROVE  Cardinality(S) = 1
<1>1. \A p \in S : p = 1 \/ p = 2 \/ p = 3 \/ p = 4
  OBVIOUS
<1>2. PICK p \in S : \A q \in S : q = p
  BY <1>1, Zenon
<1>3. S = {p}
  BY <1>2
<1> QED BY <1>3, FS_Singleton

(* The request of a waiting task is in the hands of exactly one core: it   *)
(* is neither lost between the critical sections nor handled twice.        *)
THEOREM RequestsAreNotLost == Spec => []NoRequestLost
<1>1. ASSUME IndInv, NEW c \in Clients, task[c].pc \in {"pended", "waiting"},
             task[c].op # "unknown", NEW i, i = task[c].slot
      PROVE  Cardinality({p \in 1 .. 4 : (CASE p = 1 -> Unseen(i) [] p = 2 -> InSpe(i)
                                          [] p = 3 -> i \in replied [] p = 4 -> woken[i])}) = 1
  <2> PICK S : S = {p \in 1 .. 4 : (CASE p = 1 -> Unseen(i) [] p = 2 -> InSpe(i)
                                      [] p = 3 -> i \in replied [] p = 4 -> woken[i])}
    OBVIOUS
  <2>1. /\ S \subseteq 1 .. 4
        /\ 1 \in S <=> Unseen(i)
        /\ 2 \in S <=> InSpe(i)
        /\ 3 \in S <=> i \in replied
        /\ 4 \in S <=> woken[i]
    <3>1. 1 \in 1 .. 4 /\ 2 \in 1 .. 4 /\ 3 \in 1 .. 4 /\ 4 \in 1 .. 4
      OBVIOUS
    <3>2. 1 # 2 /\ 1 # 3 /\ 1 # 4 /\ 2 # 3 /\ 2 # 4 /\ 3 # 4
      OBVIOUS
    <3>3. S \subseteq 1 .. 4
      OBVIOUS
    <3>4. 1 \in S <=> Unseen(i)
      BY <3>1, <3>2, Zenon
    <3>5. 2 \in S <=> InSpe(i)
      BY <3>1, <3>2, Zenon
    <3>6. 3 \in S <=> i \in replied
      BY <3>1, <3>2, Zenon
    <3>7. 4 \in S <=> woken[i]
      BY <3>1, <3>2, Zenon
    <3> QED BY <3>3, <3>4, <3>5, <3>6, <3>7
  <2>2. i \in Slots /\ Waits(i) /\ msg[i].op # "unknown"
    <3>1. /\ i \in Slots \ empty /\ owner[i] = c
          /\ msg[i] = [client |-> c, op |-> task[c].op, conn |-> task[c].conn]
      BY <1>1 DEF IndInv, TaskOwnsSlot
    <3>2. msg[i].op = task[c].op
      BY <3>1
    <3> QED BY <1>1, <3>1, <3>2 DEF Waits
  <2>3. /\ 1 \in S \/ 2 \in S \/ 3 \in S \/ 4 \in S
        /\ 1 \in S => 2 \notin S /\ 3 \notin S /\ 4 \notin S
        /\ 2 \in S => 3 \notin S /\ 4 \notin S
        /\ ~(3 \in S /\ 4 \in S)
    BY <1>1, <2>1, <2>2 DEF IndInv, InOneHand
  <2>4. Cardinality(S) = 1
    BY <2>1, <2>3, OneOfFour
  <2> QED BY <2>4
<1>2. MailboxInv => NoRequestLost
  BY <1>1 DEF NoRequestLost, MailboxInv
<1> QED BY <1>2, MailboxInvariance, PTL

(* An idle connection is held by the client it was opened for or is in the *)
(* reply of its psa_connect, and a client that calls nothing finds the     *)
(* connection it holds idle (spm_get_idle_connection).                     *)
THEOREM ConnectionsAreAccounted == Spec => []ConnectionsAccounted
<1> USE MailboxAssumption
<1>1. ASSUME IndInv, NEW k \in Conns, conn[k].state = "idle"
      PROVE  \E c \in Clients : HeldBy(k, c)
  <2>1. /\ conn[k].client \in Clients
        /\ Holds(conn[k].client, k) \/ \E i \in Slots : Returned(k, i)
    BY <1>1 DEF IndInv, IdleIsHeld
  <2>2. CASE Holds(conn[k].client, k)
    BY <2>1, <2>2 DEF HeldBy, Holds
  <2>3. ASSUME NEW i \in Slots, Returned(k, i) PROVE HeldBy(k, conn[k].client)
    <3>1. i \notin empty /\ conn[k].client = msg[i].client
      BY <1>1, <2>3, SlotFacts DEF IndInv, ReturnsOwn, Returned
    <3>2. owner[i] \in Clients /\ task[owner[i]].pc # "idle" /\ task[owner[i]].slot = i
      BY <1>1, <3>1 DEF IndInv, SlotHasTask
    <3>3. msg[i].client = owner[i] /\ msg[i].op = task[owner[i]].op
      <4> PICK d : d = owner[i]
        OBVIOUS
      <4>1. msg[task[d].slot] = [client |-> d, op |-> task[d].op, conn |-> task[d].conn]
        BY <1>1, <3>2 DEF IndInv, TaskOwnsSlot
      <4> QED BY <3>2, <4>1
    <3> QED BY <2>3, <3>1, <3>2, <3>3 DEF HeldBy, Returned
  <2> QED BY <2>1, <2>2, <2>3
<1>2. ASSUME IndInv, NEW c \in Clients, task[c].pc = "idle", task[c].conn # None
      PROVE  conn[task[c].conn].state = "idle" /\ HeldBy(task[c].conn, c)
  <2> PICK k : k = task[c].conn
    OBVIOUS
  <2>1. k \in Conns /\ conn[k] \in Connection
    BY <1>2 DEF IndInv, TypeOK, Task
  <2>2. Holds(c, k)
    BY <1>2 DEF Holds, Closed
  <2>3. conn[k].client = c /\ conn[k].state # "free"
    BY <1>2, <2>1, <2>2 DEF IndInv, HoldsOwn
  <2>5. ~Carries(k)
    <3> SUFFICES ASSUME Carries(k) PROVE FALSE
      OBVIOUS
    <3> PICK i : i = conn[k].data
      OBVIOUS
    <3>1. i \in Slots \ empty /\ msg[i].client = c
      BY <1>2, <2>1, <2>2, CarriesOwn
    <3>2. msg[i].client = owner[i] /\ task[owner[i]].pc # "idle"
      BY <1>2, <3>1, SlotFacts
    <3> QED BY <1>2, <3>1, <3>2
  <2>4. conn[k].state = "idle"
    BY <2>1, <2>3, <2>5 DEF Carries, Connection
  <2> QED BY <2>3, <2>4 DEF HeldBy
<1>3. MailboxInv => ConnectionsAccounted
  BY <1>1, <1>2 DEF ConnectionsAccounted, MailboxInv
<1> QED BY <1>3, MailboxInvariance, PTL

=============================================================================
