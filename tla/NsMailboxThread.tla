-------------------------- MODULE NsMailboxThread --------------------------
(***************************************************************************)
(* The non-secure side of the mailbox with a mailbox thread                *)
(* (interface/src/multi_core/tfm_ns_mailbox_thread.c): tasks put their     *)
(* requests into a message queue, one thread moves them into slots, and    *)
(* the interrupt of the secure core writes the replies back, wakes the     *)
(* owners and frees the slots.  The secure core is external: it answers    *)
(* every pending slot, in any order.                                       *)
(***************************************************************************)
EXTENDS Naturals, Sequences, FiniteSets, FiniteSetsExt

CONSTANTS
    Clients,   \* non-secure tasks
    NumSlots,  \* NUM_MAILBOX_QUEUE_SLOT, also the depth of the message queue
    None

ASSUME ThreadAssumption == NumSlots \in Nat \ {0} /\ None \notin Clients

Slots == 0 .. NumSlots - 1

VARIABLES
    task,      \* what each task does
    wokenFlag, \* woken_flag of each task's request
    event,     \* events of tfm_ns_mailbox_os_wait_reply: tasks that are woken
    mq,        \* the message queue
    thread,    \* the mailbox thread: what it does, its request, its slot
    threadEvent,
    empty,     \* empty_slots
    isFull,    \* is_full
    owner,     \* slots_ns[]: owner, reply and woken_flag of the slot's request
    pend, replied, irq

vars == <<task, wokenFlag, event, mq, thread, threadEvent, empty, isFull, owner,
          pend, replied, irq>>
taskvars == <<task, wokenFlag, event>>
shared == <<pend, replied, irq>>

-----------------------------------------------------------------------------
(* The tasks: tfm_ns_mailbox_client_call.                                  *)

(* External: a full message queue blocks the sender.                       *)
Send(c) ==
    /\ task[c] = "idle"
    /\ Len(mq) < NumSlots
    /\ mq' = Append(mq, c)
    /\ wokenFlag' = [wokenFlag EXCEPT ![c] = FALSE]
    /\ task' = [task EXCEPT ![c] = "check"]
    /\ UNCHANGED <<event, thread, threadEvent, empty, isFull, owner, shared>>

(* mailbox_wait_reply looks at the flag before it sleeps.                  *)
CheckReply(c) ==
    /\ task[c] = "check"
    /\ task' = [task EXCEPT ![c] = IF wokenFlag[c] THEN "idle" ELSE "sleep"]
    /\ UNCHANGED <<wokenFlag, event, mq, thread, threadEvent, empty, isFull, owner,
                   shared>>

WaitReply(c) ==
    /\ task[c] = "sleep"
    /\ c \in event
    /\ event' = event \ {c}
    /\ task' = [task EXCEPT ![c] = "check"]
    /\ UNCHANGED <<wokenFlag, mq, thread, threadEvent, empty, isFull, owner, shared>>

-----------------------------------------------------------------------------
(* The mailbox thread.                                                     *)

Receive ==
    /\ thread.pc = "receive"
    /\ mq # << >>
    /\ thread' = [pc |-> "acquire", req |-> Head(mq), slot |-> None]
    /\ mq' = Tail(mq)
    /\ UNCHANGED <<taskvars, threadEvent, empty, isFull, owner, shared>>

(* Mutant: the last slot is taken for an empty one.                        *)
ChosenAny(slots) == NumSlots - 1

Chosen(slots) == Min(slots)

(* acquire_empty_slot: the status is read under the lock and used after    *)
(* it.                                                                     *)
ReadEmpty ==
    /\ thread.pc = "acquire"
    /\ thread' = IF empty = {} THEN [thread EXCEPT !.pc = "full"]
                 ELSE [thread EXCEPT !.pc = "claim", !.slot = Chosen(empty)]
    /\ UNCHANGED <<taskvars, mq, threadEvent, empty, isFull, owner, shared>>

SetFull ==
    /\ thread.pc = "full"
    /\ isFull' = TRUE
    /\ thread' = [thread EXCEPT !.pc = "sleep"]
    /\ UNCHANGED <<taskvars, mq, threadEvent, empty, owner, shared>>

ThreadWait ==
    /\ thread.pc = "sleep"
    /\ threadEvent
    /\ threadEvent' = FALSE
    /\ thread' = [thread EXCEPT !.pc = "woken"]
    /\ UNCHANGED <<taskvars, mq, empty, isFull, owner, shared>>

ClearFull ==
    /\ thread.pc = "woken"
    /\ isFull' = FALSE
    /\ thread' = [thread EXCEPT !.pc = "acquire"]
    /\ UNCHANGED <<taskvars, mq, threadEvent, empty, owner, shared>>

Claim ==
    /\ thread.pc = "claim"
    /\ empty' = empty \ {thread.slot}
    /\ thread' = [thread EXCEPT !.pc = "fill"]
    /\ UNCHANGED <<taskvars, mq, threadEvent, isFull, owner, shared>>

(* mailbox_tx_client_call_msg.                                             *)
FillAndPend ==
    /\ thread.pc = "fill"
    /\ owner' = [owner EXCEPT ![thread.slot] = thread.req]
    /\ pend' = pend \cup {thread.slot}
    /\ thread' = [pc |-> "receive", req |-> None, slot |-> None]
    /\ UNCHANGED <<taskvars, mq, threadEvent, empty, isFull, replied, irq>>

-----------------------------------------------------------------------------
(* External: the secure core answers one of the pending slots.             *)
SecureReply(i) ==
    /\ i \in pend
    /\ pend' = pend \ {i}
    /\ replied' = replied \cup {i}
    /\ irq' = TRUE
    /\ UNCHANGED <<taskvars, mq, thread, threadEvent, empty, isFull, owner>>

(* Mutant: the loop ends after the first reply.                            *)
CompletedFirst == IF replied = {} THEN {} ELSE {Min(replied)}

(* The slots whose replies the interrupt delivers.                         *)
Completed == replied

(* Mutant: all slots are marked as empty.                                  *)
FreedSlotsAll == Slots

FreedSlots == empty \cup Completed

(* tfm_ns_mailbox_wake_reply_owner_isr; no task runs meanwhile.            *)
ReplyIsr ==
    LET woken == {owner[i] : i \in Completed}
    IN  /\ irq
        /\ irq' = FALSE
        /\ replied' = {}
        /\ wokenFlag' = [c \in Clients |-> wokenFlag[c] \/ c \in woken]
        /\ event' = event \cup woken
        /\ empty' = FreedSlots
        /\ threadEvent' = (threadEvent \/ (replied # {} /\ isFull))
        /\ UNCHANGED <<task, mq, thread, isFull, owner, pend>>

-----------------------------------------------------------------------------
Init ==
    /\ task = [c \in Clients |-> "idle"]
    /\ wokenFlag = [c \in Clients |-> FALSE]
    /\ event = {}
    /\ mq = << >>
    /\ thread = [pc |-> "receive", req |-> None, slot |-> None]
    /\ threadEvent = FALSE
    /\ empty = Slots
    /\ isFull = FALSE
    /\ owner = [i \in Slots |-> None]
    /\ pend = {} /\ replied = {} /\ irq = FALSE

TaskStep(c) == CheckReply(c) \/ WaitReply(c)
ThreadStep ==
    Receive \/ ReadEmpty \/ SetFull \/ ThreadWait \/ ClearFull \/ Claim \/ FillAndPend

Next ==
    \/ \E c \in Clients : Send(c) \/ TaskStep(c)
    \/ ThreadStep
    \/ \E i \in Slots : SecureReply(i)
    \/ ReplyIsr

Spec == Init /\ [][Next]_vars

(* Tasks and thread are scheduled, the secure core answers every slot and  *)
(* its interrupt is taken.                                                 *)
FairSpec ==
    /\ Spec
    /\ \A c \in Clients : WF_vars(TaskStep(c))
    /\ WF_vars(ThreadStep)
    /\ \A i \in Slots : WF_vars(SecureReply(i))
    /\ WF_vars(ReplyIsr)

-----------------------------------------------------------------------------
(* Properties.                                                             *)

(* The places where a request of task c is.                                *)
Places(c) ==
    {<<"mq", j>> : j \in {j \in DOMAIN mq : mq[j] = c}}
        \cup (IF thread.req = c THEN {<<"thread", 0>>} ELSE {})
        \cup {<<"slot", i>> : i \in {i \in pend \cup replied : owner[i] = c}}
        \cup (IF wokenFlag[c] THEN {<<"answered", 0>>} ELSE {})

(* A request is in exactly one place until its task returns: the thread    *)
(* never overwrites a slot in use though it uses the status of the slots   *)
(* after it gave up the lock (acquire_empty_slot).                         *)
RequestInOnePlace ==
    \A c \in Clients : task[c] # "idle" => Cardinality(Places(c)) = 1

(* A slot is free exactly if no request is in it or on its way to it: the  *)
(* interrupt frees the slots it answered and no other                      *)
(* (set_queue_slot_all_empty).                                             *)
SlotsAccounted ==
    empty = Slots \ (pend \cup replied \cup
                        (IF thread.pc = "fill" THEN {thread.slot} ELSE {}))

(* A call that is in a slot returns, although replies of several slots     *)
(* share an interrupt and the task may look at its flag before, between or *)
(* after the writes of the interrupt (tfm_ns_mailbox_wake_reply_owner_isr, *)
(* mailbox_wait_reply).                                                    *)
PlacedCallReturns ==
    \A c \in Clients : (\E i \in pend : owner[i] = c) ~> (task[c] = "idle")

(* A call of a task returns: the thread finds a slot for its request and   *)
(* the reply wakes it.                                                     *)
EveryCallReturns == \A c \in Clients : (task[c] = "check") ~> (task[c] = "idle")

=============================================================================
