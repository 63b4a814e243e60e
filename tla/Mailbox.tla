------------------------------ MODULE Mailbox ------------------------------
(***************************************************************************)
(* The mailbox between the non-secure and the secure core:                 *)
(* interface/src/multi_core/tfm_ns_mailbox.c (with an operating system and *)
(* no mailbox thread), the mailbox agent partition (ns_agent_mailbox.c,    *)
(* tfm_spe_mailbox.c, ns_agent_mailbox_rpc.c) and the agent interface of   *)
(* the SPM (mailbox_agent_api.c) with the IPC backend.                     *)
(*                                                                         *)
(* A non-secure task fills a slot, marks it as pending and waits.  The     *)
(* agent takes a snapshot of the pending slots, passes their requests to   *)
(* the SPM, which answers at once or later by ASYNC_MSG_REPLY, and then    *)
(* updates the shared status.  Accesses to the shared status are critical  *)
(* sections of both cores; everything else of the two cores interleaves.   *)
(***************************************************************************)
EXTENDS Naturals, Sequences, FiniteSets, FiniteSetsExt

CONSTANTS
    Clients,   \* non-secure tasks
    NumSlots,  \* NUM_MAILBOX_QUEUE_SLOT
    NumConns,  \* connections of the SPM's pool
    Ops,       \* the client calls that each task makes
    None

ASSUME MailboxAssumption ==
    /\ NumSlots \in Nat \ {0}
    /\ NumConns \in Nat \ {0}
    /\ None \notin Nat /\ None \notin Clients
    /\ Ops \in [Clients -> SUBSET {"version", "call", "connect", "conn_call", "close",
                                  "close_null", "unknown"}]

Slots == 0 .. NumSlots - 1
Conns == 1 .. NumConns

VARIABLES
    task,     \* non-secure tasks: what they do, in which slot, their connection
    empty,    \* empty_slots of the non-secure queue
    owner,    \* slots_ns[].owner
    woken,    \* slots_ns[].is_woken
    flag,     \* the event a task waits for in tfm_ns_mailbox_os_wait_reply
    msg,      \* slots[].msg
    reply,    \* slots[].reply
    pend,     \* status.pend_slots
    replied,  \* status.replied_slots
    nsIrq,    \* notification of the non-secure core
    sIrq,     \* notification of the secure core
    spe,      \* spe_mailbox_queue: the handles of messages and the empty slots
    agent,    \* what the agent does, its local variables
    conn,     \* connections used for non-secure clients
    answers,  \* p_replied of the agent partition, oldest first
    stray     \* history: a psa_close was sent from a slot that its connection
              \* does not remember

nsvars == <<task, empty, owner, woken, flag, msg>>
shared == <<reply, pend, replied>>
vars == <<task, empty, owner, woken, flag, msg, reply, pend, replied, nsIrq, sIrq,
          spe, agent, conn, answers, stray>>

NoMsg == [client |-> None, op |-> "none", conn |-> None]
FreeConn == [state |-> "free", client |-> None, op |-> "none", data |-> None]
NullHandle == 0  \* MAILBOX_MSG_NULL_HANDLE
Waiting == [pc |-> "wait", async |-> FALSE, snapshot |-> {}, todo |-> {}, out |-> {}]

-----------------------------------------------------------------------------
(* The non-secure side.                                                    *)

CanCall(c, op) ==
    /\ op \in {"conn_call", "close"} => task[c].conn # None
    /\ op = "connect" => task[c].conn = None

(* tfm_ns_mailbox_client_call up to the filled slot: the lock admits as    *)
(* many tasks as there are slots.                                          *)
Call(c, op) ==
    /\ task[c].pc = "idle"
    /\ CanCall(c, op)
    /\ empty # {}
    /\ LET i == Min(empty)
       IN  /\ empty' = empty \ {i}
           /\ msg' = [msg EXCEPT ![i] = [client |-> c, op |-> op, conn |-> task[c].conn]]
           /\ owner' = [owner EXCEPT ![i] = c]
           /\ task' = [task EXCEPT ![c] = [@ EXCEPT !.pc = "filled", !.slot = i, !.op = op]]
    /\ UNCHANGED <<woken, flag, shared, nsIrq, sIrq, spe, agent, conn, answers, stray>>

SetPend(c) ==
    /\ task[c].pc = "filled"
    /\ pend' = pend \cup {task[c].slot}
    /\ task' = [task EXCEPT ![c].pc = "pended"]
    /\ UNCHANGED <<empty, owner, woken, flag, msg, reply, replied, nsIrq, sIrq, spe,
                   agent, conn, answers, stray>>

NotifySpe(c) ==
    /\ task[c].pc = "pended"
    /\ sIrq' = TRUE
    /\ task' = [task EXCEPT ![c].pc = "waiting"]
    /\ UNCHANGED <<empty, owner, woken, flag, msg, shared, nsIrq, spe, agent, conn, answers, stray>>

(* External: the task is woken "by reply event, rather than other events"  *)
(* or by one of those (mailbox_wait_reply).                                *)
OtherEvent(c) ==
    /\ task[c].pc = "waiting"
    /\ ~flag[c]
    /\ flag' = [flag EXCEPT ![c] = TRUE]
    /\ UNCHANGED <<task, empty, owner, woken, msg, shared, nsIrq, sIrq, spe, agent, conn,
                   answers, stray>>

(* mailbox_wait_reply: a task that was woken for another reason sleeps     *)
(* again.                                                                  *)
Wake(c) ==
    /\ task[c].pc = "waiting"
    /\ flag[c]
    /\ flag' = [flag EXCEPT ![c] = FALSE]
    /\ IF woken[task[c].slot]
       THEN /\ woken' = [woken EXCEPT ![task[c].slot] = FALSE]
            /\ task' = [task EXCEPT ![c].pc = "answered"]
       ELSE UNCHANGED <<woken, task>>
    /\ UNCHANGED <<empty, owner, msg, shared, nsIrq, sIrq, spe, agent, conn, answers, stray>>

(* mailbox_rx_client_reply, and what psa_connect and psa_close make of it. *)
Receive(c) ==
    LET i == task[c].slot
    IN  /\ task[c].pc = "answered"
        /\ task' = [task EXCEPT ![c] =
               [pc |-> "idle", slot |-> None, op |-> "none",
                conn |-> CASE task[c].op = "connect" -> reply[i].conn
                           [] task[c].op = "close" -> None
                           [] OTHER -> task[c].conn]]
        /\ owner' = [owner EXCEPT ![i] = None]
        /\ woken' = [woken EXCEPT ![i] = FALSE]
        /\ empty' = empty \cup {i}
        /\ UNCHANGED <<flag, msg, shared, nsIrq, sIrq, spe, agent, conn, answers, stray>>

(* tfm_ns_mailbox_wake_reply_owner_isr; no task runs meanwhile.            *)
NsIsr ==
    /\ nsIrq
    /\ nsIrq' = FALSE
    /\ replied' = {}
    /\ woken' = [i \in Slots |-> woken[i] \/ i \in replied]
    /\ flag' = [c \in Clients |-> flag[c] \/ \E i \in replied : owner[i] = c]
    /\ UNCHANGED <<task, empty, owner, msg, reply, pend, sIrq, spe, agent, conn, answers, stray>>

-----------------------------------------------------------------------------
(* The agent: its main loop and tfm_mailbox_handle_msg.                    *)

AfterMail == IF agent.async THEN [Waiting EXCEPT !.pc = "async", !.async = TRUE] ELSE Waiting

(* psa_wait returns both signals; psa_eoi clears that of the mailbox.      *)
WaitSignals ==
    /\ agent.pc = "wait"
    /\ sIrq \/ answers # << >>
    /\ agent' = [Waiting EXCEPT !.pc = IF sIrq THEN "mail" ELSE "async",
                                !.async = answers # << >>]
    /\ sIrq' = FALSE
    /\ UNCHANGED <<nsvars, shared, nsIrq, spe, conn, answers, stray>>

Snapshot ==
    /\ agent.pc = "mail"
    /\ agent' = IF pend = {} THEN AfterMail
                ELSE [agent EXCEPT !.pc = "dispatch", !.snapshot = pend, !.todo = pend]
    /\ UNCHANGED <<nsvars, shared, nsIrq, sIrq, spe, conn, answers, stray>>

(* Mutant: the slot is not marked as empty again.                          *)
CleanSlotNotEmpty(q, i) == [q EXCEPT !.handle = [@ EXCEPT ![i] = NullHandle]]

(* mailbox_clean_queue_slot.                                               *)
CleanSlot(q, i) ==
    [q EXCEPT !.handle = [@ EXCEPT ![i] = NullHandle], !.empty = @ \cup {i}]

(* The agent's copy of the message is used in this step only.              *)
TakeSlot(i) == [spe EXCEPT !.handle = [@ EXCEPT ![i] = i + 1], !.empty = @ \ {i}]

Answer(m, k) == [client |-> m.client, op |-> m.op, conn |-> k]

(* A result that is known at once: mailbox_direct_reply.                   *)
SyncReply(i) ==
    /\ reply' = [reply EXCEPT ![i] = Answer(msg[i], None)]
    /\ spe' = CleanSlot(TakeSlot(i), i)
    /\ agent' = [agent EXCEPT !.todo = @ \ {i}, !.out = @ \cup {i}]
    /\ UNCHANGED <<conn, stray>>

NoReplyYet(i) ==
    /\ spe' = TakeSlot(i)
    /\ agent' = [agent EXCEPT !.todo = @ \ {i}]
    /\ UNCHANGED reply

FreeConns == {k \in Conns : conn[k].state = "free"}

(* agent_psa_call to a stateless service and agent_psa_connect: the        *)
(* connection remembers the slot.                                          *)
NewRequest(i) ==
    IF FreeConns = {} THEN SyncReply(i)
    ELSE /\ conn' = [conn EXCEPT ![Min(FreeConns)] =
                        [state |-> "active", client |-> msg[i].client,
                         op |-> msg[i].op, data |-> i]]
         /\ NoReplyYet(i)
         /\ UNCHANGED stray

(* spm_get_idle_connection refuses a handle that is in use or not valid.   *)
IdleConn(m) ==
    /\ m.conn # None
    /\ conn[m.conn].state = "idle"
    /\ conn[m.conn].client = m.client

(* agent_psa_call to a connection; agent_psa_close has no client_data.     *)
ConnRequest(i) ==
    LET k == msg[i].conn
        data == IF msg[i].op = "close" THEN conn[k].data ELSE i
    IN  IF ~IdleConn(msg[i]) THEN SyncReply(i)
        ELSE /\ conn' = [conn EXCEPT ![k] = [@ EXCEPT !.state = "active", !.op = msg[i].op,
                                                      !.data = data]]
             /\ NoReplyYet(i)
             /\ stray' = (stray \/ (msg[i].op = "close" /\ data # i))

(* tfm_mailbox_dispatch of the first slot of the snapshot that is left.    *)
(* psa_close of the null handle succeeds without a message to a service.   *)
Dispatch ==
    /\ agent.pc = "dispatch"
    /\ agent.todo # {}
    /\ LET i == Min(agent.todo)
           op == msg[i].op
       IN  CASE op = "version" -> SyncReply(i)
             [] op \in {"call", "connect"} -> NewRequest(i)
             [] op \in {"conn_call", "close"} -> ConnRequest(i)
             [] op = "close_null" -> NoReplyYet(i) /\ UNCHANGED <<conn, stray>>
             [] OTHER ->
                   /\ spe' = CleanSlot(TakeSlot(i), i)
                   /\ agent' = [agent EXCEPT !.todo = @ \ {i}]
                   /\ UNCHANGED <<reply, conn, stray>>
    /\ UNCHANGED <<nsvars, pend, replied, nsIrq, sIrq, answers>>

(* Mutant: all pending slots are cleared.                                  *)
ClearedAll == pend

(* The slots that clear_nspe_queue_pend_status clears.                     *)
Cleared == agent.snapshot

(* Mutant: the pending interrupt is cleared after the batch.               *)
IrqAfterBatchLost == FALSE

IrqAfterBatch == sIrq

FinishBatch ==
    /\ agent.pc = "dispatch"
    /\ agent.todo = {}
    /\ pend' = pend \ Cleared
    /\ replied' = replied \cup agent.out
    /\ nsIrq' = (nsIrq \/ agent.out # {})
    /\ sIrq' = IrqAfterBatch
    /\ agent' = AfterMail
    /\ UNCHANGED <<nsvars, reply, spe, conn, answers, stray>>

-----------------------------------------------------------------------------
(* Answers of services.                                                    *)

(* External: a service answers a request; backend_replying queues the      *)
(* connection for the agent.                                               *)
ServiceReplies(k) ==
    /\ conn[k].state = "active"
    /\ \E ok \in BOOLEAN :
        /\ conn[k].op # "connect" => ok
        /\ conn' = [conn EXCEPT ![k].state =
                       IF conn[k].op \in {"call", "close"} \/ ~ok
                       THEN "to_free" ELSE "answered"]
    /\ answers' = Append(answers, k)
    /\ UNCHANGED <<nsvars, shared, nsIrq, sIrq, spe, agent, stray>>

(* Mutant: the reply goes to the slot after the request's.                 *)
NextSlot(k) == (conn[k].data + 1) % NumSlots

(* mailbox_reply and tfm_mailbox_reply_msg: the slot is found by the       *)
(* handle in the slot the connection remembers; a handle that was cleared  *)
(* stands for the first slot.                                              *)
ReplySlot(k) ==
    LET handle == IF conn[k].data = None THEN NullHandle ELSE spe.handle[conn[k].data]
    IN  IF handle = NullHandle THEN 0 ELSE handle - 1

(* Mutant: the connection of a stateless call is kept.                     *)
AfterReplyKept(cn) == [cn EXCEPT !.state = "idle"]

AfterReply(cn) == IF cn.state = "to_free" THEN FreeConn ELSE [cn EXCEPT !.state = "idle"]

(* tfm_rpc_client_call_reply.                                              *)
AsyncReply ==
    /\ agent.pc = "async"
    /\ LET k == Head(answers)
           i == ReplySlot(k)
           m == [client |-> conn[k].client, op |-> conn[k].op]
       IN  /\ IF i \in spe.empty THEN UNCHANGED <<reply, spe, replied, nsIrq>>
              ELSE /\ reply' = [reply EXCEPT ![i] =
                        Answer(m, IF m.op = "connect" /\ conn[k].state = "answered"
                                  THEN k ELSE None)]
                   /\ spe' = CleanSlot(spe, i)
                   /\ replied' = replied \cup {i}
                   /\ nsIrq' = TRUE
           /\ conn' = [conn EXCEPT ![k] = AfterReply(@)]
    /\ answers' = Tail(answers)
    /\ agent' = Waiting
    /\ UNCHANGED <<nsvars, pend, sIrq, stray>>

-----------------------------------------------------------------------------
Init ==
    /\ task = [c \in Clients |-> [pc |-> "idle", slot |-> None, op |-> "none", conn |-> None]]
    /\ empty = Slots
    /\ owner = [i \in Slots |-> None]
    /\ woken = [i \in Slots |-> FALSE]
    /\ flag = [c \in Clients |-> FALSE]
    /\ msg = [i \in Slots |-> NoMsg]
    /\ reply = [i \in Slots |-> NoMsg]
    /\ pend = {} /\ replied = {}
    /\ nsIrq = FALSE /\ sIrq = FALSE
    /\ spe = [handle |-> [i \in Slots |-> NullHandle], empty |-> Slots]
    /\ agent = Waiting
    /\ conn = [k \in Conns |-> FreeConn]
    /\ answers = << >>
    /\ stray = FALSE

TaskStep(c) == SetPend(c) \/ NotifySpe(c) \/ Wake(c) \/ Receive(c)
AgentStep == WaitSignals \/ Snapshot \/ Dispatch \/ FinishBatch \/ AsyncReply

Next ==
    \/ \E c \in Clients : \E op \in Ops[c] : Call(c, op)
    \/ \E c \in Clients : TaskStep(c) \/ OtherEvent(c)
    \/ NsIsr
    \/ AgentStep
    \/ \E k \in Conns : ServiceReplies(k)

Spec == Init /\ [][Next]_vars

(* The tasks and the agent are scheduled, interrupts are taken and every   *)
(* service answers.                                                        *)
Fairness ==
    /\ \A c \in Clients : WF_vars(TaskStep(c))
    /\ WF_vars(NsIsr)
    /\ WF_vars(AgentStep)
    /\ \A k \in Conns : WF_vars(ServiceReplies(k))

FairSpec == Spec /\ Fairness

-----------------------------------------------------------------------------
(* Properties.                                                             *)

(* tfm_spm_agent_psa_close passes no client_data: the reply to a psa_close *)
(* goes to the slot of the connection's last request.  Everything below    *)
(* holds until that is another slot than that of the psa_close.  Two kinds *)
(* of calls are never answered: a psa_close of the null handle and a call  *)
(* of a type that the agent does not know.                                 *)
NeverAnswered == {"close_null", "unknown"}

(* A task that was woken finds in its slot the result of its own request,  *)
(* however many requests are in flight and in whatever order services      *)
(* answer (tfm_mailbox_reply_msg, tfm_ns_mailbox_wake_reply_owner_isr).    *)
ReplyIsOwn ==
    ~stray => \A c \in Clients : task[c].pc = "answered" =>
        /\ reply[task[c].slot].client = c
        /\ reply[task[c].slot].op = task[c].op
        /\ task[c].op \notin NeverAnswered

(* A slot that a task may take is used by nobody: not pending, not being   *)
(* handled by the agent, not replied and not yet seen.                     *)
EmptySlotIsUnused ==
    ~stray => \A i \in empty : i \notin pend \cup replied /\ i \in spe.empty /\ ~woken[i]

(* The request of a waiting task is not lost between the cores: it is in   *)
(* the hands of exactly one of them.  A slot of the current snapshot stays *)
(* pending until the whole batch was dispatched.  Only calls of unknown    *)
(* types are dropped by the agent (tfm_mailbox_dispatch).                  *)
Unseen(i) == i \in pend /\ (agent.pc = "dispatch" /\ i \in agent.snapshot => i \in agent.todo)
InSpe(i) == i \notin spe.empty \/ (agent.pc = "dispatch" /\ i \in agent.out)

NoRequestLost ==
    ~stray => \A c \in Clients :
        task[c].pc \in {"pended", "waiting"} /\ task[c].op # "unknown" =>
        LET i == task[c].slot
        IN  Cardinality({p \in 1 .. 4 : (CASE p = 1 -> Unseen(i) [] p = 2 -> InSpe(i)
                                          [] p = 3 -> i \in replied [] p = 4 -> woken[i])}) = 1

(* A connection is never left behind and never taken from a client: an     *)
(* idle one is held by a client or is in the reply it waits for, and a     *)
(* client that holds one and calls nothing finds it idle                   *)
(* (tfm_rpc_client_call_reply, spm_get_idle_connection).                   *)
HeldBy(k, c) ==
    /\ conn[k].client = c
    /\ \/ task[c].conn = k
       \/ task[c].op = "connect" /\ reply[task[c].slot].conn = k

ConnectionsAccounted ==
    ~stray =>
        /\ \A k \in Conns : conn[k].state = "idle" => \E c \in Clients : HeldBy(k, c)
        /\ \A c \in Clients : task[c].pc = "idle" /\ task[c].conn # None =>
               conn[task[c].conn].state = "idle" /\ HeldBy(task[c].conn, c)

(* A call of a non-secure task returns (mailbox_wait_reply), also when     *)
(* other events wake the task and when another task waits for ever for the *)
(* answer to a call that is never answered.                                *)
EveryCallReturns ==
    \A c \in Clients :
        task[c].pc = "filled" /\ task[c].op \notin NeverAnswered
            ~> task[c].pc = "idle" \/ stray

=============================================================================
