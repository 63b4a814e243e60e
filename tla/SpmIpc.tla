------------------------------- MODULE SpmIpc -------------------------------
(***************************************************************************)
(* The Secure Partition Manager of Trusted Firmware-M with its IPC backend *)
(* (secure_fw/spm/core): connections, message queues, signals, interrupts  *)
(* and the scheduler.                                                      *)
(*                                                                         *)
(* Every PSA API handler runs with the scheduler locked                    *)
(* (backend_abi_entering_spm .. backend_abi_leaving_spm): a scheduling     *)
(* attempt made inside it is recorded and PendSV is pended when it leaves. *)
(* A handler is therefore one action; between two handlers of the running  *)
(* partition come interrupts and PendSV (action Schedule).  Interrupts     *)
(* taken inside a handler only add an interrupt's signal under a critical  *)
(* section and commute with the rest of it.                                *)
(*                                                                         *)
(* A partition's own code is unconstrained: whenever it runs it may call   *)
(* any PSA API on what it legitimately holds.                              *)
(***************************************************************************)
EXTENDS Naturals, Sequences, FiniteSets, Functions

CONSTANTS
    Partitions,   \* every thread of the secure side
    Agent,        \* the mailbox NS agent (IS_NS_AGENT_MAILBOX)
    Idle,         \* the idle partition: polls, never blocks
    Prio,         \* load_order of a partition; the smaller runs first
    Services,     \* RoT services, each named by its signal
    Owner,        \* the partition that owns a service
    Stateless,    \* the services reached through a static handle
    Deps,         \* the services a partition is authorised to use
    Irqs,         \* interrupt signals
    IrqOwner,     \* the partition an interrupt belongs to
    Flih,         \* interrupts with a first-level handler; the rest are SLIH
    NsClients,    \* non-secure client ids, all served by the Agent
    Conns,        \* chunks of the connection pool
    NoConn,       \* no connection
    Freed,        \* contents of a chunk on the free list; no handler reads it
    ASYNC,        \* the signal ASYNC_MSG_REPLY
    DOORBELL,     \* the signal PSA_DOORBELL
    DoorbellApi   \* CONFIG_TFM_DOORBELL_API

Signals == Services \cup Irqs \cup {ASYNC, DOORBELL}

ASSUME PartitionAssumption ==
    /\ Agent \in Partitions
    /\ Idle \in Partitions \ {Agent}
    /\ Prio \in [Partitions -> Nat]
    /\ \A p, q \in Partitions : Prio[p] = Prio[q] => p = q
    /\ \A p \in Partitions \ {Idle} : Prio[p] < Prio[Idle]
    /\ IsFiniteSet(Partitions)

ASSUME ServiceAssumption ==
    /\ Owner \in [Services -> Partitions \ {Agent, Idle}]
    /\ Stateless \subseteq Services
    /\ Deps \in [Partitions -> SUBSET Services]
    /\ IrqOwner \in [Irqs -> Partitions \ {Idle}]
    /\ Flih \subseteq Irqs
    /\ ASYNC \notin Services \cup Irqs \cup {DOORBELL}
    /\ DOORBELL \notin Services \cup Irqs
    /\ Services \cap Irqs = {}
    /\ NsClients \cap Partitions = {}
    /\ NoConn \notin Conns

VARIABLES
    pool,        \* chunks on the free list of connection_pool
    conn,        \* struct connection_t of every chunk
    reqs,        \* p_reqs of every partition, oldest request first
    replied,     \* p_replied of every partition, oldest reply first
    asserted,    \* signals_asserted
    waiting,     \* signals_waiting
    cur,         \* CURRENT_THREAD
    pendsv,      \* PendSV is pending
    enabled,     \* interrupt sources enabled at the interrupt controller
    served,      \* messages a partition took with psa_get and has not replied
    collecting,  \* reply the Agent took with psa_get and is still handling
    held         \* handles a client got from psa_connect and has not closed

vars == <<pool, conn, reqs, replied, asserted, waiting, cur, pendsv, enabled,
          served, collecting, held>>

Clients == (Partitions \ {Agent, Idle}) \cup NsClients

(* Mutant: the agent's calls carry its own id.                             *)
ClientIdsOfAgent(p) == {p}

(* The client ids a partition's calls carry: tfm_spm_get_client_id.        *)
ClientIds(p) == IF p = Agent THEN NsClients ELSE {p}

Connection ==
    [status        : {"IDLE", "ACTIVE", "TO_FREE"},
     p_client      : Partitions \ {Idle},
     client_id     : Clients,
     service       : Services,
     type          : {"CONNECT", "CALL", "DISCONNECT"},
     replied_value : {"NONE", "HANDLE", "REFUSED", "STATUS"}]

(* Mutant: every partition may wait for ASYNC_MSG_REPLY.                   *)
SignalsAllowedAsync(p) ==
    {s \in Services : Owner[s] = p} \cup {i \in Irqs : IrqOwner[i] = p} \cup {ASYNC}

SignalsAllowed(p) ==
    {s \in Services : Owner[s] = p}
        \cup {i \in Irqs : IrqOwner[i] = p}
        \cup (IF DoorbellApi THEN {DOORBELL} ELSE {})
        \cup (IF p = Agent THEN {ASYNC} ELSE {})

(* PSA_WAIT_ANY, which has every bit set, or one signal of the partition.  *)
(* The Agent only waits for any signal.                                    *)
WaitMasks(p) ==
    {Signals} \cup (IF p = Agent THEN {} ELSE {{s} : s \in SignalsAllowed(p)})

-----------------------------------------------------------------------------
(* Scheduling: thread.c, query_state and ipc_schedule of backend_ipc.c.    *)

Runnable(p) == waiting[p] = {} \/ waiting[p] \cap asserted[p] # {}

(* thrd_next: the first runnable thread of the list sorted by priority.    *)
IsNextThread(p) ==
    /\ Runnable(p)
    /\ \A q \in Partitions : Prio[q] < Prio[p] => ~Runnable(q)

(* Mutant: an asserted signal never asks for scheduling.                   *)
NeverSchedule(p, sig) == FALSE

(* The value backend_assert_signal returns once p's signals are sig.       *)
NeedSchedule(p, sig) == sig \cap waiting[p] # {}

(* The partition runs its own code.  The Agent's code that handles a       *)
(* collected reply calls no PSA API.                                       *)
Running(p) ==
    /\ cur = p
    /\ ~pendsv
    /\ p = Agent => collecting = NoConn

(* Mutant: a reply frees the connection whatever its status.               *)
PoolAfterAnyReply(c) == pool \cup {c}

(* spm_free_connection when the connection is marked for it.               *)
PoolAfterReply(c) ==
    IF conn[c].status = "TO_FREE" THEN pool \cup {c} ELSE pool

HeldAfterReply(c) ==
    IF conn[c].replied_value = "HANDLE"
    THEN [held EXCEPT ![conn[c].client_id] = @ \cup {c}]
    ELSE held

(* Mutant: taking a reply clears the signal although others are mounted.   *)
SignalsAfterAnyReply(p, rest) == asserted[p] \ {ASYNC}

(* The signals of p once rest is what is left of its p_replied.            *)
SignalsAfterReply(p, rest) ==
    IF rest = << >> THEN asserted[p] \ {ASYNC} ELSE asserted[p]

(* query_state of the next thread when the reply of its synchronous call   *)
(* is there: it takes the newest entry of p_replied and drops the list.    *)
TakeReply(p) ==
    LET c == replied[p][Len(replied[p])]
    IN  /\ asserted' = [asserted EXCEPT ![p] = SignalsAfterReply(p, << >>)]
        /\ replied' = [replied EXCEPT ![p] = << >>]
        /\ pool' = PoolAfterReply(c)
        /\ conn' = IF conn[c].status = "TO_FREE"
                   THEN [conn EXCEPT ![c] = Freed] ELSE conn
        /\ held' = HeldAfterReply(c)

Schedule ==
    /\ pendsv
    /\ \E p \in Partitions :
        /\ IsNextThread(p)
        /\ cur' = p
        /\ waiting' = [waiting EXCEPT ![p] = {}]
        /\ IF /\ waiting[p] \cap asserted[p] = {ASYNC}
              /\ ASYNC \notin SignalsAllowed(p)
           THEN TakeReply(p)
           ELSE UNCHANGED <<asserted, replied, pool, conn, held>>
    /\ pendsv' = FALSE
    /\ UNCHANGED <<reqs, enabled, served, collecting>>

-----------------------------------------------------------------------------
(* The client API: psa_connection_api.c, psa_call_api.c and, for the       *)
(* Agent, mailbox_agent_api.c.                                             *)

(* backend_messaging: queue c for s and block the client on the reply.     *)
Messaging(p, c, s) ==
    LET q == Owner[s]
        sig == asserted[q] \cup {s}
        block == p # Agent /\ ASYNC \notin asserted[p]
    IN  /\ reqs' = [reqs EXCEPT ![q] = Append(@, c)]
        /\ asserted' = [asserted EXCEPT ![q] = sig]
        /\ waiting' = IF block THEN [waiting EXCEPT ![p] = {ASYNC}] ELSE waiting
        /\ pendsv' = (block \/ (p # Agent /\ NeedSchedule(q, sig)))
        /\ UNCHANGED <<replied, cur, enabled, served, collecting>>

(* spm_allocate_connection, spm_init_idle_connection and a first message.  *)
NewConnection(p, k, s, type) ==
    \E c \in pool :
        /\ pool' = pool \ {c}
        /\ conn' = [conn EXCEPT ![c] =
             [status |-> "ACTIVE", p_client |-> p, client_id |-> k,
              service |-> s, type |-> type, replied_value |-> "NONE"]]
        /\ Messaging(p, c, s)
        /\ UNCHANGED held

(* Mutant: a connection that handles a request is accepted.                *)
AnyConnection(c, k) == c \notin pool /\ conn[c].client_id = k

(* The checks spm_get_idle_connection makes of a connection handle.        *)
IdleConnection(c, k) ==
    /\ c \notin pool
    /\ conn[c].client_id = k
    /\ conn[c].status = "IDLE"

PsaConnect(p, k, s) ==
    /\ Running(p)
    /\ s \in Deps[p] \ Stateless
    /\ NewConnection(p, k, s, "CONNECT")

PsaCallStateless(p, k, s) ==
    /\ Running(p)
    /\ s \in Deps[p] \cap Stateless
    /\ NewConnection(p, k, s, "CALL")

PsaCall(p, k, c) ==
    /\ Running(p)
    /\ c \in held[k]
    /\ IdleConnection(c, k)
    /\ conn' = [conn EXCEPT ![c].type = "CALL", ![c].status = "ACTIVE"]
    /\ Messaging(p, c, conn[c].service)
    /\ UNCHANGED <<pool, held>>

PsaClose(p, k, c) ==
    /\ Running(p)
    /\ c \in held[k]
    /\ IdleConnection(c, k)
    /\ conn' = [conn EXCEPT ![c].type = "DISCONNECT", ![c].status = "TO_FREE"]
    /\ held' = [held EXCEPT ![k] = @ \ {c}]
    /\ Messaging(p, c, conn[c].service)
    /\ UNCHANGED pool

-----------------------------------------------------------------------------
(* The service API: psa_api.c, spm_ipc.c.                                  *)

(* tfm_spm_partition_psa_wait with PSA_BLOCK and none of the signals       *)
(* there.  If one is there, psa_wait returns and changes nothing.          *)
PsaWait(p, mask) ==
    /\ Running(p)
    /\ asserted[p] \cap mask = {}
    /\ waiting' = [waiting EXCEPT ![p] = mask]
    /\ pendsv' = TRUE
    /\ UNCHANGED <<pool, conn, reqs, replied, asserted, cur, enabled, served,
                   collecting, held>>

(* The same with PSA_POLL, when an interrupt of the non-secure state left  *)
(* its cookie (interrupt.c): that interrupt is not modelled, so that any   *)
(* poll that finds no signal may come after it.                            *)
PsaPoll(p, mask) ==
    /\ Running(p)
    /\ asserted[p] \cap mask = {}
    /\ pendsv' = TRUE
    /\ UNCHANGED <<pool, conn, reqs, replied, asserted, waiting, cur, enabled,
                   served, collecting, held>>

(* A list without its i-th node.                                           *)
RemoveNode(seq, i) ==
    [j \in 1 .. Len(seq) - 1 |-> IF j < i THEN seq[j] ELSE seq[j + 1]]

(* Mutant: the newest request for s.                                       *)
IsNewestFor(p, s, i) ==
    /\ conn[reqs[p][i]].service = s
    /\ \A j \in i + 1 .. Len(reqs[p]) : conn[reqs[p][j]].service # s

(* spm_get_handle_by_signal: the oldest request for s.                     *)
IsOldestFor(p, s, i) ==
    /\ i \in 1 .. Len(reqs[p])
    /\ conn[reqs[p][i]].service = s
    /\ \A j \in 1 .. i - 1 : conn[reqs[p][j]].service # s

(* Mutant: the signal is cleared whatever else is queued.                  *)
AlwaysOnlyOne(p, s, i) == TRUE

OnlyOneFor(p, s, i) ==
    \A j \in 1 .. Len(reqs[p]) : conn[reqs[p][j]].service = s => j = i

PsaGet(p, s) ==
    /\ Running(p)
    /\ s \in asserted[p]
    /\ \E i \in 1 .. Len(reqs[p]) :
        /\ IsOldestFor(p, s, i)
        /\ reqs' = [reqs EXCEPT ![p] = RemoveNode(@, i)]
        /\ asserted' = IF OnlyOneFor(p, s, i)
                       THEN [asserted EXCEPT ![p] = @ \ {s}] ELSE asserted
        /\ served' = [served EXCEPT ![p] = @ \cup {reqs[p][i]}]
    /\ UNCHANGED <<pool, conn, replied, waiting, cur, pendsv, enabled,
                   collecting, held>>

(* The value psa_reply passes to the client and the status it leaves the   *)
(* connection in.  ok is FALSE for PSA_ERROR_CONNECTION_REFUSED / _BUSY.   *)
ReplyValue(c, ok) ==
    CASE conn[c].type = "CONNECT" -> IF ok THEN "HANDLE" ELSE "REFUSED"
      [] conn[c].type = "DISCONNECT" -> "STATUS"
      [] conn[c].type = "CALL" -> "STATUS"

(* Mutants: a refused connection is kept; every call ends its connection.  *)
ReplyStatusKeepsRefused(c, ok) ==
    IF \/ conn[c].type = "DISCONNECT"
       \/ conn[c].type = "CALL" /\ conn[c].service \in Stateless
    THEN "TO_FREE"
    ELSE IF conn[c].p_client = Agent THEN conn[c].status ELSE "IDLE"

ReplyStatusEndsCall(c, ok) ==
    IF conn[c].type # "CONNECT" \/ ~ok THEN "TO_FREE"
    ELSE IF conn[c].p_client = Agent THEN conn[c].status ELSE "IDLE"

ReplyStatus(c, ok) ==
    IF \/ conn[c].type = "CONNECT" /\ ~ok
       \/ conn[c].type = "DISCONNECT"
       \/ conn[c].type = "CALL" /\ conn[c].service \in Stateless
       \/ conn[c].status = "TO_FREE"
    THEN "TO_FREE"
    ELSE IF conn[c].p_client = Agent THEN conn[c].status ELSE "IDLE"

PsaReply(p, c, ok) ==
    LET q == conn[c].p_client
        sig == asserted[q] \cup {ASYNC}
    IN  /\ Running(p)
        /\ c \in served[p]
        /\ conn' = [conn EXCEPT ![c].replied_value = ReplyValue(c, ok),
                                ![c].status = ReplyStatus(c, ok)]
        /\ replied' = [replied EXCEPT ![q] = Append(@, c)]
        /\ asserted' = [asserted EXCEPT ![q] = sig]
        /\ pendsv' = NeedSchedule(q, sig)
        /\ served' = [served EXCEPT ![p] = @ \ {c}]
        /\ UNCHANGED <<pool, reqs, waiting, cur, enabled, collecting, held>>

(* psa_notify checks nothing of its target.                                *)
PsaNotify(p, q) ==
    /\ Running(p)
    /\ DoorbellApi
    /\ asserted' = [asserted EXCEPT ![q] = @ \cup {DOORBELL}]
    /\ pendsv' = NeedSchedule(q, asserted[q] \cup {DOORBELL})
    /\ UNCHANGED <<pool, conn, reqs, replied, waiting, cur, enabled, served,
                   collecting, held>>

PsaClear(p) ==
    /\ Running(p)
    /\ DOORBELL \in asserted[p]
    /\ asserted' = [asserted EXCEPT ![p] = @ \ {DOORBELL}]
    /\ UNCHANGED <<pool, conn, reqs, replied, waiting, cur, pendsv, enabled,
                   served, collecting, held>>

-----------------------------------------------------------------------------
(* Interrupts: interrupt.c and psa_irq_api.c.                              *)

(* spm_handle_interrupt.  A first-level handler that answers               *)
(* PSA_FLIH_NO_SIGNAL changes nothing.                                     *)
Interrupt(i) ==
    LET p == IrqOwner[i]
        sig == asserted[p] \cup {i}
    IN  /\ i \in enabled
        /\ enabled' = IF i \in Flih THEN enabled ELSE enabled \ {i}
        /\ asserted' = [asserted EXCEPT ![p] = sig]
        /\ pendsv' = (pendsv \/ NeedSchedule(p, sig))
        /\ UNCHANGED <<pool, conn, reqs, replied, waiting, cur, served,
                       collecting, held>>

PsaEoi(p, i) ==
    /\ Running(p)
    /\ i \notin Flih
    /\ IrqOwner[i] = p
    /\ i \in asserted[p]
    /\ asserted' = [asserted EXCEPT ![p] = @ \ {i}]
    /\ enabled' = enabled \cup {i}
    /\ UNCHANGED <<pool, conn, reqs, replied, waiting, cur, pendsv, served,
                   collecting, held>>

PsaResetSignal(p, i) ==
    /\ Running(p)
    /\ i \in Flih
    /\ IrqOwner[i] = p
    /\ i \in asserted[p]
    /\ asserted' = [asserted EXCEPT ![p] = @ \ {i}]
    /\ UNCHANGED <<pool, conn, reqs, replied, waiting, cur, pendsv, enabled,
                   served, collecting, held>>

PsaIrqEnable(p, i) ==
    /\ Running(p)
    /\ IrqOwner[i] = p
    /\ enabled' = enabled \cup {i}
    /\ UNCHANGED <<pool, conn, reqs, replied, asserted, waiting, cur, pendsv,
                   served, collecting, held>>

PsaIrqDisable(p, i) ==
    /\ Running(p)
    /\ IrqOwner[i] = p
    /\ enabled' = enabled \ {i}
    /\ UNCHANGED <<pool, conn, reqs, replied, asserted, waiting, cur, pendsv,
                   served, collecting, held>>

-----------------------------------------------------------------------------
(* The Agent collects a reply: tfm_rpc_client_call_reply.  psa_get is a    *)
(* handler of its own; what follows it runs in the Agent's thread with the *)
(* scheduler unlocked, so that partitions may run in between.              *)

AgentGetReply ==
    /\ Running(Agent)
    /\ ASYNC \in asserted[Agent]
    /\ replied[Agent] # << >>
    /\ collecting' = Head(replied[Agent])
    /\ replied' = [replied EXCEPT ![Agent] = Tail(@)]
    /\ asserted' = [asserted EXCEPT ![Agent] =
                       SignalsAfterReply(Agent, Tail(replied[Agent]))]
    /\ UNCHANGED <<pool, conn, reqs, waiting, cur, pendsv, enabled, served, held>>

AgentHandleReply ==
    /\ cur = Agent
    /\ ~pendsv
    /\ collecting # NoConn
    /\ pool' = PoolAfterReply(collecting)
    /\ conn' = IF conn[collecting].status = "TO_FREE"
               THEN [conn EXCEPT ![collecting] = Freed]
               ELSE [conn EXCEPT ![collecting].status = "IDLE"]
    /\ held' = HeldAfterReply(collecting)
    /\ collecting' = NoConn
    /\ UNCHANGED <<reqs, replied, asserted, waiting, cur, pendsv, enabled, served>>

-----------------------------------------------------------------------------
(* tfm_spm_init and backend_system_run: every thread is runnable, the      *)
(* first one is current and PendSV is pended.                              *)
Init ==
    /\ pool = Conns
    /\ conn = [c \in Conns |-> Freed]
    /\ reqs = [p \in Partitions |-> << >>]
    /\ replied = [p \in Partitions |-> << >>]
    /\ asserted = [p \in Partitions |-> {}]
    /\ waiting = [p \in Partitions |-> {}]
    /\ cur \in Partitions
    /\ \A q \in Partitions : Prio[cur] <= Prio[q]
    /\ pendsv = TRUE
    /\ enabled = {}
    /\ served = [p \in Partitions |-> {}]
    /\ collecting = NoConn
    /\ held = [k \in Clients |-> {}]

ClientStep(p) ==
    \E k \in ClientIds(p) :
        \/ \E s \in Services : PsaConnect(p, k, s) \/ PsaCallStateless(p, k, s)
        \/ \E c \in Conns : PsaCall(p, k, c) \/ PsaClose(p, k, c)

ServiceStep(p) ==
    \/ \E mask \in WaitMasks(p) : PsaWait(p, mask)
    \/ \E s \in Services : PsaGet(p, s)
    \/ \E c \in Conns, ok \in BOOLEAN : PsaReply(p, c, ok)
    \/ \E q \in Partitions : PsaNotify(p, q)
    \/ PsaClear(p)
    \/ \E i \in Irqs : \/ PsaEoi(p, i)
                       \/ PsaResetSignal(p, i)
                       \/ PsaIrqEnable(p, i)
                       \/ PsaIrqDisable(p, i)

Next ==
    \/ Schedule
    \/ \E i \in Irqs : Interrupt(i)
    \/ \E p \in Partitions \ {Idle} : ClientStep(p) \/ ServiceStep(p)
    \/ \E p \in Partitions : \E mask \in WaitMasks(p) : PsaPoll(p, mask)
    \/ AgentGetReply
    \/ AgentHandleReply

Spec == Init /\ [][Next]_vars
-----------------------------------------------------------------------------
(* Properties.                                                             *)

(* A request that is somewhere between its client and its service.         *)
InFlight(c) ==
    \/ \E p \in Partitions : \/ c \in Range(reqs[p])
                              \/ c \in served[p]
                              \/ c \in Range(replied[p])
    \/ c = collecting

Types ==
    /\ pool \subseteq Conns
    /\ conn \in [Conns -> Connection \cup {Freed}]
    /\ reqs \in [Partitions -> Seq(Conns)]
    /\ replied \in [Partitions -> Seq(Conns)]
    /\ asserted \in [Partitions -> SUBSET Signals]
    /\ waiting \in [Partitions -> SUBSET Signals]
    /\ cur \in Partitions
    /\ pendsv \in BOOLEAN
    /\ enabled \subseteq Irqs
    /\ served \in [Partitions -> SUBSET Conns]
    /\ collecting \in Conns \cup {NoConn}
    /\ held \in [Clients -> SUBSET Conns]

(* Every variable has its type; an allocated chunk holds a connection, and *)
(* a chunk on the free list does not: no reply of query_state or of the    *)
(* mailbox agent frees a connection without ending it, or the reverse.     *)
TypeOK ==
    /\ Types
    /\ \A c \in Conns : IF c \in pool THEN conn[c] = Freed ELSE conn[c] \in Connection

(* A service's signal is asserted exactly while a request for it is queued *)
(* (spm_get_handle_by_signal clears it with the last one), so that psa_get *)
(* on an asserted signal always finds a message and no request waits       *)
(* unsignalled.                                                            *)
ServiceSignalMatchesQueue ==
    \A s \in Services :
        s \in asserted[Owner[s]] <=>
            \E c \in Range(reqs[Owner[s]]) : conn[c].service = s

(* ASYNC_MSG_REPLY is asserted exactly while a reply is mounted, so that   *)
(* the assertion p_replied != NULL of query_state and the panic of         *)
(* spm_get_async_replied_handle are never reached.                         *)
ReplySignalMatchesList ==
    \A p \in Partitions : ASYNC \in asserted[p] <=> replied[p] # << >>

(* A connection is in at most one place - free, queued once, being served, *)
(* replied once or being collected by the Agent - and the place is that of *)
(* its own service and its own client: no double allocation, no double     *)
(* delivery, no reply to another client.                                   *)
OnePlace ==
    /\ \A p \in Partitions :
        /\ IsInjective(reqs[p])
        /\ IsInjective(replied[p])
        /\ \A c \in Range(reqs[p]) \cup served[p] :
             c \notin pool /\ p = Owner[conn[c].service]
        /\ \A c \in Range(replied[p]) : c \notin pool /\ p = conn[c].p_client
    /\ \A p, q \in Partitions :
        /\ Range(reqs[p]) \cap served[q] = {}
        /\ Range(reqs[p]) \cap Range(replied[q]) = {}
        /\ served[p] \cap Range(replied[q]) = {}
    /\ collecting # NoConn =>
        /\ collecting \notin pool
        /\ conn[collecting].p_client = Agent
        /\ \A p \in Partitions : collecting \notin Range(reqs[p]) \cup served[p]
                                                 \cup Range(replied[p])

(* No connection leaks: an allocated connection is in flight or it is idle *)
(* and its client holds the handle.                                        *)
NoLeak ==
    \A c \in Conns \ pool :
        \/ InFlight(c)
        \/ conn[c].status = "IDLE" /\ c \in held[conn[c].client_id]

(* A client that called a service synchronously is blocked on              *)
(* ASYNC_MSG_REPLY exactly as long as its one request is in flight: no     *)
(* lost reply, and no second request before the first is answered.         *)
SyncCallBlocks ==
    \A p \in Partitions \ {Agent} :
        /\ waiting[p] = {ASYNC} =>
              \E c \in Conns : c \notin pool /\ conn[c].p_client = p /\ InFlight(c)
        /\ \A c \in Conns \ pool :
              conn[c].p_client = p /\ InFlight(c) =>
                /\ waiting[p] = {ASYNC}
                /\ \A d \in Conns \ pool :
                      conn[d].p_client = p /\ InFlight(d) => c = d

(* psa_wait never returns ASYNC_MSG_REPLY to a partition that may not wait *)
(* for it, not even with PSA_WAIT_ANY (the two cases in query_state).      *)
ReplyIsNotASignal ==
    \A p \in Partitions \ {Agent} :
        ASYNC \in asserted[p] => waiting[p] = {ASYNC}

(* A handle a client holds is an allocated connection of that client, and  *)
(* idle unless the client itself has a request in flight on it: a          *)
(* well-behaved partition never trips the programmer-error checks of       *)
(* spm_get_idle_connection.                                                *)
HandlesUsable ==
    \A k \in Clients : \A c \in held[k] :
        /\ c \notin pool
        /\ conn[c].client_id = k
        /\ conn[c].status = "IDLE" \/ InFlight(c)
        /\ conn[c].service \notin Stateless

(* Unless PendSV is pending, the running thread does not wait and no       *)
(* thread of higher priority is runnable: no wake-up is missed.  The Agent *)
(* is excepted from the second part, since backend_messaging does not      *)
(* schedule for it.                                                        *)
HighestPriorityRuns ==
    ~pendsv => /\ waiting[cur] = {}
               /\ cur = Agent \/ IsNextThread(cur)
=============================================================================
