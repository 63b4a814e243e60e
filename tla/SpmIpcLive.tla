----------------------------- MODULE SpmIpcLive -----------------------------
(* Progress of the IPC backend with services that keep serving: a thread   *)
(* that has something to do and is scheduled goes on, and a service waits  *)
(* for any signal, and only when it owes no reply.  Clients are as in      *)
(* SpmIpc.                                                                 *)
EXTENDS SpmIpc

(* The loop of an IPC service (psa_wait, psa_get, psa_reply) and that of   *)
(* ns_agent_mailbox_entry.                                                 *)
LoopStep(p) ==
    \/ served[p] = {} /\ PsaWait(p, Signals)
    \/ \E s \in Services : PsaGet(p, s)
    \/ \E c \in Conns, ok \in BOOLEAN : PsaReply(p, c, ok)
    \/ p = Agent /\ (AgentGetReply \/ AgentHandleReply)

NewRequest == \E p \in Partitions \ {Idle} : ClientStep(p)

LiveNext ==
    \/ Schedule
    \/ NewRequest
    \/ \E p \in Partitions \ {Idle} : LoopStep(p)

(* PendSV is taken once pended, and the processor executes the code of the *)
(* thread it runs.                                                         *)
LiveSpec ==
    /\ Init
    /\ [][LiveNext]_vars
    /\ WF_vars(Schedule)
    /\ \A p \in Partitions \ {Idle} : WF_vars(LoopStep(p))

(* Every request is eventually answered and collected - through queues,    *)
(* signals, nested calls and the scheduler - provided the clients do not   *)
(* issue new requests for ever, which with fixed priorities may starve the *)
(* services of low priority.                                               *)
RequestsAnswered ==
    <>[][~NewRequest]_vars => \A c \in Conns : InFlight(c) ~> ~InFlight(c)
=============================================================================
