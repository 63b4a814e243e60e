-------------------------- MODULE SpmIpcRefinement --------------------------
(* The IPC backend implements RotConnection: where a connection is follows *)
(* from the lists it is on, and its turn from its place in p_reqs of the   *)
(* service's partition.                                                    *)
EXTENDS SpmIpc

ConnectionState ==
    [c \in Conns |->
        CASE c \in pool -> "free"
          [] \E p \in Partitions : c \in Range(reqs[p]) -> "queued"
          [] \E p \in Partitions : c \in served[p] -> "served"
          [] c = collecting \/ \E p \in Partitions : c \in Range(replied[p]) -> "replied"
          [] OTHER -> "idle"]

CurrentMessage ==
    [c \in Conns |->
        IF c \in pool THEN Freed
        ELSE [client |-> conn[c].client_id, service |-> conn[c].service,
              type |-> conn[c].type]]

(* d is on the request list before c and for the same service.             *)
Before(d, c) ==
    \E p \in Partitions : \E i \in DOMAIN reqs[p] :
        /\ reqs[p][i] = c
        /\ \E j \in 1 .. i - 1 : /\ reqs[p][j] = d
                                  /\ conn[d].service = conn[c].service

MessagesAhead == [c \in Conns |-> {d \in Conns : Before(d, c)}]

Abstract == INSTANCE RotConnection
    WITH NoMsg <- Freed, state <- ConnectionState, msg <- CurrentMessage,
         ahead <- MessagesAhead

(* Every step of the SPM is a step of RotConnection or changes nothing     *)
(* there: messages are delivered in order, each answered once, by the      *)
(* service it is for, to the client that sent it (backend_messaging,       *)
(* psa_get, psa_reply, query_state, tfm_rpc_client_call_reply).            *)
ImplementsRotConnection == Abstract!Spec
=============================================================================
