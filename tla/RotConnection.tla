--------------------------- MODULE RotConnection ---------------------------
(***************************************************************************)
(* What the SPM promises the clients and the services of a connection,     *)
(* whatever its scheduler, signals and pool do: a message goes from its    *)
(* client to the service it is for, first come first served, is answered   *)
(* exactly once by that service, and the connection is then free again or  *)
(* back with the client that opened it.                                    *)
(***************************************************************************)
CONSTANTS Conns, Clients, Services, Stateless, NoMsg

VARIABLES
    state,   \* where a connection is
    msg,     \* the client, service and type of its current message
    ahead    \* the queued messages to the same service that came before it

avars == <<state, msg, ahead>>

Init ==
    /\ state = [c \in Conns |-> "free"]
    /\ msg = [c \in Conns |-> NoMsg]
    /\ ahead = [c \in Conns |-> {}]

(* A message joins the messages that wait for its service.                 *)
Send(c, m) ==
    /\ state' = [state EXCEPT ![c] = "queued"]
    /\ msg' = [msg EXCEPT ![c] = m]
    /\ ahead' = [ahead EXCEPT ![c] =
                   {d \in Conns : state[d] = "queued" /\ msg[d].service = m.service}]

(* A connection is opened by a connect message, or by the only call of a   *)
(* stateless service.                                                      *)
Open(c, k, s) ==
    /\ state[c] = "free"
    /\ Send(c, [client |-> k, service |-> s,
                type |-> IF s \in Stateless THEN "CALL" ELSE "CONNECT"])

(* It is used and closed by the client that opened it, and for the service *)
(* it was opened to.                                                       *)
Use(c, type) ==
    /\ state[c] = "idle"
    /\ Send(c, [msg[c] EXCEPT !.type = type])

(* The service takes the message that no other one to it precedes.         *)
Accept(c) ==
    /\ state[c] = "queued"
    /\ ahead[c] = {}
    /\ state' = [state EXCEPT ![c] = "served"]
    /\ ahead' = [d \in Conns |-> ahead[d] \ {c}]
    /\ UNCHANGED msg

Reply(c) ==
    /\ state[c] = "served"
    /\ state' = [state EXCEPT ![c] = "replied"]
    /\ UNCHANGED <<msg, ahead>>

(* The client takes the answer.  A refused connect, a disconnect and a     *)
(* stateless call end the connection.                                      *)
Finish(c) ==
    /\ state[c] = "replied"
    /\ \/ /\ \/ msg[c].type \in {"CONNECT", "DISCONNECT"}
             \/ msg[c].service \in Stateless
          /\ state' = [state EXCEPT ![c] = "free"]
          /\ msg' = [msg EXCEPT ![c] = NoMsg]
       \/ /\ msg[c].type # "DISCONNECT"
          /\ msg[c].service \notin Stateless
          /\ state' = [state EXCEPT ![c] = "idle"]
          /\ UNCHANGED msg
    /\ UNCHANGED ahead

Next ==
    \E c \in Conns :
        \/ \E k \in Clients, s \in Services : Open(c, k, s)
        \/ \E type \in {"CALL", "DISCONNECT"} : Use(c, type)
        \/ Accept(c)
        \/ Reply(c)
        \/ Finish(c)

Spec == Init /\ [][Next]_avars
=============================================================================
