------------------------------ MODULE MCSpmIpc ------------------------------
(* Small secure sides for TLC.                                             *)
EXTENDS SpmIpcRefinement, SpmIpcLive, TLC

CONSTANTS app, srv, low, agent, idle, conS, staS, lowS, srvIrq, mbxIrq

(* A client partition that outranks the rest, a partition that owns a      *)
(* connection-based and a stateless service, the mailbox agent and the     *)
(* idle partition; interrupts of the second, which has a first-level       *)
(* handler, and of the agent.                                              *)
MCPartitions == {app, srv, agent, idle}
MCPrio == app :> 1 @@ srv :> 2 @@ agent :> 4 @@ idle :> 5
MCServices == {conS, staS}
MCOwner == conS :> srv @@ staS :> srv
MCDeps == app :> {staS} @@ srv :> {} @@ agent :> {conS, staS} @@ idle :> {}
MCIrqOwner == srvIrq :> srv @@ mbxIrq :> agent

(* The same with a third partition, whose service srv calls: calls nest    *)
(* and a service is outranked by its client.                               *)
NestPartitions == MCPartitions \cup {low}
NestPrio == MCPrio @@ low :> 3
NestServices == {conS, staS, lowS}
NestOwner == MCOwner @@ lowS :> low
NestDeps == app :> {conS} @@ srv :> {lowS} @@ low :> {} @@ agent :> {conS, staS}
              @@ idle :> {}
NoIrqOwner == << >>

(* One doorbell or both interrupts at a time.                              *)
FewEvents ==
    LET rung == {p \in Partitions : DOORBELL \in asserted[p]}
    IN  /\ Cardinality(rung) <= 1
        /\ rung # {} => \A p \in Partitions : asserted[p] \cap Irqs = {}

ConnSymmetry == Permutations(Conns)
=============================================================================
