----------------------------- MODULE MCMailbox -----------------------------
(* An instance of the mailbox for TLC: one task uses a stateless service   *)
(* and makes the calls that are never answered, the other one opens, uses  *)
(* and closes connections.                                                 *)
EXTENDS Mailbox, TLC

CONSTANTS c1, c2

MCOps ==
    c1 :> {"version", "call", "unknown", "close_null"}
        @@ c2 :> {"connect", "conn_call", "close"}

(* Every property holds, or is met, once a reply is astray: what comes     *)
(* after that is not explored.                                             *)
NotStray == ~stray

=============================================================================
