---------------------------- MODULE ObjectStore ----------------------------
(***************************************************************************)
(* What Protected Storage promises a client: a store of at most NumAssets  *)
(* objects in which a set or a remove happens at once or not at all, also  *)
(* when power fails, and in which a request is refused for the reasons     *)
(* given here only.                                                        *)
(***************************************************************************)
EXTENDS Naturals, FiniteSets

CONSTANTS Uids, Vals, CreateFlags, NumAssets, None

VARIABLES
    objs,     \* the objects
    call,     \* the request being carried out, or None
    result    \* the outcome of the last request

psvars == <<objs, call, result>>

Init ==
    /\ objs = [u \in Uids |-> None]
    /\ call = None
    /\ result = [status |-> "none", value |-> None]

Exists(u) == objs[u] # None
WriteOnce(u) == Exists(u) /\ objs[u].once
Full == Cardinality({u \in Uids : Exists(u)}) = NumAssets

Answer(status, value) ==
    /\ call' = None
    /\ result' = [status |-> status, value |-> value]
    /\ UNCHANGED objs

Begin(op, u, value) ==
    /\ call' = [op |-> op, uid |-> u, value |-> value, done |-> FALSE]
    /\ UNCHANGED <<objs, result>>

(* A new object needs room, a replacement does not.                        *)
Set(u, v, once) ==
    /\ call = None
    /\ IF ~Exists(u) /\ Full THEN Answer("no_space", None)
       ELSE Begin("set", u, [val |-> v, once |-> once])

Remove(u) ==
    /\ call = None
    /\ IF ~Exists(u) THEN Answer("does_not_exist", None)
       ELSE IF WriteOnce(u) THEN Answer("not_permitted", None)
       ELSE Begin("remove", u, None)

Get(u) ==
    /\ call = None
    /\ IF Exists(u) THEN Answer("success", objs[u]) ELSE Answer("does_not_exist", None)

(* The request takes effect.                                               *)
Apply ==
    /\ call # None
    /\ ~call.done
    /\ ~WriteOnce(call.uid)
    /\ objs' = [objs EXCEPT ![call.uid] = call.value]
    /\ call' = [call EXCEPT !.done = TRUE]
    /\ UNCHANGED result

Return ==
    /\ call # None
    /\ \/ call.done /\ Answer("success", None)
       \/ ~call.done /\ WriteOnce(call.uid) /\ Answer("not_permitted", None)

PowerFailure ==
    /\ call' = None
    /\ result' = [status |-> "none", value |-> None]
    /\ UNCHANGED objs

Next ==
    \/ \E u \in Uids, v \in Vals, once \in CreateFlags : Set(u, v, once)
    \/ \E u \in Uids : Remove(u) \/ Get(u)
    \/ Apply
    \/ Return
    \/ PowerFailure

Spec == Init /\ [][Next]_psvars

=============================================================================
