----------------------------- MODULE FwuStates -----------------------------
(***************************************************************************)
(* External: the states of a firmware component as clients see them, with  *)
(* the steps that the PSA firmware update interface allows.  A step may    *)
(* move several components.  Nothing about an update in preparation is     *)
(* kept over a reboot; a reboot brings a component into TRIAL only if its  *)
(* image was (being) staged or had been left to the boot loader before.    *)
(* An image that the device was provisioned with and that was not accepted *)
(* is shown in TRIAL too, but there is nothing to revert to: it stays.     *)
(***************************************************************************)
CONSTANTS Comps
VARIABLES
    shown,   \* the state of each component
    factory  \* components that run the image they were provisioned with

(* What requests to the service may do to a component.                     *)
Requests ==
    {<<"READY", "WRITING">>,      \* start
     <<"WRITING", "CANDIDATE">>,  \* finish
     <<"WRITING", "FAILED">>,     \* cancel
     <<"CANDIDATE", "FAILED">>,   \* cancel, install
     <<"CANDIDATE", "STAGED">>,   \* install
     <<"STAGED", "FAILED">>,      \* reject
     <<"TRIAL", "REJECTED">>,     \* reject
     <<"TRIAL", "UPDATED">>,      \* accept
     <<"FAILED", "READY">>,       \* clean
     <<"UPDATED", "READY">>}      \* clean

(* What a reboot may do to a component that keeps its first image, and to  *)
(* one whose image is or was replaced.                                     *)
MayStay(s) == IF s \in {"TRIAL", "REJECTED"} THEN {"READY", "TRIAL"} ELSE {"READY"}
MayBoot(s) ==
    IF s \in {"READY", "CANDIDATE", "STAGED"} THEN {"READY", "TRIAL"} ELSE {"READY"}

Request ==
    /\ shown' \in [Comps -> {"READY", "WRITING", "CANDIDATE", "STAGED", "FAILED", "TRIAL",
                             "REJECTED", "UPDATED"}]
    /\ \A c \in Comps : shown'[c] # shown[c] => <<shown[c], shown'[c]>> \in Requests
    /\ UNCHANGED factory

Reboot ==
    /\ shown' \in [Comps -> {"READY", "TRIAL"}]
    /\ factory' \subseteq factory
    /\ \A c \in Comps :
           shown'[c] \in IF c \in factory' THEN MayStay(shown[c]) ELSE MayBoot(shown[c])

Init == shown \in {[c \in Comps |-> s] : s \in {"READY", "TRIAL"}} /\ factory = Comps
Next == Request \/ Reboot
Spec == Init /\ [][Next]_<<shown, factory>>

=============================================================================
