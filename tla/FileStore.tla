----------------------------- MODULE FileStore -----------------------------
(***************************************************************************)
(* What the ITS file system promises its caller: a store of files in which *)
(* a power failure at any moment leaves every file as some completed write *)
(* left it.  A set may be carried out in several writes (the asset buffer  *)
(* may be smaller than the asset), each of which is atomic.                *)
(***************************************************************************)
EXTENDS Naturals

CONSTANTS Fids, Vals, MaxRequest, NoFile, NoCall

VARIABLES
    files,    \* the files that a restart would find
    call,     \* the request being carried out
    result    \* the outcome of the last request

fsvars == <<files, call, result>>

Init ==
    /\ files = [f \in Fids |-> NoFile]
    /\ call = NoCall
    /\ result = "none"

WriteOnce(f) == files[f] # NoFile /\ files[f].once

BeginSet(f, v, n, once) ==
    /\ call = NoCall
    /\ ~WriteOnce(f)
    /\ call' = [op |-> "set", fid |-> f, val |-> v, size |-> n, once |-> once,
                done |-> "nothing"]
    /\ result' = "none"
    /\ UNCHANGED files

BeginRemove(f) ==
    /\ call = NoCall
    /\ files[f] # NoFile
    /\ ~WriteOnce(f)
    /\ call' = [op |-> "remove", fid |-> f, done |-> "nothing"]
    /\ result' = "none"
    /\ UNCHANGED files

(* One write: the file holds the first n values of the request.  The first *)
(* write replaces the file, the others extend it.                          *)
WriteSome ==
    /\ call # NoCall
    /\ call.op = "set"
    /\ call.done # "all"
    /\ \E n \in 0 .. call.size :
        /\ call' = [call EXCEPT !.done = IF n = call.size THEN "all" ELSE "some"]
        /\ call.done = "some" => n > files[call.fid].len
        /\ files' = [files EXCEPT ![call.fid] =
                        [val |-> IF n = 0 THEN NoFile ELSE call.val,
                         len |-> n, once |-> call.once]]
    /\ UNCHANGED result

Remove ==
    /\ call # NoCall
    /\ call.op = "remove"
    /\ call.done = "nothing"
    /\ call' = [call EXCEPT !.done = "all"]
    /\ files' = [files EXCEPT ![call.fid] = NoFile]
    /\ UNCHANGED result

(* A request succeeds when all of it is done and fails when none of it is. *)
Return ==
    /\ call # NoCall
    /\ \/ call.done = "all" /\ result' = "success"
       \/ call.done = "nothing" /\ result' = "failure"
    /\ call' = NoCall
    /\ UNCHANGED files

PowerFailure ==
    /\ call' = NoCall
    /\ result' = "none"
    /\ UNCHANGED files

Next ==
    \/ \E f \in Fids, v \in Vals, n \in 0 .. MaxRequest, once \in BOOLEAN :
          BeginSet(f, v, n, once)
    \/ \E f \in Fids : BeginRemove(f)
    \/ WriteSome
    \/ Remove
    \/ Return
    \/ PowerFailure

Spec == Init /\ [][Next]_fsvars
=============================================================================
