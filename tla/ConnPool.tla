------------------------------ MODULE ConnPool ------------------------------
(***************************************************************************)
(* The connection pool: tfm_pools.c and the UNI_LIST macros of lists.h, at *)
(* the level of the links of the free list.                                *)
(*                                                                         *)
(* PSA API handlers and PendSV allocate and free with the scheduler        *)
(* locked.  tfm_rpc_client_call_reply frees from the mailbox agent's       *)
(* thread, with the scheduler unlocked: between two of its stores an       *)
(* interrupt may switch to a partition that outranks the agent, and whose  *)
(* handlers allocate and free.                                             *)
(***************************************************************************)
EXTENDS Naturals

CONSTANTS
    NumChunks,    \* num of tfm_pool_init
    NULL          \* the end of a list

ASSUME PoolAssumption ==
    /\ NumChunks \in Nat \ {0}
    /\ NULL \notin 0 .. NumChunks

HEAD == 0                   \* the node in the pool's instance
Chunks == 1 .. NumChunks    \* pool->chunks

VARIABLES
    next,    \* the link of the pool's head and of every chunk
    magic,   \* chunks that carry POOL_MAGIC_ALLOCATED
    users,   \* how many connections live in a chunk
    pc,      \* where the agent is in tfm_pool_free
    node,    \* the chunk it frees
    moved    \* history: the agent stored a head over one that had moved

poolvars == <<next, magic, users, pc, node, moved>>

(* is_valid_chunk_data_in_pool of a chunk of the pool.                     *)
IsValidChunk(c) == c \in magic

(* tfm_pool_init inserts each chunk after the head: the last is the first. *)
PoolInit ==
    /\ next = [x \in Chunks \cup {HEAD} |->
                 IF x = HEAD THEN NumChunks ELSE IF x = 1 THEN NULL ELSE x - 1]
    /\ magic = {}
    /\ users = [c \in Chunks |-> 0]
    /\ pc = "run"
    /\ node = NULL
    /\ moved = FALSE

(* Mutant: the removed node is not unlinked.                               *)
KeepHead(n) == next

(* UNI_LIST_REMOVE_NODE(pool, n, next).                                    *)
RemoveFirst(n) == [next EXCEPT ![HEAD] = next[n], ![n] = NULL]

(* tfm_pool_alloc.  Its assertion, like the one of tfm_pool_free, stops    *)
(* the system.                                                             *)
Alloc ==
    /\ next[HEAD] # NULL
    /\ LET n == next[HEAD]
       IN  /\ ~IsValidChunk(n)
           /\ next' = RemoveFirst(n)
           /\ magic' = magic \cup {n}
           /\ users' = [users EXCEPT ![n] = @ + 1]
    /\ UNCHANGED <<pc, node, moved>>

(* tfm_pool_free with the scheduler locked.                                *)
Free(c) ==
    /\ users[c] > 0
    /\ IsValidChunk(c)
    /\ c # node
    /\ magic' = magic \ {c}
    /\ next' = [next EXCEPT ![c] = next[HEAD], ![HEAD] = c]
    /\ users' = [users EXCEPT ![c] = @ - 1]
    /\ UNCHANGED <<pc, node, moved>>

(* tfm_pool_free in the agent's thread, store by store.                    *)
AgentFree(c) ==
    /\ pc = "run"
    /\ users[c] > 0
    /\ IsValidChunk(c)
    /\ node' = c
    /\ magic' = magic \ {c}
    /\ pc' = "link"
    /\ UNCHANGED <<next, users, moved>>

AgentLink ==
    /\ pc = "link"
    /\ next' = [next EXCEPT ![node] = next[HEAD]]
    /\ pc' = "head"
    /\ UNCHANGED <<magic, users, node, moved>>

AgentHead ==
    /\ pc = "head"
    /\ next' = [next EXCEPT ![HEAD] = node]
    /\ moved' = (moved \/ next[HEAD] # next[node])
    /\ users' = [users EXCEPT ![node] = @ - 1]
    /\ node' = NULL
    /\ pc' = "run"
    /\ UNCHANGED magic

PoolNext ==
    \/ Alloc
    \/ \E c \in Chunks : Free(c) \/ AgentFree(c)
    \/ AgentLink
    \/ AgentHead

PoolSpec == PoolInit /\ [][PoolNext]_poolvars

(* The links from the pool's head go through the n chunks of s, in order.  *)
Chained(s, n) ==
    /\ next[HEAD] = IF n = 0 THEN NULL ELSE s[1]
    /\ \A k \in 1 .. n : next[s[k]] = IF k = n THEN NULL ELSE s[k + 1]

FreeChunks == {c \in Chunks : users[c] = 0}

(* The chunks on the free list are exactly those nobody uses, each once,   *)
(* and a chunk carries the magic number from its allocation to the start   *)
(* of its free.  This holds also while the agent is inside tfm_pool_free   *)
(* and others allocate and free: what ends it is just that the head of the *)
(* list is another one when the agent stores its node there than when it   *)
(* read it, and nothing prevents that ("There is only one instance in SPM  *)
(* to call the connection pool allocation.  There is no need to be         *)
(* protected.", spm_ipc.c).                                                *)
FreeListExact ==
    ~moved =>
        /\ \E n \in 0 .. NumChunks : \E s \in [1 .. n -> FreeChunks] :
              /\ \A i, j \in 1 .. n : s[i] = s[j] => i = j
              /\ \A c \in FreeChunks : \E i \in 1 .. n : s[i] = c
              /\ Chained(s, n)
        /\ magic = (Chunks \ FreeChunks) \ {node}
=============================================================================
