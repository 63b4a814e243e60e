-------------------------- MODULE CryptoOperations --------------------------
(***************************************************************************)
(* Multipart operations of the crypto service: the table of contexts of    *)
(* crypto_alloc.c, its use by the hash, MAC, cipher, AEAD and key          *)
(* derivation modules, and the handles in the operation objects of the     *)
(* clients (interface/src/tfm_crypto_api.c).                               *)
(*                                                                         *)
(* The service handles one request at a time.  What the crypto library     *)
(* keeps in a context is abstracted to the set of operation objects whose  *)
(* requests it worked on there, empty in a context that was aborted.       *)
(***************************************************************************)
EXTENDS Naturals, FiniteSets, FiniteSetsExt

CONSTANTS
    Objects,      \* operation objects of all clients
    ClientOf,     \* the client of an object
    TypeOf,       \* hash, mac, cipher, aead or key_derivation
    NumContexts,  \* CRYPTO_CONC_OPER_NUM
    Careless,     \* clients that write over the handles in their objects
    Garbage,      \* what they write there
    None

Types == {"hash", "mac", "cipher", "aead", "key_derivation"}
Contexts == 1 .. NumContexts
Clients == {ClientOf[o] : o \in Objects}

ASSUME CryptoAssumption ==
    /\ NumContexts \in Nat \ {0}
    /\ TypeOf \in [Objects -> Types]
    /\ None \notin Objects /\ None \notin Clients /\ None \notin Types
    /\ Garbage \subseteq Nat

VARIABLES
    operations,  \* the table: owner, type and what the library has in it
    handle,      \* operation->handle of each object
    caller       \* g_client_id

vars == <<operations, handle, caller>>

Free == [owner |-> None, type |-> None, data |-> {}]
InUse(i) == operations[i].type # None

-----------------------------------------------------------------------------
(* crypto_alloc.c.                                                         *)

FreeContexts == {i \in Contexts : ~InUse(i)}

(* tfm_crypto_operation_alloc: the first free context.                     *)
Alloc == Min(FreeContexts)

Taken(o) == [owner |-> ClientOf[o], type |-> TypeOf[o], data |-> {o}]

(* Mutants: the type or the owner of the context is not checked.           *)
FoundAnyType(o) ==
    handle[o] \in Contexts /\ InUse(handle[o]) /\ operations[handle[o]].owner = ClientOf[o]
FoundAnyOwner(o) ==
    handle[o] \in Contexts /\ operations[handle[o]].type = TypeOf[o]

(* tfm_crypto_operation_lookup with the handle of object o.                *)
Found(o) ==
    /\ handle[o] \in Contexts
    /\ operations[handle[o]].type = TypeOf[o]
    /\ operations[handle[o]].owner = ClientOf[o]

(* tfm_crypto_operation_release of a context that was looked up.           *)
Released(i) == [operations EXCEPT ![i] = Free]

-----------------------------------------------------------------------------
(* Requests.  Every one sets the identity of the caller first.             *)

From(o) == caller' = ClientOf[o]

NoEffect == UNCHANGED <<operations, handle>>

(* Mutant: a context that could not be set up is not released.             *)
SetupFailsKeeping(o) == operations' = [operations EXCEPT ![Alloc] = Taken(o)]

(* The context is taken and released again.                                *)
SetupFails(o) == UNCHANGED operations

(* psa_hash_setup, psa_mac_sign_setup ... : an object in use is refused,   *)
(* and so is one more operation than there are contexts.                   *)
Setup(o) ==
    /\ From(o)
    /\ \/ /\ handle[o] # 0 \/ FreeContexts = {}
          /\ NoEffect
       \/ /\ handle[o] = 0 /\ FreeContexts # {}
          /\ operations' = [operations EXCEPT ![Alloc] = Taken(o)]
          /\ handle' = [handle EXCEPT ![o] = Alloc]
       \/ /\ handle[o] = 0 /\ FreeContexts # {}
          /\ SetupFails(o)
          /\ UNCHANGED handle

Active(o) == operations[handle[o]].data # {}

(* The library aborts an operation that fails.                             *)
Aborted(i) == [operations EXCEPT ![i].data = {}]

(* What an error in the middle of an operation leaves: only the cipher     *)
(* module releases the context, with a handle of its own.                  *)
AfterError(o) == IF TypeOf[o] = "cipher" THEN Released(handle[o]) ELSE Aborted(handle[o])

(* psa_hash_update, psa_cipher_update, psa_key_derivation_input_bytes ...  *)
Update(o) ==
    /\ From(o)
    /\ \/ ~Found(o) /\ NoEffect
       \/ /\ Found(o) /\ Active(o)
          /\ operations' = [operations EXCEPT ![handle[o]].data = @ \cup {o}]
          /\ UNCHANGED handle
       \/ /\ Found(o)
          /\ operations' = AfterError(o)
          /\ UNCHANGED handle

(* psa_cipher_set_iv, psa_cipher_generate_iv fail.                         *)
IvFails(o) ==
    /\ From(o)
    /\ TypeOf[o] = "cipher"
    /\ Found(o)
    /\ operations' = Aborted(handle[o])
    /\ UNCHANGED handle

(* The handle in the object is the one in the message's first output.      *)
Ended(o) ==
    /\ operations' = Released(handle[o])
    /\ handle' = [handle EXCEPT ![o] = 0]

(* psa_hash_finish, psa_hash_verify ...; an operation that fails keeps its *)
(* context.                                                                *)
Finish(o) ==
    /\ From(o)
    /\ TypeOf[o] # "key_derivation"
    /\ \/ ~Found(o) /\ NoEffect
       \/ Found(o) /\ Active(o) /\ Ended(o)
       \/ Found(o) /\ operations' = Aborted(handle[o]) /\ UNCHANGED handle

(* psa_hash_abort ...; without a context it succeeds as well.              *)
Abort(o) ==
    /\ From(o)
    /\ IF Found(o) THEN Ended(o) ELSE NoEffect

(* psa_hash_clone: the client refuses a target in use.                     *)
Clone(o, p) ==
    /\ From(o)
    /\ TypeOf[o] = "hash" /\ TypeOf[p] = "hash" /\ ClientOf[o] = ClientOf[p]
    /\ handle[p] = 0
    /\ \/ /\ ~Found(o) \/ FreeContexts = {}
          /\ NoEffect
       \/ /\ Found(o) /\ FreeContexts # {} /\ Active(o)
          /\ operations' = [operations EXCEPT ![Alloc] =
                 [Taken(p) EXCEPT !.data = @ \cup (operations[handle[o]].data \ {o})]]
          /\ handle' = [handle EXCEPT ![p] = Alloc]
       \/ /\ Found(o) /\ FreeContexts # {}
          /\ SetupFails(p)
          /\ UNCHANGED handle

(* A careless client overwrites an operation object.                       *)
Overwrite(o) ==
    /\ ClientOf[o] \in Careless
    /\ \E h \in Garbage : handle' = [handle EXCEPT ![o] = h]
    /\ UNCHANGED <<operations, caller>>

-----------------------------------------------------------------------------
(* tfm_crypto_init_alloc; PSA_*_OPERATION_INIT.                            *)
Init ==
    /\ operations = [i \in Contexts |-> Free]
    /\ handle = [o \in Objects |-> 0]
    /\ caller = None

Next ==
    \E o \in Objects :
        \/ Setup(o) \/ Update(o) \/ IvFails(o) \/ Finish(o) \/ Abort(o)
        \/ \E p \in Objects : Clone(o, p)
        \/ Overwrite(o)

Spec == Init /\ [][Next]_vars

-----------------------------------------------------------------------------
(* Properties.                                                             *)

(* Type correctness.                                                       *)
TypeOK ==
    /\ operations \in [Contexts -> [owner : Clients \cup {None}, type : Types \cup {None},
                                    data : SUBSET Objects]]
    /\ handle \in [Objects -> (0 .. NumContexts) \cup Garbage]
    /\ caller \in Clients \cup {None}

(* A context that is given to a client holds nothing of the operation that *)
(* was in it before, however that one ended (memset_operation_context).    *)
NoResidue == \A i \in Contexts : ~InUse(i) => operations[i] = Free

(* The library works on a context only for the client and the kind of      *)
(* operation that it was set up for: no request finds the context of       *)
(* another client, whatever handles clients send                           *)
(* (tfm_crypto_operation_lookup).                                          *)
ContextOfItsOwner ==
    \A i \in Contexts : \A o \in operations[i].data :
        /\ ClientOf[o] = operations[i].owner
        /\ TypeOf[o] = operations[i].type

(* No request changes or ends an operation of another client, whatever     *)
(* handles clients send.                                                   *)
OthersUntouched ==
    [][\A i \in Contexts : InUse(i) /\ operations'[i] # operations[i]
           => operations[i].owner = caller']_vars

(* Hash, MAC, AEAD and key derivation operations of the clients that leave *)
(* their handles alone.  A cipher update that fails releases the context   *)
(* behind the back of the client.                                          *)
Regular(client, type) == client \notin Careless /\ type # "cipher"
RegularObjects == {o \in Objects : Regular(ClientOf[o], TypeOf[o])}

(* Every context of a regular operation is the one of exactly one object,  *)
(* and every such object with a handle has its context, whatever careless  *)
(* clients send: none is lost on an error path and none is shared          *)
(* (tfm_crypto_operation_alloc, _release and the error paths of their      *)
(* callers).                                                               *)
ContextsAccounted ==
    /\ \A i \in Contexts : InUse(i) /\ Regular(operations[i].owner, operations[i].type)
           => \E o \in RegularObjects : handle[o] = i
    /\ \A o \in RegularObjects : handle[o] # 0 =>
           /\ Found(o)
           /\ operations[handle[o]].data \subseteq {o}
           /\ \A p \in RegularObjects : handle[p] = handle[o] => p = o

=============================================================================
