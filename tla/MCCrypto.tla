------------------------------ MODULE MCCrypto ------------------------------
(* Two clients of the crypto service for TLC.                              *)
EXTENDS CryptoOperations, TLC

CONSTANTS a1, a2, a3, b1, b2, A, B

(* Client A has two hash operations and a cipher operation, client B,      *)
(* which overwrites its handles, a hash operation and a key derivation.    *)
ClientOfAll == (a1 :> A) @@ (a2 :> A) @@ (a3 :> A) @@ (b1 :> B) @@ (b2 :> B)
TypeOfAll ==
    (a1 :> "hash") @@ (a2 :> "hash") @@ (a3 :> "cipher") @@ (b1 :> "hash")
        @@ (b2 :> "key_derivation")
=============================================================================
