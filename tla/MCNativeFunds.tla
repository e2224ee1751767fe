--------------------------- MODULE MCNativeFunds ----------------------------
(***************************************************************************)
(* NativeFunds with two signer vectors: the second drops one address and   *)
(* lists another twice, as initialize_signers allows.                      *)
(***************************************************************************)
EXTENDS NativeFunds

CONSTANTS a1, a2, a3

MCSignerVectors == {<<a1, a2, a3>>, <<a2, a3, a3>>}

=============================================================================
