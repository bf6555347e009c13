------------------------------ MODULE MCNonces ------------------------------
(* Bytes of two bits and a counter of two of them.  The cipher itself plays *)
(* no part.                                                                *)
EXTENDS Nonces

NoKeystream(nonce, i) == 0
NoMac(nonce, ct) == <<0>>
=============================================================================
