-------------------------------- MODULE Aead --------------------------------
(***************************************************************************)
(* aead_encrypt_pack and aead_decrypt_unpack of src/src/aead.c, as the      *)
(* board and, through ctypes, the Python client call them.  The cipher and *)
(* the authenticator are parameters: a keystream byte is a function of the *)
(* nonce and its position, a tag one of the nonce and the ciphertext (the  *)
(* one-time key of Poly1305 comes from the nonce).  Both ends hold the     *)
(* same key, so it is not a parameter.                                     *)
(***************************************************************************)
EXTENDS Bytes, Sequences

CONSTANTS
  NONCE_LEN,        \* bytes of a nonce (12)
  CTR_LEN,          \* bytes of the nonce counter (4)
  TAG_LEN,          \* bytes of a tag (16)
  Keystream(_, _),  \* the keystream byte of a nonce at a position
  Mac(_, _)         \* the tag of a ciphertext under a nonce

ASSUME AeadAssumption ==
  /\ NONCE_LEN \in Nat
  /\ CTR_LEN \in Nat \ {0}
  /\ TAG_LEN \in Nat

AeadFailure == [len |-> -1, out |-> <<>>]

(* The counter, little endian, and zeroes after it. *)
Nonce(ctr) ==
  [i \in 1..NONCE_LEN |->
     IF i <= CTR_LEN THEN (ctr \div pow2[BYTE_BITS * (i - 1)]) % BYTE_SIZE ELSE 0]

(* The number of values of an unsigned int, and s_nonce_ctr++ on it. *)
CTR_SIZE == pow2[BYTE_BITS * CTR_LEN]
NextCtr(ctr) == (ctr + 1) % CTR_SIZE

chacha20_xor(nonce, bytes) ==
  [i \in 1..Len(bytes) |-> Xor(bytes[i], Keystream(nonce, i))]

(* Whether the output has room for the message with nonce and tag. *)
Fits(pt, max_out) == NONCE_LEN + Len(pt) + TAG_LEN <= max_out

aead_encrypt_pack(ctr, pt, max_out) ==
  LET nonce == Nonce(ctr)
      ct    == chacha20_xor(nonce, pt)
      out   == nonce \o ct \o Mac(nonce, ct)
  IN IF Fits(pt, max_out) THEN [len |-> Len(out), out |-> out] ELSE AeadFailure

(* Nothing is deciphered before the tag has been found right. *)
TagMatches_Never(nonce, ct, tag) == TRUE
TagMatches(nonce, ct, tag) == tag = Mac(nonce, ct)

aead_decrypt_unpack(in, max_pt) ==
  LET ct_len == Len(in) - NONCE_LEN - TAG_LEN
      nonce  == SubSeq(in, 1, NONCE_LEN)
      ct     == SubSeq(in, NONCE_LEN + 1, NONCE_LEN + ct_len)
      tag    == SubSeq(in, NONCE_LEN + ct_len + 1, Len(in))
  IN IF ct_len >= 0 /\ ct_len <= max_pt /\ TagMatches(nonce, ct, tag)
       THEN [len |-> ct_len, out |-> chacha20_xor(nonce, ct)]
       ELSE AeadFailure
=============================================================================
