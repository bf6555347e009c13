------------------------------ MODULE MCBoard ------------------------------
(* The board at a scaled width: bytes of four bits, a CRC of eight, one    *)
(* byte of nonce and one of tag.                                           *)
EXTENDS Board, SequencesExt

MCKeystream(nonce, i) == (3 * nonce[1] + 5 * i) % 16
MCMac(nonce, ct) ==
  <<(7 + 3 * nonce[1] + FoldLeft(LAMBDA a, b : (5 * a + b) % 16, 0, ct)) % 16>>

MCButtonMessage == <<9, 8>>

(* Whole frames: one of a client, which the board deciphers, and one of a  *)
(* sender that acts as the board, which the board enciphers.               *)
ClientText == <<10>>
BoardText == <<6>>
FromClient ==
  [bytes |-> encode_frame(2, aead_encrypt_pack(3, ClientText, 16).out),
   says  |-> [user_id |-> 2, text |-> ClientText]]
FromBoardUser ==
  [bytes |-> encode_frame(USER_ID_BOARD, BoardText),
   says  |-> [user_id |-> USER_ID_BOARD, text |-> BoardText]]

(* A frame with its last byte damaged, one with a wrong tag behind a right  *)
(* CRC, and one cut off in its payload.                                    *)
Damaged ==
  LET f == FromClient.bytes
  IN [bytes |-> [f EXCEPT ![Len(f)] = (f[Len(f)] + 1) % 10], says |-> Nothing]
Forged ==
  LET m == aead_encrypt_pack(3, ClientText, 16).out
  IN [bytes |-> encode_frame(2, [m EXCEPT ![Len(m)] = (m[Len(m)] + 1) % 16]),
      says  |-> Nothing]
CutOff ==
  [bytes |-> SubSeq(FromBoardUser.bytes, 1, 5), says |-> Nothing]

AllChunks == {FromClient, FromBoardUser, Damaged, Forged, CutOff}
=============================================================================
