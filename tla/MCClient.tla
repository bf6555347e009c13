------------------------------ MODULE MCClient ------------------------------
(* The client at the scaled width of MCBoard: bytes of four bits, a CRC of  *)
(* eight, one byte of nonce and one of tag.                                *)
EXTENDS Client, SequencesExt

MCKeystream(nonce, i) == (3 * nonce[1] + 5 * i) % 16
MCMac(nonce, ct) ==
  <<(7 + 3 * nonce[1] + FoldLeft(LAMBDA a, b : (5 * a + b) % 16, 0, ct)) % 16>>

Whole(id, text, says) ==
  [bytes |-> encode_frame(id, text), whole |-> TRUE, says |-> says]
Broken(bytes) == [bytes |-> bytes, whole |-> FALSE, says |-> <<>>]
Says(id, readout) ==
  IF id = ClientId THEN <<>> ELSE <<[user_id |-> id, text |-> readout]>>

(* From the board: an enciphered answer, the plain message of its button,  *)
(* a frame whose cipher text does not fit its tag, which is taken as it is *)
(* and is not UTF-8, and a text for which the output has no characters.    *)
(* And from the client with id 2.                                          *)
Packed == aead_encrypt_pack(3, <<10>>, 16).out
BadTag == [Packed EXCEPT ![3] = (Packed[3] + 1) % 10]
Answer == Whole(USER_ID_BOARD, Packed, Says(USER_ID_BOARD, <<"text", <<10>>>>))
Button == Whole(USER_ID_BOARD, <<9>>, Says(USER_ID_BOARD, <<"text", <<9>>>>))
Forged ==
  Whole(USER_ID_BOARD, BadTag, Says(USER_ID_BOARD, <<"binary", Len(BadTag)>>))
Foreign == Whole(USER_ID_BOARD, <<6>>, Says(USER_ID_BOARD, <<"text", <<6>>>>))
FromClient == Whole(2, <<9>>, Says(2, <<"text", <<9>>>>))
OnlyBadTag == {BadTag}
OnlyForeign == {<<6>>}

(* A frame with its last byte damaged, one cut off, and loose bytes. *)
Damaged ==
  LET f == Button.bytes IN Broken([f EXCEPT ![Len(f)] = (f[Len(f)] + 1) % 10])
CutOff == Broken(SubSeq(Button.bytes, 1, 4))
Loose == Broken(<<10, 3, 10, 10, 0>>)

AllChunks ==
  {Answer, Button, Forged, Foreign, FromClient, Damaged, CutOff, Loose}

(* Lines: blank, one whose cipher text is the two reserved bytes, and one  *)
(* too long for a frame.                                                   *)
SomeLines == {<<>>, <<2, 6>>, [i \in 1..8 |-> 1]}
=============================================================================
