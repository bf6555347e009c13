---------------------------- MODULE MCRxSampler ----------------------------
(* Instances of RxSampler: bytes with every bit value next to every other, *)
(* and senders as slow as eight timer periods per bit, or faster and with  *)
(* samples that are late by the difference.                                *)
EXTENDS RxSampler

AllZero == {}
AllOne == 0..7
Alternating == {0, 2, 4, 6}
LastOnly == {7}

AtTheLimit ==
  {[bit |-> 285, late |-> 27], [bit |-> 300, late |-> 12], [bit |-> 312, late |-> 0]}

(* They are within what the proofs ask of a setting. *)
ASSUME SettingsTolerated == WithinTolerance

SomeBytes == {AllZero, AllOne, Alternating, LastOnly}
=============================================================================
