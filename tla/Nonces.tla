------------------------------- MODULE Nonces -------------------------------
(***************************************************************************)
(* The nonces that aead_encrypt_pack of src/src/aead.c uses up in the       *)
(* processes linked with it: the board, and the library of every client.   *)
(* Each has a counter of its own.  A new run of the client program loads   *)
(* the library anew and so sets it to 1; the board's is initialised data,  *)
(* which boot.S leaves alone (it clears .bss), so that it begins at 1 when *)
(* the program is loaded again and goes on when the board is only reset.   *)
(***************************************************************************)
EXTENDS Aead

CONSTANTS
  Parties,      \* who enciphers: the board, the clients
  Clients,      \* those of them that run the Python client
  Lengths,      \* lengths of the messages
  MAX_OUT,      \* room for a packed message
  MaxSealed,    \* bound: messages enciphered by one party
  MaxSessions   \* bound: starts of one party

VARIABLES
  s_nonce_ctr,  \* the counter of each party
  session,      \* starts of each party
  sealed        \* history: the nonces each party has used, <<session, nonce>>

vars == <<s_nonce_ctr, session, sealed>>

Init ==
  /\ s_nonce_ctr = [p \in Parties |-> 1]
  /\ session = [p \in Parties |-> 1]
  /\ sealed = [p \in Parties |-> <<>>]

(* aead_encrypt_pack: a message that is too long takes no nonce. *)
Encrypt(p, len) ==
  \/ /\ NONCE_LEN + len + TAG_LEN <= MAX_OUT
     /\ Len(sealed[p]) < MaxSealed
     /\ sealed' = [sealed EXCEPT ![p] = Append(@, <<session[p], Nonce(s_nonce_ctr[p])>>)]
     /\ s_nonce_ctr' = [s_nonce_ctr EXCEPT ![p] = NextCtr(@)]
     /\ UNCHANGED session
  \/ /\ NONCE_LEN + len + TAG_LEN > MAX_OUT
     /\ UNCHANGED vars

Restart(p) ==
  /\ session[p] < MaxSessions
  /\ session' = [session EXCEPT ![p] = @ + 1]
  /\ \/ s_nonce_ctr' = [s_nonce_ctr EXCEPT ![p] = 1]
     \/ p \notin Clients /\ UNCHANGED s_nonce_ctr  \* a reset of the board
  /\ UNCHANGED sealed

Next ==
  \E p \in Parties :
    \/ \E len \in Lengths : Encrypt(p, len)
    \/ Restart(p)

Spec == Init /\ [][Next]_vars

-----------------------------------------------------------------------------
(* PROTOCOL.md:31, "Nonce is generated per message (counter-based on board, *)
(* random on client)": the nonces a client draws do not begin again with   *)
(* the first ones each time it is started.                                 *)
ClientNoncesStartAnew ==
  \A p \in Clients : \A i, j \in 1..Len(sealed[p]) :
    sealed[p][i][1] < sealed[p][j][1] => sealed[p][i][2] # sealed[p][j][2]
=============================================================================
