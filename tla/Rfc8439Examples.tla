-------------------------- MODULE Rfc8439Examples --------------------------
(* The examples of RFC 8439, sections 2.4.2 and 2.6.2. *)
EXTENDS Integers, Sequences

Key == [i \in 1..32 |-> i - 1]
Nonce == <<0, 0, 0, 0, 0, 0, 0, 74, 0, 0, 0, 0>>
Plain ==
  <<76, 97, 100, 105, 101, 115, 32, 97, 110, 100, 32, 71, 101, 110, 116, 108,
    101, 109, 101, 110, 32, 111, 102, 32, 116, 104, 101, 32, 99, 108, 97, 115,
    115, 32, 111, 102, 32, 39, 57, 57, 58, 32, 73, 102, 32, 73, 32, 99,
    111, 117, 108, 100, 32, 111, 102, 102, 101, 114, 32, 121, 111, 117, 32, 111,
    110, 108, 121, 32, 111, 110, 101, 32, 116, 105, 112, 32, 102, 111, 114, 32,
    116, 104, 101, 32, 102, 117, 116, 117, 114, 101, 44, 32, 115, 117, 110, 115,
    99, 114, 101, 101, 110, 32, 119, 111, 117, 108, 100, 32, 98, 101, 32, 105,
    116, 46>>
Cipher ==
  <<110, 46, 53, 154, 37, 104, 249, 128, 65, 186, 7, 40, 221, 13, 105, 129,
    233, 126, 122, 236, 29, 67, 96, 194, 10, 39, 175, 204, 253, 159, 174, 11,
    249, 27, 101, 197, 82, 71, 51, 171, 143, 89, 61, 171, 205, 98, 179, 87,
    22, 57, 214, 36, 230, 81, 82, 171, 143, 83, 12, 53, 159, 8, 97, 216,
    7, 202, 13, 191, 80, 13, 106, 97, 86, 163, 142, 8, 138, 34, 182, 94,
    82, 188, 81, 77, 22, 204, 248, 6, 129, 140, 233, 26, 183, 121, 55, 54,
    90, 249, 11, 191, 116, 163, 91, 230, 180, 11, 142, 237, 242, 120, 94, 66,
    135, 77>>
PolyKey ==
  <<138, 213, 160, 139, 144, 95, 129, 204, 129, 80, 64, 39, 74, 178, 148, 113,
    168, 51, 182, 55, 227, 253, 13, 165, 8, 219, 184, 226, 253, 209, 166, 70>>

PolyKeyJob ==
  [key |-> [i \in 1..32 |-> 127 + i], nonce |-> <<0, 0, 0, 0, 0, 1, 2, 3, 4, 5, 6, 7>>,
   counter |-> <<0, 0>>, input |-> [i \in 1..32 |-> 0], calls |-> <<32>>,
   expected |-> PolyKey]

MessageJob(calls) ==
  [key |-> Key, nonce |-> Nonce, counter |-> <<0, 1>>, input |-> Plain,
   calls |-> calls, expected |-> Cipher]

(* A message in one call, a message in two, of which the first ends with a  *)
(* block, and the key that derive_poly_key makes of block zero.            *)
Examples == {MessageJob(<<114>>), MessageJob(<<64, 50>>), PolyKeyJob}
=============================================================================
