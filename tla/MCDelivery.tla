----------------------------- MODULE MCDelivery -----------------------------
(* Delivery with a cipher that can be computed, and the letters around the boundaries. *)
EXTENDS Delivery

LOCAL INSTANCE Functions
LOCAL INSTANCE TLC

CONSTANTS d1, d2  \* private keys; the server's is d2, which a subscription may draw as well

MCPrivateKey == {d1, d2}
MCPublicKeyOf == (d1 :> <<4, 251, 255, 0, 1>>) @@ (d2 :> <<4, 62, 63, 250, 0>>)

MCAuth == {[i \in 1 .. 16 |-> 251], [i \in 1 .. 16 |-> (37 * i) % 256]}
MCSalt == [i \in 1 .. 16 |-> 17 * (i - 1)]

-----------------------------------------------------------------------------
\* A cipher: the key is a number computed of all the bytes it was derived from,
\* which is added to each byte of the plaintext; the tag is two bytes computed of
\* the key, the nonce and the plaintext.
Checksum(bytes) ==
  FoldFunction(LAMBDA x, y : x + y, 0, [i \in DOMAIN bytes |-> (i + 2) * (bytes[i] + 1)])

Number(derived) ==
  LET prk == derived[3]
      info == SubSeq(prk[2], 3, Len(prk[2]))
      shared == prk[3]
  IN Checksum(derived[1]) + 3 * Checksum(prk[1]) + 5 * Checksum(info)
       + 7 * FoldFunction(LAMBDA x, y : x + y, 0, [p \in shared |-> Checksum(p)])

Tag(key, nonce, plaintext) ==
  LET n == Number(key) + 11 * Number(nonce) + 13 * Checksum(plaintext)
  IN <<n % 256, (n \div 256) % 256>>

MCSeal(key, nonce, plaintext) ==
  LET shift == Number(key)
  IN [i \in DOMAIN plaintext |-> (plaintext[i] + shift) % 256] \o Tag(key, nonce, plaintext)

MCOpen(key, nonce, ciphertext) ==
  LET n == Len(ciphertext) - 2
      shift == Number(key)
      plaintext == [i \in 1 .. n |-> (ciphertext[i] - shift) % 256]
  IN IF n < 0 \/ Tag(key, nonce, plaintext) # SubSeq(ciphertext, n + 1, n + 2)
       THEN Thrown
       ELSE plaintext

-----------------------------------------------------------------------------
\* Content of 35 bytes: salt 1-16, record size 17-20, key size 21, key 22-26,
\* ciphertext 27-33, tag 34-35; 47 characters.
Hi == [kind |-> "data", padded |-> <<72, 105, 2, 0, 0, 0, 0>>, serverKey |-> d2, salt |-> MCSalt,
       forAuth |-> Undefined, forKey |-> Undefined, fromStorage |-> FALSE, changed |-> 0, lost |-> 0]

MCLetter ==
  {[Hi EXCEPT !.kind = k] : k \in {"null", "encoding"}}
  \cup
  {[Hi EXCEPT !.padded = p] :
     p \in {<<72, 105, 2, 0, 0, 0, 0>>,
            <<2, 0>>,           \* no data
            <<72, 0, 0, 2>>,    \* data that ends in zeros, no padding but the delimiter
            <<1, 2, 2, 0>>,     \* data that ends in delimiters
            <<195, 188, 2>>,    \* a character of two bytes
            <<72, 1, 0>>,       \* the delimiter of a record that is not the last
            <<72>>,             \* no delimiter
            <<0, 0>>,           \* nothing but zeros
            <<>>}}              \* nothing
  \cup
  {[Hi EXCEPT !.changed = i] : i \in {1, 17, 21, 22, 27, 35, 36}}
  \cup
  \* One character, an impossible length, all of the ciphertext, a part of the key, all of
  \* the key, its size as well, a part of the salt, everything.
  {[Hi EXCEPT !.lost = n] : n \in {1, 2, 12, 16, 19, 20, 36, 47}}
  \cup
  {[Hi EXCEPT !.fromStorage = TRUE]}
  \cup
  {[Hi EXCEPT !.forAuth = a] : a \in MCAuth}
  \cup
  {[Hi EXCEPT !.forKey = k] : k \in {d1, d2}}
=============================================================================
