------------------------------ MODULE Payload -------------------------------
(***************************************************************************)
(* The payload of a notification: the base64url conversions of             *)
(* src/string-manipulation.ts, the keys of a subscription, and the         *)
(* encrypted content coding of src/crypto.ts (RFC 8188, RFC 8291), with    *)
(* the sender of examples/listen_send as its counterpart.                  *)
(*                                                                         *)
(* Pure functions, no state.  What the platform's crypto computes is a     *)
(* term that says what it was computed from: a secret two key pairs share  *)
(* is the set of their public keys, a derived key is the tuple of the      *)
(* inputs.  Only the cipher works on bytes, and is a parameter.            *)
(***************************************************************************)
EXTENDS Integers, Sequences

Byte == 0 .. 255

CONSTANTS
  PrivateKey,     \* the EC private keys
  PublicKeyOf,    \* [PrivateKey -> Seq(Byte)], their uncompressed public keys, which are
                  \* points of one curve and have all the same length
  Seal(_, _, _),  \* AES-128-GCM with key and nonce: the ciphertext with its tag
  Open(_, _, _),  \* its inverse, Thrown for anything that was not sealed so
  Thrown,         \* what a function returns that throws
  Undefined       \* no key

ASSUME KeysAssumption ==
  /\ PublicKeyOf \in [PrivateKey -> Seq(Byte)]
  /\ \A d \in PrivateKey : Len(PublicKeyOf[d]) \in Byte
  /\ \A d, e \in PrivateKey : Len(PublicKeyOf[d]) = Len(PublicKeyOf[e])
  /\ Undefined \notin PrivateKey

-----------------------------------------------------------------------------
(* base64 and base64url.  A character is a number: 0 .. 61 are A-Z, a-z and 0-9. *)

Plus == 62  Slash == 63  Minus == 64  Underscore == 65  Equals == 66
Character == 0 .. 66

\* Beyond the end all bits are zero.
At(s, i) == IF i \in DOMAIN s THEN s[i] ELSE 0

\* Three bytes x, y, z are four digits of six bits.
Digit(b, j) ==
  LET q == 3 * ((j - 1) \div 4)
      x == At(b, q + 1)
      y == At(b, q + 2)
      z == At(b, q + 3)
  IN <<x \div 4, (x % 4) * 16 + y \div 16, (y % 16) * 4 + z \div 64, z % 64>>[1 + ((j - 1) % 4)]

\* Buffer.toString("base64") and btoa: what is no digit is filled up to four.
fromBufferToB64(b) ==
  [j \in 1 .. 4 * ((Len(b) + 2) \div 3) |->
     IF j <= (4 * Len(b) + 2) \div 3 THEN Digit(b, j) ELSE Equals]

\* Four digits t, u, v, w are three bytes.
Octet(d, i) ==
  LET q == 4 * ((i - 1) \div 3)
      t == At(d, q + 1)
      u == At(d, q + 2)
      v == At(d, q + 3)
      w == At(d, q + 4)
  IN <<t * 4 + u \div 16, (u % 16) * 16 + v \div 4, (v % 4) * 64 + w>>[1 + ((i - 1) % 3)]

\* Without the padding, which is only ever at the end: what is left is a sequence.
Unpadded(s) == [i \in {j \in DOMAIN s : s[j] # Equals} |-> s[i]]

\* Buffer.from(s, "base64") and atob, for the characters of base64; bits that do
\* not fill a byte are dropped.
fromB64ToBuffer(s) ==
  LET d == Unpadded(s)
  IN [i \in 1 .. (3 * Len(d)) \div 4 |-> Octet(d, i)]

Replace(s, from, to) == [i \in DOMAIN s |-> LET c == s[i] IN IF c = from THEN to ELSE c]

fromB64toUrlB64(s) ==
  Unpadded(Replace(Replace(s, Plus, Minus), Slash, Underscore))

\* A plausible slip: only the padding is put back, not the alphabet.
fromUrlB64ToB64Alphabet(s) ==
  CASE Len(s) % 4 = 0 -> s
    [] Len(s) % 4 = 2 -> s \o <<Equals, Equals>>
    [] Len(s) % 4 = 3 -> s \o <<Equals>>
    [] OTHER -> Thrown

\* The padding is put back by the length; one digit more than a multiple of four
\* is no base64url.
fromUrlB64ToB64(s) ==
  LET output == Replace(Replace(s, Minus, Plus), Underscore, Slash)
  IN CASE Len(s) % 4 = 0 -> output
       [] Len(s) % 4 = 2 -> output \o <<Equals, Equals>>
       [] Len(s) % 4 = 3 -> output \o <<Equals>>
       [] OTHER -> Thrown

fromBufferToUrlB64(b) == fromB64toUrlB64(fromBufferToB64(b))

fromUrlB64ToBuffer(s) ==
  IF fromUrlB64ToB64(s) = Thrown THEN Thrown ELSE fromB64ToBuffer(fromUrlB64ToB64(s))

\* fromBufferToUtf8, for characters of one or two bytes: the code points of the text,
\* each at the byte its character begins with.  What is malformed is U+FFFD.
Replacement == 65533
CodePoint == 0 .. Replacement
IsText(text) == DOMAIN text \subseteq Nat /\ \A i \in DOMAIN text : text[i] \in CodePoint

IsContinued(b, i) == b[i] \in 194 .. 223 /\ i < Len(b) /\ b[i + 1] \in 128 .. 191
fromBufferToUtf8(b) ==
  [i \in {j \in 1 .. Len(b) : j = 1 \/ ~IsContinued(b, j - 1)} |->
     IF b[i] < 128 THEN b[i]
     ELSE IF IsContinued(b, i) THEN (b[i] - 192) * 64 + (b[i + 1] - 128) ELSE Replacement]

-----------------------------------------------------------------------------
(* Keys *)

\* generateEcKeys, for the private key that was drawn.
EcKeys(d) == [privateKey |-> d, uncompressedPublicKey |-> PublicKeyOf[d]]

\* extractPrivateJwk: the private number with the point that belongs to it.
extractPrivateJwk(ecKeys) == [d |-> ecKeys.privateKey, point |-> PublicKeyOf[ecKeys.privateKey]]

\* parsePrivateJwk: the private key from the whole, the public one from the point.
parsePrivateJwk(jwk) == [privateKey |-> jwk.d, uncompressedPublicKey |-> jwk.point]

-----------------------------------------------------------------------------
(* Content *)

\* A plausible slip: it is not looked at what delimits the data.
removePaddingUnchecked(data, isLastRecord) ==
  LET filled == {i \in 1 .. Len(data) : data[i] # 0}
      paddingIndex == CHOOSE i \in filled : \A j \in filled : j <= i
  IN IF filled = {} THEN Thrown ELSE SubSeq(data, 1, paddingIndex - 1)

\* The last byte that is not zero delimits the data, and must be the right one.
removePadding(data, isLastRecord) ==
  LET filled == {i \in 1 .. Len(data) : data[i] # 0}
      paddingIndex == CHOOSE i \in filled : \A j \in filled : j <= i
  IN IF filled = {} \/ data[paddingIndex] # (IF isLastRecord THEN 2 ELSE 1)
       THEN Thrown
       ELSE SubSeq(data, 1, paddingIndex - 1)

\* content.slice(from, to) of JavaScript: as far as there is content.
Slice(content, from, to) ==
  SubSeq(content, from + 1, IF to <= Len(content) THEN to ELSE Len(content))

\* The header of the content.  getUint8 throws where there is no byte to read.
splitContent(content) ==
  IF Len(content) <= 20
    THEN Thrown
    ELSE LET keyIdSize == content[21]
         IN [salt |-> Slice(content, 0, 16),
             serverPublicKey |-> Slice(content, 21, 21 + keyIdSize),
             encryptedContent |-> Slice(content, 21 + keyIdSize, Len(content))]

\* createInfo: the type, a null byte, the values.
createInfo(type, values) == <<type, 0>> \o values

\* subtle.deriveBits: the secret of two key pairs; HKDF.
SharedSecret(privateKey, publicKey) == {PublicKeyOf[privateKey], publicKey}
Hkdf(salt, info, secret, bits) == <<salt, info, secret, bits>>

\* Whose private key is at hand, and the other side's public key.
OwnPrivateKey(userAgentKeys, serverKeys) ==
  IF userAgentKeys.privateKey # Undefined THEN userAgentKeys.privateKey ELSE serverKeys.privateKey
OtherPublicKey(userAgentKeys, serverKeys) ==
  IF userAgentKeys.privateKey # Undefined THEN serverKeys.publicKey ELSE userAgentKeys.publicKey

\* The info of the first derivation names the user agent's key first, on both sides.
keyInfo(userAgentKeys, serverKeys) ==
  createInfo("WebPush: info", userAgentKeys.publicKey \o serverKeys.publicKey)

\* Either side calls it with its own private key and Undefined for the other's.
deriveKeyAndNonce(userAgentKeys, serverKeys, secret, salt) ==
  LET shared == SharedSecret(OwnPrivateKey(userAgentKeys, serverKeys),
                             OtherPublicKey(userAgentKeys, serverKeys))
      prk == Hkdf(secret, keyInfo(userAgentKeys, serverKeys), shared, 256)
  IN [contentEncryptionKey |-> Hkdf(salt, createInfo("Content-Encoding: aes128gcm", <<>>), prk, 128),
      nonce |-> Hkdf(salt, createInfo("Content-Encoding: nonce", <<>>), prk, 96)]

\* importKey("raw") takes the encodings of points only.
IsPoint(bytes) == \E d \in PrivateKey : PublicKeyOf[d] = bytes

\* webPushDecryptPrep.
webPushDecryptPrep(keys, content) ==
  LET header == splitContent(content)
  IN IF header = Thrown \/ ~IsPoint(header.serverPublicKey)
       THEN Thrown
       ELSE [derived |-> deriveKeyAndNonce([privateKey |-> keys.ecKeys.privateKey,
                                            publicKey |-> keys.ecKeys.uncompressedPublicKey],
                                           [privateKey |-> Undefined,
                                            publicKey |-> header.serverPublicKey],
                                           keys.auth, header.salt),
             encryptedContent |-> header.encryptedContent]

\* aesGcmDecrypt.
aesGcmDecrypt(data, derived) == Open(derived.contentEncryptionKey, derived.nonce, data)

\* What handleNotification makes of the data of a notification: Thrown by any of
\* the steps, or the bytes that were sent.
DecryptData(keys, data) ==
  LET content == fromUrlB64ToBuffer(data)
      prepared == webPushDecryptPrep(keys, content)
      decrypted == aesGcmDecrypt(prepared.encryptedContent, prepared.derived)
  IN IF content = Thrown \/ prepared = Thrown \/ decrypted = Thrown
       THEN Thrown
       ELSE removePadding(decrypted, TRUE)

-----------------------------------------------------------------------------
(* The sender (examples/listen_send/src/send.command.ts) *)

\* The content for a plaintext that is padded already.
EncryptPadded(padded, p256dh, auth, serverKey, salt) ==
  LET userAgentPublic == fromUrlB64ToBuffer(p256dh)
      serverPublic == PublicKeyOf[serverKey]
      derived == deriveKeyAndNonce([privateKey |-> Undefined, publicKey |-> userAgentPublic],
                                   [privateKey |-> serverKey, publicKey |-> serverPublic],
                                   fromUrlB64ToBuffer(auth), salt)
  IN salt \o <<0, 0, 4, 0>> \o <<Len(serverPublic)>> \o serverPublic
       \o Seal(derived.contentEncryptionKey, derived.nonce, padded)

\* The delimiter of the last record, and any number of zeros (the example has four).
Padded(data, zeros) == data \o <<2>> \o [i \in 1 .. zeros |-> 0]

\* aes128GcmEncrypt
aes128GcmEncrypt(data, zeros, p256dh, auth, serverKey, salt) ==
  EncryptPadded(Padded(data, zeros), p256dh, auth, serverKey, salt)
=============================================================================
