------------------------------ MODULE Delivery ------------------------------
(***************************************************************************)
(* One subscription and its notifications: the keys of                     *)
(* src/push-subscription.ts, their storage and recovery,                   *)
(* handleNotification with the decryption of Payload and the dispatch of   *)
(* EventManager, and what NotificationHandler makes of the outcome.        *)
(*                                                                         *)
(* The application has handed the keys to its server (external), which     *)
(* encrypts with them whenever it likes, also after the process has been   *)
(* stopped and started again.  Acks takes the outcome of a notification    *)
(* from its kind; here it follows from the bytes.                          *)
(***************************************************************************)
EXTENDS Payload, EventManager

CONSTANTS
  Auth,        \* the auth secrets that may be drawn
  Letter,      \* what is sent: see LetterAssumption
  MaxPending   \* bound on the decryptions under way

\* The notifications: of kind "null" without data, "encoding" with another encoding
\* than aes128gcm or no headers, and "data".  The plaintext `padded', padded rightly or
\* wrongly, is encrypted with serverKey and salt for the secret forAuth and the key
\* forKey, Undefined for those of the subscription, which the sender has from the
\* storage or from the application.  On the way the byte at `changed' is changed, if there
\* is one, and the last `lost' characters are lost.
ASSUME LetterAssumption ==
  /\ Undefined \notin Letter
  /\ \A m \in Letter :
       /\ m.kind \in {"null", "encoding", "data"}
       /\ m.padded \in Seq(Byte)
       /\ m.serverKey \in PrivateKey
       /\ m.salt \in Seq(Byte) /\ Len(m.salt) = 16
       /\ m.forAuth \in Auth \cup {Undefined}
       /\ m.forKey \in PrivateKey \cup {Undefined}
       /\ m.fromStorage \in BOOLEAN
       /\ m.changed \in Nat /\ m.lost \in Nat
  /\ \A a \in Auth : a \in Seq(Byte)
  /\ MaxPending \in Nat

VARIABLES
  keys,     \* the keys in memory
  stored,   \* the entries "auth" and "privateEncKey"
  handed,   \* auth and p256dh as toJSON gave them to the application
  pending,  \* the decryptions under way: letter and result
  current,  \* the letter of the dispatch under way, or Undefined
  heard,    \* what its listeners are given: Undefined is null
  answer    \* the outcome that is to be acked: a letter and a code, or Undefined

keyVars == <<keys, stored, handed>>
deliveryVars == <<keyVars, pending, current, heard, answer, eventVars>>

DeliveryTypeOK ==
  /\ EventTypeOK
  /\ keys.auth \in Seq(Byte) /\ keys.ecKeys.privateKey \in PrivateKey
  /\ \A p \in pending : p.letter \in Letter /\ p.result \in Seq(Byte) \cup {Thrown}
  /\ current \in Letter \cup {Undefined} /\ (dispatching <=> current # Undefined)
  /\ heard = Undefined \/ IsText(heard)
  /\ \/ answer = Undefined
     \/ answer.letter \in Letter /\ answer.code \in {"SUCCESS", "DECRYPT_FAIL", "OTHER_FAIL"}

-----------------------------------------------------------------------------
(* The keys *)

\* generateKeys: what it returns and what it writes, for the secret and the key
\* that were drawn.
GenerateKeys(auth, d) ==
  /\ keys = [auth |-> auth, ecKeys |-> EcKeys(d)]
  /\ stored = [auth |-> fromBufferToUrlB64(auth), privateEncKey |-> extractPrivateJwk(EcKeys(d))]

\* readKeys: what recover finds in the storage.
ReadKeys == [auth |-> fromUrlB64ToBuffer(stored.auth),
             ecKeys |-> parsePrivateJwk(stored.privateEncKey)]

\* toJSON, getKey
toJSON(k) == [auth |-> fromBufferToUrlB64(k.auth),
              p256dh |-> fromBufferToUrlB64(k.ecKeys.uncompressedPublicKey)]

DeliveryInit ==
  /\ \E auth \in Auth, d \in PrivateKey :
       GenerateKeys(auth, d) /\ handed = toJSON([auth |-> auth, ecKeys |-> EcKeys(d)])
  /\ pending = {}
  /\ current = Undefined /\ heard = Undefined /\ answer = Undefined
  /\ EventInit

-----------------------------------------------------------------------------
(* The server and the way (external) *)

Changed(content, at) == [i \in DOMAIN content |-> IF i = at THEN (content[i] + 1) % 256 ELSE content[i]]

\* The sender of the example shares the storage with the process.
readSubscription ==
  [auth |-> stored.auth,
   p256dh |-> fromBufferToUrlB64(parsePrivateJwk(stored.privateEncKey).uncompressedPublicKey)]

\* The keys it is encrypted with.
KnownTo(m) == IF m.fromStorage THEN readSubscription ELSE handed
AuthOf(m) == IF m.forAuth = Undefined THEN KnownTo(m).auth ELSE fromBufferToUrlB64(m.forAuth)
P256dhOf(m) == IF m.forKey = Undefined THEN KnownTo(m).p256dh ELSE fromBufferToUrlB64(PublicKeyOf[m.forKey])

Encrypted(m) == EncryptPadded(m.padded, P256dhOf(m), AuthOf(m), m.serverKey, m.salt)

\* The `data' of the notification.
DataOf(m) ==
  LET characters == fromBufferToUrlB64(Changed(Encrypted(m), m.changed))
  IN SubSeq(characters, 1, Len(characters) - m.lost)

-----------------------------------------------------------------------------
(* The subscription *)

\* The process is between two turns, and has queued the last ack.
Ready == ~dispatching /\ answer = Undefined

HasNoData(m) == m.kind = "null" \/ (m.kind = "data" /\ DataOf(m) = <<>>)

\* handleNotification without data (an empty string is none): null is dispatched
\* in the same turn.
HandleNoData(m) ==
  /\ Ready
  /\ HasNoData(m)
  /\ BeginDispatch
  /\ current' = m /\ heard' = Undefined
  /\ UNCHANGED <<keyVars, pending, answer>>

HandleUnsupported(m) ==
  /\ Ready
  /\ m.kind = "encoding"
  /\ answer' = [letter |-> m, code |-> "DECRYPT_FAIL"]
  /\ UNCHANGED <<keyVars, pending, current, heard, eventVars>>

\* Up to the first await of the decryption, whose result is decided: it depends on
\* the data and on keys that do not change.
HandleData(m) ==
  /\ Ready
  /\ Cardinality(pending) < MaxPending
  /\ m.kind = "data"
  /\ LET data == DataOf(m)
     IN data # <<>> /\ pending' = pending \cup {[letter |-> m, result |-> DecryptData(keys, data)]}
  /\ UNCHANGED <<keyVars, current, heard, answer, eventVars>>

\* The decryption has ended with what was sent: the dispatch begins.
Decrypted(p) ==
  /\ Ready
  /\ p \in pending
  /\ pending' = pending \ {p}
  /\ current' = p.letter
  /\ p.result # Thrown
  /\ heard' = fromBufferToUtf8(p.result)
  /\ BeginDispatch
  /\ UNCHANGED <<keyVars, answer>>

\* One of its steps has thrown.
DecryptionFailed(p) ==
  /\ Ready
  /\ p \in pending
  /\ p.result = Thrown
  /\ pending' = pending \ {p}
  /\ answer' = [letter |-> p.letter, code |-> "DECRYPT_FAIL"]
  /\ UNCHANGED <<keyVars, current, heard, eventVars>>

\* The next listener.  What it throws becomes OTHER_FAIL, unless it is the number
\* of an ack code, which no listener is taken to throw.
Notify(l) ==
  /\ CallListener(l)
  /\ IF threw' THEN /\ answer' = [letter |-> current, code |-> "OTHER_FAIL"]
                    /\ current' = Undefined /\ heard' = Undefined
               ELSE UNCHANGED <<answer, current, heard>>
  /\ UNCHANGED <<keyVars, pending>>

Notified ==
  /\ EndDispatch
  /\ answer' = [letter |-> current, code |-> "SUCCESS"]
  /\ current' = Undefined /\ heard' = Undefined
  /\ UNCHANGED <<keyVars, pending>>

\* NotificationHandler queues the ack, before the process does anything else.
QueueAck ==
  /\ answer # Undefined
  /\ answer' = Undefined
  /\ UNCHANGED <<keyVars, pending, current, heard, eventVars>>

-----------------------------------------------------------------------------
ApplicationListens ==
  /\ Ready
  /\ AddEventListener \/ RemoveEventListener
  /\ UNCHANGED <<keyVars, pending, current, heard, answer>>

\* A plausible slip: only the key pair is read, the secret is drawn anew.
RestartNewAuth ==
  /\ Ready
  /\ DiscardManager
  /\ \E auth \in Auth : keys' = [ReadKeys EXCEPT !.auth = auth]
  /\ pending' = {}
  /\ UNCHANGED <<stored, handed, current, heard, answer>>

\* The process stops and starts: recover reads the keys.
Restart ==
  /\ Ready
  /\ DiscardManager
  /\ keys' = ReadKeys
  /\ pending' = {}
  /\ UNCHANGED <<stored, handed, current, heard, answer>>

DeliveryNext ==
  \/ \E m \in Letter : HandleNoData(m) \/ HandleUnsupported(m) \/ HandleData(m)
  \/ \E p \in pending : Decrypted(p) \/ DecryptionFailed(p)
  \/ \E l \in 1 .. added : Notify(l)
  \/ Notified
  \/ QueueAck
  \/ ApplicationListens
  \/ Restart

DeliverySpec == DeliveryInit /\ [][DeliveryNext]_deliveryVars

-----------------------------------------------------------------------------
(* Properties *)

\* The sender of examples/listen_send makes this plaintext of the data.
IsPadded(padded, data) == \E zeros \in 0 .. Len(padded) : padded = Padded(data, zeros)

\* It is encrypted for the keys of the subscription, as the sender has them, and arrives
\* as it was sent but for the record size, the bytes 17 .. 20, which nobody looks at.
IsIntact(m) ==
  /\ m.kind = "data" /\ m.lost = 0
  /\ AuthOf(m) = KnownTo(m).auth /\ P256dhOf(m) = KnownTo(m).p256dh
  /\ m.changed \in DOMAIN Encrypted(m) => m.changed \in 17 .. 20

IsSent(m, data) == IsPadded(m.padded, data) /\ IsIntact(m)

\* Listeners are given exactly what was encrypted for this subscription, or null for
\* a notification without data: never a part of it, nor anything that was changed on
\* the way, padded wrongly or meant for other keys (push-subscription.ts:115-163,
\* crypto.ts:68-85, 340-353).
HeardIsSent ==
  dispatching =>
    \/ heard = Undefined /\ HasNoData(current)
    \/ \E n \in 0 .. Len(current.padded) :
         LET data == SubSeq(current.padded, 1, n)
         IN IsSent(current, data) /\ heard = fromBufferToUtf8(data)

\* A notification that was sent with the keys the application was given is never
\* refused, also after restarts: DECRYPT_FAIL is for the others
\* (push-subscription.ts:145-159, 200-302).
SentIsNotRefused ==
  answer # Undefined /\ answer.code = "DECRYPT_FAIL" =>
    \A n \in 0 .. Len(answer.letter.padded) :
      ~IsSent(answer.letter, SubSeq(answer.letter.padded, 1, n))
=============================================================================
