------------------------------ MODULE WalletKeys ------------------------------
(***************************************************************************)
(* The keys of a signer and what it signs with them: a secret is imported,   *)
(* or derived from a seed at an index; its public key is the account; a      *)
(* digest is signed, and the signature goes into a message or, as r, s and   *)
(* a parity, into a transaction.                                             *)
(*                                                                          *)
(* Sources: Secp256k1.swift, EthereumKeys.swift, BIP39.swift, Signing.swift, *)
(* Transaction.swift.  An address is the public key it is a hash of, and the *)
(* HMACs of the derivation path are arbitrary numbers.                       *)
(***************************************************************************)
EXTENDS Secp256k1

CONSTANTS
  LastIndex,    \* derivation indices run from 0 to LastIndex
  Seeds,        \* the secret at m/44'/60'/0'/0, and the left half of the HMAC of each index below it
  Digests       \* the digests that are signed

ASSUME KeysAssumption ==
  /\ LastIndex \in Nat /\ Digests \subseteq Words
  /\ Seeds \subseteq [parent : Scalars \ {0}, childHash : [0..LastIndex -> Words]]

VARIABLES
  seed,
  account,     \* the signer's secret, its public key, and its index if it is derived
  digest, signature
vars == <<seed, account, digest, signature>>

Indices == 0..LastIndex
NoIndex == LastIndex + 1
NoAccount == [secret |-> 0, key |-> ZeroKey, index |-> NoIndex]
NoSignature == <<>>

\* r, s and v = recovery id + 27.
signRecoverable(messageHash, secret) ==
  {LET bytes == ecdsa_recoverable_signature_serialize_compact(sig)
   IN <<bytes[1], bytes[2], bytes[3] + 27>> :
     sig \in ecdsa_sign_recoverable(messageHash, secret) \ {ZeroRecoverable}}

recoverAddress(messageHash, bytes) ==
  ecdsa_recover(ecdsa_recoverable_signature_parse_compact(bytes[1], bytes[2], bytes[3] - 27),
                messageHash)

\* What a transaction carries: nothing, if the recovery id is more than a parity.
SignatureParts(bytes) ==
  IF bytes[3] \in {27, 28} THEN <<bytes[1], bytes[2], bytes[3] - 27>> ELSE NoSignature

Child(i) == ec_seckey_tweak_add(seed.parent, seed.childHash[i])

\* The least index from "requested" on that has a valid child.
DerivationIndex(requested) ==
  {i \in requested..LastIndex :
     /\ Child(i) # 0
     /\ \A j \in requested..(i - 1) : Child(j) = 0}

Account(secret, index) == [secret |-> secret, key |-> ec_pubkey_create(secret), index |-> index]

Init ==
  /\ seed \in Seeds /\ account = NoAccount /\ digest = 0 /\ signature = NoSignature

Import(secret) ==
  /\ account = NoAccount /\ ec_seckey_verify(secret)
  /\ account' = Account(secret, NoIndex)
  /\ UNCHANGED <<seed, digest, signature>>

Derive(requested) ==
  /\ account = NoAccount
  /\ \E i \in DerivationIndex(requested) :
       account' = Account(Child(i), i)
  /\ UNCHANGED <<seed, digest, signature>>

\* The secret a signature is made with: a derived one is derived again, and compared.
SigningSecrets ==
  IF account.index = NoIndex THEN {account.secret}
  ELSE {secret \in {Child(i) :
                      i \in DerivationIndex(account.index)} :
          ec_pubkey_create(secret) = account.key}

SignDigest(messageHash) ==
  /\ account # NoAccount /\ signature = NoSignature
  /\ \E secret \in SigningSecrets : signature' \in signRecoverable(messageHash, secret)
  /\ digest' = messageHash
  /\ UNCHANGED <<seed, account>>

Next ==
  \/ \E secret \in Words : Import(secret)
  \/ \E requested \in Indices : Derive(requested)
  \/ \E messageHash \in Digests : SignDigest(messageHash)
Spec == Init /\ [][Next]_vars

-----------------------------------------------------------------------------
Signed == signature # NoSignature

\* Who reads a signature finds the account that made it: from r, s and v, whatever the sign of s
\* and however the abscissa was reduced, and from r, s and the parity of a transaction
\* (EthereumKeys.swift:91-108, Transaction.swift:179-186).
SignaturesNameTheirAccount ==
  Signed =>
    /\ recoverAddress(digest, signature) = account.key
    /\ LET parts == SignatureParts(signature)
       IN parts # NoSignature =>
            /\ parts[3] \in {0, 1}
            /\ ecdsa_recover([r |-> parts[1], s |-> parts[2], recid |-> parts[3]], digest)
                 = account.key

\* "To avoid accepting malleable signatures, only ECDSA signatures in lower-S form are accepted"
\* (secp256k1.h:584-585): the signature verifies, the one with the opposite s does not until it
\* is normalized, and it is then the same signature.
OneFormOfSignature ==
  Signed =>
    LET sig == ecdsa_signature_parse_compact(signature[1], signature[2])
        other == [sig EXCEPT !.s = N - @]
    IN /\ ecdsa_verify(sig, digest, account.key)
       /\ ~ecdsa_verify(other, digest, account.key)
       /\ ecdsa_signature_normalize(other) = sig
       /\ ecdsa_signature_serialize_compact(sig) = <<signature[1], signature[2]>>
       /\ sig \in ecdsa_sign(digest, account.secret)

\* What is done to a secret can be done to its public key, and both fail together: tweaks,
\* negation, sums and shared secrets agree, and a key survives its serialization
\* (secp256k1.h:418-892, secp256k1_ecdh.h:36-57).
PublicFollowsSecret ==
  account # NoAccount /\ ~Signed =>
    LET d == account.secret
        key == account.key
    IN /\ ec_pubkey_negate(key) = ec_pubkey_create(ec_seckey_negate(d))
       /\ \A compressed \in BOOLEAN : ec_pubkey_parse(ec_pubkey_serialize(key, compressed)) = key
       /\ ec_pubkey_parse(<<6 + (key[2] % 2), key[1], key[2]>>) = key
       /\ ec_pubkey_parse(<<7 - (key[2] % 2), key[1], key[2]>>) = ZeroKey
       /\ \A t \in Words :
            /\ ec_pubkey_tweak_add(key, t) = ec_pubkey_create(ec_seckey_tweak_add(d, t))
            /\ ec_pubkey_tweak_mul(key, t) = ec_pubkey_create(ec_seckey_tweak_mul(d, t))
            /\ ec_seckey_verify(t) =>
                 LET other == ec_pubkey_create(t) IN
                 /\ ec_pubkey_combine(<<key, other>>) = ec_pubkey_tweak_add(key, t)
                 /\ ecdh(key, t) = ecdh(other, d)
                 /\ LET sorted == ec_pubkey_sort(<<key, other>>)
                    IN /\ ec_pubkey_cmp(sorted[1], sorted[2]) <= 0
                       /\ {sorted[1], sorted[2]} = {key, other}
                 /\ (ec_pubkey_cmp(key, other) = 0) <=> (key = other)
=============================================================================
