------------------------------ MODULE Secp256k1 ------------------------------
(***************************************************************************)
(* The functions of libsecp256k1 that the wallet is linked with, as they are *)
(* declared in Sources/CSecp256k1/include and defined in                     *)
(* third-party/libsecp256k1/src (secp256k1.c, eckey_impl.h, ecdsa_impl.h,    *)
(* modules/recovery/main_impl.h, modules/ecdh/main_impl.h).  They work over  *)
(* any curve y^2 = x^3 + 7 whose order is a prime below that of the field,   *)
(* as it is for secp256k1; a 32-byte string is a number up to LastWord, so   *)
(* it may be zero, reach the order, or reach the size of the field.          *)
(*                                                                          *)
(* A function that returns 0 gives the object it zeroes.  Contexts, DER, the *)
(* checks of null pointers and the protection against side channels are left *)
(* out.                                                                      *)
(***************************************************************************)
EXTENDS Integers, Sequences

CONSTANTS
  P,          \* the size of the field
  N,          \* the order of the curve
  Gx, Gy,     \* the generator
  LastWord    \* the largest number that 32 bytes hold

B == 7
Field == 0..(P - 1)
Scalars == 0..(N - 1)
Words == 0..LastWord
OnCurve(x, y) == (y * y) % P = (x * x * x + B) % P

ASSUME CurveAssumption ==
  /\ {P, N, LastWord} \subseteq Nat /\ N < P /\ P < 2 * N /\ P <= LastWord
  /\ Gx \in Field /\ Gy \in Field /\ OnCurve(Gx, Gy)
  /\ \A y \in Field : ~OnCurve(0, y)

-----------------------------------------------------------------------------
(* The group.  A point is <<x, y>>, or Infinity.                             *)

Infinity == <<>>
G == <<Gx, Gy>>
Points == {q \in Field \X Field : OnCurve(q[1], q[2])}
Group == Points \cup {Infinity}

InversesModulo(m) == [a \in 1..(m - 1) |-> CHOOSE b \in 1..(m - 1) : (a * b) % m = 1]
FieldInverse == InversesModulo(P)
ScalarInverse == InversesModulo(N)
Negated(q) == IF q = Infinity THEN q ELSE <<q[1], (P - q[2]) % P>>

Slope(a, b) ==
  IF a = b THEN (3 * a[1] * a[1] * FieldInverse[(2 * a[2]) % P]) % P
  ELSE ((b[2] - a[2]) * FieldInverse[(b[1] - a[1]) % P]) % P

\* gej_add_ge, gej_double: the sum of two points.
Plus(a, b) ==
  IF a = Infinity THEN b
  ELSE IF b = Infinity THEN a
  ELSE IF a = Negated(b) THEN Infinity
  ELSE LET l == Slope(a, b)
           x == (l * l - a[1] - b[1]) % P
       IN <<x, (l * (a[1] - x) - a[2]) % P>>

\* ecmult: the multiples 0, 1, ... N - 1 of a point.
Times(k, q) ==
  LET times[i \in Scalars] == IF i = 0 THEN Infinity ELSE Plus(times[i - 1], q) IN times[k]

\* G generates a group of the prime order N, over a field whose size is a prime: what the authors
\* of the curve chose its constants for (group_impl.h:33-72).
ASSUME PrimeAssumption ==
  \A m \in {P, N} :
    /\ m % 2 = 1
    /\ \A a \in 1..(m - 1) : \E b \in 1..(m - 1) : (a * b) % m = 1
ASSUME GroupAssumption ==
  /\ Group = {Times(k, G) : k \in Scalars}
  /\ Plus(Times(N - 1, G), G) = Infinity
  /\ \A a, b, c \in Group : Plus(Plus(a, b), c) = Plus(a, Plus(b, c))

\* ge_set_xo_var: the point at "x" whose ordinate has the given parity, if there is one.
PointAt(x, odd) ==
  IF \E y \in Field : OnCurve(x, y)
  THEN CHOOSE q \in Points : q[1] = x /\ q[2] % 2 = odd ELSE Infinity

-----------------------------------------------------------------------------
(* Secret keys and public keys.                                              *)

PublicKeys == Points
ZeroKey == <<0, 0>>
Reduced(word) == word % N
Overflows(word) == word >= N

ec_seckey_verify(seckey) == seckey # 0 /\ ~Overflows(seckey)

ec_pubkey_create(seckey) == IF ec_seckey_verify(seckey) THEN Times(seckey, G) ELSE ZeroKey

ec_seckey_negate(seckey) == IF ec_seckey_verify(seckey) THEN N - seckey ELSE 0
ec_pubkey_negate(key) == IF key \in PublicKeys THEN Negated(key) ELSE ZeroKey

\* Faulty: a tweak that reaches the order is reduced.
TweakReduced(seckey, tweak) == IF ec_seckey_verify(seckey) THEN (seckey + tweak) % N ELSE 0

\* Zero stands for a failure: the key is invalid, the tweak overflows, or the sum is zero.
ec_seckey_tweak_add(seckey, tweak) ==
  IF ec_seckey_verify(seckey) /\ ~Overflows(tweak) THEN (seckey + tweak) % N ELSE 0

ec_pubkey_tweak_add(key, tweak) ==
  IF key \in PublicKeys /\ ~Overflows(tweak) /\ Plus(key, Times(tweak, G)) # Infinity
  THEN Plus(key, Times(tweak, G)) ELSE ZeroKey

ec_seckey_tweak_mul(seckey, tweak) ==
  IF ec_seckey_verify(seckey) /\ ~Overflows(tweak) THEN (seckey * tweak) % N ELSE 0

ec_pubkey_tweak_mul(key, tweak) ==
  IF key \in PublicKeys /\ ec_seckey_verify(tweak) THEN Times(tweak, key) ELSE ZeroKey

ec_pubkey_combine(keys) ==
  LET sum[i \in 0..Len(keys)] == IF i = 0 THEN Infinity ELSE Plus(sum[i - 1], keys[i])
  IN IF sum[Len(keys)] = Infinity THEN ZeroKey ELSE sum[Len(keys)]

\* The hash of the shared point is left as what it is computed from.
ecdh_hash(x, y) == <<2 + (y % 2), x>>
ecdh(key, seckey) ==
  IF ec_seckey_verify(seckey)
  THEN LET shared == Times(seckey, key) IN ecdh_hash(shared[1], shared[2]) ELSE ZeroKey

-----------------------------------------------------------------------------
(* Serialized public keys: the header byte and the coordinates.              *)

Header(key) == 2 + (key[2] % 2)

ec_pubkey_serialize(key, compressed) ==
  IF compressed THEN <<Header(key), key[1]>> ELSE <<4, key[1], key[2]>>

ec_pubkey_parse(bytes) ==
  LET header == bytes[1]
      x == bytes[2]
      found == PointAt(x, header % 2)
  IN IF \E i \in 2..Len(bytes) : bytes[i] >= P THEN ZeroKey
     ELSE IF Len(bytes) = 2 /\ header \in {2, 3} THEN IF found = Infinity THEN ZeroKey ELSE found
     ELSE IF Len(bytes) = 3 /\ header \in {4, 6, 7}
     THEN IF OnCurve(x, bytes[3]) /\ (header = 4 \/ header % 2 = bytes[3] % 2)
          THEN <<x, bytes[3]>> ELSE ZeroKey
     ELSE ZeroKey

\* memcmp of the compressed keys; a key that is invalid is all zeros.
ec_pubkey_cmp(a, b) ==
  LET bytes(key) == IF key \in PublicKeys THEN ec_pubkey_serialize(key, TRUE) ELSE <<0, 0>>
      x == bytes(a)
      y == bytes(b)
  IN IF x[1] # y[1] THEN x[1] - y[1] ELSE x[2] - y[2]

Orders(S) == {p \in [S -> S] : \A j \in S : \E i \in S : p[i] = j}
ec_pubkey_sort(keys) ==
  LET order == CHOOSE p \in Orders(DOMAIN keys) :
                 \A i, j \in DOMAIN keys : i < j => ec_pubkey_cmp(keys[p[i]], keys[p[j]]) <= 0
  IN [i \in DOMAIN keys |-> keys[order[i]]]

-----------------------------------------------------------------------------
(* Signatures.                                                               *)

Signatures == [r : Scalars, s : Scalars]
RecoverableSignatures == [r : Scalars, s : Scalars, recid : 0..3]
ZeroSignature == [r |-> 0, s |-> 0]
ZeroRecoverable == [r |-> 0, s |-> 0, recid |-> 0]
IsHigh(s) == s > N \div 2

ecdsa_signature_parse_compact(r, s) ==
  IF Overflows(r) \/ Overflows(s) THEN ZeroSignature ELSE [r |-> r, s |-> s]
ecdsa_signature_serialize_compact(sig) == <<sig.r, sig.s>>
ecdsa_recoverable_signature_parse_compact(r, s, recid) ==
  IF Overflows(r) \/ Overflows(s) THEN ZeroRecoverable ELSE [r |-> r, s |-> s, recid |-> recid]
ecdsa_recoverable_signature_serialize_compact(sig) == <<sig.r, sig.s, sig.recid>>
ecdsa_recoverable_signature_convert(sig) == [r |-> sig.r, s |-> sig.s]

ecdsa_signature_normalize(sig) == [sig EXCEPT !.s = IF IsHigh(@) THEN N - @ ELSE @]

\* Faulty: the low-S form is taken after the recovery id was settled.
SignUnflipped(seckey, message, nonce) ==
  LET point == Times(nonce, G)
      r == Reduced(point[1])
      s == (ScalarInverse[nonce] * (r * seckey + message)) % N
  IN [r |-> r, s |-> IF IsHigh(s) THEN N - s ELSE s,
      recid |-> 2 * (IF Overflows(point[1]) THEN 1 ELSE 0) + (point[2] % 2)]

\* ecdsa_sig_sign: bit 1 of the recovery id says that the abscissa was reduced, bit 0 is the parity
\* of the ordinate, and flips with the sign of s.
SigSign(seckey, message, nonce) ==
  LET point == Times(nonce, G)
      r == Reduced(point[1])
      s == (ScalarInverse[nonce] * (r * seckey + message)) % N
      parity == (point[2] + (IF IsHigh(s) THEN 1 ELSE 0)) % 2
  IN [r |-> r, s |-> IF IsHigh(s) THEN N - s ELSE s,
      recid |-> 2 * (IF Overflows(point[1]) THEN 1 ELSE 0) + parity]

\* The nonce function may give any number; one that does not do is followed by another.
nonce_function == Scalars \ {0}
ecdsa_sign_recoverable(msghash, seckey) ==
  IF ~ec_seckey_verify(seckey) THEN {ZeroRecoverable}
  ELSE {sig \in {SigSign(seckey, Reduced(msghash), nonce) : nonce \in nonce_function} :
          sig.r # 0 /\ sig.s # 0}

ecdsa_sign(msghash, seckey) ==
  {ecdsa_recoverable_signature_convert(sig) : sig \in ecdsa_sign_recoverable(msghash, seckey)}

\* ecdsa_sig_recover; Infinity where it fails.
SigRecover(sig, message) ==
  LET x == IF sig.recid >= 2 THEN sig.r + N ELSE sig.r
      point == IF x < P THEN PointAt(x, sig.recid % 2) ELSE Infinity
      inverse == ScalarInverse[sig.r]
  IN IF sig.r = 0 \/ sig.s = 0 \/ point = Infinity THEN Infinity
     ELSE Plus(Times((inverse * sig.s) % N, point), Times((N - ((inverse * message) % N)) % N, G))

ecdsa_recover(sig, msghash) ==
  LET key == SigRecover(sig, Reduced(msghash)) IN IF key = Infinity THEN ZeroKey ELSE key

\* ecdsa_sig_verify: the abscissa is r, or r and the order.
SigVerify(sig, key, message) ==
  LET inverse == ScalarInverse[sig.s]
      point == Plus(Times((inverse * sig.r) % N, key), Times((inverse * message) % N, G))
  IN /\ sig.r # 0 /\ sig.s # 0
     /\ point # Infinity /\ (point[1] = sig.r \/ point[1] = sig.r + N)

\* Faulty: both forms of a signature are accepted.
VerifyAnyForm(sig, msghash, key) == SigVerify(sig, key, Reduced(msghash))

ecdsa_verify(sig, msghash, key) ==
  ~IsHigh(sig.s) /\ key \in PublicKeys /\ SigVerify(sig, key, Reduced(msghash))
=============================================================================
