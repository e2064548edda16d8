----------------------------- MODULE KeyEncoding -----------------------------
(***************************************************************************)
(* The bytes of keys: algorithm attributes (card/state.rs), RSA keys as    *)
(* they are stored (crypto/rsa.rs) and the packets whose SHA-1 is the      *)
(* fingerprint of a key (crypto/fingerprint.rs).  Numbers are small enough *)
(* for TLC to multiply; the lengths of their encodings need not be, since  *)
(* leading zero bytes make a small number long.                            *)
(***************************************************************************)
EXTENDS Tlv

\* (n as u16).to_be_bytes(), and bytes behind their length in two bytes.
Pair(n) == <<Octet(n, 1), Octet(n, 0)>>
Sized(bytes) == Pair(Len(bytes)) \o bytes

\* BigUint::to_bytes_be: no leading zero bytes, and one byte for zero.
ToBytes(n) ==
  LET bytes[k \in 0..n] ==
        IF k < 256 THEN <<k>> ELSE Append(bytes[k \div 256], k % 256)
  IN bytes[n]

-----------------------------------------------------------------------------
(* AlgorithmAttributes.  bits stands for the three parameters of RSA. *)

RSA == 1
ECDH == 18
ECDSA == 19
EDDSA == 22

CurveOID ==
  [NIST_P256 |-> <<42, 134, 72, 206, 61, 3, 1, 7>>, NIST_P384 |-> <<43, 129, 4, 0, 34>>,
   NIST_P521 |-> <<43, 129, 4, 0, 35>>, SECP256K1 |-> <<43, 129, 4, 0, 10>>,
   ED25519 |-> <<43, 6, 1, 4, 1, 218, 71, 15, 1>>,
   X25519 |-> <<43, 6, 1, 4, 1, 151, 85, 1, 5, 1>>]

Attributes(id, params, oid) == [id |-> id, params |-> params, oid |-> oid]

Rsa(bits) == Attributes(RSA, Pair(bits) \o Pair(32) \o <<0>>, <<>>)
OnCurve(id, curve) == Attributes(id, <<0, 0, 0, 0, 0>>, CurveOID[curve])
IsCurve(attributes, curve) == attributes.oid = CurveOID[curve]

attributes_to_bytes(attributes) ==
  <<attributes.id>> \o (IF attributes.id = RSA THEN attributes.params ELSE attributes.oid)

attributes_from_bytes(bytes) ==
  IF bytes = <<>> THEN Failed
  ELSE IF bytes[1] = RSA
  THEN IF Len(bytes) >= 6 THEN Attributes(RSA, SubSeq(bytes, 2, 6), <<>>) ELSE Failed
  ELSE IF Len(bytes) >= 2 THEN Attributes(bytes[1], <<0, 0, 0, 0, 0>>, Tail(bytes)) ELSE Failed

-----------------------------------------------------------------------------
(* RsaOperations *)

encode_private_key(e, p, q) == Sized(e) \o Sized(p) \o Sized(q)
encode_public_key(n, e) == Sized(n) \o Sized(e)

\* The field whose length n starts at byte i, or Failed when it is cut.
FieldOf(bytes, i, n) ==
  IF i + 1 + n > Len(bytes) THEN Failed
  ELSE [bytes |-> SubSeq(bytes, i + 2, i + 1 + n), next |-> i + 2 + n]
FieldAt(bytes, i) ==
  IF i + 1 > Len(bytes) THEN Failed ELSE FieldOf(bytes, i, FromBytes(SubSeq(bytes, i, i + 1)))

get_modulus(public) == IF Len(public) < 4 THEN Failed ELSE FieldAt(public, 1)
get_exponent(public) ==
  IF Len(public) < 4 THEN Failed ELSE FieldAt(public, 3 + FromBytes(SubSeq(public, 1, 2)))

\* decode_private_key as far as the components, which follow each other.
ThirdField(e, p, q) ==
  IF IsFailed(q) THEN Failed
  ELSE [e |-> FromBytes(e.bytes), p |-> FromBytes(p.bytes), q |-> FromBytes(q.bytes)]
SecondField(private, e, p) == IF IsFailed(p) THEN Failed ELSE ThirdField(e, p, FieldAt(private, p.next))
FirstField(private, e) == IF IsFailed(e) THEN Failed ELSE SecondField(private, e, FieldAt(private, e.next))
PrivateFields(private) == IF Len(private) < 6 THEN Failed ELSE FirstField(private, FieldAt(private, 1))

-----------------------------------------------------------------------------
(* Fingerprints.  SHA-1 keeps its inputs apart, so a fingerprint is the      *)
(* bytes that were hashed.                                                   *)

\* The bit count is that of the bytes, leading zero bits included.
Mpi(bytes) == Pair(8 * Len(bytes)) \o bytes
Packet(time, id, body) ==
  LET packet == <<4>> \o time \o <<id>> \o body IN <<153>> \o Pair(Len(packet)) \o packet
SizedOid(oid) == <<Len(oid)>> \o oid

calculate_fingerprint_rsa(n, e, time) == Packet(time, 1, Mpi(n) \o Mpi(e))
calculate_fingerprint_eddsa(pk, time) ==
  Packet(time, 22, SizedOid(CurveOID.ED25519) \o Mpi(<<64>> \o pk))
calculate_fingerprint_ecdh_x25519(pk, time) ==
  Packet(time, 18, SizedOid(CurveOID.X25519) \o Mpi(<<64>> \o pk) \o <<3, 1, 8, 7>>)
calculate_fingerprint_ecdsa(pk, oid, time) == Packet(time, 19, SizedOid(oid) \o Mpi(pk))
calculate_fingerprint_ecdh(pk, oid, time) ==
  Packet(time, 18, SizedOid(oid) \o Mpi(pk) \o
    <<3, 1>> \o (IF Len(pk) = 133 THEN <<10, 9>> ELSE IF Len(pk) = 97 THEN <<9, 9>> ELSE <<8, 7>>))
=============================================================================
