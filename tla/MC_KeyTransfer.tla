--------------------------- MODULE MC_KeyTransfer ---------------------------
(* A small instance of KeyTransfer for TLC. *)
EXTENDS KeyTransfer

\* n bytes: zeros before the last one.
Long(n, last) == [i \in 1..n |-> IF i = n THEN last ELSE 0]
Run(n, byte) == [i \in 1..n |-> byte]

\* Exponents with and without an inverse, one above phi and one of zero, primes
\* of zero and one, a product of two bytes and components at the lengths where BER lengths grow.
MCRsaKeys ==
  {[e |-> <<3>>, p |-> <<11>>, q |-> <<23>>], [e |-> <<5>>, p |-> <<11>>, q |-> <<17>>],
   [e |-> <<1, 1>>, p |-> <<11>>, q |-> <<23>>], [e |-> <<101>>, p |-> <<1, 37>>, q |-> <<41>>],
   [e |-> <<0>>, p |-> <<3>>, q |-> <<3>>], [e |-> <<3>>, p |-> <<1>>, q |-> <<0>>],
   [e |-> <<1>>, p |-> <<1>>, q |-> <<5>>],
   [e |-> Long(128, 7), p |-> Long(127, 241), q |-> Long(130, 251)]}
MCNewRsaKeys == {[e |-> <<3>>, p |-> <<11>>, q |-> <<23>>]}

\* A scalar for the curves of 32 bytes, one that has this size when its last byte
\* is missing, one of zeros, and one for P-521.
Scalar == <<1>> \o Run(31, 2)
MCScalars == {Scalar, Scalar \o <<2>>, Run(32, 0), <<1>> \o Run(65, 2)}

\* Attributes that are too short, and those of RSA with a byte too many, among
\* them.
MCAttributeBytes ==
  {attributes_to_bytes(a) : a \in
     {Rsa(2048), OnCurve(EDDSA, "ED25519"), OnCurve(ECDH, "X25519"), OnCurve(ECDH, "NIST_P521"),
      OnCurve(ECDSA, "NIST_P256"), OnCurve(ECDSA, "X25519")}} 
  \cup {<<1, 8, 0>>, <<>>, attributes_to_bytes(Rsa(2048)) \o <<9>>}

Leaf(tag, value) == TLV(tag, value, <<>>)
Node(tag, subs) == TLV(tag, HostList(subs), subs)

\* Imports that no host means: a scalar without its template 7F48, and an RSA key
\* whose parts stand in another order.
Crt == Leaf(CrtTag("SIG"), <<>>)
BareImport == <<Leaf(77, HostList(<<Crt, Leaf(KeyDataTag, Scalar)>>))>>
MixedImport ==
  <<Leaf(77, HostList(<<Leaf(KeyDataTag, <<3, 11, 23>>),
                        Leaf(LengthsTag, <<145, 1, 146, 1, 147, 1>>), Crt>>))>>

\* Tags of one to three bytes, values of the lengths where BER lengths grow,
\* empty and nested elements.
Inner == <<Leaf(196, <<3>>)>>
Middle == <<Leaf(24402, <<>>), Node(115, Inner)>>
MCLists ==
  {BareImport, MixedImport, Inner, Middle, <<Leaf(79, <<1, 2>>), Node(110, Middle), Leaf(94, <<255>>)>>,
   <<Leaf(14647553, <<0>>), Leaf(193, Run(127, 1)), Leaf(194, Run(128, 1)), Leaf(195, <<4>>)>>,
   <<Leaf(24400, Run(255, 9)), Leaf(129, Run(256, 9)), Leaf(130, <<>>)>>}

MCPayloads == {<<>>, <<1>>, <<2, 0>>, <<0, 0>>, <<1, 2, 3>>, <<0>> \o Run(254, 5), Run(256, 1), Run(258, 0)}
MCHeaders == {<<0, 1, 0, 0>>}
MCTime == <<0, 0, 0, 1>>
MCBroken == {<<0, 202, 0>>, <<0, 202, 0, 0, 5, 1>>, <<0, 202, 0, 0, 0, 3, 0, 9>>}
=============================================================================
