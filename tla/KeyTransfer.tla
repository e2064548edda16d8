----------------------------- MODULE KeyTransfer -----------------------------
(***************************************************************************)
(* The way of a key between host and card, byte for byte: the host builds  *)
(* a command and sends it in some form of APDU, the card parses it, stores *)
(* the key or generates one, answers the public key, and decodes what it   *)
(* stored when the key is used.  Who may send these commands is modelled   *)
(* by OpenPGPApplet, how they are cut into chained blocks by VirtualCard:  *)
(* here PW1 and PW3 are verified and commands arrive in one block.         *)
(***************************************************************************)
EXTENDS Apdu, KeyEncoding, ModInverse

CONSTANTS
  Slots,           \* key slots: "SIG", "DEC", "AUT"
  RsaKeys,         \* RSA keys a host may import: [e, p, q] in bytes
  NewRsaKeys,      \* those among them that the card may generate
  Scalars,         \* private keys on a curve, in bytes
  AttributeBytes,  \* contents that a host writes to C1, C2 and C3
  Lists,           \* other lists of elements that a host may send for an import
  Headers,         \* headers of commands that the applet does not know
  Payloads,        \* their data
  Lengths,         \* the Le of a command
  Broken,          \* bytes that are no command
  Time,            \* the time of a generation, in four bytes
  ImportCuts,      \* how many of the last bytes of an import may be missing
  ListCuts         \* and of another list

\* Components of keys are not empty, and their lengths fit into two bytes.
Component == {b \in Seq(Octets) : b # <<>> /\ Len(b) < 65536}
Minimal(bytes) == ToBytes(FromBytes(bytes))
Product(k) == ToBytes(FromBytes(k.p) * FromBytes(k.q))

ASSUME KeysAssumption ==
  /\ Slots \subseteq {"SIG", "DEC", "AUT"}
  /\ RsaKeys \subseteq [e: Component, p: Component, q: Component]
  /\ NewRsaKeys \subseteq RsaKeys
  /\ \A k \in RsaKeys : Len(Product(k)) < 65536 /\ Len(Minimal(k.e)) < 65536
  /\ Scalars \subseteq Component

\* No command of these is one that the applet knows.
ASSUME CommandsAssumption ==
  /\ AttributeBytes \subseteq Seq(Octets)
  /\ \A h \in Headers : h \in Seq(Octets) /\ Len(h) = 4 /\ h[2] \notin {42, 71, 202, 218, 219}
  /\ Payloads \subseteq Seq(Octets)
  /\ \A n \in Lengths : n \in Nat /\ n <= 65536
  /\ \A b \in Broken : IsError(parse_apdu(b))
  /\ ImportCuts \subseteq Nat /\ ListCuts \subseteq Nat

VARIABLES
  wire,     \* the bytes of the command that the card has yet to answer
  slot,     \* CardState.key_sig, key_dec and key_aut
  reply,    \* the last answer: status word and data
  euclid,   \* the loop of mod_inverse, while a private key is decoded
  \* History, read by no action of the card.
  request,  \* the command the host sent last and what it meant
  held      \* the key that a slot was last said to hold, if any

vars == <<wire, slot, reply, euclid, request, held>>

Nothing == [kind |-> "nothing"]
Response(sw, data) == [sw |-> sw, data |-> data]
Refused(sw) == Response(sw, <<>>)

\* The tags of a slot: its control reference template, and the data objects
\* of its attributes and its fingerprint.
OfSlot(s, sig, dec, aut) == IF s = "SIG" THEN sig ELSE IF s = "DEC" THEN dec ELSE aut
CrtTag(s) == OfSlot(s, 182, 184, 164)
AttributesTag(s) == OfSlot(s, 193, 194, 195)
FingerprintTag(s) == OfSlot(s, 199, 200, 201)

\* 7F48: the lengths of the components; 5F48: their bytes; 7F49: a public key.
LengthsTag == 32584
KeyDataTag == 24392
PublicKeyTag == 32585

\* A fingerprint is all zeros, empty, written by the host or computed.
Zeros == [kind |-> "zeros", hashed |-> <<>>]
NoFingerprint == [kind |-> "empty", hashed |-> <<>>]
Sha1(bytes) == [kind |-> "sha1", hashed |-> bytes]
Written(bytes) == [kind |-> "written", hashed |-> bytes]
HasKey(k) == k.fingerprint \notin {Zeros, NoFingerprint}

FactorySlot == [alg |-> Rsa(2048), private |-> <<>>, public |-> <<>>, fingerprint |-> Zeros]

-----------------------------------------------------------------------------
(* The elliptic curves, behind the crypto crates.  A public key is one byte  *)
(* of the private key repeated to its size; a zero there is a scalar that    *)
(* only the 25519 curves take.                                               *)

Is25519(alg) == alg.id = EDDSA \/ (alg.id = ECDH /\ IsCurve(alg, "X25519"))

ScalarSize(alg) ==
  IF Is25519(alg) THEN 32
  ELSE IF IsCurve(alg, "NIST_P521") THEN 66 ELSE IF IsCurve(alg, "NIST_P384") THEN 48 ELSE 32

PublicKey(alg, scalar) ==
  IF Is25519(alg) THEN [i \in 1..32 |-> scalar[1]]
  ELSE <<4>> \o [i \in 1..(2 * ScalarSize(alg)) |-> scalar[1]]

IsScalar(alg, scalar) == Is25519(alg) \/ scalar[1] > 0

OnKnownCurve(alg) ==
  \E c \in {"NIST_P256", "NIST_P384", "NIST_P521", "SECP256K1"} : IsCurve(alg, c)

\* The algorithms for which the card can compute or generate a public key.
Supported(alg) ==
  \/ alg.id = EDDSA
  \/ alg.id = ECDH /\ (IsCurve(alg, "X25519") \/ OnKnownCurve(alg))
  \/ alg.id = ECDSA /\ OnKnownCurve(alg)

-----------------------------------------------------------------------------
(* Key import (handle_key_import) *)

\* parse_ber_length: a length that is cut counts as zero and one byte.
parse_ber_length(bytes) ==
  IF bytes = <<>> THEN [n |-> 0, took |-> 0]
  ELSE IF bytes[1] < 128 THEN [n |-> bytes[1], took |-> 1]
  ELSE IF Len(bytes) < bytes[1] - 127 THEN [n |-> 0, took |-> 1]
  ELSE [n |-> FromBytes(SubSeq(bytes, 2, bytes[1] - 127)), took |-> bytes[1] - 127]

\* The template 7F48 holds tags and lengths without values; the last of a tag
\* counts.
WithEarlier(later, t, n) ==
  [x \in DOMAIN later \cup {t} |-> IF x \in DOMAIN later THEN later[x] ELSE n]

CrtLengths(bytes) ==
  LET found[i \in 1..(Len(bytes) + 1)] ==
        IF i >= Len(bytes) THEN <<>>
        ELSE LET l == parse_ber_length(From(bytes, i + 1))
             IN WithEarlier(found[i + 1 + l.took], bytes[i], l.n)
  IN found[1]

OnlyComponents(found) ==
  [t \in {145, 146, 147} |-> IF t \in DOMAIN found THEN found[t] ELSE 0]

parse_crt_lengths(bytes) == OnlyComponents(CrtLengths(bytes))

\* Mutant: the sum of the lengths is not compared with the data.
LengthsMatchAny(l, bytes) == \A t \in DOMAIN l : l[t] > 0

LengthsMatch(l, bytes) ==
  (\A t \in DOMAIN l : l[t] > 0) /\ Len(bytes) = l[145] + l[146] + l[147]

Holding(k, private, public) == [k EXCEPT !.private = private, !.public = public]

\* e || p || q, cut at the lengths l.
StoreRsa(k, e, p, q) ==
  Holding(k, encode_private_key(e, p, q), encode_public_key(ToBytes(FromBytes(p) * FromBytes(q)), e))

ImportRsa(k, l, bytes) ==
  IF ~LengthsMatch(l, bytes) THEN [sw |-> "6A80", slot |-> k]
  ELSE [sw |-> "9000",
        slot |-> StoreRsa(k, SubSeq(bytes, 1, l[145]), SubSeq(bytes, l[145] + 1, l[145] + l[146]),
                          From(bytes, l[145] + l[146] + 1))]

PublicTemplate(public) == encode(PublicKeyTag, encode(134, public))

\* X25519 keys come with the bytes in the other order.
StoredScalar(alg, bytes) ==
  IF alg.id = ECDH /\ IsCurve(alg, "X25519") THEN Reverse(bytes) ELSE bytes

\* The private key is stored before the public key is known to exist.
StoreScalar(k, stored) ==
  IF Supported(k.alg) /\ IsScalar(k.alg, stored)
  THEN [sw |-> "9000", slot |-> Holding(k, stored, PublicTemplate(PublicKey(k.alg, stored)))]
  ELSE [sw |-> "6400", slot |-> [k EXCEPT !.private = stored]]

ImportScalar(k, bytes) ==
  LET sized == \/ k.alg.id = EDDSA
               \/ k.alg.id \in {ECDH, ECDSA} /\ (OnKnownCurve(k.alg) \/ IsCurve(k.alg, "X25519"))
  IN IF sized /\ Len(bytes) = ScalarSize(k.alg) THEN StoreScalar(k, StoredScalar(k.alg, bytes))
     ELSE [sw |-> "6A80", slot |-> k]

\* The template is looked for in RSA slots only.
ImportInto(k, templates, bytes) ==
  IF k.alg.id # RSA THEN ImportScalar(k, bytes)
  ELSE IF templates = <<>> THEN [sw |-> "6A80", slot |-> k]
  ELSE ImportRsa(k, parse_crt_lengths(templates[1].value), bytes)

WithSlot(s, done) == [sw |-> done.sw, slot |-> [slot EXCEPT ![s] = done.slot]]

\* The first control reference template names the slot.
SlotTemplates(list) == find(list, {CrtTag(s) : s \in Slots})
SlotOf(crt) == CHOOSE s \in Slots : CrtTag(s) = crt.tag

ImportList(list, crts, data) ==
  IF crts = <<>> \/ data = <<>> THEN [sw |-> "6A80", slot |-> slot]
  ELSE WithSlot(SlotOf(crts[1]), ImportInto(slot[SlotOf(crts[1])], find(list, {LengthsTag}), data[1].value))

\* The extended header list 4D is not constructed, so its value is read apart.
ImportElements(outer) ==
  IF outer = <<>> THEN <<>> ELSE IF outer[1].tag # 77 THEN <<>> ELSE read_list(outer[1].value)

ImportParts(list) == ImportList(list, SlotTemplates(list), find(list, {KeyDataTag}))

handle_key_import(data) == ImportParts(ImportElements(read_list(data)))

-----------------------------------------------------------------------------
(* Generation and reading (handle_generate_key) *)

RsaTemplate(n, e) == encode(PublicKeyTag, encode(129, n) \o encode(130, e))

\* Mutant: the key is looked for beside the template, not in it.
ExtractPublicKeyBeside(public) == find(read_list(public), {134})

\* extract_pubkey_from_tlv
InTemplate(outer) == IF outer = <<>> THEN <<>> ELSE find(read_list(outer[1].value), {134})
ExtractPublicKey(public) == InTemplate(find(read_list(public), {PublicKeyTag}))

\* The fingerprint is computed from the public key read back from the slot.
RsaFingerprint(n, e) ==
  IF IsFailed(n) \/ IsFailed(e) THEN NoFingerprint
  ELSE Sha1(calculate_fingerprint_rsa(n.bytes, e.bytes, Time))

CurveFingerprint(alg, pk) ==
  IF alg.id = EDDSA THEN Sha1(calculate_fingerprint_eddsa(pk, Time))
  ELSE IF alg.id = ECDSA THEN Sha1(calculate_fingerprint_ecdsa(pk, alg.oid, Time))
  ELSE IF alg.id = ECDH
  THEN Sha1(IF IsCurve(alg, "X25519") THEN calculate_fingerprint_ecdh_x25519(pk, Time)
            ELSE calculate_fingerprint_ecdh(pk, alg.oid, Time))
  ELSE NoFingerprint

PointFingerprint(alg, points) ==
  IF points = <<>> THEN NoFingerprint ELSE CurveFingerprint(alg, points[1].value)

FingerprintOf(k) ==
  IF k.alg.id = RSA THEN RsaFingerprint(get_modulus(k.public), get_exponent(k.public))
  ELSE PointFingerprint(k.alg, ExtractPublicKey(k.public))

CanGenerate(alg) == alg.id = RSA \/ Supported(alg)

\* The bytes of the key pairs that generate_keypair may return.
KeyPairs(alg) ==
  IF alg.id = RSA
  THEN {[private |-> encode_private_key(Minimal(k.e), Minimal(k.p), Minimal(k.q)),
         public |-> encode_public_key(Product(k), Minimal(k.e)),
         elements |-> <<TLV(129, Product(k), <<>>), TLV(130, Minimal(k.e), <<>>)>>] : k \in NewRsaKeys}
  ELSE IF ~CanGenerate(alg) THEN {}
  ELSE {[private |-> x, public |-> PublicTemplate(PublicKey(alg, x)),
         elements |-> <<TLV(134, PublicKey(alg, x), <<>>)>>] :
          x \in {x \in Scalars : Len(x) = ScalarSize(alg) /\ IsScalar(alg, x)}}

WithFingerprint(k) == [k EXCEPT !.fingerprint = FingerprintOf(k)]
WithPair(k, pair) == WithFingerprint(Holding(k, pair.private, pair.public))

\* The answer to a read, and to a generation.
RsaAnswer(n, e) ==
  IF IsFailed(n) \/ IsFailed(e) THEN Refused("6400") ELSE Response("9000", RsaTemplate(n.bytes, e.bytes))

PublicAnswer(k) ==
  IF k.public = <<>> THEN Refused("6A88")
  ELSE IF k.alg.id # RSA THEN Response("9000", k.public)
  ELSE RsaAnswer(get_modulus(k.public), get_exponent(k.public))

-----------------------------------------------------------------------------
(* The host.  It encodes by BER itself, and remembers what it meant. *)

BerLength(n) == IF n < 128 THEN <<n>> ELSE <<128 + Len(ToBytes(n))>> \o ToBytes(n)
HostTlv(tag, value) == ToBytes(tag) \o BerLength(Len(value)) \o value

HostTree(t) == HostTlv(t.tag, t.value)
HostList(list) == FlattenSeq([i \in DOMAIN list |-> HostTree(list[i])])

\* The lists hold the lists in their elements.  A list that begins with 4D is an
\* import too, of whatever its value holds.
Elements == UNION {Range(l) : l \in Lists}

IsElement(t) ==
  /\ t = TLV(t.tag, t.value, t.subs) /\ IsTag(t.tag)
  /\ t.value \in Seq(Octets) /\ Len(t.value) < 65536
  /\ IF IsConstructed(t.tag) /\ t.value # <<>>
     THEN t.subs \in Lists /\ t.value = HostList(t.subs)
     ELSE t.subs = <<>>

ASSUME ListsAssumption ==
  \A l \in Lists :
    /\ l \in Seq(Elements) /\ l # <<>>
    /\ \A t \in Range(l) : IsElement(t)

Cut(bytes, missing) == SubSeq(bytes, 1, Len(bytes) - missing)

Keys == RsaKeys \cup {[scalar |-> x] : x \in Scalars}
IsRsaKey(key) == "e" \in DOMAIN key
KeyBytes(key) == IF IsRsaKey(key) THEN key.e \o key.p \o key.q ELSE key.scalar

LengthTemplate(key) ==
  IF IsRsaKey(key)
  THEN <<145>> \o BerLength(Len(key.e)) \o <<146>> \o BerLength(Len(key.p)) \o <<147>> \o BerLength(Len(key.q))
  ELSE <<146>> \o BerLength(Len(key.scalar))
ImportValue(s, template, bytes) ==
  HostTlv(CrtTag(s), <<>>) \o HostTlv(LengthsTag, template) \o HostTlv(KeyDataTag, bytes)

\* bytes: what a whole element 5F48 of an import holds.
Meaning(kind, s, key, bytes, list, missing) ==
  [kind |-> kind, slot |-> s, key |-> key, bytes |-> bytes, list |-> list, missing |-> missing,
   cmd |-> APDU(<<>>, <<>>, NoLe)]
Plain(kind, s) == Meaning(kind, s, Nothing, <<>>, <<>>, 0)

NoRequest == Plain("none", "none")
Quiet == wire = <<>> /\ request = NoRequest

\* The form matters to the parser alone, so a list that is cut comes in one.
Send(meaning, cmd) ==
  /\ Quiet
  /\ \E form \in Forms :
       /\ Carries(form, cmd) /\ (meaning.missing = 0 \/ form = "extended")
       /\ wire' = EncodeApdu(form, cmd)
  /\ request' = [meaning EXCEPT !.cmd = cmd]
  /\ UNCHANGED <<slot, reply, euclid, held>>

\* Bytes are missing at the end of the key, of the list in 4D or of 4D itself.
SendImport(s, key, where, missing) ==
  LET less(level, bytes) == IF where = level THEN Cut(bytes, missing) ELSE bytes
      sent == less("key", KeyBytes(key))
      value == ImportValue(s, LengthTemplate(key), sent)
      data == less("4D", HostTlv(77, less("list", value)))
  IN /\ missing > 0 \/ where = "key"
     /\ where = "key" => missing <= Len(KeyBytes(key))
     /\ Send(Meaning("import", s, key, IF where = "key" THEN sent ELSE <<>>, <<>>, missing),
             APDU(<<0, 219, 63, 255>>, data, NoLe))

SendList(list, missing) ==
  /\ missing <= Len(HostList(list))
  /\ Send(Meaning("list", "none", Nothing, <<>>, list, missing),
          APDU(<<0, 219, 63, 255>>, Cut(HostList(list), missing), NoLe))

SendAttributes(s, bytes) ==
  Send(Plain("attributes", s), APDU(<<0, 218, 0, AttributesTag(s)>>, bytes, NoLe))

SendReadAttributes(s) ==
  Send(Plain("read attributes", s), APDU(<<0, 202, 0, AttributesTag(s)>>, <<>>, 256))

SendFingerprint(s, n) ==
  Send(Plain("fingerprint", s),
       APDU(<<0, 218, 0, FingerprintTag(s)>>, [i \in 1..n |-> 1], NoLe))

SendGenerate(s) == Send(Plain("generate", s), APDU(<<0, 71, 128, 0>>, <<CrtTag(s), 0>>, 256))
SendRead(s) == Send(Plain("read", s), APDU(<<0, 71, 129, 0>>, <<CrtTag(s), 0>>, 256))

\* Signatures of other algorithms do not decode their private key here.
SendSign ==
  /\ "SIG" \in Slots /\ slot["SIG"].alg.id = RSA
  /\ Send(Plain("sign", "SIG"), APDU(<<0, 42, 158, 154>>, <<1>>, NoLe))

SendOther(header, data, le) == Send(Plain("other", "none"), APDU(header, data, le))

\* The host takes the answer, and may go on.
TakeAnswer ==
  /\ wire = <<>> /\ request # NoRequest
  /\ request' = NoRequest /\ reply' = Refused("none")
  /\ UNCHANGED <<wire, slot, euclid, held>>

SendBroken(bytes) ==
  /\ Quiet
  /\ wire' = bytes /\ request' = Plain("broken", "none")
  /\ UNCHANGED <<slot, reply, euclid, held>>

-----------------------------------------------------------------------------
(* The card: one action per handler. *)

Command == parse_apdu(wire)
Is(cmd, ins) == ~IsError(cmd) /\ cmd.header[2] = ins
Arrived(ins) == wire # <<>> /\ euclid = Nothing /\ Is(Command, ins)
Parameters == <<Command.header[3], Command.header[4]>>

Answer(r) == reply' = r /\ wire' = <<>> /\ UNCHANGED request
AnswerOnly(r) == Answer(r) /\ UNCHANGED <<slot, euclid, held>>

Malformed ==
  /\ wire # <<>> /\ euclid = Nothing /\ IsError(Command)
  /\ AnswerOnly(Refused("6700"))

\* The components of a private key under an algorithm, as the host knows them.
Secret(alg, private) ==
  IF alg.id = RSA THEN PrivateFields(private) ELSE [scalar |-> StoredScalar(alg, private)]

Known(alg, secret, public) == [kind |-> "key", alg |-> alg, secret |-> secret, public |-> public]

\* What the host believes when its import is answered 9000: the slot of a curve
\* holds the bytes of 5F48, whatever the template 7F48 says of them.
Believed(alg, key, bytes) ==
  LET p == FromBytes(key.p)
      q == FromBytes(key.q)
  IN IF alg.id = RSA
     THEN Known(alg, [e |-> FromBytes(key.e), p |-> p, q |-> q],
                <<TLV(129, ToBytes(p * q), <<>>), TLV(130, key.e, <<>>)>>)
     ELSE Known(alg, [scalar |-> bytes],
                <<TLV(134, PublicKey(alg, StoredScalar(alg, bytes)), <<>>)>>)

\* Of a slot that changes in another way nothing is known.
Imported(done) ==
  /\ Answer(Refused(done.sw))
  /\ slot' = done.slot
  /\ held' = IF request.kind = "import" /\ done.sw = "9000"
             THEN [held EXCEPT ![request.slot] =
                     Believed(slot[request.slot].alg, request.key, request.bytes)]
             ELSE [s \in Slots |-> IF done.slot[s] = slot[s] THEN held[s] ELSE Nothing]
  /\ UNCHANGED euclid

PutDataOdd == Arrived(219) /\ Imported(handle_key_import(Command.data))

PutData(s) ==
  LET attributes == attributes_from_bytes(Command.data)
  IN /\ Arrived(218)
     /\ \/ /\ Parameters = <<0, AttributesTag(s)>>
           /\ IF IsFailed(attributes) THEN Answer(Refused("6A80")) /\ UNCHANGED slot
              ELSE /\ Answer(Refused("9000"))
                   /\ slot' = [slot EXCEPT ![s].alg = attributes]
        \/ /\ Parameters = <<0, FingerprintTag(s)>>
           /\ IF Len(Command.data) # 20 THEN Answer(Refused("6700")) /\ UNCHANGED slot
              ELSE /\ Answer(Refused("9000"))
                   /\ slot' = [slot EXCEPT ![s].fingerprint = Written(Command.data)]
     /\ UNCHANGED <<euclid, held>>

GetData(s) ==
  /\ Arrived(202) /\ Parameters = <<0, AttributesTag(s)>>
  /\ AnswerOnly(Response("9000", attributes_to_bytes(slot[s].alg)))

Generated(s, pair, new) ==
  /\ slot' = [slot EXCEPT ![s] = new]
  /\ Answer(PublicAnswer(new))
  /\ held' = [held EXCEPT ![s] = Known(new.alg, Secret(new.alg, pair.private), pair.elements)]
  /\ UNCHANGED euclid

Generate(s) ==
  /\ Arrived(71) /\ Command.header[3] = 128 /\ Command.data[1] = CrtTag(s)
  /\ \/ ~CanGenerate(slot[s].alg) /\ AnswerOnly(Refused("6A81"))
     \/ CanGenerate(slot[s].alg) /\ AnswerOnly(Refused("6400"))  \* generate_keypair fails
     \/ \E pair \in KeyPairs(slot[s].alg) : Generated(s, pair, WithPair(slot[s], pair))

ReadPublicKey(s) ==
  /\ Arrived(71) /\ Command.header[3] = 129 /\ Command.data[1] = CrtTag(s)
  /\ AnswerOnly(PublicAnswer(slot[s]))

UnknownInstruction ==
  /\ \E h \in Headers : Arrived(h[2])
  /\ AnswerOnly(Refused("6D00"))

\* handle_pso_sign as far as the private key: mod_inverse runs to its end,
\* then the key is rebuilt and used, which may fail for other reasons.  A prime
\* of value zero makes p - 1 panic: the driver ends without an answer and is
\* started again with the slots as they were saved.
DecodePrivateKey(n, fields) ==
  \/ /\ IsFailed(n) \/ IsFailed(fields)
     /\ AnswerOnly(Refused("6400"))
  \/ /\ ~IsFailed(n) /\ ~IsFailed(fields)
     /\ fields.p = 0 \/ fields.q = 0
     /\ AnswerOnly(Refused("none"))
  \/ /\ ~IsFailed(n) /\ ~IsFailed(fields)
     /\ fields.p > 0 /\ fields.q > 0
     /\ euclid' = EuclidStart(fields.e, (fields.p - 1) * (fields.q - 1))
     /\ UNCHANGED <<wire, slot, reply, request, held>>

SignBegins ==
  /\ Arrived(42)
  /\ \/ ~HasKey(slot["SIG"]) /\ AnswerOnly(Refused("6A88"))
     \/ /\ HasKey(slot["SIG"])
        /\ DecodePrivateKey(get_modulus(slot["SIG"].public), PrivateFields(slot["SIG"].private))

InverseStep ==
  /\ euclid # Nothing /\ ~EuclidDone(euclid)
  /\ euclid' = EuclidStep(euclid)
  /\ UNCHANGED <<wire, slot, reply, request, held>>

SignEnds ==
  /\ euclid # Nothing /\ EuclidDone(euclid)
  /\ euclid' = Nothing
  /\ \/ EuclidResult(euclid) # NoInverse /\ Answer(Refused("9000"))
     \/ Answer(Refused("6400"))
  /\ UNCHANGED <<slot, held>>

-----------------------------------------------------------------------------
Init ==
  /\ wire = <<>>
  /\ slot = [s \in Slots |-> FactorySlot]
  /\ reply = Refused("none")
  /\ euclid = Nothing
  /\ request = NoRequest
  /\ held = [s \in Slots |-> Nothing]

\* What touches no slot is sent to a fresh card only: parsers keep no state.
Fresh == slot = [s \in Slots |-> FactorySlot]

Host ==
  \/ TakeAnswer
  \/ \E s \in Slots, k \in Keys, w \in {"key", "list", "4D"}, i \in ImportCuts :
       SendImport(s, k, w, i)
  \/ \E s \in Slots, b \in AttributeBytes : SendAttributes(s, b)
  \/ \E s \in Slots, n \in {19, 20} : SendFingerprint(s, n)
  \/ \E s \in Slots : SendReadAttributes(s) \/ SendGenerate(s) \/ SendRead(s)
  \/ SendSign
  \/ \E l \in Lists, i \in ListCuts : (Fresh \/ l[1].tag = 77) /\ SendList(l, i)
  \/ Fresh /\ \E h \in Headers, d \in Payloads, le \in Lengths : SendOther(h, d, le)
  \/ Fresh /\ \E b \in Broken : SendBroken(b)

Card ==
  \/ Malformed
  \/ PutDataOdd
  \/ \E s \in Slots : PutData(s) \/ GetData(s) \/ Generate(s) \/ ReadPublicKey(s)
  \/ UnknownInstruction
  \/ SignBegins
  \/ InverseStep
  \/ SignEnds

Next == Host \/ Card
Spec == Init /\ [][Next]_vars

-----------------------------------------------------------------------------
(* Properties. *)

\* Every command that a host sends, in each form of APDU that can carry it,
\* reaches the applets with the header, the data and the Le that it was built
\* from: parse_apdu tells short, extended and prefixed bodies apart.
CommandArrives ==
  wire # <<>> /\ request.kind # "broken" => Command = request.cmd

Answered(kinds) == wire = <<>> /\ request.kind \in kinds
Whole == request.kind = "import" /\ request.missing = 0

\* What an import takes.  An RSA slot answers 9000 to a complete header list with
\* an RSA key and to no other.  The slot of a curve does not read the template of
\* lengths 7F48: it answers 9000 only if an element 5F48 of the size of its scalars
\* arrived whole, were it what is left of a longer key.  What a slot is said to
\* hold it holds: decode_private_key finds the components that the host sent, and
\* the scalar is the content of that element.  A list that does not begin with 4D
\* is no import.
ImportIsWhole ==
  /\ Answered({"import"}) =>
       LET alg == slot[request.slot].alg
       IN IF alg.id = RSA THEN reply.sw = "9000" <=> Whole /\ IsRsaKey(request.key)
          ELSE reply.sw = "9000" => Len(request.bytes) = ScalarSize(alg)
  /\ Answered({"list"}) /\ reply.sw = "9000" => request.list[1].tag = 77
  /\ \A s \in Slots : held[s] # Nothing => Secret(held[s].alg, slot[s].private) = held[s].secret

\* What a slot was given it gives back.  The public key that the card answers
\* to GENERATE and to a later read is that of the key in the slot, as long as
\* its attributes are those the key was made for; a generated key counts as a
\* key.  Attributes are read as they were written, those of RSA up to their sixth
\* byte: what a host writes behind it is accepted and forgotten.
AttributesKept(bytes) == IF bytes[1] = RSA THEN SubSeq(bytes, 1, 6) ELSE bytes

SlotReadsBack ==
  /\ Answered({"generate", "read"}) =>
       LET s == request.slot
           list == read_list(reply.data)
       IN held[s] # Nothing /\ held[s].alg = slot[s].alg =>
            /\ request.kind = "read" => reply.sw = "9000"
            /\ reply.sw = "9000" =>
                 Len(list) = 1 /\ list[1].tag = PublicKeyTag /\ list[1].subs = held[s].public
  /\ Answered({"generate"}) /\ reply.sw = "9000" => HasKey(slot[request.slot])
  /\ Answered({"attributes"}) /\ reply.sw = "9000" =>
       attributes_to_bytes(slot[request.slot].alg) = AttributesKept(request.cmd.data)

\* Lists of elements are read back as they were built, nested ones included,
\* and the encoder of the card builds the same bytes.  Of a list that is cut
\* exactly the elements that are whole are read.
ListsReadBack ==
  request.kind = "list" =>
    LET list == request.list
        bytes == HostList(list)
        whole(n) == Len(HostList(SubSeq(list, 1, n))) <= Len(bytes) - request.missing
    IN /\ \A i \in DOMAIN list : encode_tlv(Elements, list[i]) = HostTree(list[i])
       /\ \A n \in 0..Len(list) :
            whole(n) /\ (n = Len(list) \/ ~whole(n + 1)) =>
              read_list(Cut(bytes, request.missing)) = SubSeq(list, 1, n)

\* mod_inverse.  Every remainder of the loop is its coefficient times e modulo
\* phi and no coefficient outgrows phi; at the end there is a private exponent
\* exactly when e and phi have no common divisor, it is not above phi, and it
\* inverts e.  A prime of value one leaves no modulus.
InverseIsRight == euclid # Nothing /\ euclid.m > 0 => RightInverse(euclid)

-----------------------------------------------------------------------------
(* What the repository says of the card and the code does not keep. *)

\* fingerprint.rs: "Calculate OpenPGP v4 fingerprint for an RSA key", with
\* "MPI format: 2-byte bit count || value".  The bit count of an OpenPGP
\* number starts at its most significant one bit.
BitCount(bytes) ==
  LET top == CHOOSE b \in 1..8 : 2 ^ (b - 1) <= bytes[1] /\ bytes[1] < 2 ^ b
  IN 8 * (Len(bytes) - 1) + top
ExactMpi(bytes) == Pair(BitCount(bytes)) \o bytes

FingerprintIsV4 ==
  Answered({"generate"}) /\ reply.sw = "9000" /\ slot[request.slot].alg.id = RSA =>
    LET s == request.slot
        n == get_modulus(slot[s].public).bytes
        e == get_exponent(slot[s].public).bytes
    IN slot[s].fingerprint = Sha1(Packet(Time, 1, ExactMpi(n) \o ExactMpi(e)))
=============================================================================
