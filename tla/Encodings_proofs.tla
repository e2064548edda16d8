-------------------------- MODULE Encodings_proofs --------------------------
(***************************************************************************)
(* What the parsers of bytes do with bytes of every length: parse_apdu     *)
(* (apdu/mod.rs), the BER-TLV parser and encoder (tlv/) and the encodings  *)
(* of keys and attributes (openpgp/).  What is encoded is parsed to what   *)
(* it was, cut bytes to the elements that are whole, and no bytes at all   *)
(* lead a parser past their end.                                           *)
(***************************************************************************)
EXTENDS Apdu, KeyEncoding, SequenceTheorems, WellFoundedInduction, TLAPS

HeaderBytes == {h \in Seq(Octets) : Len(h) = 4}
LeValues == {n \in Nat : n <= 65536}
Commands == [header: HeaderBytes, data: Seq(Octets), le: LeValues]

LEMMA CommandFields ==
  ASSUME NEW cmd \in Commands
  PROVE  /\ cmd.header \in Seq(Octets) /\ Len(cmd.header) = 4
         /\ cmd.data \in Seq(Octets) /\ Len(cmd.data) \in Nat
         /\ cmd.le \in Nat /\ cmd.le <= 65536
         /\ cmd = APDU(cmd.header, cmd.data, cmd.le)
<1>1. cmd.header \in Seq(Octets) /\ Len(cmd.header) = 4
  BY DEF Commands, HeaderBytes
<1>2. cmd.data \in Seq(Octets) /\ cmd = APDU(cmd.header, cmd.data, cmd.le)
  BY DEF Commands, APDU
<1>3. cmd.le \in Nat /\ cmd.le <= 65536
  BY DEF Commands, LeValues
<1>4. QED
  BY <1>1, <1>2, <1>3, LenProperties

-----------------------------------------------------------------------------
(* Sequences and numbers. *)

\* A sequence made of three parts, taken apart again.
LEMMA Parts ==
  ASSUME NEW S, NEW a \in Seq(S), NEW d \in Seq(S), NEW b \in Seq(S)
  PROVE  LET t == (a \o d) \o b
         IN /\ t \in Seq(S) /\ Len(t) = Len(a) + Len(d) + Len(b)
            /\ \A i \in 1..Len(a) : t[i] = a[i]
            /\ SubSeq(t, Len(a) + 1, Len(a) + Len(d)) = d
            /\ \A i \in 1..Len(b) : t[Len(a) + Len(d) + i] = b[i]
<1> DEFINE t == (a \o d) \o b
           m == SubSeq(t, Len(a) + 1, Len(a) + Len(d))
<1>1. Len(a) \in Nat /\ Len(d) \in Nat /\ Len(b) \in Nat
  BY LenProperties
<1>2. /\ a \o d \in Seq(S) /\ Len(a \o d) = Len(a) + Len(d)
      /\ \A i \in 1..Len(a) + Len(d) : (a \o d)[i] = IF i <= Len(a) THEN a[i] ELSE d[i - Len(a)]
  BY ConcatProperties
<1>3. /\ t \in Seq(S) /\ Len(t) = Len(a \o d) + Len(b)
      /\ \A i \in 1..Len(a \o d) + Len(b) :
           t[i] = IF i <= Len(a \o d) THEN (a \o d)[i] ELSE b[i - Len(a \o d)]
  BY <1>2, ConcatProperties
<1> HIDE DEF t
<1>4. \A i \in 1..Len(a) : t[i] = a[i]
  BY <1>1, <1>2, <1>3
<1>5. \A i \in 1..Len(b) : t[Len(a) + Len(d) + i] = b[i]
  BY <1>1, <1>2, <1>3
<1>6. \A i \in 1..Len(d) : t[Len(a) + i] = d[i]
  BY <1>1, <1>2, <1>3
<1>7. \A i \in 1..Len(d) : d[i] \in S
  BY ElementOfSeq
<1>8. \A i \in Len(a) + 1..Len(a) + Len(d) : t[i] \in S
  BY <1>1, <1>2, <1>3, ElementOfSeq
<1>9. /\ m \in Seq(S) /\ Len(m) = Len(d)
      /\ \A i \in 1..Len(d) : m[i] = t[Len(a) + 1 + i - 1]
  BY <1>1, <1>8, SubSeqProperties
<1>10. \A i \in 1..Len(d) : m[i] = d[i]
  BY <1>1, <1>6, <1>9
<1>11. m = d
  BY <1>9, <1>10, SeqEqual
<1>12. QED
  BY <1>1, <1>2, <1>3, <1>4, <1>5, <1>11 DEF t

\* Bytes t are made of the parts a, d and b.
MadeOf(t, a, d, b) ==
  /\ t \in Seq(Octets) /\ Len(t) = Len(a) + Len(d) + Len(b)
  /\ \A i \in 1..Len(a) : t[i] = a[i]
  /\ SubSeq(t, Len(a) + 1, Len(a) + Len(d)) = d
  /\ \A i \in 1..Len(b) : t[Len(a) + Len(d) + i] = b[i]

LEMMA BodyParts ==
  ASSUME NEW a \in Seq(Octets), NEW d \in Seq(Octets), NEW b \in Seq(Octets)
  PROVE  MadeOf((a \o d) \o b, a, d, b)
BY Parts DEF MadeOf

\* Bytes t are the prefix a and the rest b.
Joined(t, a, b) ==
  /\ SubSeq(t, 1, Len(a)) = a /\ SubSeq(t, Len(a) + 1, Len(t)) = b
  /\ t \in Seq(Octets) /\ Len(t) = Len(a) + Len(b)

LEMMA Rest ==
  ASSUME NEW a \in Seq(Octets), NEW b \in Seq(Octets)
  PROVE  Joined(a \o b, a, b)
<1>1. /\ a \o b \in Seq(Octets) /\ Len(a \o b) = Len(a) + Len(b)
      /\ <<>> \o a = a /\ a \o <<>> = a /\ (a \o b) \o <<>> = a \o b
      /\ <<>> \in Seq(Octets) /\ Len(<<>>) = 0 /\ Len(a) \in Nat /\ Len(b) \in Nat
  BY ConcatProperties, ConcatEmptySeq, EmptySeq, LenProperties
<1>2. SubSeq((<<>> \o a) \o b, Len(<<>>) + 1, Len(<<>>) + Len(a)) = a
  BY <1>1, Parts
<1>3. SubSeq((a \o b) \o <<>>, Len(a) + 1, Len(a) + Len(b)) = b
  BY <1>1, Parts
<1>4. QED
  BY <1>1, <1>2, <1>3 DEF Joined

\* A length or Le in two bytes is read back.
LEMMA WideRead ==
  ASSUME NEW n \in Nat, n < 65536
  PROVE  /\ Wide(n) \in Seq(Octets) /\ Len(Wide(n)) = 2
         /\ U16(Wide(n), 1) = n
         /\ Wide(n)[1] = n \div 256 /\ Wide(n)[2] = n % 256
<1>1. n \div 256 \in Octets /\ n % 256 \in Octets /\ (n \div 256) * 256 + (n % 256) = n
  BY DEF Octets
<1>2. QED
  BY <1>1 DEF Wide, U16, Byte

-----------------------------------------------------------------------------
(* The bytes of Le. *)

LEMMA LeShort ==
  ASSUME NEW cmd \in Commands, cmd.le <= 256, cmd.le # NoLe
  PROVE  /\ LeBytes(cmd, FALSE) \in Seq(Octets) /\ Len(LeBytes(cmd, FALSE)) = 1
         /\ LeBytes(cmd, FALSE)[1] \in Octets
         /\ LeOf(LeBytes(cmd, FALSE)[1], FALSE) = cmd.le
<1>1. cmd.le \in Nat /\ cmd.le > 0
  BY CommandFields DEF NoLe
<1>2. cmd.le % 256 \in Octets /\ (cmd.le % 256 = IF cmd.le = 256 THEN 0 ELSE cmd.le)
  BY <1>1 DEF Octets
<1>3. LeBytes(cmd, FALSE) = <<cmd.le % 256>>
  BY DEF LeBytes, Byte
<1>4. LeOf(cmd.le % 256, FALSE) = cmd.le
  BY <1>1, <1>2 DEF LeOf
<1>5. LET s == <<cmd.le % 256>> IN s \in Seq(Octets) /\ Len(s) = 1 /\ s[1] = cmd.le % 256
  BY <1>2
<1>6. QED
  BY <1>2, <1>3, <1>4, <1>5, ZenonT(40)

LEMMA LeWide ==
  ASSUME NEW cmd \in Commands, cmd.le # NoLe
  PROVE  /\ LeBytes(cmd, TRUE) \in Seq(Octets) /\ Len(LeBytes(cmd, TRUE)) = 2
         /\ LeOf(U16(LeBytes(cmd, TRUE), 1), TRUE) = cmd.le
<1> DEFINE n == cmd.le % 65536
<1>1. cmd.le \in Nat /\ cmd.le > 0 /\ cmd.le <= 65536
  BY CommandFields DEF NoLe
<1>2. n \in Nat /\ n < 65536 /\ n = IF cmd.le = 65536 THEN 0 ELSE cmd.le
  BY <1>1
<1>3. LeBytes(cmd, TRUE) = Wide(n)
  BY DEF LeBytes
<1> HIDE DEF n
<1>4. LeOf(n, TRUE) = cmd.le
  BY <1>1, <1>2 DEF LeOf
<1>5. Wide(n) \in Seq(Octets) /\ Len(Wide(n)) = 2 /\ U16(Wide(n), 1) = n
  BY <1>2, WideRead
<1>6. QED
  BY <1>3, <1>4, <1>5, Zenon

-----------------------------------------------------------------------------
(* Bodies. *)

\* What parse_short_apdu and parse_extended_apdu return, case by case.
LEMMA ShortCases ==
  ASSUME NEW h, NEW t
  PROVE  /\ Len(t) = 0 => parse_short_apdu(h, t) = APDU(h, <<>>, NoLe)
         /\ Len(t) # 0 /\ Len(t) = 1 =>
              parse_short_apdu(h, t) = APDU(h, <<>>, LeOf(t[1], FALSE))
         /\ Len(t) # 0 /\ Len(t) # 1 /\ Len(t) = 1 + t[1] =>
              parse_short_apdu(h, t) = APDU(h, SubSeq(t, 2, 1 + t[1]), NoLe)
         /\ Len(t) # 0 /\ Len(t) # 1 /\ Len(t) # 1 + t[1] /\ Len(t) = 2 + t[1] =>
              parse_short_apdu(h, t) = APDU(h, SubSeq(t, 2, 1 + t[1]), LeOf(t[2 + t[1]], FALSE))
         /\ Len(t) # 0 /\ Len(t) # 1 /\ Len(t) # 1 + t[1] /\ Len(t) # 2 + t[1] =>
              parse_short_apdu(h, t) = APDUError("InvalidLength")
BY Zenon DEF parse_short_apdu

LEMMA ExtendedCases ==
  ASSUME NEW h, NEW t, ~(Len(t) < 2)
  PROVE  /\ Len(t) = 2 => parse_extended_apdu(h, t) = APDU(h, <<>>, LeOf(U16(t, 1), TRUE))
         /\ Len(t) # 2 /\ ~(Len(t) < 2 + U16(t, 1)) /\ Len(t) = 2 + U16(t, 1) =>
              parse_extended_apdu(h, t) = APDU(h, SubSeq(t, 3, 2 + U16(t, 1)), NoLe)
         /\ Len(t) # 2 /\ ~(Len(t) < 2 + U16(t, 1)) /\ Len(t) # 2 + U16(t, 1)
            /\ Len(t) = 4 + U16(t, 1) =>
              parse_extended_apdu(h, t) =
                APDU(h, SubSeq(t, 3, 2 + U16(t, 1)), LeOf(U16(t, 3 + U16(t, 1)), TRUE))
BY Zenon DEF parse_extended_apdu

\* parse_short_apdu inverts the short form.
LEMMA ShortRead ==
  ASSUME NEW cmd \in Commands, Len(cmd.data) < 256, cmd.le <= 256
  PROVE  /\ ShortBody(cmd) \in Seq(Octets)
         /\ parse_short_apdu(cmd.header, ShortBody(cmd)) = cmd
         /\ cmd.data = <<>> => Len(ShortBody(cmd)) < 2
         /\ cmd.data # <<>> =>
              /\ ShortBody(cmd)[1] = Len(cmd.data) /\ Len(cmd.data) > 0
              /\ Len(ShortBody(cmd)) \in {1 + Len(cmd.data), 2 + Len(cmd.data)}
<1> DEFINE h == cmd.header
           d == cmd.data
           b == LeBytes(cmd, FALSE)
           n == Len(d)
<1>1. d \in Seq(Octets) /\ cmd = APDU(h, d, cmd.le) /\ n \in Nat
  BY CommandFields
<1>2. <<>> \in Seq(Octets) /\ Len(<<>>) = 0
  BY EmptySeq
<1>3. CASE d = <<>>
  <2>1. ShortBody(cmd) = <<>> \o b
    BY <1>3 DEF ShortBody
  <2>2. CASE cmd.le = NoLe
    <3>1. b = <<>>
      BY <2>2 DEF LeBytes
    <3>2. ShortBody(cmd) = <<>>
      BY <1>2, <2>1, <3>1, ConcatEmptySeq
    <3>3. parse_short_apdu(h, <<>>) = APDU(h, d, cmd.le)
      BY <1>2, <1>3, <2>2, ShortCases
    <3>4. QED
      BY <1>1, <1>2, <1>3, <3>2, <3>3
  <2>3. CASE cmd.le # NoLe
    <3>1. b \in Seq(Octets) /\ Len(b) = 1 /\ LeOf(b[1], FALSE) = cmd.le
      BY <2>3, LeShort
    <3> HIDE DEF b
    <3>2. ShortBody(cmd) = b
      BY <2>1, <3>1, ConcatEmptySeq
    <3>3. Len(b) # 0
      BY <3>1
    <3>4. parse_short_apdu(h, b) = APDU(h, d, cmd.le)
      BY <1>3, <3>1, <3>3, ShortCases, Zenon
    <3>5. Len(b) < 2
      BY <3>1
    <3>6. QED
      BY <1>1, <1>3, <3>1, <3>2, <3>4, <3>5, Zenon
  <2>4. QED
    BY <2>2, <2>3
<1>4. CASE d # <<>>
  <2> DEFINE a == <<n>>
             t == (a \o d) \o b
  <2>1. n \in Nat /\ n > 0 /\ n < 256
    BY <1>1, <1>4, EmptySeq
  <2>2. a \in Seq(Octets) /\ Len(a) = 1 /\ a[1] = n
    <3> HIDE DEF n
    <3>1. n \in Octets
      BY <2>1 DEF Octets
    <3>2. QED
      BY <3>1
  <2>3. ShortBody(cmd) = t
    BY <1>4 DEF ShortBody
  <2>4. \/ cmd.le = NoLe /\ b = <<>>
        \/ cmd.le # NoLe /\ b \in Seq(Octets) /\ Len(b) = 1 /\ LeOf(b[1], FALSE) = cmd.le
    <3>1. cmd.le = NoLe => b = <<>>
      BY DEF LeBytes
    <3> HIDE DEF b
    <3>2. cmd.le # NoLe => b \in Seq(Octets) /\ Len(b) = 1 /\ LeOf(b[1], FALSE) = cmd.le
      BY LeShort, Zenon DEF b
    <3>3. QED
      BY <3>1, <3>2, Zenon
  <2> HIDE DEF a, b
  <2>5. b \in Seq(Octets)
    BY <1>2, <2>4, Zenon
  <2>6. /\ t \in Seq(Octets) /\ Len(t) = Len(a) + n + Len(b)
        /\ \A i \in 1..Len(a) : t[i] = a[i]
        /\ SubSeq(t, Len(a) + 1, Len(a) + n) = d
        /\ \A i \in 1..Len(b) : t[Len(a) + n + i] = b[i]
    <3>1. MadeOf(t, a, d, b)
      BY <1>1, <2>2, <2>5, BodyParts, Zenon
    <3> HIDE DEF t
    <3>2. QED
      BY <3>1 DEF MadeOf
  <2> HIDE DEF t
  <2>7. t[1] = n /\ SubSeq(t, 2, 1 + t[1]) = d /\ Len(t) = 1 + n + Len(b)
    BY <2>1, <2>2, <2>6
  <2>8. CASE cmd.le = NoLe
    <3>1. Len(t) = 1 + t[1] /\ Len(t) # 0 /\ Len(t) # 1
      BY <1>2, <2>1, <2>4, <2>7, <2>8
    <3>2. parse_short_apdu(h, t) = APDU(h, d, cmd.le)
      BY <2>7, <2>8, <3>1, ShortCases, Zenon
    <3>3. QED
      BY <1>1, <1>4, <2>1, <2>3, <2>6, <2>7, <3>1, <3>2
  <2>9. CASE cmd.le # NoLe
    <3>1. Len(b) = 1
      BY <2>4, <2>9
    <3>2. Len(t) = 2 + t[1] /\ Len(t) # 0 /\ Len(t) # 1 /\ Len(t) # 1 + t[1]
      BY <2>1, <2>7, <3>1
    <3>3. t[2 + t[1]] = b[1]
      BY <2>1, <2>2, <2>6, <2>7, <3>1
    <3>4. LeOf(t[2 + t[1]], FALSE) = cmd.le
      BY <2>4, <2>9, <3>3, Zenon
    <3>5. parse_short_apdu(h, t) = APDU(h, d, cmd.le)
      BY <2>7, <3>2, <3>4, ShortCases, Zenon
    <3>6. QED
      BY <1>1, <1>4, <2>1, <2>3, <2>6, <2>7, <3>2, <3>5
  <2>10. QED
    BY <2>8, <2>9
<1>5. QED
  BY <1>3, <1>4

\* A command that the extended form carries.
Fits(cmd) == Len(cmd.data) < 65536 /\ (cmd.data # <<>> \/ cmd.le # NoLe)

\* parse_extended_apdu inverts the extended form, which IsExtended recognises.
LEMMA ExtendedRead ==
  ASSUME NEW cmd \in Commands, Fits(cmd)
  PROVE  LET ext == ExtendedBody(cmd)
         IN /\ ext \in Seq(Octets) /\ Len(ext) >= 2 /\ IsExtended(ext)
            /\ parse_extended_apdu(cmd.header, ext) = cmd
<1> DEFINE h == cmd.header
           d == cmd.data
           b == LeBytes(cmd, TRUE)
           n == Len(d)
<1>1. d \in Seq(Octets) /\ cmd = APDU(h, d, cmd.le) /\ n \in Nat
  BY CommandFields
<1>2. <<>> \in Seq(Octets) /\ Len(<<>>) = 0
  BY EmptySeq
<1>3. \/ cmd.le = NoLe /\ b = <<>>
      \/ cmd.le # NoLe /\ b \in Seq(Octets) /\ Len(b) = 2 /\ LeOf(U16(b, 1), TRUE) = cmd.le
  <2>1. cmd.le = NoLe => b = <<>>
    BY DEF LeBytes
  <2> HIDE DEF b
  <2>2. cmd.le # NoLe => b \in Seq(Octets) /\ Len(b) = 2 /\ LeOf(U16(b, 1), TRUE) = cmd.le
    BY LeWide, Zenon DEF b
  <2>3. QED
    BY <2>1, <2>2, Zenon
<1>4. CASE d = <<>>
  <2>1. ExtendedBody(cmd) = <<>> \o b
    BY <1>4 DEF ExtendedBody
  <2> HIDE DEF b
  <2>2. b \in Seq(Octets) /\ Len(b) = 2 /\ LeOf(U16(b, 1), TRUE) = cmd.le
    <3>1. cmd.le # NoLe
      BY <1>4 DEF Fits
    <3>2. QED
      BY <1>3, <3>1, Zenon
  <2>3. ExtendedBody(cmd) = b
    BY <2>1, <2>2, ConcatEmptySeq
  <2>4. ~(Len(b) < 2) /\ Len(b) >= 2
    BY <2>2
  <2>5. IsExtended(b)
    BY <2>2, Zenon DEF IsExtended
  <2>6. parse_extended_apdu(h, b) = APDU(h, d, cmd.le)
    BY <1>4, <2>2, <2>4, ExtendedCases, Zenon
  <2>7. QED
    BY <1>1, <2>2, <2>3, <2>4, <2>5, <2>6, Zenon
<1>5. CASE d # <<>>
  <2> DEFINE a == Wide(n)
             t == (a \o d) \o b
  <2>1. n \in Nat /\ n > 0 /\ n < 65536
    BY <1>1, <1>5, EmptySeq DEF Fits
  <2>2. a \in Seq(Octets) /\ Len(a) = 2 /\ U16(a, 1) = n
    BY <2>1, WideRead
  <2>3. ExtendedBody(cmd) = t
    BY <1>5 DEF ExtendedBody
  <2> HIDE DEF a, b
  <2>4. b \in Seq(Octets)
    BY <1>2, <1>3, Zenon
  <2>5. /\ t \in Seq(Octets) /\ Len(t) = Len(a) + n + Len(b)
        /\ \A i \in 1..Len(a) : t[i] = a[i]
        /\ SubSeq(t, Len(a) + 1, Len(a) + n) = d
        /\ \A i \in 1..Len(b) : t[Len(a) + n + i] = b[i]
    <3>1. MadeOf(t, a, d, b)
      BY <1>1, <2>2, <2>4, BodyParts, Zenon
    <3> HIDE DEF t
    <3>2. QED
      BY <3>1 DEF MadeOf
  <2> HIDE DEF t
  <2>6. U16(t, 1) = n
    <3>1. t[1] = a[1] /\ t[1 + 1] = a[1 + 1]
      BY <2>2, <2>5
    <3>2. QED
      BY <2>2, <3>1 DEF U16
  <2>7. SubSeq(t, 3, 2 + U16(t, 1)) = d /\ Len(t) = 2 + n + Len(b)
    BY <2>1, <2>2, <2>5, <2>6
  <2>8. CASE cmd.le = NoLe
    <3>1. Len(b) = 0
      BY <1>2, <1>3, <2>8, Zenon
    <3>2. /\ Len(t) = 2 + U16(t, 1) /\ Len(t) # 2
          /\ ~(Len(t) < 2) /\ ~(Len(t) < 2 + U16(t, 1)) /\ Len(t) >= 2
      BY <2>1, <2>6, <2>7, <3>1
    <3>3. IsExtended(t)
      BY <3>2, Zenon DEF IsExtended
    <3>4. parse_extended_apdu(h, t) = APDU(h, d, cmd.le)
      BY <2>7, <2>8, <3>2, ExtendedCases, Zenon
    <3>5. QED
      BY <1>1, <2>3, <2>5, <3>2, <3>3, <3>4, Zenon
  <2>9. CASE cmd.le # NoLe
    <3>1. Len(b) = 2
      BY <1>3, <2>9, Zenon
    <3>2. /\ Len(t) = 4 + U16(t, 1) /\ Len(t) # 2 /\ Len(t) # 2 + U16(t, 1)
          /\ ~(Len(t) < 2) /\ ~(Len(t) < 2 + U16(t, 1)) /\ Len(t) >= 2
      BY <2>1, <2>6, <2>7, <3>1
    <3>3. IsExtended(t)
      BY <3>2, Zenon DEF IsExtended
    <3>4. t[3 + n] = b[1] /\ t[3 + n + 1] = b[1 + 1]
      BY <2>1, <2>2, <2>5, <3>1
    <3>5. U16(t, 3 + U16(t, 1)) = U16(b, 1)
      BY <2>6, <3>4, Zenon DEF U16
    <3>6. LeOf(U16(t, 3 + U16(t, 1)), TRUE) = cmd.le
      BY <1>3, <2>9, <3>5, Zenon
    <3>7. parse_extended_apdu(h, t) = APDU(h, d, cmd.le)
      BY <2>7, <3>2, <3>6, ExtendedCases, Zenon
    <3>8. QED
      BY <1>1, <2>3, <2>5, <3>2, <3>3, <3>7, Zenon
  <2>10. QED
    BY <2>8, <2>9
<1>6. QED
  BY <1>4, <1>5

-----------------------------------------------------------------------------
(* Whole commands. *)

LEMMA Framed ==
  ASSUME NEW cmd \in Commands, NEW body \in Seq(Octets)
  PROVE  parse_apdu(cmd.header \o body) = ParseBody(cmd.header, body)
<1> DEFINE h == cmd.header
           t == h \o body
<1>1. h \in Seq(Octets) /\ Len(h) = 4 /\ Len(body) \in Nat
  BY CommandFields, LenProperties
<1> HIDE DEF h
<1>2. SubSeq(t, 1, Len(h)) = h /\ SubSeq(t, Len(h) + 1, Len(t)) = body /\ Len(t) = Len(h) + Len(body)
  <2>1. Joined(t, h, body)
    BY <1>1, Rest, Zenon
  <2> HIDE DEF t
  <2>2. QED
    BY <2>1 DEF Joined
<1> HIDE DEF t
<1>3. SubSeq(t, 1, 4) = h /\ SubSeq(t, 5, Len(t)) = body /\ ~(Len(t) < 4)
  BY <1>1, <1>2
<1>4. parse_apdu(t) = ParseBody(h, body)
  BY <1>3, Zenon DEF parse_apdu
<1>5. QED
  BY <1>4, Zenon DEF t, h

\* A body behind a zero byte.
LEMMA Zeroed ==
  ASSUME NEW body \in Seq(Octets)
  PROVE  LET t == <<0>> \o body
         IN /\ t \in Seq(Octets) /\ Len(t) = 1 + Len(body) /\ t[1] = 0 /\ Tail(t) = body
            /\ \A i \in 1..Len(body) : t[1 + i] = body[i]
<1> DEFINE z == <<0>>
           t == z \o body
<1>1. z \in Seq(Octets) /\ Len(z) = 1 /\ z[1] = 0
  BY DEF Octets
<1> HIDE DEF z
<1>2. /\ t \in Seq(Octets) /\ Len(t) = 1 + Len(body) /\ Len(body) \in Nat
      /\ \A i \in 1..1 + Len(body) : t[i] = IF i <= 1 THEN z[i] ELSE body[i - 1]
  <2>1. /\ t \in Seq(Octets) /\ Len(t) = Len(z) + Len(body)
        /\ \A i \in 1..Len(z) + Len(body) :
             t[i] = IF i <= Len(z) THEN z[i] ELSE body[i - Len(z)]
    BY <1>1, ConcatProperties
  <2> HIDE DEF t
  <2>2. QED
    BY <1>1, <2>1, LenProperties
<1> HIDE DEF t
<1>3. t[1] = 0 /\ \A i \in 1..Len(body) : t[1 + i] = body[i]
  BY <1>1, <1>2
<1>4. t # <<>>
  BY <1>2, EmptySeq
<1>5. /\ Tail(t) \in Seq(Octets) /\ Len(Tail(t)) = Len(t) - 1
      /\ \A i \in 1..Len(Tail(t)) : Tail(t)[i] = t[i + 1]
  BY <1>2, <1>4, HeadTailProperties
<1>6. Len(Tail(t)) = Len(body) /\ \A i \in 1..Len(Tail(t)) : Tail(t)[i] = body[i]
  BY <1>2, <1>3, <1>5
<1>7. Tail(t) = body
  BY <1>5, <1>6, SeqEqual
<1>8. QED
  BY <1>2, <1>3, <1>7, Zenon DEF t, z

\* The result of a parser is a command, not an error.
LEMMA NoError == \A cmd \in Commands : ~IsError(cmd)
BY DEF IsError, Commands

\* A body in the short form, as it stands and behind a zero byte.
LEMMA ShortArrives ==
  ASSUME NEW cmd \in Commands, Len(cmd.data) < 256, cmd.le <= 256
  PROVE  ParseBody(cmd.header, ShortBody(cmd)) = cmd
<1> DEFINE s == ShortBody(cmd)
<1>1. parse_short_apdu(cmd.header, s) = cmd
  BY ShortRead
<1>2. ~(Len(s) > 2 /\ s[1] = 0)
  <2>1. CASE cmd.data = <<>>
    <3>1. s \in Seq(Octets) /\ Len(s) < 2
      BY <2>1, ShortRead
    <3> HIDE DEF s
    <3>2. Len(s) \in Nat
      BY <3>1, LenProperties
    <3>3. QED
      BY <3>1, <3>2
  <2>2. CASE cmd.data # <<>>
    <3>1. s[1] = Len(cmd.data) /\ Len(cmd.data) > 0
      BY <2>2, ShortRead
    <3>2. Len(cmd.data) \in Nat
      BY CommandFields
    <3> HIDE DEF s
    <3>3. QED
      BY <3>1, <3>2
  <2>3. QED
    BY <2>1, <2>2
<1>3. QED
  BY <1>1, <1>2, Zenon DEF ParseBody

LEMMA PrefixedArrives ==
  ASSUME NEW cmd \in Commands, Len(cmd.data) < 256, cmd.le <= 256,
         Len(ShortBody(cmd)) \notin {0, 2}
  PROVE  ParseBody(cmd.header, <<0>> \o ShortBody(cmd)) = cmd
<1> DEFINE h == cmd.header
           s == ShortBody(cmd)
           t == <<0>> \o s
<1>1. s \in Seq(Octets) /\ Len(s) \in Nat /\ Len(s) # 0 /\ Len(s) # 2
  BY ShortRead, LenProperties
<1>2. parse_short_apdu(h, s) = cmd
  BY ShortRead
<1>3. /\ t \in Seq(Octets) /\ Len(t) = 1 + Len(s) /\ t[1] = 0 /\ Tail(t) = s
      /\ \A i \in 1..Len(s) : t[1 + i] = s[i]
  BY <1>1, Zeroed
<1>4. CASE cmd.data = <<>>
  <2>1. cmd.le # NoLe /\ s = LeBytes(cmd, FALSE)
    <3>1. s = <<>> \o LeBytes(cmd, FALSE)
      BY <1>4 DEF ShortBody
    <3>2. cmd.le = NoLe => LeBytes(cmd, FALSE) = <<>>
      BY DEF LeBytes
    <3> HIDE DEF s, t
    <3>3. <<>> \o <<>> = <<>> /\ Len(<<>>) = 0
      OBVIOUS
    <3>4. cmd.le # NoLe
      BY <1>1, <3>1, <3>2, <3>3, Zenon
    <3>5. LeBytes(cmd, FALSE) \in Seq(Octets)
      BY <3>4, LeShort
    <3>6. QED
      BY <3>1, <3>4, <3>5, ConcatEmptySeq, Zenon
  <2>2. Len(s) = 1 /\ LeOf(s[1], FALSE) = cmd.le
    BY <2>1, LeShort, Zenon
  <2> HIDE DEF s, t
  <2>3. Len(t) = 2 /\ t[1] = 0 /\ t[2] = s[1]
    BY <1>1, <1>3, <2>2
  <2>4. Len(t) # 0 /\ Len(t) # 1 /\ Len(t) # 1 + t[1] /\ Len(t) = 2 + t[1] /\ 2 + t[1] = 2
        /\ 1 + t[1] = 1 /\ ~(Len(t) > 2)
    BY <2>3
  <2>5. SubSeq(t, 2, 1) = <<>>
    BY SubSeqEmpty
  <2>6. parse_short_apdu(h, t) = APDU(h, <<>>, LeOf(t[2], FALSE))
    BY <2>4, <2>5, ShortCases, Zenon
  <2>7. LeOf(t[2], FALSE) = cmd.le
    BY <2>2, <2>3, Zenon
  <2>8. cmd = APDU(h, <<>>, cmd.le)
    BY <1>4, CommandFields
  <2>9. parse_short_apdu(h, t) = cmd
    BY <2>6, <2>7, <2>8, Zenon
  <2>10. ParseBody(h, t) = cmd
    BY <2>4, <2>9, Zenon DEF ParseBody
  <2>11. QED
    BY <2>10, Zenon DEF t, s
<1>5. CASE cmd.data # <<>>
  <2> DEFINE n == Len(cmd.data)
  <2>1. s[1] = n /\ n > 0 /\ Len(s) \in {1 + n, 2 + n}
    BY <1>5, ShortRead, Zenon
  <2>2. n \in Nat
    BY CommandFields
  <2> HIDE DEF n, s, t
  <2>3. s[2] \in Octets /\ s[2] \in Nat
    <3>1. 2 \in 1..Len(s)
      BY <1>1, <2>1, <2>2
    <3>2. s[2] \in Octets
      BY <1>1, <3>1, ElementOfSeq
    <3>3. \A x \in Octets : x \in Nat
      BY DEF Octets
    <3>4. QED
      BY <3>2, <3>3, Zenon
  <2>4. U16(s, 1) = n * 256 + s[2]
    BY <2>1 DEF U16
  <2>5. ~IsExtended(s)
    <3>1. Len(s) # 2 + U16(s, 1) /\ Len(s) # 4 + U16(s, 1)
      BY <2>1, <2>2, <2>3, <2>4
    <3>2. QED
      BY <1>1, <3>1, Zenon DEF IsExtended
  <2>6. Len(t) > 2
    BY <1>1, <1>3, <2>1, <2>2
  <2>7. ~IsError(cmd)
    BY NoError
  <2>8. ParseZero(h, t, s, cmd) = cmd
    BY <2>5, <2>7, Zenon DEF ParseZero
  <2>9. ParseBody(h, t) = cmd
    BY <1>2, <1>3, <2>6, <2>8, Zenon DEF ParseBody
  <2>10. QED
    BY <2>9, Zenon DEF t, s
<1>6. QED
  BY <1>4, <1>5

LEMMA ExtendedArrives ==
  ASSUME NEW cmd \in Commands, Fits(cmd)
  PROVE  ParseBody(cmd.header, <<0>> \o ExtendedBody(cmd)) = cmd
<1> DEFINE h == cmd.header
           s == ExtendedBody(cmd)
           t == <<0>> \o s
<1>1. /\ s \in Seq(Octets) /\ Len(s) >= 2 /\ IsExtended(s)
      /\ parse_extended_apdu(h, s) = cmd
  BY ExtendedRead, Zenon
<1>2. t \in Seq(Octets) /\ Len(t) = 1 + Len(s) /\ t[1] = 0 /\ Tail(t) = s
  BY <1>1, Zeroed, Zenon
<1> HIDE DEF s, t
<1>3. Len(s) \in Nat
  BY <1>1, LenProperties
<1>4. Len(t) > 2
  BY <1>1, <1>2, <1>3
<1>5. ParseZero(h, t, s, parse_short_apdu(h, s)) = cmd
  BY <1>1, Zenon DEF ParseZero
<1>6. ParseBody(h, t) = cmd
  BY <1>2, <1>4, <1>5, Zenon DEF ParseBody
<1>7. QED
  BY <1>6, Zenon DEF t, s

\* parse_apdu finds in the bytes of a command the header, the data and the Le
\* that the host put there, in each form that can carry the command and for
\* data of every length.
THEOREM EveryFormArrives ==
  \A form \in Forms, cmd \in Commands :
    Carries(form, cmd) => parse_apdu(EncodeApdu(form, cmd)) = cmd
<1> SUFFICES ASSUME NEW form \in Forms, NEW cmd \in Commands, Carries(form, cmd)
             PROVE  parse_apdu(EncodeApdu(form, cmd)) = cmd
  OBVIOUS
<1>1. CASE form = "short"
  <2>1. Len(cmd.data) < 256 /\ cmd.le <= 256
    BY <1>1 DEF Carries
  <2>2. EncodeApdu(form, cmd) = cmd.header \o ShortBody(cmd)
    BY <1>1 DEF EncodeApdu
  <2>3. ShortBody(cmd) \in Seq(Octets)
    BY <2>1, ShortRead, Zenon
  <2>4. QED
    BY <2>1, <2>2, <2>3, Framed, ShortArrives, Zenon
<1>2. CASE form = "extended"
  <2>1. Fits(cmd)
    BY <1>2 DEF Carries, Fits
  <2>2. EncodeApdu(form, cmd) = cmd.header \o (<<0>> \o ExtendedBody(cmd))
    BY <1>2 DEF EncodeApdu
  <2>3. ExtendedBody(cmd) \in Seq(Octets)
    BY <2>1, ExtendedRead, Zenon
  <2>4. <<0>> \o ExtendedBody(cmd) \in Seq(Octets)
    BY <2>3, Zeroed, Zenon
  <2>5. QED
    BY <2>1, <2>2, <2>4, Framed, ExtendedArrives, Zenon
<1>3. CASE form = "prefixed"
  <2>1. Len(cmd.data) < 256 /\ cmd.le <= 256 /\ Len(ShortBody(cmd)) \notin {0, 2}
    BY <1>3 DEF Carries
  <2>2. EncodeApdu(form, cmd) = cmd.header \o (<<0>> \o ShortBody(cmd))
    BY <1>3 DEF EncodeApdu
  <2>3. ShortBody(cmd) \in Seq(Octets)
    BY <2>1, ShortRead, Zenon
  <2>4. <<0>> \o ShortBody(cmd) \in Seq(Octets)
    BY <2>3, Zeroed, Zenon
  <2>5. QED
    BY <2>1, <2>2, <2>4, Framed, PrefixedArrives, Zenon
<1>4. QED
  BY <1>1, <1>2, <1>3 DEF Forms

-----------------------------------------------------------------------------
(* Any bytes. *)

Errors == {APDUError(w) : w \in {"TooShort", "InvalidLength", "InvalidExtendedFormat"}}

\* The outcome x of parsing bytes t behind the header h: an error, or a command
\* whose data are bytes of t.
Outcome(x, h, t) ==
  \/ x \in Errors
  \/ \E d \in Seq(Octets), le \in LeValues : Len(d) <= Len(t) /\ x = APDU(h, d, le)

LEMMA OutcomeError ==
  ASSUME NEW h, NEW t, NEW w \in {"TooShort", "InvalidLength", "InvalidExtendedFormat"}
  PROVE  Outcome(APDUError(w), h, t)
BY Zenon DEF Outcome, Errors

LEMMA OutcomeCommand ==
  ASSUME NEW h, NEW t, NEW d \in Seq(Octets), NEW le \in LeValues, Len(d) <= Len(t)
  PROVE  Outcome(APDU(h, d, le), h, t)
BY Zenon DEF Outcome

Word == {n \in Nat : n < 65536}

LEMMA LeTyped ==
  /\ NoLe \in LeValues
  /\ \A n \in Octets : LeOf(n, FALSE) \in LeValues
  /\ \A n \in Word : LeOf(n, TRUE) \in LeValues
<1>1. NoLe \in LeValues
  BY DEF NoLe, LeValues
<1>2. ASSUME NEW n \in Octets PROVE LeOf(n, FALSE) \in LeValues
  <2>1. n \in Nat /\ n <= 255
    BY DEF Octets
  <2> DEFINE v == LeOf(n, FALSE)
  <2>2. v = IF n > 0 THEN n ELSE 256
    BY DEF LeOf
  <2> HIDE DEF v
  <2>3. v \in LeValues
    BY <2>1, <2>2 DEF LeValues
  <2>4. QED
    BY <2>3 DEF v
<1>3. ASSUME NEW n \in Word PROVE LeOf(n, TRUE) \in LeValues
  <2>1. n \in Nat /\ n < 65536
    BY DEF Word
  <2> DEFINE v == LeOf(n, TRUE)
  <2>2. v = IF n > 0 THEN n ELSE 65536
    BY DEF LeOf
  <2> HIDE DEF v
  <2>3. v \in LeValues
    BY <2>1, <2>2 DEF LeValues
  <2>4. QED
    BY <2>3 DEF v
<1>4. QED
  BY <1>1, <1>2, <1>3, Zenon

\* Bytes cut out of bytes.
LEMMA CutInside ==
  ASSUME NEW t \in Seq(Octets), NEW m \in Nat, NEW n \in Nat, m > 0, n <= Len(t)
  PROVE  SubSeq(t, m, n) \in Seq(Octets) /\ Len(SubSeq(t, m, n)) <= Len(t)
<1>1. Len(t) \in Nat
  BY LenProperties
<1>2. \A i \in m..n : t[i] \in Octets
  BY <1>1, ElementOfSeq
<1>3. /\ SubSeq(t, m, n) \in Seq(Octets)
      /\ Len(SubSeq(t, m, n)) = IF m <= n THEN n - m + 1 ELSE 0
  BY <1>2, SubSeqProperties
<1>4. QED
  BY <1>1, <1>3

\* A number of two bytes within the bytes.
LEMMA U16Read ==
  ASSUME NEW t \in Seq(Octets), NEW i \in Nat, i > 0, i < Len(t)
  PROVE  U16(t, i) \in Nat /\ U16(t, i) \in Word
<1>1. Len(t) \in Nat
  BY LenProperties
<1>2. t[i] \in Octets /\ t[i + 1] \in Octets
  BY <1>1, ElementOfSeq
<1>3. \A x, y \in Octets : x * 256 + y \in Nat /\ x * 256 + y \in Word
  BY DEF Octets, Word
<1>4. QED
  BY <1>2, <1>3, Zenon DEF U16

LEMMA ShortOutcome ==
  ASSUME NEW h, NEW t \in Seq(Octets)
  PROVE  Outcome(parse_short_apdu(h, t), h, t)
<1>1. Len(t) \in Nat /\ <<>> \in Seq(Octets) /\ Len(<<>>) <= Len(t)
  BY LenProperties, EmptySeq
<1>2. \A x \in Octets : x \in Nat
  BY DEF Octets
<1>3. CASE Len(t) = 0
  BY <1>1, <1>3, ShortCases, OutcomeCommand, LeTyped, ZenonT(40)
<1>4. CASE Len(t) # 0 /\ Len(t) = 1
  <2>1. t[1] \in Octets
    BY <1>4, ElementOfSeq
  <2>2. QED
    BY <1>1, <1>4, <2>1, ShortCases, OutcomeCommand, LeTyped, Zenon
<1>5. CASE Len(t) # 0 /\ Len(t) # 1
  <2> DEFINE lc == t[1]
             d == SubSeq(t, 2, 1 + lc)
  <2>1. lc \in Octets
    BY <1>1, <1>5, ElementOfSeq
  <2>2. lc \in Nat
    BY <1>2, <2>1, Zenon
  <2>3. CASE Len(t) = 1 + lc
    <3>1. d \in Seq(Octets) /\ Len(d) <= Len(t)
      <4> HIDE DEF lc
      <4>1. 1 + lc \in Nat /\ 1 + lc <= Len(t)
        BY <1>1, <2>2, <2>3
      <4>2. QED
        BY <4>1, CutInside
    <3>2. parse_short_apdu(h, t) = APDU(h, d, NoLe)
      BY <1>5, <2>3, ShortCases, Zenon
    <3> HIDE DEF d
    <3>3. QED
      BY <3>1, <3>2, OutcomeCommand, LeTyped, Zenon
  <2>4. CASE Len(t) # 1 + lc /\ Len(t) = 2 + lc
    <3>1. d \in Seq(Octets) /\ Len(d) <= Len(t)
      <4> HIDE DEF lc
      <4>1. 1 + lc \in Nat /\ 1 + lc <= Len(t)
        BY <1>1, <2>2, <2>4
      <4>2. QED
        BY <4>1, CutInside
    <3>2. t[2 + lc] \in Octets
      <4> HIDE DEF lc
      <4>1. 2 + lc \in 1..Len(t)
        BY <1>1, <2>2, <2>4
      <4>2. QED
        BY <4>1, ElementOfSeq, Zenon
    <3>3. parse_short_apdu(h, t) = APDU(h, d, LeOf(t[2 + lc], FALSE))
      BY <1>5, <2>4, ShortCases, Zenon
    <3> HIDE DEF d
    <3>4. QED
      BY <3>1, <3>2, <3>3, OutcomeCommand, LeTyped, Zenon
  <2>5. CASE Len(t) # 1 + lc /\ Len(t) # 2 + lc
    BY <1>5, <2>5, ShortCases, OutcomeError, Zenon
  <2>6. QED
    BY <2>3, <2>4, <2>5
<1>6. QED
  BY <1>3, <1>4, <1>5

\* parse_extended_apdu is called with the two bytes that IsExtended read.
LEMMA ExtendedOutcome ==
  ASSUME NEW h, NEW t \in Seq(Octets), Len(t) >= 2
  PROVE  Outcome(parse_extended_apdu(h, t), h, t)
<1> DEFINE lc == U16(t, 1)
           d == SubSeq(t, 3, 2 + lc)
<1>1. /\ Len(t) \in Nat /\ ~(Len(t) < 2)
      /\ <<>> \in Seq(Octets) /\ Len(<<>>) <= Len(t)
  BY LenProperties, EmptySeq
<1>2. lc \in Nat /\ LeOf(lc, TRUE) \in LeValues
  <2>1. lc \in Nat /\ lc \in Word
    BY <1>1, U16Read
  <2> HIDE DEF lc
  <2>2. QED
    BY <2>1, LeTyped, Zenon
<1> HIDE DEF lc
<1>3. CASE Len(t) = 2
  BY <1>1, <1>2, <1>3, ExtendedCases, OutcomeCommand, Zenon DEF lc
<1>4. CASE Len(t) # 2 /\ Len(t) < 2 + lc
  <2>1. parse_extended_apdu(h, t) = APDUError("InvalidLength")
    BY <1>1, <1>4, Zenon DEF parse_extended_apdu, lc
  <2>2. QED
    BY <2>1, OutcomeError, Zenon
<1>5. CASE Len(t) # 2 /\ ~(Len(t) < 2 + lc)
  <2>1. d \in Seq(Octets) /\ Len(d) <= Len(t)
    <3>1. 2 + lc \in Nat /\ 2 + lc <= Len(t)
      BY <1>1, <1>2, <1>5
    <3>2. QED
      BY <3>1, CutInside
  <2>2. CASE Len(t) = 2 + lc
    <3>1. parse_extended_apdu(h, t) = APDU(h, d, NoLe)
      BY <1>1, <1>5, <2>2, ExtendedCases, Zenon DEF lc
    <3> HIDE DEF d
    <3>2. QED
      BY <2>1, <3>1, OutcomeCommand, LeTyped, Zenon
  <2>3. CASE Len(t) # 2 + lc /\ Len(t) = 4 + lc
    <3>1. LeOf(U16(t, 3 + lc), TRUE) \in LeValues
      <4>1. 3 + lc \in Nat /\ 3 + lc > 0 /\ 3 + lc < Len(t)
        BY <1>1, <1>2, <2>3
      <4>2. U16(t, 3 + lc) \in Word
        BY <4>1, U16Read
      <4>3. QED
        BY <4>2, LeTyped, Zenon
    <3>2. parse_extended_apdu(h, t) = APDU(h, d, LeOf(U16(t, 3 + lc), TRUE))
      BY <1>1, <1>5, <2>3, ExtendedCases, Zenon DEF lc
    <3> HIDE DEF d
    <3>3. QED
      BY <2>1, <3>1, <3>2, OutcomeCommand, Zenon
  <2>4. CASE Len(t) # 2 + lc /\ Len(t) # 4 + lc
    <3>1. parse_extended_apdu(h, t) = APDUError("InvalidExtendedFormat")
      BY <1>1, <1>5, <2>4, Zenon DEF parse_extended_apdu, lc
    <3>2. QED
      BY <3>1, OutcomeError, Zenon
  <2>5. QED
    BY <2>2, <2>3, <2>4
<1>6. QED
  BY <1>3, <1>4, <1>5

LEMMA BodyOutcome ==
  ASSUME NEW h, NEW t \in Seq(Octets)
  PROVE  Outcome(ParseBody(h, t), h, t)
<1>1. CASE Len(t) > 2 /\ t[1] = 0
  <2> DEFINE ext == Tail(t)
  <2>1. Len(t) \in Nat /\ t # <<>>
    BY <1>1, LenProperties, EmptySeq
  <2>2. ext \in Seq(Octets) /\ Len(ext) = Len(t) - 1
    BY <2>1, HeadTailProperties
  <2> HIDE DEF ext
  <2>3. Len(ext) >= 2 /\ Len(ext) <= Len(t)
    BY <1>1, <2>1, <2>2
  <2>4. ASSUME NEW x, Outcome(x, h, ext) PROVE Outcome(x, h, t)
    <3>1. \A d \in Seq(Octets) : Len(d) <= Len(ext) => Len(d) <= Len(t)
      BY <2>1, <2>2, LenProperties
    <3>2. QED
      BY <2>4, <3>1, Zenon DEF Outcome
  <2>5. /\ Outcome(parse_extended_apdu(h, ext), h, t)
        /\ Outcome(parse_short_apdu(h, ext), h, t)
        /\ Outcome(parse_short_apdu(h, t), h, t)
    BY <2>2, <2>3, <2>4, ExtendedOutcome, ShortOutcome, Zenon
  <2>6. ParseBody(h, t) \in {parse_extended_apdu(h, ext), parse_short_apdu(h, ext), parse_short_apdu(h, t)}
    BY <1>1, Zenon DEF ParseBody, ParseZero, ext
  <2>7. QED
    BY <2>5, <2>6, Zenon
<1>2. CASE ~(Len(t) > 2 /\ t[1] = 0)
  BY <1>2, ShortOutcome, Zenon DEF ParseBody
<1>3. QED
  BY <1>1, <1>2

\* For all bytes whatever parse_apdu answers with an error or with a command
\* whose header and data are bytes it was given and whose Le is at most 65536:
\* no length byte leads it past the end of the bytes.
THEOREM ParsedInside ==
  \A bytes \in Seq(Octets) :
    \/ parse_apdu(bytes) \in Errors
    \/ /\ parse_apdu(bytes) \in Commands
       /\ Len(parse_apdu(bytes).data) + 4 <= Len(bytes)
<1> SUFFICES ASSUME NEW bytes \in Seq(Octets)
             PROVE  \/ parse_apdu(bytes) \in Errors
                    \/ /\ parse_apdu(bytes) \in Commands
                       /\ Len(parse_apdu(bytes).data) + 4 <= Len(bytes)
  OBVIOUS
<1>1. CASE Len(bytes) < 4
  BY <1>1, Zenon DEF parse_apdu, Errors
<1>2. CASE ~(Len(bytes) < 4)
  <2> DEFINE h == SubSeq(bytes, 1, 4)
             t == SubSeq(bytes, 5, Len(bytes))
  <2>1. Len(bytes) \in Nat /\ \A i \in 1..Len(bytes) : bytes[i] \in Octets
    BY LenProperties, ElementOfSeq
  <2>2. h \in Seq(Octets) /\ Len(h) = 4
    <3>1. \A i \in 1..4 : bytes[i] \in Octets
      BY <1>2, <2>1
    <3>2. h \in Seq(Octets) /\ Len(h) = IF 1 <= 4 THEN 4 - 1 + 1 ELSE 0
      BY <3>1, SubSeqProperties
    <3> HIDE DEF h
    <3>3. QED
      BY <3>2
  <2>3. t \in Seq(Octets) /\ Len(t) + 4 = Len(bytes)
    <3>1. \A i \in 5..Len(bytes) : bytes[i] \in Octets
      BY <1>2, <2>1
    <3>2. /\ t \in Seq(Octets)
          /\ Len(t) = IF 5 <= Len(bytes) THEN Len(bytes) - 5 + 1 ELSE 0
      BY <2>1, <3>1, SubSeqProperties
    <3> HIDE DEF t
    <3>3. Len(t) + 4 = Len(bytes)
      <4>1. Len(bytes) \in Nat /\ Len(t) = IF 5 <= Len(bytes) THEN Len(bytes) - 5 + 1 ELSE 0
        BY <2>1, <3>2
      <4> DEFINE n == Len(bytes)
                 m == Len(t)
      <4> HIDE DEF n, m
      <4>2. n \in Nat /\ ~(n < 4) /\ m = IF 5 <= n THEN n - 5 + 1 ELSE 0
        BY <1>2, <4>1 DEF n, m
      <4>3. m + 4 = n
        BY <4>2
      <4>4. QED
        BY <4>3 DEF n, m
    <3>4. QED
      BY <3>2, <3>3
  <2>4. parse_apdu(bytes) = ParseBody(h, t)
    BY <1>2, Zenon DEF parse_apdu
  <2> HIDE DEF h, t
  <2>5. Outcome(parse_apdu(bytes), h, t)
    BY <2>3, <2>4, BodyOutcome, Zenon
  <2>6. CASE parse_apdu(bytes) \in Errors
    BY <2>6
  <2>7. CASE \E d \in Seq(Octets), le \in LeValues : Len(d) <= Len(t) /\ parse_apdu(bytes) = APDU(h, d, le)
    <3>1. PICK d \in Seq(Octets), le \in LeValues : Len(d) <= Len(t) /\ parse_apdu(bytes) = APDU(h, d, le)
      BY <2>7
    <3>2. h \in HeaderBytes
      BY <2>2 DEF HeaderBytes
    <3>3. APDU(h, d, le) \in Commands /\ APDU(h, d, le).data = d
      BY <3>2 DEF APDU, Commands
    <3>4. Len(d) + 4 <= Len(bytes)
      BY <2>3, <3>1, LenProperties
    <3>5. QED
      BY <3>1, <3>3, <3>4, Zenon
  <2>8. QED
    BY <2>5, <2>6, <2>7, Zenon DEF Outcome
<1>3. QED
  BY <1>1, <1>2

-----------------------------------------------------------------------------
(* Induction, with a set in the place of the predicate. *)

\* A nonempty set of naturals has a least element.
LEMMA Least ==
  ASSUME NEW T \in SUBSET Nat, T # {}
  PROVE  \E n \in T : \A m \in T : n <= m
<1> DEFINE R == OpToRel(<, Nat)
<1>1. IsWellFoundedOn(R, Nat)
  BY NatLessThanWellFounded
<1>2. T \subseteq Nat
  OBVIOUS
<1>3. \A n, m \in Nat : m < n => <<m, n>> \in R
  BY DEF OpToRel
<1> HIDE DEF R
<1>4. PICK n \in T : \A m \in T : ~(<<m, n>> \in R)
  BY <1>1, <1>2, WFMin, Zenon
<1>5. ASSUME NEW m \in T PROVE n <= m
  <2>1. n \in Nat /\ m \in Nat
    BY <1>2
  <2>2. ~(m < n)
    BY <1>3, <1>4, <2>1, Zenon
  <2> QED
    BY <2>1, <2>2
<1> QED
  BY <1>5

LEMMA Induction ==
  ASSUME NEW S, 0 \in S, \A n \in Nat : n \in S => n + 1 \in S
  PROVE  \A n \in Nat : n \in S
<1> SUFFICES ASSUME NEW k \in Nat, k \notin S PROVE FALSE
  OBVIOUS
<1> DEFINE T == {n \in Nat : n \notin S}
<1>1. T \in SUBSET Nat /\ T # {}
  OBVIOUS
<1>2. PICK n \in T : \A m \in T : n <= m
  BY <1>1, Least
<1>3. n - 1 \in Nat /\ (n - 1) + 1 = n
  OBVIOUS
<1>4. n - 1 \in S
  BY <1>2, <1>3
<1> QED
  BY <1>3, <1>4

\* Every natural is in a set that holds a number whenever it holds those below.
LEMMA StrongInduction ==
  ASSUME NEW S, \A n \in Nat : (\A m \in Nat : m < n => m \in S) => n \in S
  PROVE  \A n \in Nat : n \in S
<1> SUFFICES ASSUME NEW k \in Nat, k \notin S PROVE FALSE
  OBVIOUS
<1> DEFINE T == {n \in Nat : n \notin S}
<1>1. T \in SUBSET Nat /\ T # {}
  OBVIOUS
<1>2. PICK n \in T : \A m \in T : n <= m
  BY <1>1, Least
<1>3. \A m \in Nat : m < n => m \in S
  BY <1>2
<1> QED
  BY <1>3

-----------------------------------------------------------------------------
(* FromBytes: a number from its bytes, most significant first. *)

LEMMA OctetAt ==
  ASSUME NEW bytes \in Seq(Octets), NEW i \in 1..Len(bytes)
  PROVE  bytes[i] \in Octets /\ bytes[i] \in Nat /\ bytes[i] < 256
<1>1. bytes[i] \in Octets
  BY ElementOfSeq
<1>2. \A n \in Octets : n \in Nat /\ n < 256
  BY DEF Octets
<1> QED
  BY <1>1, <1>2

\* The recursive function in FromBytes.
IsValue(bytes, f) ==
  f = [i \in 0..Len(bytes) |-> IF i = 0 THEN 0 ELSE 256 * f[i - 1] + bytes[i]]

\* It exists, as far as any n.
LEMMA ValueUpTo ==
  ASSUME NEW bytes \in Seq(Octets), NEW n \in Nat
  PROVE  \E f : f = [i \in 0..n |-> IF i = 0 THEN 0 ELSE 256 * f[i - 1] + bytes[i]]
<1> DEFINE Upto(k, f) == f = [i \in 0..k |-> IF i = 0 THEN 0 ELSE 256 * f[i - 1] + bytes[i]]
           S == {k \in Nat : \E f : Upto(k, f)}
<1>1. 0 \in S
  <2>1. Upto(0, [i \in 0..0 |-> 0])
    OBVIOUS
  <2> QED
    BY <2>1
<1>2. ASSUME NEW k \in Nat, k \in S PROVE k + 1 \in S
  <2>1. PICK f : Upto(k, f)
    BY <1>2
  <2> DEFINE g == [i \in 0..(k + 1) |-> IF i <= k THEN f[i] ELSE 256 * f[k] + bytes[k + 1]]
  <2>2. Upto(k + 1, g)
    <3>1. ASSUME NEW i \in 0..(k + 1)
          PROVE  g[i] = IF i = 0 THEN 0 ELSE 256 * g[i - 1] + bytes[i]
      <4>1. CASE i = 0
        BY <2>1, <4>1
      <4>2. CASE i # 0 /\ i <= k
        BY <2>1, <4>2
      <4>3. CASE i = k + 1
        BY <4>3
      <4> QED
        BY <4>1, <4>2, <4>3
    <3> QED
      BY <3>1
  <2>3. \E h : Upto(k + 1, h)
    BY <2>2, Zenon
  <2> QED
    BY <2>3
<1> HIDE DEF S
<1>3. n \in S
  BY <1>1, <1>2, Induction
<1> QED
  BY <1>3 DEF S

LEMMA ValueExists ==
  ASSUME NEW bytes \in Seq(Octets)
  PROVE  \E f : IsValue(bytes, f) /\ FromBytes(bytes) = f[Len(bytes)]
<1> DEFINE f == CHOOSE f : IsValue(bytes, f)
<1>1. \E g : IsValue(bytes, g)
  BY ValueUpTo, LenProperties DEF IsValue
<1>2. IsValue(bytes, f)
  BY <1>1, Zenon
<1>3. FromBytes(bytes) = f[Len(bytes)]
  BY Zenon DEF FromBytes, IsValue
<1> QED
  BY <1>2, <1>3, Zenon

\* A number from bytes is a natural.
LEMMA FromBytesType ==
  ASSUME NEW bytes \in Seq(Octets)
  PROVE  FromBytes(bytes) \in Nat
<1>1. PICK f : IsValue(bytes, f) /\ FromBytes(bytes) = f[Len(bytes)]
  BY ValueExists
<1> DEFINE S == {i \in Nat : i <= Len(bytes) => f[i] \in Nat}
<1>2. 0 \in S
  BY <1>1, LenProperties DEF IsValue
<1>3. ASSUME NEW i \in Nat, i \in S PROVE i + 1 \in S
  <2> SUFFICES ASSUME i + 1 <= Len(bytes) PROVE f[i + 1] \in Nat
    OBVIOUS
  <2>1. f[i + 1] = 256 * f[i] + bytes[i + 1] /\ f[i] \in Nat
    BY <1>1, <1>3, LenProperties DEF IsValue
  <2>2. bytes[i + 1] \in Nat
    BY LenProperties, OctetAt
  <2> QED
    BY <2>1, <2>2
<1> HIDE DEF S
<1>4. Len(bytes) \in S
  BY <1>2, <1>3, Induction, LenProperties
<1> QED
  BY <1>1, <1>4 DEF S

\* The numbers of one to three bytes.
LEMMA FromFewBytes ==
  ASSUME NEW bytes \in Seq(Octets)
  PROVE  /\ Len(bytes) = 0 => FromBytes(bytes) = 0
         /\ Len(bytes) = 1 => FromBytes(bytes) = bytes[1]
         /\ Len(bytes) = 2 => FromBytes(bytes) = 256 * bytes[1] + bytes[2]
         /\ Len(bytes) = 3 => FromBytes(bytes) = 256 * (256 * bytes[1] + bytes[2]) + bytes[3]
<1>1. PICK f : IsValue(bytes, f) /\ FromBytes(bytes) = f[Len(bytes)]
  BY ValueExists
<1>2. ASSUME NEW i \in 0..Len(bytes)
      PROVE  f[i] = IF i = 0 THEN 0 ELSE 256 * f[i - 1] + bytes[i]
  BY <1>1 DEF IsValue
<1>3. Len(bytes) \in Nat /\ \A i \in 1..Len(bytes) : bytes[i] \in Int
  BY LenProperties, OctetAt
<1>4. f[0] = 0
  BY <1>2, <1>3
<1>5. Len(bytes) >= 1 => f[1] = bytes[1]
  BY <1>2, <1>3, <1>4
<1>6. Len(bytes) >= 2 => f[2] = 256 * bytes[1] + bytes[2]
  BY <1>2, <1>3, <1>5
<1>7. Len(bytes) >= 3 => f[3] = 256 * (256 * bytes[1] + bytes[2]) + bytes[3]
  BY <1>2, <1>3, <1>6
<1>8. Len(bytes) = 0 => FromBytes(bytes) = 0
  BY <1>1, <1>4
<1>9. Len(bytes) = 1 => FromBytes(bytes) = bytes[1]
  BY <1>1, <1>5
<1>10. Len(bytes) = 2 => FromBytes(bytes) = 256 * bytes[1] + bytes[2]
  BY <1>1, <1>6
<1>11. Len(bytes) = 3 => FromBytes(bytes) = 256 * (256 * bytes[1] + bytes[2]) + bytes[3]
  BY <1>1, <1>7
<1> QED
  BY <1>8, <1>9, <1>10, <1>11

-----------------------------------------------------------------------------
(* What parse_tag, parse_length and read_single return for any bytes. *)

LEMMA SubBytes ==
  ASSUME NEW bytes \in Seq(Octets), NEW i \in Nat \ {0}, NEW j \in Nat, j <= Len(bytes)
  PROVE  /\ SubSeq(bytes, i, j) \in Seq(Octets)
         /\ Len(SubSeq(bytes, i, j)) = IF i <= j THEN j - i + 1 ELSE 0
         /\ \A k \in 1..Len(SubSeq(bytes, i, j)) : SubSeq(bytes, i, j)[k] = bytes[i + k - 1]
<1>1. CASE i <= j
  <2>1. \A k \in i..j : k \in 1..Len(bytes)
    BY LenProperties
  <2>2. \A k \in i..j : bytes[k] \in Octets
    BY <2>1, ElementOfSeq
  <2> QED
    BY <1>1, <2>2, SubSeqProperties
<1>2. CASE ~(i <= j)
  BY <1>2, SubSeqEmpty, LenProperties
<1> QED
  BY <1>1, <1>2

LEMMA FromTyped ==
  ASSUME NEW bytes \in Seq(Octets), NEW i \in Nat \ {0}, i <= Len(bytes) + 1
  PROVE  /\ From(bytes, i) \in Seq(Octets)
         /\ Len(From(bytes, i)) = Len(bytes) - i + 1
         /\ \A k \in 1..Len(From(bytes, i)) : From(bytes, i)[k] = bytes[i + k - 1]
BY SubBytes, LenProperties DEF From

LEMMA FailedOrNot ==
  /\ IsFailed(Failed)
  /\ \A n, k : ~IsFailed([n |-> n, took |-> k])
  /\ \A t, v, r : ~IsFailed([tag |-> t, value |-> v, rest |-> r])
BY DEF IsFailed, Failed

\* A number that took some of the bytes, but at least one.
Took(result, bytes) ==
  result = Failed \/ \E n \in Nat, k \in 1..Len(bytes) : result = [n |-> n, took |-> k]

LEMMA TagTook ==
  ASSUME NEW bytes \in Seq(Octets)
  PROVE  Took(parse_tag(bytes), bytes)
<1> DEFINE two == FromBytes(SubSeq(bytes, 1, 2))
           three == FromBytes(SubSeq(bytes, 1, 3))
<1>0. Len(bytes) \in Nat /\ (bytes # <<>> => Len(bytes) >= 1 /\ bytes[1] \in Nat)
  <2>1. Len(bytes) \in Nat /\ (bytes # <<>> => Len(bytes) >= 1)
    BY LenProperties, EmptySeq
  <2> QED
    BY <2>1, OctetAt
<1>1. ~(Len(bytes) < 2) => two \in Nat
  <2>1. ~(Len(bytes) < 2) => SubSeq(bytes, 1, 2) \in Seq(Octets)
    BY <1>0, SubBytes
  <2> QED
    BY <2>1, FromBytesType
<1>2. ~(Len(bytes) < 3) => three \in Nat
  <2>1. ~(Len(bytes) < 3) => SubSeq(bytes, 1, 3) \in Seq(Octets)
    BY <1>0, SubBytes
  <2> QED
    BY <2>1, FromBytesType
<1> HIDE DEF two, three
<1>3. \/ parse_tag(bytes) = Failed
      \/ bytes # <<>> /\ parse_tag(bytes) = [n |-> bytes[1], took |-> 1]
      \/ ~(Len(bytes) < 2) /\ parse_tag(bytes) = [n |-> two, took |-> 2]
      \/ ~(Len(bytes) < 3) /\ parse_tag(bytes) = [n |-> three, took |-> 3]
  BY Zenon DEF parse_tag, two, three
<1> QED
  BY <1>0, <1>1, <1>2, <1>3 DEF Took

LEMMA LengthTook ==
  ASSUME NEW bytes \in Seq(Octets)
  PROVE  Took(parse_length(bytes), bytes)
<1> DEFINE k == bytes[1] - 127
           long == FromBytes(SubSeq(bytes, 2, k))
<1>0. Len(bytes) \in Nat /\ (bytes # <<>> => Len(bytes) >= 1 /\ bytes[1] \in Nat)
  <2>1. Len(bytes) \in Nat /\ (bytes # <<>> => Len(bytes) >= 1)
    BY LenProperties, EmptySeq
  <2> QED
    BY <2>1, OctetAt
<1>1. bytes # <<>> /\ k \in 1..Len(bytes) => long \in Nat
  <2>1. bytes # <<>> /\ k \in 1..Len(bytes) => SubSeq(bytes, 2, k) \in Seq(Octets)
    BY <1>0, SubBytes
  <2> QED
    BY <2>1, FromBytesType
<1>2. \/ parse_length(bytes) = Failed
      \/ bytes # <<>> /\ parse_length(bytes) = [n |-> bytes[1], took |-> 1]
      \/ /\ bytes # <<>> /\ bytes[1] \in 129..132 /\ ~(Len(bytes) < k)
         /\ parse_length(bytes) = [n |-> long, took |-> k]
  BY Zenon DEF parse_length
<1>3. bytes # <<>> /\ bytes[1] \in 129..132 /\ ~(Len(bytes) < k) => k \in 1..Len(bytes)
  BY <1>0
<1> HIDE DEF long, k
<1> QED
  BY <1>0, <1>1, <1>2, <1>3 DEF Took

\* An element and what follows it are shorter than the bytes they come from.
IsOne(one, bytes) ==
  \/ one = Failed
  \/ \E t \in Nat, v \in Seq(Octets), r \in Seq(Octets) :
       one = [tag |-> t, value |-> v, rest |-> r] /\ Len(v) + Len(r) < Len(bytes)

LEMMA ReadSingleTyped ==
  ASSUME NEW bytes \in Seq(Octets)
  PROVE  IsOne(read_single(bytes), bytes)
<1>1. CASE parse_tag(bytes) = Failed
  BY <1>1, FailedOrNot DEF read_single, ReadWithTag, IsOne
<1>2. CASE parse_tag(bytes) # Failed
  <2>1. PICK t \in Nat, k \in 1..Len(bytes) : parse_tag(bytes) = [n |-> t, took |-> k]
    BY <1>2, TagTook DEF Took
  <2> DEFINE tag == [n |-> t, took |-> k]
             after == From(bytes, 1 + k)
  <2>2. after \in Seq(Octets) /\ Len(after) = Len(bytes) - k
    BY FromTyped, LenProperties
  <2>3. read_single(bytes) = ReadAfterTag(bytes, tag, parse_length(after))
    <3>1. tag.took = k /\ ~IsFailed(tag)
      BY FailedOrNot
    <3> QED
      BY <2>1, <3>1, Zenon DEF read_single, ReadWithTag
  <2> HIDE DEF after
  <2>4. CASE parse_length(after) = Failed
    BY <2>3, <2>4, FailedOrNot DEF ReadAfterTag, IsOne
  <2>5. CASE parse_length(after) # Failed
    <3>1. PICK n \in Nat, l \in 1..Len(after) : parse_length(after) = [n |-> n, took |-> l]
      BY <2>2, <2>5, LengthTook DEF Took
    <3>2. read_single(bytes) = ReadValue(bytes, t, k + l + 1, k + l + n)
      <4> DEFINE length == [n |-> n, took |-> l]
      <4>1. tag.took = k /\ tag.n = t /\ length.took = l /\ length.n = n /\ ~IsFailed(length)
        BY FailedOrNot
      <4> QED
        BY <2>3, <3>1, <4>1, Zenon DEF ReadAfterTag
    <3>3. CASE k + l + n > Len(bytes)
      BY <3>2, <3>3 DEF ReadValue, IsOne
    <3>4. CASE ~(k + l + n > Len(bytes))
      <4> DEFINE v == SubSeq(bytes, k + l + 1, k + l + n)
                 r == From(bytes, k + l + n + 1)
      <4>1. v \in Seq(Octets) /\ Len(v) = n
        BY <3>4, SubBytes, LenProperties
      <4>2. r \in Seq(Octets) /\ Len(r) = Len(bytes) - (k + l + n)
        BY <3>4, FromTyped, LenProperties
      <4>3. read_single(bytes) = [tag |-> t, value |-> v, rest |-> r]
        BY <3>2, <3>4, Zenon DEF ReadValue
      <4> HIDE DEF v, r
      <4>4. Len(v) + Len(r) < Len(bytes)
        BY <4>1, <4>2, LenProperties
      <4> QED
        BY <4>1, <4>2, <4>3, <4>4, Zenon DEF IsOne
    <3> QED
      BY <3>3, <3>4
  <2> QED
    BY <2>4, <2>5
<1> QED
  BY <1>1, <1>2

-----------------------------------------------------------------------------
(* read_list is what its recursion says: the function in it exists. *)

\* Reading depends on how shorter bytes are read, and on nothing else.
LEMMA ReadsAlike ==
  ASSUME NEW b \in Seq(Octets), NEW g, NEW h,
         \A c \in Seq(Octets) : Len(c) < Len(b) => g[c] = h[c]
  PROVE  ReadFrom(g, b) = ReadFrom(h, b)
<1>1. CASE b = <<>>
  BY <1>1 DEF ReadFrom
<1>2. CASE b # <<>> /\ IsFiller(b[1])
  <2>1. Tail(b) \in Seq(Octets) /\ Len(Tail(b)) < Len(b)
    BY <1>2, HeadTailProperties, LenProperties, EmptySeq
  <2>2. g[Tail(b)] = h[Tail(b)]
    BY <2>1
  <2> QED
    BY <1>2, <2>2, Zenon DEF ReadFrom
<1>3. CASE b # <<>> /\ ~IsFiller(b[1])
  <2>1. ReadFrom(g, b) = ReadOn(g, read_single(b)) /\ ReadFrom(h, b) = ReadOn(h, read_single(b))
    BY <1>3, Zenon DEF ReadFrom
  <2>2. CASE read_single(b) = Failed
    BY <2>1, <2>2, FailedOrNot, Zenon DEF ReadOn
  <2>3. CASE read_single(b) # Failed
    <3>1. PICK t \in Nat, v \in Seq(Octets), r \in Seq(Octets) :
             read_single(b) = [tag |-> t, value |-> v, rest |-> r] /\ Len(v) + Len(r) < Len(b)
      BY <2>3, ReadSingleTyped DEF IsOne
    <3>2. Len(v) < Len(b) /\ Len(r) < Len(b)
      BY <3>1, LenProperties
    <3>3. g[v] = h[v] /\ g[r] = h[r]
      BY <3>2
    <3> DEFINE one == [tag |-> t, value |-> v, rest |-> r]
    <3>4. one.tag = t /\ one.value = v /\ one.rest = r
      OBVIOUS
    <3> HIDE DEF one
    <3>5. ReadSubs(g, one) = ReadSubs(h, one)
      BY <3>3, <3>4, Zenon DEF ReadSubs
    <3>6. ReadOn(g, one) = ReadOn(h, one)
      BY <3>3, <3>4, <3>5, Zenon DEF ReadOn
    <3> QED
      BY <2>1, <3>1, <3>6, Zenon DEF one
  <2> QED
    BY <2>2, <2>3
<1> QED
  BY <1>1, <1>2, <1>3

\* g reads bytes of length n and less.
ReadsUpTo(n, g) == \A b \in Seq(Octets) : Len(b) <= n => g[b] = ReadFrom(g, b)

LEMMA ReaderUpTo ==
  ASSUME NEW n \in Nat
  PROVE  \E g : ReadsUpTo(n, g)
<1> DEFINE S == {k \in Nat : \E g : ReadsUpTo(k, g)}
<1>1. 0 \in S
  <2> DEFINE g == [b \in Seq(Octets) |-> <<>>]
  <2>1. ASSUME NEW b \in Seq(Octets), Len(b) <= 0 PROVE g[b] = ReadFrom(g, b)
    <3>1. b = <<>>
      BY <2>1, LenProperties, EmptySeq
    <3>2. g[b] = <<>>
      OBVIOUS
    <3> QED
      BY <3>1, <3>2, Zenon DEF ReadFrom
  <2> HIDE DEF g
  <2>2. ReadsUpTo(0, g)
    BY <2>1 DEF ReadsUpTo
  <2> QED
    BY <2>2
<1>2. ASSUME NEW k \in Nat, k \in S PROVE k + 1 \in S
  <2>1. PICK g : ReadsUpTo(k, g)
    BY <1>2
  <2> DEFINE h == [b \in Seq(Octets) |-> IF Len(b) <= k THEN g[b] ELSE ReadFrom(g, b)]
  <2>2. \A b \in Seq(Octets) : h[b] = IF Len(b) <= k THEN g[b] ELSE ReadFrom(g, b)
    OBVIOUS
  <2> HIDE DEF h
  <2>3. ASSUME NEW b \in Seq(Octets), Len(b) <= k + 1 PROVE h[b] = ReadFrom(h, b)
    <3>1. \A c \in Seq(Octets) : Len(c) < Len(b) => g[c] = h[c]
      BY <2>2, <2>3, LenProperties
    <3>2. ReadFrom(g, b) = ReadFrom(h, b)
      BY <3>1, ReadsAlike
    <3>3. h[b] = ReadFrom(g, b)
      BY <2>1, <2>2 DEF ReadsUpTo
    <3> QED
      BY <3>2, <3>3
  <2>4. ReadsUpTo(k + 1, h)
    BY <2>3 DEF ReadsUpTo
  <2> QED
    BY <2>4
<1> HIDE DEF S
<1>3. n \in S
  BY <1>1, <1>2, Induction
<1> QED
  BY <1>3 DEF S

LEMMA OneReader ==
  ASSUME NEW n \in Nat, NEW g, NEW h, ReadsUpTo(n, g), ReadsUpTo(n, h)
  PROVE  \A b \in Seq(Octets) : Len(b) <= n => g[b] = h[b]
<1> DEFINE S == {k \in Nat : k <= n => \A b \in Seq(Octets) : Len(b) = k => g[b] = h[b]}
<1>1. ASSUME NEW k \in Nat, \A m \in Nat : m < k => m \in S PROVE k \in S
  <2> SUFFICES ASSUME k <= n, NEW b \in Seq(Octets), Len(b) = k PROVE g[b] = h[b]
    OBVIOUS
  <2>1. ASSUME NEW c \in Seq(Octets), Len(c) < Len(b) PROVE g[c] = h[c]
    <3>1. Len(c) \in Nat
      BY LenProperties
    <3>2. Len(c) \in S
      BY <1>1, <2>1, <3>1
    <3> QED
      BY <2>1, <3>1, <3>2
  <2>2. ReadFrom(g, b) = ReadFrom(h, b)
    BY <2>1, ReadsAlike
  <2> QED
    BY <2>2 DEF ReadsUpTo
<1> HIDE DEF S
<1>2. \A k \in Nat : k \in S
  BY <1>1, StrongInduction
<1> QED
  BY <1>2, LenProperties DEF S

Reader == [b \in Seq(Octets) |-> read_list(b)]
IsReader(f) == f = [b \in Seq(Octets) |-> ReadFrom(f, b)]

\* read_list of any bytes is its first element, if there is one, and what
\* read_list returns of the rest.
LEMMA ReadListUnfolds ==
  ASSUME NEW bytes \in Seq(Octets)
  PROVE  read_list(bytes) = ReadFrom(Reader, bytes)
<1> DEFINE upto(n) == CHOOSE g : ReadsUpTo(n, g)
           f == [b \in Seq(Octets) |-> upto(Len(b))[b]]
<1>1. ASSUME NEW n \in Nat PROVE ReadsUpTo(n, upto(n))
  BY ReaderUpTo, Zenon
<1>2. \A b \in Seq(Octets) : f[b] = upto(Len(b))[b]
  OBVIOUS
<1> HIDE DEF upto, f
<1>3. ASSUME NEW b \in Seq(Octets) PROVE f[b] = ReadFrom(f, b)
  <2> DEFINE n == Len(b)
             g == upto(n)
  <2>1. n \in Nat
    BY LenProperties
  <2>2. ReadsUpTo(n, g)
    BY <1>1, <2>1
  <2>3. ASSUME NEW c \in Seq(Octets), Len(c) < Len(b) PROVE g[c] = f[c]
    <3> DEFINE m == Len(c)
    <3>1. m \in Nat /\ m <= n
      BY <2>3, LenProperties
    <3>2. ReadsUpTo(m, upto(m))
      BY <1>1, <3>1
    <3>3. ReadsUpTo(m, g)
      BY <2>1, <2>2, <3>1, LenProperties DEF ReadsUpTo
    <3>4. upto(m)[c] = g[c]
      BY <3>1, <3>2, <3>3, OneReader
    <3> QED
      BY <1>2, <3>4
  <2>4. ReadFrom(g, b) = ReadFrom(f, b)
    BY <2>3, ReadsAlike
  <2>5. g[b] = ReadFrom(g, b)
    BY <2>1, <2>2 DEF ReadsUpTo
  <2> QED
    BY <1>2, <2>4, <2>5
<1>4. IsReader(f)
  <2>1. f = [b \in Seq(Octets) |-> f[b]]
    BY DEF f
  <2> QED
    BY <1>3, <2>1 DEF IsReader
<1> DEFINE r == CHOOSE r : IsReader(r)
<1>5. IsReader(r)
  BY <1>4, Zenon
<1>6. \A b : read_list(b) = r[b]
  BY Zenon DEF read_list, IsReader
<1> HIDE DEF r
<1>7. \A b \in Seq(Octets) : Reader[b] = r[b]
  BY <1>6 DEF Reader
<1>8. ReadFrom(r, bytes) = ReadFrom(Reader, bytes)
  BY <1>7, ReadsAlike
<1>9. r[bytes] = ReadFrom(r, bytes)
  BY <1>5 DEF IsReader
<1> QED
  BY <1>6, <1>8, <1>9

-----------------------------------------------------------------------------
(* Numbers as bytes. *)

LEMMA Octet0 == \A n \in Nat : Octet(n, 0) = n % 256
BY DEF Octet, Weight
LEMMA Octet1 == \A n \in Nat : Octet(n, 1) = (n \div 256) % 256
BY DEF Octet, Weight
LEMMA Octet2 == \A n \in Nat : Octet(n, 2) = (n \div 65536) % 256
BY DEF Octet, Weight

LEMMA OctetTyped ==
  ASSUME NEW n \in Nat
  PROVE  Octet(n, 0) \in Octets /\ Octet(n, 1) \in Octets /\ Octet(n, 2) \in Octets
<1>1. \A k \in Nat : k % 256 \in Octets
  BY DEF Octets
<1>2. n \div 256 \in Nat /\ n \div 65536 \in Nat
  OBVIOUS
<1> QED
  BY <1>1, <1>2, Octet0, Octet1, Octet2

\* A number is the sum of its bytes.
LEMMA OctetsOf ==
  ASSUME NEW n \in Nat
  PROVE  /\ n < 256 => Octet(n, 0) = n
         /\ n < 65536 => 256 * Octet(n, 1) + Octet(n, 0) = n
         /\ n < 16777216 => 256 * (256 * Octet(n, 2) + Octet(n, 1)) + Octet(n, 0) = n
<1>1. n < 256 => n % 256 = n
  OBVIOUS
<1>2. n < 65536 => 256 * ((n \div 256) % 256) + (n % 256) = n
  OBVIOUS
<1>3. n < 16777216 => 256 * (256 * ((n \div 65536) % 256) + ((n \div 256) % 256)) + (n % 256) = n
  OBVIOUS
<1>4. Octet(n, 0) = n % 256
  BY Octet0
<1>5. Octet(n, 1) = (n \div 256) % 256
  BY Octet1
<1>6. Octet(n, 2) = (n \div 65536) % 256
  BY Octet2
<1>7. n < 256 => Octet(n, 0) = n
  BY <1>1, <1>4
<1>8. n < 65536 => 256 * Octet(n, 1) + Octet(n, 0) = n
  <2> DEFINE b == (n \div 256) % 256
             c == n % 256
  <2>1. n < 65536 => 256 * b + c = n
    BY <1>2
  <2>2. Octet(n, 0) = c /\ Octet(n, 1) = b
    BY <1>4, <1>5
  <2> HIDE DEF b, c
  <2> QED
    BY <2>1, <2>2
<1>9. n < 16777216 => 256 * (256 * Octet(n, 2) + Octet(n, 1)) + Octet(n, 0) = n
  <2> DEFINE a == (n \div 65536) % 256
             b == (n \div 256) % 256
             c == n % 256
  <2>1. n < 16777216 => 256 * (256 * a + b) + c = n
    BY <1>3
  <2>2. Octet(n, 0) = c /\ Octet(n, 1) = b /\ Octet(n, 2) = a
    BY <1>4, <1>5, <1>6
  <2> HIDE DEF a, b, c
  <2> QED
    BY <2>1, <2>2
<1> QED
  BY <1>7, <1>8, <1>9

\* The first bytes are those of p.
Starts(bytes, p) == Len(p) <= Len(bytes) /\ \A i \in 1..Len(p) : bytes[i] = p[i]
CutOf(bytes, p) == Len(bytes) < Len(p) /\ \A i \in 1..Len(bytes) : bytes[i] = p[i]

\* The three lengths of a tag.
LEMMA TagBytes ==
  ASSUME NEW tag, IsTag(tag)
  PROVE  LET p == encode_tag(tag)
         IN /\ tag \in Nat /\ p \in Seq(Octets) /\ ~IsFiller(p[1])
            /\ \/ Len(p) = 1 /\ p[1] = tag /\ p[1] % 32 # 31
               \/ /\ Len(p) = 2 /\ 256 * p[1] + p[2] = tag /\ p[1] % 32 = 31 /\ p[2] < 128
               \/ /\ Len(p) = 3 /\ 256 * (256 * p[1] + p[2]) + p[3] = tag
                  /\ p[1] % 32 = 31 /\ ~(p[2] < 128)
<1> DEFINE p == encode_tag(tag)
<1>1. tag \in Nat /\ tag < 16777216
  BY DEF IsTag
<1>2. Octet(tag, 0) \in Octets /\ Octet(tag, 1) \in Octets /\ Octet(tag, 2) \in Octets
  BY <1>1, OctetTyped
<1>3. CASE tag < 256
  <2>1. p = <<Octet(tag, 0)>>
    BY <1>1, <1>3 DEF encode_tag
  <2>2. p[1] = tag
    BY <1>1, <1>3, <2>1, OctetsOf
  <2>3. p \in Seq(Octets) /\ Len(p) = 1 /\ Head(p) = p[1]
    BY <1>2, <2>1
  <2>4. ~IsFiller(p[1]) /\ p[1] % 32 # 31
    BY <1>3, <2>3 DEF IsTag, FirstTagByte
  <2> QED
    BY <1>1, <2>2, <2>3, <2>4
<1>4. CASE ~(tag < 256) /\ tag < 65536
  <2>1. p = <<Octet(tag, 1), Octet(tag, 0)>>
    BY <1>1, <1>4 DEF encode_tag
  <2>2. p[1] = Octet(tag, 1) /\ p[2] = Octet(tag, 0)
    BY <2>1
  <2>3. 256 * p[1] + p[2] = tag
    BY <1>1, <1>4, <2>2, OctetsOf
  <2>4. p \in Seq(Octets) /\ Len(p) = 2 /\ Head(p) = p[1]
    BY <1>2, <2>1
  <2>5. ~IsFiller(p[1]) /\ p[1] % 32 = 31 /\ p[2] < 128
    BY <1>1, <1>4, <2>4 DEF IsTag, FirstTagByte
  <2> QED
    BY <1>1, <2>3, <2>4, <2>5
<1>5. CASE ~(tag < 65536)
  <2>1. p = <<Octet(tag, 2), Octet(tag, 1), Octet(tag, 0)>>
    BY <1>1, <1>5 DEF encode_tag
  <2>2. p[1] = Octet(tag, 2) /\ p[2] = Octet(tag, 1) /\ p[3] = Octet(tag, 0)
    BY <2>1
  <2>3. 256 * (256 * p[1] + p[2]) + p[3] = tag
    BY <1>1, <1>5, <2>2, OctetsOf
  <2>4. p \in Seq(Octets) /\ Len(p) = 3 /\ Head(p) = p[1]
    BY <1>2, <2>1
  <2>5. ~IsFiller(p[1]) /\ p[1] % 32 = 31 /\ ~(p[2] < 128)
    BY <1>1, <1>5, <2>4 DEF IsTag, FirstTagByte
  <2> QED
    BY <1>1, <2>3, <2>4, <2>5
<1> QED
  BY <1>3, <1>4, <1>5

\* The branches of parse_tag.
LEMMA TagCases ==
  ASSUME NEW b \in Seq(Octets), b # <<>>
  PROVE  /\ b[1] % 32 # 31 => parse_tag(b) = [n |-> b[1], took |-> 1]
         /\ b[1] % 32 = 31 /\ Len(b) < 2 => parse_tag(b) = Failed
         /\ b[1] % 32 = 31 /\ ~(Len(b) < 2) /\ b[2] < 128 =>
              parse_tag(b) = [n |-> FromBytes(SubSeq(b, 1, 2)), took |-> 2]
         /\ b[1] % 32 = 31 /\ ~(Len(b) < 2) /\ ~(b[2] < 128) /\ Len(b) < 3 => parse_tag(b) = Failed
         /\ b[1] % 32 = 31 /\ ~(Len(b) < 2) /\ ~(b[2] < 128) /\ ~(Len(b) < 3) =>
              parse_tag(b) = [n |-> FromBytes(SubSeq(b, 1, 3)), took |-> 3]
BY Zenon DEF parse_tag

\* parse_tag reads what encode_tag wrote.
LEMMA TagRead ==
  ASSUME NEW tag, IsTag(tag), NEW b \in Seq(Octets), Starts(b, encode_tag(tag))
  PROVE  parse_tag(b) = [n |-> tag, took |-> Len(encode_tag(tag))]
<1> DEFINE p == encode_tag(tag)
<1>0. Len(b) \in Nat /\ Len(p) <= Len(b) /\ \A i \in 1..Len(p) : b[i] = p[i]
  BY LenProperties DEF Starts
<1>1. CASE Len(p) = 1 /\ p[1] = tag /\ p[1] % 32 # 31
  <2>1. b # <<>> /\ b[1] = tag /\ b[1] % 32 # 31
    BY <1>0, <1>1, EmptySeq
  <2> QED
    BY <1>1, <2>1, TagCases
<1>2. CASE /\ Len(p) = 2 /\ 256 * p[1] + p[2] = tag /\ p[1] % 32 = 31 /\ p[2] < 128
  <2>1. b # <<>> /\ ~(Len(b) < 2) /\ b[1] = p[1] /\ b[2] = p[2]
    BY <1>0, <1>2, EmptySeq
  <2>2. parse_tag(b) = [n |-> FromBytes(SubSeq(b, 1, 2)), took |-> 2]
    BY <1>2, <2>1, TagCases
  <2> DEFINE s == SubSeq(b, 1, 2)
  <2>3. s \in Seq(Octets) /\ Len(s) = 2 /\ s[1] = b[1] /\ s[2] = b[2]
    BY <1>0, <2>1, SubBytes
  <2> HIDE DEF s, p
  <2>4. FromBytes(s) = 256 * s[1] + s[2]
    BY <2>3, FromFewBytes
  <2>5. FromBytes(s) = tag
    BY <1>2, <2>1, <2>3, <2>4
  <2> QED
    BY <1>2, <2>2, <2>5 DEF s, p
<1>3. CASE /\ Len(p) = 3 /\ 256 * (256 * p[1] + p[2]) + p[3] = tag
           /\ p[1] % 32 = 31 /\ ~(p[2] < 128)
  <2>1. b # <<>> /\ ~(Len(b) < 2) /\ ~(Len(b) < 3) /\ b[1] = p[1] /\ b[2] = p[2] /\ b[3] = p[3]
    BY <1>0, <1>3, EmptySeq
  <2>2. parse_tag(b) = [n |-> FromBytes(SubSeq(b, 1, 3)), took |-> 3]
    BY <1>3, <2>1, TagCases
  <2> DEFINE s == SubSeq(b, 1, 3)
  <2>3. s \in Seq(Octets) /\ Len(s) = 3 /\ s[1] = b[1] /\ s[2] = b[2] /\ s[3] = b[3]
    BY <1>0, <2>1, SubBytes
  <2> HIDE DEF s, p
  <2>4. FromBytes(s) = 256 * (256 * s[1] + s[2]) + s[3]
    BY <2>3, FromFewBytes
  <2>5. FromBytes(s) = tag
    BY <1>3, <2>1, <2>3, <2>4
  <2> QED
    BY <1>3, <2>2, <2>5 DEF s, p
<1> QED
  BY <1>1, <1>2, <1>3, TagBytes

\* And nothing when bytes of the tag are missing.
LEMMA TagCut ==
  ASSUME NEW tag, IsTag(tag), NEW b \in Seq(Octets), CutOf(b, encode_tag(tag))
  PROVE  parse_tag(b) = Failed
<1> DEFINE p == encode_tag(tag)
<1>1. CASE b = <<>>
  BY <1>1, Zenon DEF parse_tag
<1>2. CASE b # <<>>
  <2>1. Len(b) \in Nat /\ Len(b) >= 1 /\ Len(b) < Len(p) /\ \A i \in 1..Len(b) : b[i] = p[i]
    BY <1>2, LenProperties, EmptySeq DEF CutOf
  <2>2. b[1] = p[1] /\ (Len(b) >= 2 => b[2] = p[2])
    BY <2>1
  <2>3. CASE Len(p) = 2 /\ p[1] % 32 = 31
    BY <1>2, <2>1, <2>2, <2>3, TagCases
  <2>4. CASE Len(p) = 3 /\ p[1] % 32 = 31 /\ ~(p[2] < 128)
    BY <1>2, <2>1, <2>2, <2>4, TagCases
  <2> QED
    BY <2>1, <2>3, <2>4, TagBytes
<1> QED
  BY <1>1, <1>2

-----------------------------------------------------------------------------
(* parse_length reads what encode_length wrote. *)

ThreeBytes == {n \in Nat : n < 16777216}

\* The four lengths of a length below 2^24.
LEMMA LengthBytes ==
  ASSUME NEW n \in ThreeBytes
  PROVE  LET p == encode_length(n)
         IN /\ p \in Seq(Octets)
            /\ \/ Len(p) = 1 /\ p[1] = n /\ p[1] < 128
               \/ Len(p) = 2 /\ p[1] = 129 /\ p[2] = n
               \/ Len(p) = 3 /\ p[1] = 130 /\ 256 * p[2] + p[3] = n
               \/ Len(p) = 4 /\ p[1] = 131 /\ 256 * (256 * p[2] + p[3]) + p[4] = n
<1> DEFINE p == encode_length(n)
<1>0. n \in Nat
  BY DEF ThreeBytes
<1>1. Octet(n, 0) \in Octets /\ Octet(n, 1) \in Octets /\ Octet(n, 2) \in Octets
  BY <1>0, OctetTyped
<1>2. {129, 130, 131} \subseteq Octets /\ (n < 256 => n \in Octets)
  BY <1>0 DEF Octets
<1>3. CASE n < 128
  <2>1. p = <<n>>
    BY <1>0, <1>3, SMT DEF encode_length
  <2>2. n \in Octets
    BY <1>0, <1>2, <1>3
  <2> QED
    BY <1>3, <2>1, <2>2
<1>4. CASE ~(n < 128) /\ n < 256
  <2>1. p = <<129, n>>
    BY <1>0, <1>4, SMT DEF encode_length
  <2> QED
    BY <1>0, <1>2, <1>4, <2>1
<1>5. CASE ~(n < 256) /\ n < 65536
  <2>1. p = <<130, Octet(n, 1), Octet(n, 0)>>
    BY <1>0, <1>5, SMT DEF encode_length
  <2>2. 256 * Octet(n, 1) + Octet(n, 0) = n
    BY <1>0, <1>5, OctetsOf, SMT
  <2> QED
    BY <1>1, <1>2, <2>1, <2>2
<1>6. CASE ~(n < 65536)
  <2>1. p = <<131, Octet(n, 2), Octet(n, 1), Octet(n, 0)>>
    BY <1>0, <1>6, SMT DEF encode_length, ThreeBytes
  <2>2. 256 * (256 * Octet(n, 2) + Octet(n, 1)) + Octet(n, 0) = n
    BY <1>6, OctetsOf, SMT DEF ThreeBytes
  <2> QED
    BY <1>1, <1>2, <2>1, <2>2
<1> QED
  BY <1>0, <1>3, <1>4, <1>5, <1>6, SMT

\* The branches of parse_length.
LEMMA LengthCases ==
  ASSUME NEW b \in Seq(Octets), b # <<>>
  PROVE  /\ b[1] < 128 => parse_length(b) = [n |-> b[1], took |-> 1]
         /\ ~(b[1] < 128) /\ Len(b) < b[1] - 127 => parse_length(b) = Failed
         /\ b[1] \in 129..132 /\ ~(b[1] < 128) /\ ~(Len(b) < b[1] - 127) =>
              parse_length(b) = [n |-> FromBytes(SubSeq(b, 2, b[1] - 127)), took |-> b[1] - 127]
BY Zenon DEF parse_length

\* A length in k bytes after the first one.
LEMMA LongLength ==
  ASSUME NEW b \in Seq(Octets), NEW k \in 1..3, Len(b) > k, b[1] = k + 128
  PROVE  /\ SubSeq(b, 2, k + 1) \in Seq(Octets) /\ Len(SubSeq(b, 2, k + 1)) = k
         /\ \A i \in 1..k : SubSeq(b, 2, k + 1)[i] = b[i + 1]
         /\ parse_length(b) = [n |-> FromBytes(SubSeq(b, 2, k + 1)), took |-> k + 1]
<1>1. Len(b) \in Nat /\ b # <<>>
  BY LenProperties, EmptySeq
<1>2. SubSeq(b, 2, k + 1) \in Seq(Octets) /\ Len(SubSeq(b, 2, k + 1)) = k
  BY <1>1, SubBytes
<1>3. \A i \in 1..k : SubSeq(b, 2, k + 1)[i] = b[i + 1]
  <2>1. \A i \in 1..k : SubSeq(b, 2, k + 1)[i] = b[2 + i - 1]
    BY <1>1, <1>2, SubBytes
  <2>2. \A i \in 1..k : 2 + i - 1 = i + 1
    OBVIOUS
  <2> QED
    BY <2>1, <2>2
<1>4. b[1] - 127 = k + 1 /\ b[1] \in 129..132 /\ ~(b[1] < 128) /\ ~(Len(b) < b[1] - 127)
  BY <1>1
<1> QED
  BY <1>1, <1>2, <1>3, <1>4, LengthCases

LEMMA LengthRead ==
  ASSUME NEW n \in ThreeBytes, NEW b \in Seq(Octets), Starts(b, encode_length(n))
  PROVE  parse_length(b) = [n |-> n, took |-> Len(encode_length(n))]
<1> DEFINE p == encode_length(n)
           s(k) == SubSeq(b, 2, k + 1)
<1>0. Len(b) \in Nat /\ Len(p) <= Len(b) /\ \A i \in 1..Len(p) : b[i] = p[i]
  BY LenProperties DEF Starts
<1>1. CASE Len(p) = 1 /\ p[1] = n /\ p[1] < 128
  <2>1. b # <<>> /\ b[1] = n /\ b[1] < 128
    BY <1>0, <1>1, EmptySeq
  <2> QED
    BY <1>1, <2>1, LengthCases
<1>2. CASE Len(p) = 2 /\ p[1] = 129 /\ p[2] = n
  <2>1. Len(b) > 1 /\ b[1] = 1 + 128 /\ b[2] = n
    BY <1>0, <1>2
  <2>2. s(1) \in Seq(Octets) /\ Len(s(1)) = 1 /\ s(1)[1] = b[2]
    BY <2>1, LongLength
  <2>3. parse_length(b) = [n |-> FromBytes(s(1)), took |-> 2]
    BY <2>1, LongLength
  <2> HIDE DEF s
  <2>4. FromBytes(s(1)) = n
    BY <2>1, <2>2, FromFewBytes
  <2> QED
    BY <1>2, <2>3, <2>4
<1>3. CASE Len(p) = 3 /\ p[1] = 130 /\ 256 * p[2] + p[3] = n
  <2>1. Len(b) > 2 /\ b[1] = 2 + 128 /\ 256 * b[2] + b[3] = n
    BY <1>0, <1>3
  <2>2. s(2) \in Seq(Octets) /\ Len(s(2)) = 2 /\ s(2)[1] = b[2] /\ s(2)[2] = b[3]
    BY <2>1, LongLength
  <2>3. parse_length(b) = [n |-> FromBytes(s(2)), took |-> 3]
    BY <2>1, LongLength
  <2> HIDE DEF s
  <2>4. FromBytes(s(2)) = n
    BY <2>1, <2>2, FromFewBytes
  <2> QED
    BY <1>3, <2>3, <2>4
<1>4. CASE Len(p) = 4 /\ p[1] = 131 /\ 256 * (256 * p[2] + p[3]) + p[4] = n
  <2>1. Len(b) > 3 /\ b[1] = 3 + 128 /\ 256 * (256 * b[2] + b[3]) + b[4] = n
    BY <1>0, <1>4
  <2>2. s(3) \in Seq(Octets) /\ Len(s(3)) = 3 /\ s(3)[1] = b[2] /\ s(3)[2] = b[3] /\ s(3)[3] = b[4]
    BY <2>1, LongLength
  <2>3. parse_length(b) = [n |-> FromBytes(s(3)), took |-> 4]
    BY <2>1, LongLength
  <2> HIDE DEF s
  <2>4. FromBytes(s(3)) = n
    BY <2>1, <2>2, FromFewBytes
  <2> QED
    BY <1>4, <2>3, <2>4
<1> QED
  BY <1>1, <1>2, <1>3, <1>4, LengthBytes

LEMMA LengthCut ==
  ASSUME NEW n \in ThreeBytes, NEW b \in Seq(Octets), CutOf(b, encode_length(n))
  PROVE  parse_length(b) = Failed
<1> DEFINE p == encode_length(n)
<1>1. CASE b = <<>>
  BY <1>1, Zenon DEF parse_length
<1>2. CASE b # <<>>
  <2>1. Len(b) \in Nat /\ Len(b) >= 1 /\ Len(b) < Len(p) /\ \A i \in 1..Len(b) : b[i] = p[i]
    BY <1>2, LenProperties, EmptySeq DEF CutOf
  <2>2. b[1] = p[1]
    BY <2>1
  <2>3. CASE Len(p) = 1
    BY <2>1, <2>3
  <2>4. CASE Len(p) = 2 /\ p[1] = 129
    BY <1>2, <2>1, <2>2, <2>4, LengthCases
  <2>5. CASE Len(p) = 3 /\ p[1] = 130
    BY <1>2, <2>1, <2>2, <2>5, LengthCases
  <2>6. CASE Len(p) = 4 /\ p[1] = 131
    BY <1>2, <2>1, <2>2, <2>6, LengthCases
  <2> QED
    BY <2>3, <2>4, <2>5, <2>6, LengthBytes
<1> QED
  BY <1>1, <1>2

-----------------------------------------------------------------------------
(* read_single reads what encode wrote. *)

LEMMA After ==
  ASSUME NEW b \in Seq(Octets), NEW k \in Nat, k <= Len(b)
  PROVE  /\ From(b, 1 + k) \in Seq(Octets) /\ Len(From(b, 1 + k)) = Len(b) - k
         /\ \A i \in 1..(Len(b) - k) : From(b, 1 + k)[i] = b[k + i]
<1> DEFINE j == 1 + k
           f == From(b, j)
<1>1. j \in Nat \ {0} /\ j <= Len(b) + 1 /\ Len(b) \in Nat
  BY LenProperties
<1>2. f \in Seq(Octets) /\ Len(f) = Len(b) - j + 1 /\ \A i \in 1..Len(f) : f[i] = b[j + i - 1]
  BY <1>1, FromTyped
<1> HIDE DEF f
<1>3. Len(f) = Len(b) - k
  BY <1>1, <1>2
<1>4. ASSUME NEW i \in 1..(Len(b) - k) PROVE f[i] = b[k + i]
  <2>1. j + i - 1 = k + i
    BY <1>1
  <2> QED
    BY <1>2, <1>3, <2>1
<1> QED
  BY <1>2, <1>3, <1>4 DEF f

LEMMA Within ==
  ASSUME NEW b \in Seq(Octets), NEW k \in Nat, NEW n \in Nat, k + n <= Len(b)
  PROVE  /\ SubSeq(b, k + 1, k + n) \in Seq(Octets) /\ Len(SubSeq(b, k + 1, k + n)) = n
         /\ \A i \in 1..n : SubSeq(b, k + 1, k + n)[i] = b[k + i]
<1> DEFINE j == k + 1
           h == k + n
           f == SubSeq(b, j, h)
<1>1. j \in Nat \ {0} /\ h \in Nat /\ h <= Len(b)
  BY LenProperties
<1>2. /\ f \in Seq(Octets) /\ Len(f) = IF j <= h THEN h - j + 1 ELSE 0
      /\ \A i \in 1..Len(f) : f[i] = b[j + i - 1]
  BY <1>1, SubBytes
<1> HIDE DEF f
<1>3. Len(f) = n
  BY <1>1, <1>2
<1>4. ASSUME NEW i \in 1..n PROVE f[i] = b[k + i]
  <2>1. j + i - 1 = k + i
    BY <1>1
  <2> QED
    BY <1>2, <1>3, <2>1
<1> QED
  BY <1>2, <1>3, <1>4 DEF f

LEMMA SingleSteps ==
  ASSUME NEW b, NEW t, NEW k, NEW n, NEW l
  PROVE  /\ parse_tag(b) = Failed => read_single(b) = Failed
         /\ parse_tag(b) = [n |-> t, took |-> k] /\ parse_length(From(b, 1 + k)) = Failed =>
              read_single(b) = Failed
         /\ parse_tag(b) = [n |-> t, took |-> k] /\ parse_length(From(b, 1 + k)) = [n |-> n, took |-> l] =>
              read_single(b) = ReadValue(b, t, k + l + 1, k + l + n)
<1> DEFINE tag == [n |-> t, took |-> k]
           length == [n |-> n, took |-> l]
<1>1. /\ tag.took = k /\ tag.n = t /\ ~IsFailed(tag)
      /\ length.took = l /\ length.n = n /\ ~IsFailed(length) /\ IsFailed(Failed)
  BY FailedOrNot
<1>2. parse_tag(b) = Failed => read_single(b) = Failed
  BY <1>1, Zenon DEF read_single, ReadWithTag
<1> HIDE DEF tag, length
<1>3. parse_tag(b) = tag => read_single(b) = ReadAfterTag(b, tag, parse_length(From(b, 1 + k)))
  BY <1>1, Zenon DEF read_single, ReadWithTag
<1>4. ReadAfterTag(b, tag, Failed) = Failed
  BY <1>1, Zenon DEF ReadAfterTag
<1>5. ReadAfterTag(b, tag, length) = ReadValue(b, t, k + l + 1, k + l + n)
  BY <1>1, Zenon DEF ReadAfterTag
<1> QED
  BY <1>2, <1>3, <1>4, <1>5, Zenon DEF tag, length

\* The bytes of an element: tag, length and value.
LEMMA EncodeParts ==
  ASSUME NEW tag, IsTag(tag), NEW v \in Seq(Octets), Len(v) \in ThreeBytes
  PROVE  LET e == encode(tag, v)
             p == encode_tag(tag)
             q == encode_length(Len(v))
         IN /\ e \in Seq(Octets) /\ Len(e) = Len(p) + Len(q) + Len(v)
            /\ Len(p) \in Nat \ {0} /\ Len(q) \in Nat \ {0} /\ Len(v) \in Nat
            /\ \A i \in 1..Len(p) : e[i] = p[i]
            /\ \A i \in 1..Len(q) : e[Len(p) + i] = q[i]
            /\ \A i \in 1..Len(v) : e[Len(p) + Len(q) + i] = v[i]
<1> DEFINE e == encode(tag, v)
           p == encode_tag(tag)
           q == encode_length(Len(v))
<1>1. p \in Seq(Octets) /\ Len(p) \in Nat \ {0}
  BY TagBytes
<1>2. q \in Seq(Octets) /\ Len(q) \in Nat \ {0}
  BY LengthBytes
<1>3. e = (p \o q) \o v
  BY DEF encode
<1> HIDE DEF e, p, q
<1>4. /\ p \o q \in Seq(Octets) /\ Len(p \o q) = Len(p) + Len(q)
      /\ \A i \in 1..(Len(p) + Len(q)) : (p \o q)[i] = IF i <= Len(p) THEN p[i] ELSE q[i - Len(p)]
  BY <1>1, <1>2, ConcatProperties
<1>5. /\ e \in Seq(Octets) /\ Len(e) = Len(p \o q) + Len(v)
      /\ \A i \in 1..(Len(p \o q) + Len(v)) :
           e[i] = IF i <= Len(p \o q) THEN (p \o q)[i] ELSE v[i - Len(p \o q)]
  BY <1>3, <1>4, ConcatProperties
<1>6. Len(v) \in Nat
  BY LenProperties
<1>7. \A i \in 1..Len(p) : e[i] = p[i]
  BY <1>1, <1>2, <1>4, <1>5, <1>6
<1>8. \A i \in 1..Len(q) : e[Len(p) + i] = q[i]
  BY <1>1, <1>2, <1>4, <1>5, <1>6
<1>9. ASSUME NEW i \in 1..Len(v) PROVE e[Len(p) + Len(q) + i] = v[i]
  <2> DEFINE j == Len(p) + Len(q) + i
  <2>1. /\ j \in 1..(Len(p \o q) + Len(v)) /\ ~(j <= Len(p \o q)) /\ j - Len(p \o q) = i
    BY <1>1, <1>2, <1>4, <1>6
  <2> HIDE DEF j
  <2>2. e[j] = v[j - Len(p \o q)]
    BY <1>5, <2>1
  <2> QED
    BY <2>1, <2>2 DEF j
<1>10. Len(e) = Len(p) + Len(q) + Len(v)
  BY <1>4, <1>5
<1> QED
  BY <1>1, <1>2, <1>10, <1>5, <1>6, <1>7, <1>8, <1>9, Zenon DEF e, p, q

\* Bytes that start with an element: the element, and the bytes behind it.
THEOREM SingleRead ==
  ASSUME NEW tag, IsTag(tag), NEW v \in Seq(Octets), Len(v) \in ThreeBytes,
         NEW b \in Seq(Octets), Starts(b, encode(tag, v))
  PROVE  read_single(b) = [tag |-> tag, value |-> v, rest |-> From(b, Len(encode(tag, v)) + 1)]
<1> DEFINE e == encode(tag, v)
           p == encode_tag(tag)
           q == encode_length(Len(v))
           k == Len(p)
           l == Len(q)
           n == Len(v)
           after == From(b, 1 + k)
<1>1. /\ e \in Seq(Octets) /\ Len(e) = k + l + n
      /\ k \in Nat \ {0} /\ l \in Nat \ {0} /\ n \in Nat
      /\ \A i \in 1..k : e[i] = p[i]
      /\ \A i \in 1..l : e[k + i] = q[i]
      /\ \A i \in 1..n : e[k + l + i] = v[i]
  BY EncodeParts
<1>2. Len(b) \in Nat /\ Len(e) <= Len(b) /\ \A i \in 1..Len(e) : b[i] = e[i]
  BY LenProperties DEF Starts
<1> HIDE DEF e, p, q, k, l, n
<1>3. Starts(b, p)
  <2>1. k <= Len(b) /\ \A i \in 1..k : b[i] = p[i]
    BY <1>1, <1>2
  <2> QED
    BY <2>1 DEF Starts, k, p
<1>4. parse_tag(b) = [n |-> tag, took |-> k]
  BY <1>3, TagRead DEF k, p
<1>14. k \in Nat /\ k <= Len(b)
  BY <1>1, <1>2
<1>5. /\ after \in Seq(Octets) /\ Len(after) = Len(b) - k
      /\ \A i \in 1..(Len(b) - k) : after[i] = b[k + i]
  BY <1>14, After
<1>6. Starts(after, q)
  <2>1. l <= Len(after)
    BY <1>1, <1>2, <1>5
  <2>2. ASSUME NEW i \in 1..l PROVE after[i] = q[i]
    BY <1>1, <1>2, <1>5
  <2> QED
    BY <2>1, <2>2 DEF Starts, l, q
<1>7. parse_length(after) = [n |-> n, took |-> l]
  BY <1>5, <1>6, LengthRead DEF n, l, q
<1>8. read_single(b) = ReadValue(b, tag, k + l + 1, k + l + n)
  BY <1>4, <1>7, SingleSteps
<1> DEFINE s == SubSeq(b, k + l + 1, k + l + n)
<1>9. /\ s \in Seq(Octets) /\ Len(s) = n
      /\ \A i \in 1..n : s[i] = b[k + l + i]
  <2>1. k + l \in Nat /\ (k + l) + n <= Len(b) /\ n \in Nat
    BY <1>1, <1>2
  <2> DEFINE m == k + l
  <2> HIDE DEF m
  <2>2. /\ SubSeq(b, m + 1, m + n) \in Seq(Octets) /\ Len(SubSeq(b, m + 1, m + n)) = n
        /\ \A i \in 1..n : SubSeq(b, m + 1, m + n)[i] = b[m + i]
    BY <2>1, Within DEF m
  <2> QED
    BY <2>2 DEF m
<1> HIDE DEF s
<1>10. ASSUME NEW i \in 1..n PROVE s[i] = v[i]
  <2>1. k + l + i \in 1..Len(e)
    BY <1>1
  <2>2. b[k + l + i] = e[k + l + i]
    BY <1>2, <2>1
  <2> QED
    BY <1>1, <1>9, <2>2
<1>11. s = v
  BY <1>9, <1>10, SeqEqual DEF n
<1>12. ~(k + l + n > Len(b)) /\ k + l + n + 1 = Len(e) + 1
  BY <1>1, <1>2
<1>13. ReadValue(b, tag, k + l + 1, k + l + n) = [tag |-> tag, value |-> s, rest |-> From(b, k + l + n + 1)]
  BY <1>12, Zenon DEF ReadValue, s
<1> QED
  BY <1>8, <1>11, <1>12, <1>13 DEF e

\* Bytes that end within an element: nothing.
LEMMA SingleCut ==
  ASSUME NEW tag, IsTag(tag), NEW v \in Seq(Octets), Len(v) \in ThreeBytes,
         NEW b \in Seq(Octets), CutOf(b, encode(tag, v))
  PROVE  read_single(b) = Failed
<1> DEFINE e == encode(tag, v)
           p == encode_tag(tag)
           q == encode_length(Len(v))
           k == Len(p)
           l == Len(q)
           n == Len(v)
           after == From(b, 1 + k)
<1>1. /\ e \in Seq(Octets) /\ Len(e) = k + l + n
      /\ k \in Nat \ {0} /\ l \in Nat \ {0} /\ n \in Nat
      /\ \A i \in 1..k : e[i] = p[i]
      /\ \A i \in 1..l : e[k + i] = q[i]
  BY EncodeParts
<1>2. Len(b) \in Nat /\ Len(b) < Len(e) /\ \A i \in 1..Len(b) : b[i] = e[i]
  BY LenProperties DEF CutOf
<1> HIDE DEF e, p, q, k, l, n
<1>3. CASE Len(b) < k
  <2>1. CutOf(b, p)
    <3>1. ASSUME NEW i \in 1..Len(b) PROVE b[i] = p[i]
      <4>1. i \in 1..k
        BY <1>1, <1>2, <1>3
      <4> QED
        BY <1>1, <1>2, <4>1
    <3> QED
      BY <1>3, <3>1 DEF CutOf, k, p
  <2>2. parse_tag(b) = Failed
    BY <2>1, TagCut DEF p
  <2> QED
    BY <2>2, SingleSteps
<1>4. CASE ~(Len(b) < k)
  <2>1. Starts(b, p)
    <3>1. k <= Len(b) /\ \A i \in 1..k : b[i] = p[i]
      BY <1>1, <1>2, <1>4
    <3> QED
      BY <3>1 DEF Starts, k, p
  <2>2. parse_tag(b) = [n |-> tag, took |-> k]
    BY <2>1, TagRead DEF k, p
  <2>3. /\ after \in Seq(Octets) /\ Len(after) = Len(b) - k
        /\ \A i \in 1..(Len(b) - k) : after[i] = b[k + i]
    <3>1. k \in Nat /\ k <= Len(b)
      BY <1>1, <1>2, <1>4
    <3> QED
      BY <3>1, After
  <2> HIDE DEF after
  <2>4. ASSUME NEW i \in 1..(Len(b) - k), i <= l PROVE after[i] = q[i]
    <3>1. i \in 1..l /\ k + i \in 1..Len(b)
      BY <1>1, <1>2, <1>4, <2>4
    <3>2. after[i] = b[k + i] /\ b[k + i] = e[k + i] /\ e[k + i] = q[i]
      BY <1>1, <1>2, <2>3, <3>1
    <3> QED
      BY <3>2
  <2>5. CASE Len(after) < l
    <3>1. CutOf(after, q)
      <4>1. \A i \in 1..Len(after) : after[i] = q[i]
        BY <1>1, <1>2, <1>4, <2>3, <2>4, <2>5
      <4> QED
        BY <2>5, <4>1 DEF CutOf, l, q
    <3>2. parse_length(after) = Failed
      BY <2>3, <3>1, LengthCut DEF q, n
    <3> QED
      BY <2>2, <3>2, SingleSteps DEF after
  <2>6. CASE ~(Len(after) < l)
    <3>1. Starts(after, q)
      <4>1. l <= Len(after) /\ \A i \in 1..l : after[i] = q[i]
        BY <1>1, <1>2, <1>4, <2>3, <2>4, <2>6
      <4> QED
        BY <4>1 DEF Starts, l, q
    <3>2. parse_length(after) = [n |-> n, took |-> l]
      BY <2>3, <3>1, LengthRead DEF n, l, q
    <3>3. read_single(b) = ReadValue(b, tag, k + l + 1, k + l + n)
      BY <2>2, <3>2, SingleSteps DEF after
    <3>4. k + l + n > Len(b)
      BY <1>1, <1>2
    <3> QED
      BY <3>3, <3>4, Zenon DEF ReadValue
  <2> QED
    BY <2>5, <2>6
<1> QED
  BY <1>3, <1>4

-----------------------------------------------------------------------------
(* ToBytes is what its recursion says, for every number. *)

BytesOf(f, k) == IF k < 256 THEN <<k>> ELSE Append(f[k \div 256], k % 256)
AreBytes(n, f) == f = [k \in 0..n |-> BytesOf(f, k)]

LEMMA Shorter ==
  ASSUME NEW k \in Nat
  PROVE  /\ k \div 256 \in Nat /\ k % 256 \in 0..255
         /\ ~(k < 256) => k \div 256 < k
         /\ k < 65536 => k \div 256 < 256
         /\ k < 16777216 => k \div 256 < 65536
OBVIOUS

\* It depends on the bytes of smaller numbers only.
LEMMA BytesAlike ==
  ASSUME NEW k \in Nat, NEW f, NEW g, \A j \in Nat : j < k => f[j] = g[j]
  PROVE  BytesOf(f, k) = BytesOf(g, k)
<1> DEFINE j == k \div 256
<1>1. j \in Nat /\ (~(k < 256) => j < k)
  BY Shorter
<1> HIDE DEF j
<1>2. ~(k < 256) => f[j] = g[j]
  BY <1>1
<1> QED
  BY <1>2, Zenon DEF BytesOf, j

LEMMA BytesUpTo ==
  ASSUME NEW n \in Nat
  PROVE  \E f : AreBytes(n, f)
<1> DEFINE S == {k \in Nat : \E f : \A i \in 0..k : f[i] = BytesOf(f, i)}
<1>1. 0 \in S
  <2> DEFINE f == [i \in {0} |-> <<0>>]
  <2>1. f[0] = <<0>>
    OBVIOUS
  <2> HIDE DEF f
  <2>2. \A i \in 0..0 : f[i] = BytesOf(f, i)
    BY <2>1 DEF BytesOf
  <2>3. \E h : \A i \in 0..0 : h[i] = BytesOf(h, i)
    BY <2>2, Zenon
  <2> QED
    BY <2>3
<1>2. ASSUME NEW k \in Nat, k \in S PROVE k + 1 \in S
  <2>1. PICK f : \A i \in 0..k : f[i] = BytesOf(f, i)
    BY <1>2
  <2> DEFINE g == [i \in 0..(k + 1) |-> IF i <= k THEN f[i] ELSE BytesOf(f, i)]
  <2>2. \A i \in 0..(k + 1) : g[i] = IF i <= k THEN f[i] ELSE BytesOf(f, i)
    OBVIOUS
  <2> HIDE DEF g
  <2>3. ASSUME NEW i \in 0..(k + 1) PROVE g[i] = BytesOf(g, i)
    <3>1. \A j \in Nat : j < i => f[j] = g[j]
      BY <2>2
    <3>2. BytesOf(f, i) = BytesOf(g, i)
      BY <3>1, BytesAlike
    <3>3. g[i] = BytesOf(f, i)
      BY <2>1, <2>2
    <3> QED
      BY <3>2, <3>3
  <2>4. \E h : \A i \in 0..(k + 1) : h[i] = BytesOf(h, i)
    BY <2>3, Zenon
  <2> QED
    BY <2>4
<1> HIDE DEF S
<1>3. n \in S
  BY <1>1, <1>2, Induction
<1>4. PICK f : \A i \in 0..n : f[i] = BytesOf(f, i)
  BY <1>3 DEF S
<1> DEFINE g == [i \in 0..n |-> f[i]]
<1>5. \A i \in 0..n : g[i] = f[i]
  OBVIOUS
<1>6. g = [i \in 0..n |-> g[i]]
  OBVIOUS
<1> HIDE DEF g
<1>7. ASSUME NEW i \in 0..n PROVE g[i] = BytesOf(g, i)
  <2>1. \A j \in Nat : j < i => f[j] = g[j]
    BY <1>5
  <2> QED
    BY <1>4, <1>5, <2>1, BytesAlike
<1>8. g = [i \in 0..n |-> BytesOf(g, i)]
  BY <1>6, <1>7
<1> QED
  BY <1>8, Zenon DEF AreBytes

\* Any two such functions agree.
LEMMA BytesAgree ==
  ASSUME NEW n \in Nat, NEW m \in Nat, NEW f, NEW g, AreBytes(n, f), AreBytes(m, g)
  PROVE  \A k \in Nat : k <= n /\ k <= m => f[k] = g[k]
<1>1. \A k \in 0..n : f[k] = BytesOf(f, k)
  BY DEF AreBytes
<1>2. \A k \in 0..m : g[k] = BytesOf(g, k)
  BY DEF AreBytes
<1> DEFINE S == {k \in Nat : k <= n /\ k <= m => f[k] = g[k]}
<1>3. ASSUME NEW k \in Nat, \A j \in Nat : j < k => j \in S PROVE k \in S
  <2> SUFFICES ASSUME k <= n, k <= m PROVE f[k] = g[k]
    OBVIOUS
  <2>1. \A j \in Nat : j < k => f[j] = g[j]
    BY <1>3
  <2>2. BytesOf(f, k) = BytesOf(g, k)
    BY <2>1, BytesAlike
  <2> QED
    BY <1>1, <1>2, <2>2
<1> HIDE DEF S
<1>4. \A k \in Nat : k \in S
  BY <1>3, StrongInduction
<1> QED
  BY <1>4 DEF S

LEMMA ToBytesUnfolds ==
  ASSUME NEW n \in Nat
  PROVE  /\ n < 256 => ToBytes(n) = <<n>>
         /\ ~(n < 256) => ToBytes(n) = Append(ToBytes(n \div 256), n % 256)
<1> DEFINE of(k) == CHOOSE f : AreBytes(k, f)
<1>1. ASSUME NEW k \in Nat PROVE AreBytes(k, of(k))
  BY BytesUpTo, Zenon
<1>2. \A k : ToBytes(k) = of(k)[k]
  BY Zenon DEF ToBytes, AreBytes, BytesOf
<1> HIDE DEF of
<1>3. of(n)[n] = BytesOf(of(n), n)
  <2>1. of(n) = [k \in 0..n |-> BytesOf(of(n), k)]
    BY <1>1, Zenon DEF AreBytes
  <2>2. n \in 0..n
    OBVIOUS
  <2> QED
    BY <2>1, <2>2, Zenon
<1>4. CASE n < 256
  BY <1>2, <1>3, <1>4, Zenon DEF BytesOf
<1>5. CASE ~(n < 256)
  <2> DEFINE j == n \div 256
  <2>1. j \in Nat /\ j <= n /\ j <= j
    BY <1>5, Shorter
  <2>2. ToBytes(n) = Append(of(n)[j], n % 256)
    BY <1>2, <1>3, <1>5, Zenon DEF BytesOf
  <2> HIDE DEF j
  <2>3. of(n)[j] = of(j)[j]
    BY <1>1, <2>1, BytesAgree
  <2>4. of(n)[j] = ToBytes(j)
    BY <1>2, <2>3
  <2>5. ToBytes(n) = Append(ToBytes(j), n % 256)
    BY <2>2, <2>4, Zenon
  <2> QED
    BY <1>5, <2>5, Zenon DEF j
<1> QED
  BY <1>4, <1>5

LEMMA ToBytesTyped ==
  ASSUME NEW n \in Nat
  PROVE  ToBytes(n) \in Seq(Octets) /\ ToBytes(n) # <<>>
<1> DEFINE S == {k \in Nat : ToBytes(k) \in Seq(Octets) /\ ToBytes(k) # <<>>}
<1>1. ASSUME NEW k \in Nat, \A j \in Nat : j < k => j \in S PROVE k \in S
  <2>1. CASE k < 256
    <3>1. k \in Octets
      BY <2>1 DEF Octets
    <3>2. <<k>> \in Seq(Octets) /\ <<k>> # <<>>
      BY <3>1
    <3> QED
      BY <2>1, <3>2, ToBytesUnfolds
  <2>2. CASE ~(k < 256)
    <3> DEFINE j == k \div 256
               o == k % 256
    <3>1. j \in Nat /\ j < k /\ o \in Octets
      BY <2>2, Shorter DEF Octets
    <3>2. ToBytes(k) = Append(ToBytes(j), o)
      BY <2>2, ToBytesUnfolds
    <3> HIDE DEF j, o
    <3>3. ToBytes(j) \in Seq(Octets)
      BY <1>1, <3>1
    <3>4. Append(ToBytes(j), o) \in Seq(Octets) /\ Append(ToBytes(j), o) # <<>>
      BY <3>1, <3>3, AppendProperties
    <3> QED
      BY <3>2, <3>4
  <2> QED
    BY <2>1, <2>2
<1> HIDE DEF S
<1>2. n \in S
  BY <1>1, StrongInduction
<1> QED
  BY <1>2 DEF S

\* The bytes of numbers of one, two and three bytes.
LEMMA AppendedTo ==
  ASSUME NEW a \in Octets, NEW b \in Octets
  PROVE  Append(<<a>>, b) = <<a, b>>
<1>1. <<a>> \in Seq(Octets) /\ Len(<<a>>) = 1 /\ <<a>>[1] = a
  OBVIOUS
<1>2. <<a, b>> \in Seq(Octets) /\ Len(<<a, b>>) = 2 /\ <<a, b>>[1] = a /\ <<a, b>>[2] = b
  OBVIOUS
<1> DEFINE t == Append(<<a>>, b)
<1>3. t \in Seq(Octets) /\ Len(t) = 2 /\ t[1] = a /\ t[2] = b
  BY <1>1, AppendProperties
<1> HIDE DEF t
<1>4. t = <<a, b>>
  BY <1>2, <1>3, SeqEqual
<1> QED
  BY <1>4 DEF t

LEMMA AppendedToTwo ==
  ASSUME NEW a \in Octets, NEW b \in Octets, NEW c \in Octets
  PROVE  Append(<<a, b>>, c) = <<a, b, c>>
<1>1. <<a, b>> \in Seq(Octets) /\ Len(<<a, b>>) = 2 /\ <<a, b>>[1] = a /\ <<a, b>>[2] = b
  OBVIOUS
<1>2. /\ <<a, b, c>> \in Seq(Octets) /\ Len(<<a, b, c>>) = 3
      /\ <<a, b, c>>[1] = a /\ <<a, b, c>>[2] = b /\ <<a, b, c>>[3] = c
  OBVIOUS
<1> DEFINE t == Append(<<a, b>>, c)
<1>3. t \in Seq(Octets) /\ Len(t) = 3 /\ t[1] = a /\ t[2] = b /\ t[3] = c
  BY <1>1, AppendProperties
<1> HIDE DEF t
<1>4. t = <<a, b, c>>
  BY <1>2, <1>3, SeqEqual
<1> QED
  BY <1>4 DEF t

LEMMA OneByte ==
  ASSUME NEW n \in Nat, n < 256
  PROVE  ToBytes(n) = <<Octet(n, 0)>>
<1>1. Octet(n, 0) = n
  BY OctetsOf, SMT
<1> QED
  BY <1>1, ToBytesUnfolds

LEMMA TwoBytes ==
  ASSUME NEW n \in Nat, ~(n < 256), n < 65536
  PROVE  ToBytes(n) = <<Octet(n, 1), Octet(n, 0)>>
<1> DEFINE j == n \div 256
           o == n % 256
<1>1. j \in Nat /\ j < 256 /\ j % 256 = j
  BY SMT
<1>2. Octet(n, 1) = j /\ Octet(n, 0) = o
  <2>1. Octet(n, 0) = o
    BY Octet0, SMT
  <2>2. Octet(n, 1) = j % 256
    BY Octet1, SMT
  <2> QED
    BY <1>1, <2>1, <2>2, SMT
<1>3. ToBytes(n) = Append(ToBytes(j), o)
  BY ToBytesUnfolds, SMT
<1> HIDE DEF j, o
<1>4. ToBytes(j) = <<j>>
  BY <1>1, ToBytesUnfolds, SMT
<1>5. j \in Octets /\ o \in Octets
  BY <1>2, OctetTyped, SMT
<1> QED
  BY <1>2, <1>3, <1>4, <1>5, AppendedTo, SMT

LEMMA ThirdByte ==
  ASSUME NEW n \in Nat
  PROVE  n \div 65536 = (n \div 256) \div 256
BY SMT

LEMMA LastBytes ==
  ASSUME NEW n \in Nat, ~(n < 65536), n < 16777216
  PROVE  ToBytes(n) = <<Octet(n, 2), Octet(n, 1), Octet(n, 0)>>
<1> DEFINE j == n \div 256
           i == j \div 256
           o == n % 256
           p == j % 256
<1>1. j \in Nat /\ i \in Nat /\ ~(n < 256) /\ ~(j < 256) /\ i < 256 /\ i % 256 = i
  BY SMT
<1>2. Octet(n, 2) = i /\ Octet(n, 1) = p /\ Octet(n, 0) = o
  <2>1. Octet(n, 2) = (n \div 65536) % 256
    BY Octet2, SMT
  <2>2. n \div 65536 = i
    BY ThirdByte, SMT
  <2>3. Octet(n, 2) = i % 256
    BY <2>1, <2>2, SMT
  <2>4. Octet(n, 1) = p /\ Octet(n, 0) = o
    BY Octet0, Octet1, SMT
  <2> QED
    BY <1>1, <2>3, <2>4, SMT
<1>3. ToBytes(n) = Append(ToBytes(j), o)
  BY <1>1, ToBytesUnfolds, SMT
<1> HIDE DEF o
<1>4. ToBytes(j) = Append(ToBytes(i), p)
  BY <1>1, ToBytesUnfolds, SMT
<1> HIDE DEF j, p
<1>5. ToBytes(i) = <<i>>
  BY <1>1, ToBytesUnfolds, SMT
<1> HIDE DEF i
<1>6. i \in Octets /\ p \in Octets /\ o \in Octets
  BY <1>2, OctetTyped, SMT
<1>7. ToBytes(j) = <<i, p>>
  BY <1>4, <1>5, <1>6, AppendedTo, SMT
<1>8. Append(<<i, p>>, o) = <<i, p, o>>
  BY <1>6, AppendedToTwo, SMT
<1>9. ToBytes(n) = <<i, p, o>>
  BY <1>3, <1>7, <1>8, SMT
<1> QED
  BY <1>2, <1>9, SMT

-----------------------------------------------------------------------------
(* The encodings of a host are those of the card. *)

LEMMA TagEncoded ==
  ASSUME NEW n \in ThreeBytes
  PROVE  encode_tag(n) = ToBytes(n)
<1>1. n \in Nat /\ n < 16777216
  BY SMT DEF ThreeBytes
<1>2. CASE n < 256
  BY <1>1, <1>2, OneByte, SMT DEF encode_tag
<1>3. CASE ~(n < 256) /\ n < 65536
  BY <1>1, <1>3, TwoBytes, SMT DEF encode_tag
<1>4. CASE ~(n < 65536)
  BY <1>1, <1>4, LastBytes, SMT DEF encode_tag
<1> QED
  BY <1>1, <1>2, <1>3, <1>4, SMT

LEMMA BehindTwo ==
  ASSUME NEW h \in Octets, NEW a \in Octets, NEW b \in Octets
  PROVE  <<h>> \o <<a, b>> = <<h, a, b>>
<1> DEFINE t == <<h>> \o <<a, b>>
           u == <<h, a, b>>
<1>1. t \in Seq(Octets) /\ Len(t) = 3 /\ t[1] = h /\ t[2] = a /\ t[3] = b
  <2>1. <<h>> \in Seq(Octets) /\ Len(<<h>>) = 1 /\ <<h>>[1] = h
    OBVIOUS
  <2>2. <<a, b>> \in Seq(Octets) /\ Len(<<a, b>>) = 2 /\ <<a, b>>[1] = a /\ <<a, b>>[2] = b
    OBVIOUS
  <2> QED
    BY <2>1, <2>2, ConcatProperties
<1>2. u \in Seq(Octets) /\ Len(u) = 3 /\ u[1] = h /\ u[2] = a /\ u[3] = b
  OBVIOUS
<1> HIDE DEF t, u
<1>3. t = u
  BY <1>1, <1>2, SeqEqual
<1> QED
  BY <1>3 DEF t, u

LEMMA BehindThree ==
  ASSUME NEW h \in Octets, NEW a \in Octets, NEW b \in Octets, NEW c \in Octets
  PROVE  <<h>> \o <<a, b, c>> = <<h, a, b, c>>
<1> DEFINE t == <<h>> \o <<a, b, c>>
           u == <<h, a, b, c>>
<1>1. t \in Seq(Octets) /\ Len(t) = 4 /\ t[1] = h /\ t[2] = a /\ t[3] = b /\ t[4] = c
  <2>1. <<h>> \in Seq(Octets) /\ Len(<<h>>) = 1 /\ <<h>>[1] = h
    OBVIOUS
  <2>2. /\ <<a, b, c>> \in Seq(Octets) /\ Len(<<a, b, c>>) = 3
        /\ <<a, b, c>>[1] = a /\ <<a, b, c>>[2] = b /\ <<a, b, c>>[3] = c
    OBVIOUS
  <2> QED
    BY <2>1, <2>2, ConcatProperties
<1>2. u \in Seq(Octets) /\ Len(u) = 4 /\ u[1] = h /\ u[2] = a /\ u[3] = b /\ u[4] = c
  OBVIOUS
<1> HIDE DEF t, u
<1>3. t = u
  BY <1>1, <1>2, SeqEqual
<1> QED
  BY <1>3 DEF t, u

\* A length in short and in long form.
LEMMA LengthEncoded ==
  ASSUME NEW n \in ThreeBytes
  PROVE  encode_length(n) = IF n < 128 THEN <<n>> ELSE <<128 + Len(ToBytes(n))>> \o ToBytes(n)
<1>1. n \in Nat /\ n < 16777216
  BY SMT DEF ThreeBytes
<1>2. CASE n < 128
  BY <1>1, <1>2, SMT DEF encode_length
<1>3. CASE ~(n < 128) /\ n < 256
  <2>1. encode_length(n) = <<129, n>> /\ ToBytes(n) = <<n>>
    BY <1>1, <1>3, ToBytesUnfolds, SMT DEF encode_length
  <2> QED
    BY <1>1, <1>3, <2>1, SMT
<1>4. CASE ~(n < 256) /\ n < 65536
  <2>1. encode_length(n) = <<130, Octet(n, 1), Octet(n, 0)>> /\ ToBytes(n) = <<Octet(n, 1), Octet(n, 0)>>
    BY <1>1, <1>4, TwoBytes, SMT DEF encode_length
  <2>2. 130 \in Octets /\ Octet(n, 1) \in Octets /\ Octet(n, 0) \in Octets
    BY <1>1, OctetTyped, SMT DEF Octets
  <2>3. <<130>> \o ToBytes(n) = encode_length(n) /\ 128 + Len(ToBytes(n)) = 130
    BY <2>1, <2>2, BehindTwo, SMT
  <2> QED
    BY <1>1, <1>4, <2>3, SMT
<1>5. CASE ~(n < 65536)
  <2>1. /\ encode_length(n) = <<131, Octet(n, 2), Octet(n, 1), Octet(n, 0)>>
        /\ ToBytes(n) = <<Octet(n, 2), Octet(n, 1), Octet(n, 0)>>
    BY <1>1, <1>5, LastBytes, SMT DEF encode_length
  <2>2. 131 \in Octets /\ Octet(n, 2) \in Octets /\ Octet(n, 1) \in Octets /\ Octet(n, 0) \in Octets
    BY <1>1, OctetTyped, SMT DEF Octets
  <2>3. <<131>> \o ToBytes(n) = encode_length(n) /\ 128 + Len(ToBytes(n)) = 131
    BY <2>1, <2>2, BehindThree, SMT
  <2> QED
    BY <1>1, <1>5, <2>3, SMT
<1> QED
  BY <1>1, <1>2, <1>3, <1>4, <1>5, SMT

-----------------------------------------------------------------------------
(* FlattenSeq joins its parts one after the other. *)

\* f[i] is the first i of the parts, joined.
SumsUpTo(parts, k, f) ==
  /\ f[0] = <<>>
  /\ \A i \in 1..k : f[i] = f[i - 1] \o parts[i]
  /\ \A i \in 0..k : f[i] \in Seq(Octets)
Sums(parts, f) == SumsUpTo(parts, Len(parts), f)

LEMMA SumsGoOn ==
  ASSUME NEW parts \in Seq(Seq(Octets)), NEW k \in Nat, k + 1 <= Len(parts), NEW f, SumsUpTo(parts, k, f)
  PROVE  \E g : SumsUpTo(parts, k + 1, g)
<1>0. Len(parts) \in Nat
  BY LenProperties
<1>1. /\ f[0] = <<>>
      /\ \A i \in 1..k : f[i] = f[i - 1] \o parts[i]
      /\ \A i \in 0..k : f[i] \in Seq(Octets)
  BY DEF SumsUpTo
<1> DEFINE more == f[k] \o parts[k + 1]
           g == [i \in 0..(k + 1) |-> IF i <= k THEN f[i] ELSE more]
<1>2. parts[k + 1] \in Seq(Octets) /\ f[k] \in Seq(Octets)
  BY <1>0, <1>1, ElementOfSeq
<1>3. more \in Seq(Octets)
  BY <1>2, ConcatProperties
<1> HIDE DEF more
<1>4. \A i \in 0..(k + 1) : g[i] = IF i <= k THEN f[i] ELSE more
  OBVIOUS
<1> HIDE DEF g
<1>5. g[0] = <<>>
  BY <1>1, <1>4
<1>6. ASSUME NEW i \in 0..(k + 1) PROVE g[i] \in Seq(Octets)
  <2>1. \A j \in 0..k : f[j] \in Seq(Octets)
    BY <1>1, Zenon
  <2>2. i \in 0..k \/ ~(i <= k)
    OBVIOUS
  <2> QED
    BY <1>3, <1>4, <2>1, <2>2, Zenon
<1>7. ASSUME NEW i \in 1..(k + 1) PROVE g[i] = g[i - 1] \o parts[i]
  <2>1. CASE i <= k
    <3>1. i \in 1..k /\ i - 1 \in 0..(k + 1) /\ i - 1 <= k /\ i \in 0..(k + 1)
      BY <2>1
    <3>2. g[i] = f[i] /\ g[i - 1] = f[i - 1] /\ f[i] = f[i - 1] \o parts[i]
      BY <1>1, <1>4, <2>1, <3>1, Zenon
    <3> QED
      BY <3>2, Zenon
  <2>2. CASE i = k + 1
    <3>0. k + 1 \in 0..(k + 1) /\ ~(k + 1 <= k) /\ k \in 0..(k + 1) /\ k <= k /\ (k + 1) - 1 = k
      OBVIOUS
    <3>1. g[k + 1] = more /\ g[k] = f[k] /\ (k + 1) - 1 = k
      BY <1>4, <3>0, Zenon
    <3>2. g[k + 1] = g[(k + 1) - 1] \o parts[k + 1]
      BY <3>1, Zenon DEF more
    <3> QED
      BY <2>2, <3>2, Zenon
  <2>3. i <= k \/ i = k + 1
    OBVIOUS
  <2> QED
    BY <2>1, <2>2, <2>3, Zenon
<1>8. SumsUpTo(parts, k + 1, g)
  BY <1>5, <1>6, <1>7, Zenon DEF SumsUpTo
<1> QED
  BY <1>8, Zenon

LEMMA SumsExist ==
  ASSUME NEW parts \in Seq(Seq(Octets))
  PROVE  \E f : Sums(parts, f)
<1> DEFINE S == {k \in Nat : k <= Len(parts) => \E f : SumsUpTo(parts, k, f)}
<1>0. Len(parts) \in Nat
  BY LenProperties
<1>1. 0 \in S
  <2> DEFINE f == [i \in {0} |-> <<>>]
  <2>1. f[0] = <<>>
    OBVIOUS
  <2>2. <<>> \in Seq(Octets)
    OBVIOUS
  <2> HIDE DEF f
  <2>3. (\A i \in 0..0 : i = 0) /\ (\A i \in 1..0 : FALSE)
    OBVIOUS
  <2>4. SumsUpTo(parts, 0, f)
    BY <2>1, <2>2, <2>3, Zenon DEF SumsUpTo
  <2> QED
    BY <2>4, Zenon
<1>2. ASSUME NEW k \in Nat, k \in S PROVE k + 1 \in S
  <2>1. k + 1 \in Nat /\ (k + 1 <= Len(parts) => k <= Len(parts))
    BY <1>0
  <2>2. k + 1 <= Len(parts) => \E f : SumsUpTo(parts, k, f)
    BY <1>2, <2>1, Zenon
  <2>3. k + 1 <= Len(parts) => \E g : SumsUpTo(parts, k + 1, g)
    BY <2>2, SumsGoOn, Zenon
  <2> QED
    BY <2>1, <2>3, Zenon
<1>3. (Len(parts) \in S) => \E f : SumsUpTo(parts, Len(parts), f)
  <2>1. Len(parts) <= Len(parts)
    BY <1>0
  <2> QED
    BY <2>1, Zenon
<1> HIDE DEF S
<1>4. Len(parts) \in S
  BY <1>0, <1>1, <1>2, Induction
<1> QED
  BY <1>3, <1>4, Zenon DEF Sums

IsFlat(parts, g) == g = [i \in 1..Len(parts) |-> IF i = 1 THEN parts[i] ELSE g[i - 1] \o parts[i]]

LEMMA FlattenIs ==
  ASSUME NEW parts \in Seq(Seq(Octets)), NEW f, Sums(parts, f)
  PROVE  FlattenSeq(parts) = f[Len(parts)]
<1> DEFINE n == Len(parts)
<1>0. n \in Nat /\ f[0] = <<>> /\ \A i \in 1..n : f[i] = f[i - 1] \o parts[i]
  BY LenProperties DEF Sums, SumsUpTo
<1>1. CASE n = 0
  <2>1. parts = <<>>
    BY <1>1, EmptySeq
  <2>2. FlattenSeq(parts) = parts
    BY <1>1, Zenon DEF FlattenSeq
  <2> QED
    BY <1>0, <1>1, <2>1, <2>2
<1>2. CASE n # 0
  <2> DEFINE g == [i \in 1..n |-> f[i]]
             h == CHOOSE h : IsFlat(parts, h)
  <2>1. f[1] = parts[1]
    <3>1. parts[1] \in Seq(Octets)
      BY <1>0, <1>2, ElementOfSeq
    <3>0. n \in Nat
      BY LenProperties
    <3>4. 1 \in 1..n /\ 1 - 1 = 0
      BY <1>2, <3>0
    <3>2. f[1] = f[1 - 1] \o parts[1]
      BY <1>0, <3>4, Zenon
    <3>3. <<>> \o parts[1] = parts[1]
      BY <3>1, ConcatEmptySeq
    <3> QED
      BY <1>0, <3>2, <3>3, <3>4, Zenon
  <2>2. \A i \in 1..n : g[i] = f[i]
    OBVIOUS
  <2>3. g = [i \in 1..n |-> g[i]]
    OBVIOUS
  <2> HIDE DEF g
  <2>4. ASSUME NEW i \in 1..n PROVE g[i] = IF i = 1 THEN parts[i] ELSE g[i - 1] \o parts[i]
    <3>1. CASE i = 1
      BY <2>1, <2>2, <3>1
    <3>2. CASE i # 1
      <4>0. n \in Nat
        BY LenProperties
      <4>1. i - 1 \in 1..n
        BY <3>2, <4>0
      <4>2. g[i] = f[i] /\ g[i - 1] = f[i - 1] /\ f[i] = f[i - 1] \o parts[i]
        BY <1>0, <2>2, <4>1, Zenon
      <4> QED
        BY <3>2, <4>2, Zenon
    <3> QED
      BY <3>1, <3>2
  <2>5. IsFlat(parts, g)
    BY <2>3, <2>4 DEF IsFlat
  <2>6. IsFlat(parts, h)
    BY <2>5, Zenon
  <2>7. FlattenSeq(parts) = h[n]
    BY <1>2, Zenon DEF FlattenSeq, IsFlat
  <2> HIDE DEF h
  <2>8. \A i \in 1..n : h[i] = IF i = 1 THEN parts[i] ELSE h[i - 1] \o parts[i]
    BY <2>6 DEF IsFlat
  <2> DEFINE S == {i \in Nat : i + 1 <= n => h[i + 1] = f[i + 1]}
  <2>9. 0 \in S
    BY <1>0, <2>1, <2>8
  <2>10. ASSUME NEW i \in Nat, i \in S PROVE i + 1 \in S
    <3> SUFFICES ASSUME (i + 1) + 1 <= n PROVE h[(i + 1) + 1] = f[(i + 1) + 1]
      OBVIOUS
    <3>1. h[i + 1] = f[i + 1]
      BY <1>0, <2>10
    <3> DEFINE j == (i + 1) + 1
    <3>2. j \in 1..n /\ j # 1 /\ j - 1 = i + 1
      BY <1>0
    <3> HIDE DEF j
    <3>3. h[j] = h[j - 1] \o parts[j] /\ f[j] = f[j - 1] \o parts[j]
      BY <1>0, <2>8, <3>2, Zenon
    <3>4. h[j] = f[j]
      BY <3>1, <3>2, <3>3, Zenon
    <3> QED
      BY <3>4 DEF j
  <2> HIDE DEF S
  <2>11. n - 1 \in S /\ n - 1 \in Nat /\ (n - 1) + 1 = n
    <3>1. n \in Nat
      BY LenProperties
    <3>2. n - 1 \in Nat /\ (n - 1) + 1 = n
      BY <1>2, <3>1
    <3> QED
      BY <2>9, <2>10, <3>2, Induction
  <2>12. h[n] = f[n]
    BY <1>0, <2>11 DEF S
  <2> QED
    BY <2>7, <2>12
<1> QED
  BY <1>1, <1>2

-----------------------------------------------------------------------------
(* read_list reads a list as it was written, up to the first element that is *)
(* cut.                                                                      *)

\* What is read of the value of an element.
InnerList(tag, value) == IF IsConstructed(tag) /\ value # <<>> THEN read_list(value) ELSE <<>>

LEMMA ListEmpty == read_list(<<>>) = <<>>
<1>1. <<>> \in Seq(Octets)
  OBVIOUS
<1>2. read_list(<<>>) = ReadFrom(Reader, <<>>)
  BY <1>1, ReadListUnfolds
<1> QED
  BY <1>2, Zenon DEF ReadFrom

LEMMA ListFailed ==
  ASSUME NEW b \in Seq(Octets), b # <<>>, ~IsFiller(b[1]), read_single(b) = Failed
  PROVE  read_list(b) = <<>>
<1>1. read_list(b) = ReadFrom(Reader, b)
  BY ReadListUnfolds
<1> QED
  BY <1>1, FailedOrNot, Zenon DEF ReadFrom, ReadOn

LEMMA ListOne ==
  ASSUME NEW b \in Seq(Octets), b # <<>>, ~IsFiller(b[1]),
         NEW t, NEW v \in Seq(Octets), NEW r \in Seq(Octets),
         read_single(b) = [tag |-> t, value |-> v, rest |-> r]
  PROVE  read_list(b) = <<TLV(t, v, InnerList(t, v))>> \o read_list(r)
<1>1. read_list(b) = ReadFrom(Reader, b)
  BY ReadListUnfolds
<1>2. Reader[v] = read_list(v) /\ Reader[r] = read_list(r)
  BY DEF Reader
<1> DEFINE one == [tag |-> t, value |-> v, rest |-> r]
<1>3. one.tag = t /\ one.value = v /\ one.rest = r /\ ~IsFailed(one)
  BY FailedOrNot
<1>4. read_list(b) = ReadOn(Reader, one)
  BY <1>1, Zenon DEF ReadFrom
<1> HIDE DEF one
<1>5. ReadSubs(Reader, one) = InnerList(t, v)
  BY <1>2, <1>3, Zenon DEF ReadSubs, InnerList
<1>6. ReadOn(Reader, one) = <<TLV(t, v, InnerList(t, v))>> \o read_list(r)
  BY <1>2, <1>3, <1>5, Zenon DEF ReadOn
<1> QED
  BY <1>4, <1>6

\* An element as read_list returns it.
Readable(t) ==
  /\ t = TLV(t.tag, t.value, InnerList(t.tag, t.value))
  /\ IsTag(t.tag) /\ t.value \in Seq(Octets) /\ Len(t.value) \in ThreeBytes
ElementBytes(t) == encode(t.tag, t.value)

\* off[i] is where the bytes of the first i elements end, and bytes holds them
\* as far as it goes.
LaidOut(list, off) ==
  /\ off[0] = 0
  /\ \A i \in 1..Len(list) : off[i] = off[i - 1] + Len(ElementBytes(list[i]))
  /\ \A i \in 0..Len(list) : off[i] \in Nat
Holds(bytes, list, off) ==
  \A i \in 1..Len(list) : \A j \in 1..Len(ElementBytes(list[i])) :
    off[i - 1] + j <= Len(bytes) => bytes[off[i - 1] + j] = ElementBytes(list[i])[j]

\* An element has at least two bytes, and the first is no filler.
LEMMA ElementFirst ==
  ASSUME NEW t, Readable(t)
  PROVE  /\ ElementBytes(t) \in Seq(Octets) /\ Len(ElementBytes(t)) \in Nat \ {0}
         /\ ~IsFiller(ElementBytes(t)[1])
<1> DEFINE e == encode(t.tag, t.value)
           p == encode_tag(t.tag)
           q == encode_length(Len(t.value))
           v == t.value
<1>1. IsTag(t.tag) /\ t.value \in Seq(Octets) /\ Len(t.value) \in ThreeBytes
  BY DEF Readable
<1>2. /\ e \in Seq(Octets) /\ Len(e) = Len(p) + Len(q) + Len(v)
      /\ Len(p) \in Nat \ {0} /\ Len(q) \in Nat \ {0} /\ Len(v) \in Nat
      /\ \A i \in 1..Len(p) : e[i] = p[i]
  BY <1>1, EncodeParts
<1>3. ~IsFiller(p[1])
  BY <1>1, TagBytes
<1> HIDE DEF e, p, q, v
<1>4. e[1] = p[1] /\ Len(e) \in Nat \ {0}
  BY <1>2
<1>5. ~IsFiller(e[1])
  BY <1>3, <1>4, Zenon
<1> QED
  BY <1>2, <1>4, <1>5, Zenon DEF ElementBytes, e

\* The bytes at the element k + 1.
LEMMA ElementAt ==
  ASSUME NEW b \in Seq(Octets), NEW S, NEW list \in Seq(S), NEW off,
         LaidOut(list, off), Holds(b, list, off),
         NEW k \in 0..(Len(list) - 1), Readable(list[k + 1]), off[k] <= Len(b)
  PROVE  LET c == From(b, 1 + off[k])
             e == ElementBytes(list[k + 1])
         IN /\ c \in Seq(Octets) /\ Len(c) = Len(b) - off[k] /\ off[k] \in Nat
            /\ off[k + 1] \in Nat /\ off[k + 1] = off[k] + Len(e)
            /\ off[k + 1] <= Len(b) => Starts(c, e)
            /\ off[k + 1] > Len(b) => CutOf(c, e)
            /\ c # <<>> => ~IsFiller(c[1])
<1> DEFINE o == off[k]
           c == From(b, 1 + o)
           e == ElementBytes(list[k + 1])
<1>1. Len(list) \in Nat /\ Len(b) \in Nat
  BY LenProperties
<1>2. k \in 0..Len(list) /\ k + 1 \in 1..Len(list) /\ k + 1 \in 0..Len(list) /\ (k + 1) - 1 = k
  BY <1>1
<1>3. o \in Nat /\ off[k + 1] \in Nat /\ off[k + 1] = o + Len(e)
  BY <1>2, Zenon DEF LaidOut
<1>4. \A j \in 1..Len(e) : o + j <= Len(b) => b[o + j] = e[j]
  BY <1>2, Zenon DEF Holds
<1>5. e \in Seq(Octets) /\ Len(e) \in Nat \ {0} /\ ~IsFiller(e[1])
  BY ElementFirst
<1> HIDE DEF o, e
<1>6. c \in Seq(Octets) /\ Len(c) = Len(b) - o /\ \A i \in 1..(Len(b) - o) : c[i] = b[o + i]
  BY <1>3, After DEF o
<1> HIDE DEF c
<1>7. ASSUME NEW i \in 1..Len(c), i <= Len(e) PROVE c[i] = e[i]
  <2>1. i \in 1..Len(e) /\ o + i <= Len(b) /\ i \in 1..(Len(b) - o)
    BY <1>1, <1>3, <1>5, <1>6, <1>7
  <2> QED
    BY <1>4, <1>6, <2>1, Zenon
<1>8. off[k + 1] <= Len(b) => Starts(c, e)
  <2>1. off[k + 1] <= Len(b) => Len(e) <= Len(c) /\ \A i \in 1..Len(e) : i \in 1..Len(c) /\ i <= Len(e)
    BY <1>1, <1>3, <1>5, <1>6
  <2> QED
    BY <1>7, <2>1, Zenon DEF Starts
<1>9. off[k + 1] > Len(b) => CutOf(c, e)
  <2>1. off[k + 1] > Len(b) => Len(c) < Len(e) /\ \A i \in 1..Len(c) : i <= Len(e)
    BY <1>1, <1>3, <1>5, <1>6
  <2> QED
    BY <1>7, <2>1, Zenon DEF CutOf
<1>10. c # <<>> => ~IsFiller(c[1])
  <2>1. c # <<>> => 1 \in 1..Len(c) /\ 1 <= Len(e)
    BY <1>5, <1>6, EmptySeq
  <2>2. c # <<>> => c[1] = e[1]
    BY <1>7, <2>1, Zenon
  <2> QED
    BY <1>5, <2>2, Zenon
<1> QED
  BY <1>3, <1>6, <1>8, <1>9, <1>10, Zenon DEF o, e, c

LEMMA FromFrom ==
  ASSUME NEW b \in Seq(Octets), NEW o \in Nat, NEW n \in Nat, o + n <= Len(b)
  PROVE  From(From(b, 1 + o), 1 + n) = From(b, 1 + (o + n))
<1> DEFINE c == From(b, 1 + o)
           d == From(c, 1 + n)
           j == o + n
           e == From(b, 1 + j)
<1>0. Len(b) \in Nat /\ o <= Len(b) /\ j \in Nat /\ j <= Len(b)
  BY LenProperties
<1>1. c \in Seq(Octets) /\ Len(c) = Len(b) - o /\ \A i \in 1..(Len(b) - o) : c[i] = b[o + i]
  BY <1>0, After
<1> HIDE DEF c
<1>2. n <= Len(c)
  BY <1>0, <1>1
<1>3. d \in Seq(Octets) /\ Len(d) = Len(c) - n /\ \A i \in 1..(Len(c) - n) : d[i] = c[n + i]
  BY <1>1, <1>2, After
<1> HIDE DEF d, j
<1>4. e \in Seq(Octets) /\ Len(e) = Len(b) - j /\ \A i \in 1..(Len(b) - j) : e[i] = b[j + i]
  BY <1>0, After
<1> HIDE DEF e
<1>5. Len(d) = Len(e)
  BY <1>0, <1>1, <1>3, <1>4 DEF j
<1>6. ASSUME NEW i \in 1..Len(d) PROVE d[i] = e[i]
  <2>1. i \in 1..(Len(c) - n) /\ n + i \in 1..(Len(b) - o) /\ i \in 1..(Len(b) - j) /\ o + (n + i) = j + i
    BY <1>0, <1>1, <1>3, <1>4, <1>5 DEF j
  <2>2. d[i] = c[n + i] /\ c[n + i] = b[o + (n + i)] /\ e[i] = b[j + i]
    BY <1>1, <1>3, <1>4, <2>1, Zenon
  <2> QED
    BY <2>1, <2>2, Zenon
<1>7. d = e
  BY <1>3, <1>4, <1>5, <1>6, SeqEqual
<1> QED
  BY <1>7 DEF c, d, e, j

\* The elements from k on, where m is the number of the whole ones.
LEMMA ListStep ==
  ASSUME NEW b \in Seq(Octets), NEW S, NEW list \in Seq(S),
         \A i \in 1..Len(list) : Readable(list[i]),
         NEW off, LaidOut(list, off), Holds(b, list, off),
         NEW m \in 0..Len(list), NEW k \in 0..(m - 1), off[k + 1] <= Len(b),
         read_list(From(b, 1 + off[k + 1])) = SubSeq(list, k + 2, m)
  PROVE  off[k] <= Len(b) /\ read_list(From(b, 1 + off[k])) = SubSeq(list, k + 1, m)
<1> DEFINE t == list[k + 1]
           e == ElementBytes(t)
           o == off[k]
           c == From(b, 1 + o)
           n == Len(e)
<1>1. Len(list) \in Nat /\ Len(b) \in Nat
  BY LenProperties
<1>2. k \in 0..(Len(list) - 1) /\ k + 1 \in 1..Len(list) /\ k \in 0..Len(list) /\ (k + 1) - 1 = k
  BY <1>1
<1>3. Readable(t)
  BY <1>2
<1>4. e \in Seq(Octets) /\ n \in Nat \ {0}
  BY <1>3, ElementFirst
<1>5. o \in Nat /\ off[k + 1] = o + n
  BY <1>2, Zenon DEF LaidOut
<1>6. o <= Len(b)
  BY <1>1, <1>4, <1>5
<1>7. /\ c \in Seq(Octets) /\ Len(c) = Len(b) - o
      /\ Starts(c, e) /\ (c # <<>> => ~IsFiller(c[1]))
  BY <1>2, <1>3, <1>6, ElementAt
<1>8. c # <<>>
  BY <1>1, <1>4, <1>5, <1>7, EmptySeq
<1>9. read_single(c) = [tag |-> t.tag, value |-> t.value, rest |-> From(c, n + 1)]
  <2>1. IsTag(t.tag) /\ t.value \in Seq(Octets) /\ Len(t.value) \in ThreeBytes
    BY <1>3, Zenon DEF Readable
  <2>2. Starts(c, encode(t.tag, t.value))
    BY <1>7, Zenon DEF ElementBytes
  <2>3. read_single(c) = [tag |-> t.tag, value |-> t.value, rest |-> From(c, Len(encode(t.tag, t.value)) + 1)]
    BY <1>7, <2>1, <2>2, SingleRead
  <2> QED
    BY <2>3, Zenon DEF ElementBytes
<1> DEFINE r == From(c, n + 1)
<1>10. r = From(b, 1 + off[k + 1])
  <2>1. o + n <= Len(b) /\ n \in Nat /\ n + 1 = 1 + n
    BY <1>4, <1>5
  <2> HIDE DEF o, n
  <2>2. From(From(b, 1 + o), 1 + n) = From(b, 1 + (o + n))
    BY <1>5, <2>1, FromFrom
  <2> QED
    BY <1>5, <2>1, <2>2, Zenon
<1>11. r \in Seq(Octets) /\ t.value \in Seq(Octets)
  <2>1. off[k + 1] \in Nat
    BY <1>4, <1>5
  <2>2. From(b, 1 + off[k + 1]) \in Seq(Octets)
    BY <2>1, After
  <2> QED
    BY <1>3, <1>10, <2>2, Zenon DEF Readable
<1>15. read_single(c) = [tag |-> t.tag, value |-> t.value, rest |-> r]
  BY <1>9
<1> HIDE DEF c, r
<1>12. read_list(c) = <<TLV(t.tag, t.value, InnerList(t.tag, t.value))>> \o read_list(r)
  <2> DEFINE g == t.tag
             v == t.value
  <2> HIDE DEF g, v
  <2>1. read_single(c) = [tag |-> g, value |-> v, rest |-> r] /\ v \in Seq(Octets)
    BY <1>11, <1>15 DEF g, v
  <2>2. c \in Seq(Octets) /\ c # <<>> /\ ~IsFiller(c[1]) /\ r \in Seq(Octets)
    BY <1>7, <1>8, <1>11
  <2>3. read_list(c) = <<TLV(g, v, InnerList(g, v))>> \o read_list(r)
    BY <2>1, <2>2, ListOne
  <2> QED
    BY <2>3 DEF g, v
<1>13. read_list(c) = <<list[k + 1]>> \o SubSeq(list, k + 2, m)
  BY <1>3, <1>10, <1>12, Zenon DEF Readable
<1>14. SubSeq(list, k + 1, m) = <<list[k + 1]>> \o SubSeq(list, k + 2, m)
  <2>1. k + 1 \in 1..Len(list) /\ m \in (k + 1)..Len(list) /\ (k + 1) + 1 = k + 2
    BY <1>1
  <2>2. SubSeq(list, k + 1, m) = <<list[k + 1]>> \o SubSeq(list, (k + 1) + 1, m)
    BY <2>1, SubSeqRecursiveFirst
  <2> QED
    BY <2>1, <2>2, Zenon
<1> QED
  BY <1>6, <1>13, <1>14, Zenon DEF c

\* Of bytes that hold a list as far as they go, the whole elements are read.
LEMMA ListRead ==
  ASSUME NEW b \in Seq(Octets), NEW S, NEW list \in Seq(S),
         \A i \in 1..Len(list) : Readable(list[i]),
         NEW off, LaidOut(list, off), Holds(b, list, off),
         NEW m \in 0..Len(list), off[m] <= Len(b),
         IF m = Len(list) THEN Len(b) = off[m] ELSE off[m + 1] > Len(b)
  PROVE  read_list(b) = SubSeq(list, 1, m)
<1> DEFINE T == {d \in Nat : d <= m =>
                   off[m - d] <= Len(b) /\ read_list(From(b, 1 + off[m - d])) = SubSeq(list, m - d + 1, m)}
<1>0. Len(list) \in Nat /\ Len(b) \in Nat /\ m \in Nat /\ off[m] \in Nat
  BY LenProperties DEF LaidOut
<1>1. read_list(From(b, 1 + off[m])) = <<>>
  <2> DEFINE c == From(b, 1 + off[m])
  <2>1. c \in Seq(Octets) /\ Len(c) = Len(b) - off[m]
    BY <1>0, After
  <2>2. CASE c = <<>>
    BY <2>2, ListEmpty
  <2>3. CASE c # <<>>
    <3>1. Len(c) # 0
      BY <2>1, <2>3, EmptySeq
    <3>2. m # Len(list) /\ off[m + 1] > Len(b)
      BY <1>0, <2>1, <3>1
    <3>3. m \in 0..(Len(list) - 1) /\ m + 1 \in 1..Len(list)
      BY <1>0, <3>2
    <3> DEFINE t == list[m + 1]
    <3>4. Readable(t)
      BY <3>3
    <3>5. CutOf(c, ElementBytes(t)) /\ ~IsFiller(c[1])
      BY <2>3, <3>2, <3>3, <3>4, ElementAt
    <3>6. IsTag(t.tag) /\ t.value \in Seq(Octets) /\ Len(t.value) \in ThreeBytes
      BY <3>4, Zenon DEF Readable
    <3>7. CutOf(c, encode(t.tag, t.value))
      BY <3>5, Zenon DEF ElementBytes
    <3> HIDE DEF c, t
    <3>8. read_single(c) = Failed
      BY <2>1, <3>6, <3>7, SingleCut
    <3>9. read_list(c) = <<>>
      BY <2>1, <2>3, <3>5, <3>8, ListFailed
    <3> QED
      BY <3>9 DEF c
  <2> QED
    BY <2>2, <2>3
<1>2. 0 \in T
  <2>1. SubSeq(list, m + 1, m) = <<>>
    BY <1>0, SubSeqEmpty
  <2>2. m - 0 = m /\ m - 0 + 1 = m + 1
    BY <1>0
  <2> QED
    BY <1>1, <2>1, <2>2
<1>3. ASSUME NEW d \in Nat, d \in T PROVE d + 1 \in T
  <2> SUFFICES ASSUME d + 1 <= m
               PROVE  /\ off[m - (d + 1)] <= Len(b)
                      /\ read_list(From(b, 1 + off[m - (d + 1)])) = SubSeq(list, m - (d + 1) + 1, m)
    OBVIOUS
  <2> DEFINE k == m - (d + 1)
  <2>1. k \in 0..(m - 1) /\ k + 1 = m - d /\ k + 2 = m - d + 1 /\ d <= m
    BY <1>0
  <2>2. off[m - d] <= Len(b) /\ read_list(From(b, 1 + off[m - d])) = SubSeq(list, m - d + 1, m)
    BY <1>3, <2>1, Zenon
  <2> HIDE DEF k
  <2>3. off[k + 1] <= Len(b) /\ read_list(From(b, 1 + off[k + 1])) = SubSeq(list, k + 2, m)
    BY <2>1, <2>2, Zenon
  <2>4. off[k] <= Len(b) /\ read_list(From(b, 1 + off[k])) = SubSeq(list, k + 1, m)
    BY <2>1, <2>3, ListStep
  <2> QED
    BY <2>4, Zenon DEF k
<1>4. m \in T => read_list(From(b, 1 + off[m - m])) = SubSeq(list, m - m + 1, m)
  <2>1. m <= m
    BY <1>0
  <2> QED
    BY <2>1, Zenon
<1> HIDE DEF T
<1>5. m \in T
  BY <1>0, <1>2, <1>3, Induction
<1>6. m - m = 0 /\ off[0] = 0 /\ 1 + 0 = 1 /\ m - m + 1 = 1
  BY <1>0 DEF LaidOut
<1>7. From(b, 1) = b
  BY SubSeqFull DEF From
<1> QED
  BY <1>4, <1>5, <1>6, <1>7, Zenon

LEMMA StartsOnward ==
  ASSUME NEW s \in Seq(Octets), NEW t \in Seq(Octets), NEW e \in Seq(Octets), Starts(t, s)
  PROVE  Starts(t \o e, s)
<1>1. Len(s) \in Nat /\ Len(t) \in Nat /\ Len(e) \in Nat
  BY LenProperties
<1>2. Len(s) <= Len(t) /\ \A i \in 1..Len(s) : t[i] = s[i]
  BY DEF Starts
<1> DEFINE u == t \o e
<1>3. /\ Len(u) = Len(t) + Len(e)
      /\ \A i \in 1..(Len(t) + Len(e)) : u[i] = IF i <= Len(t) THEN t[i] ELSE e[i - Len(t)]
  BY ConcatProperties
<1> HIDE DEF u
<1>4. ASSUME NEW i \in 1..Len(s) PROVE u[i] = s[i]
  <2>1. i \in 1..(Len(t) + Len(e)) /\ i <= Len(t)
    BY <1>1, <1>2
  <2> QED
    BY <1>2, <1>3, <2>1, Zenon
<1>5. Len(s) <= Len(u)
  BY <1>1, <1>2, <1>3
<1> QED
  BY <1>4, <1>5 DEF Starts, u

\* What is joined starts with what was joined before.
LEMMA SumsStart ==
  ASSUME NEW parts \in Seq(Seq(Octets)), NEW f, Sums(parts, f), NEW i \in 0..Len(parts)
  PROVE  Starts(f[Len(parts)], f[i])
<1> DEFINE n == Len(parts)
           T == {d \in Nat : i + d <= n => Starts(f[i + d], f[i])}
<1>0. n \in Nat
  BY LenProperties
<1>1. /\ \A j \in 1..n : f[j] = f[j - 1] \o parts[j]
      /\ \A j \in 0..n : f[j] \in Seq(Octets)
  BY Zenon DEF Sums, SumsUpTo
<1>2. 0 \in T
  <2>1. i + 0 = i /\ Len(f[i]) \in Nat
    BY <1>0, <1>1, LenProperties
  <2>2. Len(f[i]) <= Len(f[i])
    BY <2>1
  <2>3. Starts(f[i], f[i])
    BY <2>2, Zenon DEF Starts
  <2>4. Starts(f[i + 0], f[i])
    BY <2>1, <2>3, Zenon
  <2>5. 0 \in Nat
    OBVIOUS
  <2> QED
    BY <2>4, <2>5, Zenon
<1>3. ASSUME NEW d \in Nat, d \in T PROVE d + 1 \in T
  <2>1. /\ d + 1 \in Nat /\ (i + (d + 1) <= n => i + d <= n)
        /\ i + (d + 1) <= n => i + (d + 1) \in 1..n /\ i + d \in 0..n
        /\ (i + (d + 1)) - 1 = i + d
    BY <1>0
  <2>2. ASSUME i + (d + 1) <= n PROVE Starts(f[i + (d + 1)], f[i])
    <3> DEFINE j == i + (d + 1)
               h == i + d
    <3>1. j \in 1..n /\ h \in 0..n /\ j - 1 = h
      BY <2>1, <2>2, Zenon
    <3>2. Starts(f[h], f[i])
      BY <1>3, <2>1, <2>2, Zenon
    <3> HIDE DEF j, h
    <3>3. f[j] = f[h] \o parts[j] /\ f[h] \in Seq(Octets) /\ f[i] \in Seq(Octets)
      BY <1>1, <3>1, Zenon
    <3>4. parts[j] \in Seq(Octets)
      BY <3>1, ElementOfSeq
    <3>5. Starts(f[h] \o parts[j], f[i])
      BY <3>2, <3>3, <3>4, StartsOnward
    <3> QED
      BY <3>3, <3>5, Zenon DEF j
  <2> QED
    BY <2>1, <2>2, Zenon
<1>4. \A d : d \in T /\ i + d <= n => Starts(f[i + d], f[i])
  BY Zenon
<1> HIDE DEF T
<1>5. n - i \in Nat /\ i + (n - i) = n /\ i + (n - i) <= n
  BY <1>0
<1>6. n - i \in T
  BY <1>2, <1>3, <1>5, Induction
<1>7. Starts(f[i + (n - i)], f[i])
  BY <1>4, <1>5, <1>6, Zenon
<1> QED
  BY <1>5, <1>7, Zenon

\* Elements that are joined lie one behind the other.
PartsOf(list) == [i \in 1..Len(list) |-> ElementBytes(list[i])]

LEMMA PartsTyped ==
  ASSUME NEW S, NEW list \in Seq(S), \A i \in 1..Len(list) : Readable(list[i])
  PROVE  /\ PartsOf(list) \in Seq(Seq(Octets)) /\ Len(PartsOf(list)) = Len(list)
         /\ \A i \in 1..Len(list) : PartsOf(list)[i] = ElementBytes(list[i])
<1>1. Len(list) \in Nat
  BY LenProperties
<1>2. \A i \in 1..Len(list) : ElementBytes(list[i]) \in Seq(Octets)
  BY ElementFirst
<1>3. PartsOf(list) \in [1..Len(list) -> Seq(Octets)]
  BY <1>2 DEF PartsOf
<1>4. PartsOf(list) \in Seq(Seq(Octets))
  BY <1>1, <1>3, SeqDef
<1>5. Len(PartsOf(list)) = Len(list)
  <2>1. DOMAIN PartsOf(list) = 1..Len(list)
    BY <1>3
  <2> QED
    BY <1>1, <1>4, <2>1, LenProperties
<1>6. \A i \in 1..Len(list) : PartsOf(list)[i] = ElementBytes(list[i])
  BY DEF PartsOf
<1> QED
  BY <1>4, <1>5, <1>6

LEMMA SumsAreLaidOut ==
  ASSUME NEW S, NEW list \in Seq(S), \A i \in 1..Len(list) : Readable(list[i]),
         NEW f, Sums(PartsOf(list), f), NEW c \in Nat, c <= Len(f[Len(list)]), NEW off,
         off = [i \in 0..Len(list) |-> Len(f[i])]
  PROVE  LaidOut(list, off) /\ Holds(SubSeq(f[Len(list)], 1, c), list, off)
<1> DEFINE n == Len(list)
           parts == PartsOf(list)
           w == f[n]
           b == SubSeq(w, 1, c)
<1>0. n \in Nat
  BY LenProperties
<1>1. parts \in Seq(Seq(Octets)) /\ Len(parts) = n /\ \A i \in 1..n : parts[i] = ElementBytes(list[i])
  BY PartsTyped
<1>2. /\ f[0] = <<>>
      /\ \A i \in 1..n : f[i] = f[i - 1] \o parts[i]
      /\ \A i \in 0..n : f[i] \in Seq(Octets)
  BY <1>1, Zenon DEF Sums, SumsUpTo
<1>3. \A i \in 0..n : off[i] = Len(f[i])
  OBVIOUS
<1>4. w \in Seq(Octets)
  <2>1. n \in 0..n
    BY <1>0
  <2> QED
    BY <1>2, <2>1, Zenon
<1>5. b \in Seq(Octets) /\ Len(b) = c /\ \A i \in 1..c : b[i] = w[i]
  <2>1. Len(w) \in Nat
    BY <1>4, LenProperties
  <2>2. /\ Len(b) = IF 1 <= c THEN c - 1 + 1 ELSE 0
        /\ \A k \in 1..Len(b) : b[k] = w[1 + k - 1]
        /\ b \in Seq(Octets)
    BY <1>4, SubBytes
  <2> HIDE DEF b, w
  <2>3. Len(b) = c
    BY <2>2
  <2>4. \A k \in 1..c : 1 + k - 1 = k
    OBVIOUS
  <2> QED
    BY <2>2, <2>3, <2>4
<1>6. ASSUME NEW i \in 1..n
      PROVE  /\ i - 1 \in 0..n /\ i \in 0..n /\ f[i - 1] \in Seq(Octets) /\ f[i] \in Seq(Octets)
             /\ parts[i] \in Seq(Octets) /\ f[i] = f[i - 1] \o parts[i]
  <2>1. i - 1 \in 0..n /\ i \in 0..n
    BY <1>0
  <2>2. parts[i] \in Seq(Octets)
    BY <1>1, ElementOfSeq
  <2> QED
    BY <1>2, <2>1, <2>2, Zenon
<1> HIDE DEF n, parts, w, b
<1>7. LaidOut(list, off)
  <2>1. off[0] = 0
    <3>1. 0 \in 0..n
      BY <1>0
    <3>2. off[0] = Len(<<>>)
      BY <1>2, <1>3, <3>1, Zenon
    <3> QED
      BY <3>2
  <2>2. ASSUME NEW i \in 1..n PROVE off[i] = off[i - 1] + Len(ElementBytes(list[i]))
    <3>1. Len(f[i - 1] \o parts[i]) = Len(f[i - 1]) + Len(parts[i])
      BY <1>6, ConcatProperties
    <3> QED
      BY <1>1, <1>3, <1>6, <3>1, Zenon
  <2>3. ASSUME NEW i \in 0..n PROVE off[i] \in Nat
    <3>1. f[i] \in Seq(Octets)
      BY <1>2, Zenon
    <3>2. Len(f[i]) \in Nat
      BY <3>1, LenProperties
    <3> QED
      BY <1>3, <3>2, Zenon
  <2> QED
    BY <2>1, <2>2, <2>3, Zenon DEF LaidOut, n
<1>8. ASSUME NEW i \in 1..n, NEW j \in 1..Len(ElementBytes(list[i])), off[i - 1] + j <= Len(b)
      PROVE  b[off[i - 1] + j] = ElementBytes(list[i])[j]
  <2> DEFINE a == f[i - 1]
             o == Len(a)
             e == parts[i]
             s == f[i]
             k == o + j
  <2>1. off[i - 1] = o /\ e = ElementBytes(list[i])
    BY <1>1, <1>3, <1>6, Zenon
  <2>2. e \in Seq(Octets) /\ a \in Seq(Octets) /\ s = a \o e
    BY <1>6, Zenon
  <2>4. j \in 1..Len(e)
    BY <2>1, Zenon
  <2>6. Starts(w, s)
    BY <1>0, <1>1, <1>6, SumsStart DEF w, n, parts
  <2>10. k <= c
    BY <1>5, <1>8, <2>1, Zenon
  <2> HIDE DEF a, e, s
  <2>3. o \in Nat /\ Len(e) \in Nat
    BY <2>2, LenProperties
  <2>11. /\ Len(s) = o + Len(e)
         /\ \A h \in 1..(o + Len(e)) : s[h] = IF h <= o THEN a[h] ELSE e[h - o]
    BY <2>2, ConcatProperties
  <2> HIDE DEF o
  <2>12. k \in 1..(o + Len(e)) /\ ~(k <= o) /\ k - o = j
    BY <2>3, <2>4
  <2>7. k \in 1..Len(s) /\ k \in 1..c
    BY <2>3, <2>4, <2>10, <2>11
  <2> HIDE DEF k
  <2>5. s[k] = e[j]
    BY <2>11, <2>12, Zenon
  <2>8. w[k] = s[k]
    BY <2>6, <2>7, Zenon DEF Starts
  <2>9. b[k] = w[k]
    BY <1>5, <2>7, Zenon
  <2> QED
    BY <2>1, <2>5, <2>8, <2>9, Zenon DEF k
<1>9. Holds(b, list, off)
  BY <1>8, Zenon DEF Holds, n
<1> QED
  BY <1>7, <1>9 DEF b, w, n

\* Of the first c bytes of a list the m whole elements are read.
THEOREM CutListRead ==
  ASSUME NEW S, NEW list \in Seq(S), \A i \in 1..Len(list) : Readable(list[i]),
         NEW f, Sums(PartsOf(list), f), NEW c \in Nat, c <= Len(f[Len(list)]),
         NEW m \in 0..Len(list), Len(f[m]) <= c, m = Len(list) \/ Len(f[m + 1]) > c
  PROVE  read_list(SubSeq(f[Len(list)], 1, c)) = SubSeq(list, 1, m)
<1> DEFINE n == Len(list)
           off == [i \in 0..n |-> Len(f[i])]
           w == f[n]
           b == SubSeq(w, 1, c)
<1>0. n \in Nat
  BY LenProperties
<1>1. LaidOut(list, off) /\ Holds(b, list, off)
  BY SumsAreLaidOut
<1>2. \A i \in 0..n : off[i] = Len(f[i])
  OBVIOUS
<1>3. w \in Seq(Octets)
  <2>1. Len(PartsOf(list)) = n /\ n \in 0..n
    BY <1>0, PartsTyped
  <2> QED
    BY <2>1, Zenon DEF Sums, SumsUpTo
<1>4. b \in Seq(Octets) /\ Len(b) = c
  <2>1. Len(w) \in Nat
    BY <1>3, LenProperties
  <2>2. b \in Seq(Octets) /\ Len(b) = IF 1 <= c THEN c - 1 + 1 ELSE 0
    BY <1>3, SubBytes
  <2> QED
    BY <2>2
<1> HIDE DEF off, b, w
<1>5. off[m] = Len(f[m]) /\ off[m] <= Len(b)
  BY <1>2, <1>4, Zenon DEF n
<1>6. m # n => off[m + 1] > Len(b)
  <2>1. m # n => m + 1 \in 0..n
    BY <1>0 DEF n
  <2>2. m # n => off[m + 1] = Len(f[m + 1])
    BY <1>2, <2>1, Zenon
  <2>3. m # n => Len(f[m + 1]) > c
    BY Zenon DEF n
  <2> QED
    BY <1>4, <2>2, <2>3, Zenon
<1>7. m = n => Len(b) = off[m]
  <2>1. m = n => Len(f[m]) = Len(w)
    BY Zenon DEF w
  <2>2. Len(w) \in Nat /\ c <= Len(w)
    BY <1>3, LenProperties DEF w, n
  <2>3. Len(f[m]) <= c
    OBVIOUS
  <2>4. m = n => c = Len(w)
    <3> DEFINE x == Len(f[m])
               y == Len(w)
    <3>1. x <= c /\ c <= y /\ y \in Nat /\ (m = n => x = y)
      BY <2>1, <2>2, <2>3, Zenon
    <3> HIDE DEF x, y
    <3>2. m = n => c = y
      BY <3>1
    <3> QED
      BY <3>2 DEF y
  <2> QED
    BY <1>4, <1>5, <2>1, <2>4, Zenon
<1>8. IF m = n THEN Len(b) = off[m] ELSE off[m + 1] > Len(b)
  BY <1>6, <1>7, Zenon
<1>9. read_list(b) = SubSeq(list, 1, m)
  BY <1>1, <1>4, <1>5, <1>8, ListRead DEF n
<1> QED
  BY <1>9 DEF b, w, n

-----------------------------------------------------------------------------
(* Lists of which the elements are given one by one. *)

\* An element, and what follows it.
LEMMA ListCons ==
  ASSUME NEW tag, IsTag(tag), NEW v \in Seq(Octets), Len(v) \in ThreeBytes, NEW r \in Seq(Octets)
  PROVE  /\ encode(tag, v) \in Seq(Octets)
         /\ read_list(encode(tag, v) \o r) = <<TLV(tag, v, InnerList(tag, v))>> \o read_list(r)
<1> DEFINE e == encode(tag, v)
           b == e \o r
           t == TLV(tag, v, <<>>)
           n == Len(e)
<1>1. e \in Seq(Octets) /\ n \in Nat \ {0} /\ ~IsFiller(e[1])
  <2> DEFINE u == TLV(tag, v, InnerList(tag, v))
  <2>1. u.tag = tag /\ u.value = v
    BY DEF TLV
  <2> HIDE DEF u
  <2>2. Readable(u)
    BY <2>1, Zenon DEF Readable, u
  <2>3. ElementBytes(u) = e
    BY <2>1, Zenon DEF ElementBytes
  <2>4. ElementBytes(u) \in Seq(Octets) /\ Len(ElementBytes(u)) \in Nat \ {0} /\ ~IsFiller(ElementBytes(u)[1])
    BY <2>2, ElementFirst
  <2> QED
    BY <2>3, <2>4, Zenon
<1>2. /\ b \in Seq(Octets) /\ Len(b) = n + Len(r)
      /\ \A i \in 1..(n + Len(r)) : b[i] = IF i <= n THEN e[i] ELSE r[i - n]
  BY <1>1, ConcatProperties
<1>3. Len(r) \in Nat
  BY LenProperties
<1> HIDE DEF b
<1>4. Starts(b, e)
  <2>1. n <= Len(b) /\ \A i \in 1..n : i \in 1..(n + Len(r)) /\ i <= n
    BY <1>1, <1>2, <1>3
  <2>2. \A i \in 1..n : b[i] = e[i]
    BY <1>2, <2>1, Zenon
  <2> QED
    BY <2>1, <2>2, Zenon DEF Starts
<1>5. read_single(b) = [tag |-> tag, value |-> v, rest |-> From(b, n + 1)]
  BY <1>2, <1>4, SingleRead
<1> DEFINE s == From(b, 1 + n)
<1>6. s = r
  <2>1. n <= Len(b) /\ n \in Nat
    BY <1>1, <1>2, <1>3
  <2>2. s \in Seq(Octets) /\ Len(s) = Len(b) - n /\ \A i \in 1..(Len(b) - n) : s[i] = b[n + i]
    BY <1>2, <2>1, After
  <2> HIDE DEF s, e
  <2>3. Len(s) = Len(r)
    BY <1>2, <1>3, <2>1, <2>2
  <2>4. ASSUME NEW i \in 1..Len(s) PROVE s[i] = r[i]
    <3>1. i \in 1..(Len(b) - n) /\ n + i \in 1..(n + Len(r)) /\ ~(n + i <= n) /\ (n + i) - n = i
      BY <1>2, <1>3, <2>1, <2>2, <2>3
    <3>2. s[i] = b[n + i] /\ b[n + i] = r[(n + i) - n]
      BY <1>2, <2>2, <3>1, Zenon
    <3> QED
      BY <3>1, <3>2, Zenon
  <2> QED
    BY <2>2, <2>3, <2>4, SeqEqual
<1>7. n + 1 = 1 + n
  BY <1>1
<1>8. read_single(b) = [tag |-> tag, value |-> v, rest |-> r]
  BY <1>5, <1>6, <1>7, Zenon
<1>9. b # <<>> /\ ~IsFiller(b[1])
  <2>1. 1 \in 1..n /\ Len(b) # 0
    BY <1>1, <1>2, <1>3
  <2>2. b[1] = e[1]
    BY <1>4, <2>1, Zenon DEF Starts
  <2>3. b # <<>>
    BY <2>1, EmptySeq
  <2> QED
    BY <1>1, <2>2, <2>3, Zenon
<1>10. read_list(b) = <<TLV(tag, v, InnerList(tag, v))>> \o read_list(r)
  <2>1. b \in Seq(Octets) /\ b # <<>> /\ ~IsFiller(b[1])
    BY <1>2, <1>9
  <2> QED
    BY <1>8, <2>1, ListOne
<1> QED
  BY <1>1, <1>10 DEF b

\* Less than an element: nothing.
LEMMA ListCut ==
  ASSUME NEW tag, IsTag(tag), NEW v \in Seq(Octets), Len(v) \in ThreeBytes,
         NEW b \in Seq(Octets), CutOf(b, encode(tag, v))
  PROVE  read_list(b) = <<>>
<1> DEFINE e == encode(tag, v)
           u == TLV(tag, v, InnerList(tag, v))
<1>1. u.tag = tag /\ u.value = v
  BY DEF TLV
<1> HIDE DEF u
<1>2. Readable(u) /\ ElementBytes(u) = e
  BY <1>1, Zenon DEF Readable, ElementBytes, u
<1>3. ElementBytes(u) \in Seq(Octets) /\ Len(ElementBytes(u)) \in Nat \ {0} /\ ~IsFiller(ElementBytes(u)[1])
  BY <1>2, ElementFirst
<1>4. e \in Seq(Octets) /\ Len(e) \in Nat \ {0} /\ ~IsFiller(e[1])
  BY <1>2, <1>3, Zenon
<1>5. read_single(b) = Failed
  BY SingleCut
<1> HIDE DEF e
<1>6. CASE b = <<>>
  BY <1>6, ListEmpty
<1>7. CASE b # <<>>
  <2>1. 1 \in 1..Len(b)
    BY <1>7, EmptySeq
  <2>2. b[1] = e[1]
    BY <2>1, Zenon DEF CutOf, e
  <2>3. ~IsFiller(b[1])
    BY <1>4, <2>2, Zenon
  <2> QED
    BY <1>5, <1>7, <2>3, ListFailed
<1> QED
  BY <1>6, <1>7

LEMMA ListSingle ==
  ASSUME NEW tag, IsTag(tag), NEW v \in Seq(Octets), Len(v) \in ThreeBytes
  PROVE  read_list(encode(tag, v)) = <<TLV(tag, v, InnerList(tag, v))>>
<1> DEFINE e == encode(tag, v)
           t == TLV(tag, v, InnerList(tag, v))
<1>1. <<>> \in Seq(Octets)
  OBVIOUS
<1>2. e \in Seq(Octets) /\ read_list(e \o <<>>) = <<t>> \o read_list(<<>>)
  BY <1>1, ListCons
<1> HIDE DEF e, t
<1>3. e \o <<>> = e
  BY <1>2, ConcatEmptySeq
<1>4. <<t>> \in Seq({t})
  OBVIOUS
<1>5. <<t>> \o <<>> = <<t>>
  BY <1>4, ConcatEmptySeq
<1>6. read_list(e) = <<t>>
  BY <1>2, <1>3, <1>5, ListEmpty, Zenon
<1> QED
  BY <1>6 DEF e, t

\* The first c bytes of an element and of what follows it.
LEMMA CutCons ==
  ASSUME NEW tag, IsTag(tag), NEW v \in Seq(Octets), Len(v) \in ThreeBytes, NEW r \in Seq(Octets),
         NEW c \in Nat, c <= Len(encode(tag, v)) + Len(r)
  PROVE  LET e == encode(tag, v)
             b == SubSeq(e \o r, 1, c)
         IN /\ e \in Seq(Octets) /\ Len(e) \in Nat
            /\ c < Len(e) => read_list(b) = <<>>
            /\ ~(c < Len(e)) =>
                 /\ c - Len(e) \in Nat /\ c - Len(e) <= Len(r)
                 /\ read_list(b) = <<TLV(tag, v, InnerList(tag, v))>> \o read_list(SubSeq(r, 1, c - Len(e)))
<1> DEFINE e == encode(tag, v)
           w == e \o r
           b == SubSeq(w, 1, c)
           n == Len(e)
           s == SubSeq(r, 1, c - n)
<1>1. e \in Seq(Octets)
  BY ListCons
<1>2. n \in Nat /\ Len(r) \in Nat
  BY <1>1, LenProperties
<1>3. /\ w \in Seq(Octets) /\ Len(w) = n + Len(r)
      /\ \A i \in 1..(n + Len(r)) : w[i] = IF i <= n THEN e[i] ELSE r[i - n]
  BY <1>1, ConcatProperties
<1> HIDE DEF w
<1>4. b \in Seq(Octets) /\ Len(b) = c /\ \A i \in 1..c : b[i] = w[i]
  <2>1. c <= Len(w) /\ 1 \in Nat \ {0}
    BY <1>2, <1>3
  <2>2. /\ b \in Seq(Octets) /\ Len(b) = IF 1 <= c THEN c - 1 + 1 ELSE 0
        /\ \A k \in 1..Len(b) : b[k] = w[1 + k - 1]
    BY <1>3, <2>1, SubBytes
  <2> HIDE DEF b
  <2>3. Len(b) = c
    BY <2>2
  <2>4. \A k \in 1..c : 1 + k - 1 = k
    OBVIOUS
  <2> QED
    BY <2>2, <2>3, <2>4
<1> HIDE DEF b
<1>5. ASSUME c < n PROVE read_list(b) = <<>>
  <2>1. \A i \in 1..c : i \in 1..(n + Len(r)) /\ i <= n
    BY <1>2, <1>5
  <2>2. \A i \in 1..Len(b) : b[i] = e[i]
    BY <1>3, <1>4, <2>1, Zenon
  <2>3. CutOf(b, e)
    BY <1>4, <1>5, <2>2, Zenon DEF CutOf
  <2> QED
    BY <1>4, <2>3, ListCut
<1>6. ASSUME ~(c < n)
      PROVE  c - n \in Nat /\ c - n <= Len(r) /\ b = e \o s
  <2> DEFINE d == c - n
             x == e \o s
  <2>1. d \in Nat /\ d <= Len(r) /\ n + d = c /\ 1 \in Nat \ {0}
    BY <1>2, <1>6
  <2> HIDE DEF d
  <2>2. s \in Seq(Octets) /\ Len(s) = d /\ \A i \in 1..d : s[i] = r[i]
    <3> DEFINE y == SubSeq(r, 1, d)
    <3>1. /\ y \in Seq(Octets) /\ Len(y) = IF 1 <= d THEN d - 1 + 1 ELSE 0
          /\ \A k \in 1..Len(y) : y[k] = r[1 + k - 1]
      BY <2>1, SubBytes
    <3> HIDE DEF y
    <3>2. Len(y) = d
      BY <2>1, <3>1
    <3>3. \A k \in 1..d : 1 + k - 1 = k
      OBVIOUS
    <3> QED
      BY <3>1, <3>2, <3>3 DEF y, d
  <2> HIDE DEF s, e
  <2>3. /\ x \in Seq(Octets) /\ Len(x) = n + d
        /\ \A i \in 1..(n + d) : x[i] = IF i <= n THEN e[i] ELSE s[i - n]
    BY <1>1, <2>2, ConcatProperties
  <2> HIDE DEF x
  <2>4. ASSUME NEW i \in 1..Len(b) PROVE b[i] = x[i]
    <3>1. /\ i \in 1..c /\ i \in 1..(n + Len(r)) /\ i \in 1..(n + d)
          /\ ~(i <= n) => i - n \in 1..d
      BY <1>2, <1>4, <2>1
    <3>2. b[i] = IF i <= n THEN e[i] ELSE r[i - n]
      BY <1>3, <1>4, <3>1, Zenon
    <3>3. x[i] = IF i <= n THEN e[i] ELSE s[i - n]
      BY <2>3, <3>1, Zenon
    <3> QED
      BY <2>2, <3>1, <3>2, <3>3, Zenon
  <2>5. b = x
    <3>1. Len(b) = Len(x)
      BY <1>4, <2>1, <2>3
    <3> QED
      BY <1>4, <2>3, <2>4, <3>1, SeqEqual
  <2> QED
    BY <2>1, <2>5 DEF x, d
<1>7. ASSUME ~(c < n)
      PROVE  read_list(b) = <<TLV(tag, v, InnerList(tag, v))>> \o read_list(s)
  <2> DEFINE d == c - n
  <2>1. d \in Nat /\ d <= Len(r) /\ 1 \in Nat \ {0}
    BY <1>6, <1>7
  <2> HIDE DEF d
  <2>2. SubSeq(r, 1, d) \in Seq(Octets)
    BY <2>1, SubBytes
  <2>3. s \in Seq(Octets)
    BY <2>2 DEF d
  <2> HIDE DEF s
  <2>4. read_list(e \o s) = <<TLV(tag, v, InnerList(tag, v))>> \o read_list(s)
    BY <2>3, ListCons
  <2> QED
    BY <1>6, <1>7, <2>4, Zenon
<1> QED
  BY <1>1, <1>2, <1>5, <1>6, <1>7, Zenon DEF b, w

-----------------------------------------------------------------------------
(* What read_list and find return for any bytes. *)

\* Elements with values in bytes.
HaveValues(S) == \A t \in S : t.value \in Seq(Octets)
ReadsValues(b) == \E S : HaveValues(S) /\ read_list(b) \in Seq(S)

LEMMA ReadStep ==
  ASSUME NEW b \in Seq(Octets), \A c \in Seq(Octets) : Len(c) < Len(b) => ReadsValues(c)
  PROVE  ReadsValues(b)
<1>0. read_list(b) = ReadFrom(Reader, b)
  BY ReadListUnfolds
<1>1. ASSUME read_list(b) = <<>> PROVE ReadsValues(b)
  <2>1. <<>> \in Seq({}) /\ HaveValues({})
    BY DEF HaveValues
  <2> QED
    BY <1>1, <2>1, Zenon DEF ReadsValues
<1>2. CASE b = <<>>
  BY <1>1, <1>2, ListEmpty
<1>3. CASE b # <<>> /\ IsFiller(b[1])
  <2>1. Tail(b) \in Seq(Octets) /\ Len(Tail(b)) < Len(b)
    BY <1>3, HeadTailProperties, LenProperties, EmptySeq
  <2>2. read_list(b) = Reader[Tail(b)]
    BY <1>0, <1>3, Zenon DEF ReadFrom
  <2>3. read_list(b) = read_list(Tail(b))
    BY <2>1, <2>2 DEF Reader
  <2>4. ReadsValues(Tail(b))
    BY <2>1
  <2> QED
    BY <2>3, <2>4, Zenon DEF ReadsValues
<1>4. CASE b # <<>> /\ ~IsFiller(b[1])
  <2>1. CASE read_single(b) = Failed
    BY <1>1, <1>4, <2>1, ListFailed
  <2>2. CASE read_single(b) # Failed
    <3>1. PICK t \in Nat, v \in Seq(Octets), r \in Seq(Octets) :
             read_single(b) = [tag |-> t, value |-> v, rest |-> r] /\ Len(v) + Len(r) < Len(b)
      BY <2>2, ReadSingleTyped DEF IsOne
    <3>2. Len(r) < Len(b)
      BY <3>1, LenProperties
    <3> DEFINE e == TLV(t, v, InnerList(t, v))
    <3>3. read_list(b) = <<e>> \o read_list(r)
      BY <1>4, <3>1, ListOne
    <3>4. e.value = v
      BY DEF TLV
    <3> HIDE DEF e
    <3>5. ReadsValues(r)
      BY <3>2
    <3>6. PICK S : HaveValues(S) /\ read_list(r) \in Seq(S)
      BY <3>5, Zenon DEF ReadsValues
    <3> DEFINE U == S \cup {e}
    <3>7. HaveValues(U)
      BY <3>4, <3>6 DEF HaveValues
    <3>8. <<e>> \in Seq(U)
      OBVIOUS
    <3>9. read_list(r) \in Seq(U)
      BY <3>6, SeqMonotonic
    <3> HIDE DEF U
    <3>10. <<e>> \o read_list(r) \in Seq(U)
      BY <3>8, <3>9, ConcatProperties
    <3> QED
      BY <3>3, <3>7, <3>10, Zenon DEF ReadsValues
  <2> QED
    BY <2>1, <2>2
<1> QED
  BY <1>2, <1>3, <1>4

LEMMA ReadListTyped ==
  ASSUME NEW b \in Seq(Octets)
  PROVE  \E S : HaveValues(S) /\ read_list(b) \in Seq(S)
<1> DEFINE T == {n \in Nat : \A c \in Seq(Octets) : Len(c) = n => ReadsValues(c)}
<1>1. ASSUME NEW n \in Nat, \A m \in Nat : m < n => m \in T PROVE n \in T
  <2>1. ASSUME NEW c \in Seq(Octets), Len(c) = n PROVE ReadsValues(c)
    <3>1. ASSUME NEW d \in Seq(Octets), Len(d) < Len(c) PROVE ReadsValues(d)
      <4>1. Len(d) \in Nat /\ Len(d) < n
        BY <2>1, <3>1, LenProperties
      <4>2. Len(d) \in T
        BY <1>1, <4>1
      <4> QED
        BY <4>2, Zenon
    <3> QED
      BY <3>1, ReadStep
  <2> QED
    BY <2>1
<1>2. \A n \in T : \A c \in Seq(Octets) : Len(c) = n => ReadsValues(c)
  BY Zenon
<1> HIDE DEF T
<1>3. Len(b) \in T
  BY <1>1, StrongInduction, LenProperties
<1>4. ReadsValues(b)
  BY <1>2, <1>3, Zenon
<1> QED
  BY <1>4, Zenon DEF ReadsValues

\* find returns the first element with one of the tags.
LEMMA FindCases ==
  ASSUME NEW S, NEW list \in Seq(S), NEW tags
  PROVE  \/ /\ find(list, tags) = <<>>
            /\ \A i \in 1..Len(list) : list[i].tag \notin tags
         \/ \E i \in 1..Len(list) :
              /\ find(list, tags) = <<list[i]>> /\ list[i].tag \in tags
              /\ \A j \in 1..Len(list) : list[j].tag \in tags => i <= j
<1> DEFINE I == {i \in 1..Len(list) : list[i].tag \in tags}
           at == IF I # {} THEN Min(I) ELSE 0
<1>0. Len(list) \in Nat
  BY LenProperties
<1>1. find(list, tags) = At(list, at)
  BY Zenon DEF find, SelectInSeq
<1>2. \A i : i \in I <=> i \in 1..Len(list) /\ list[i].tag \in tags
  OBVIOUS
<1> HIDE DEF I
<1>3. CASE I = {}
  <2>1. find(list, tags) = <<>>
    BY <1>1, <1>3, Zenon DEF At
  <2> QED
    BY <1>2, <1>3, <2>1, Zenon
<1>4. CASE I # {}
  <2>1. I \in SUBSET Nat
    BY <1>0, <1>2
  <2>2. \E i \in I : \A j \in I : i <= j
    BY <1>4, <2>1, Least
  <2>3. Min(I) \in I /\ \A j \in I : Min(I) <= j
    BY <2>2, Zenon DEF Min
  <2>4. at = Min(I)
    BY <1>4, Zenon
  <2>5. Min(I) # 0
    BY <1>0, <1>2, <2>3
  <2>6. find(list, tags) = <<list[Min(I)]>>
    BY <1>1, <2>4, <2>5, Zenon DEF At
  <2> QED
    BY <1>2, <2>3, <2>6, Zenon
<1> QED
  BY <1>3, <1>4

\* A value that is found in bytes is in bytes.
LEMMA FoundTyped ==
  ASSUME NEW b \in Seq(Octets), NEW tags, find(read_list(b), tags) # <<>>
  PROVE  find(read_list(b), tags)[1].value \in Seq(Octets) /\ find(read_list(b), tags)[1].tag \in tags
<1> DEFINE list == read_list(b)
<1>1. PICK S : HaveValues(S) /\ list \in Seq(S)
  BY ReadListTyped
<1> HIDE DEF list
<1>2. PICK i \in 1..Len(list) : find(list, tags) = <<list[i]>> /\ list[i].tag \in tags
  BY <1>1, FindCases DEF list
<1>3. list[i] \in S
  BY <1>1, ElementOfSeq
<1>4. list[i].value \in Seq(Octets)
  BY <1>1, <1>3, Zenon DEF HaveValues
<1>5. find(list, tags)[1] = list[i]
  BY <1>2
<1> QED
  BY <1>2, <1>4, <1>5, Zenon DEF list
=============================================================================
