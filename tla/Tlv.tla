--------------------------------- MODULE Tlv ---------------------------------
(***************************************************************************)
(* BER-TLV as bytes (tlv/encoder.rs, tlv/parser.rs).  An element is its    *)
(* tag, the bytes of its value and, when it is read recursively, the       *)
(* elements in its value.  What read_list cannot read it drops silently,   *)
(* with everything that follows.                                           *)
(***************************************************************************)
EXTENDS Integers, Sequences, SequencesExt

Octets == 0..255

TLV(tag, value, subs) == [tag |-> tag, value |-> value, subs |-> subs]
Failed == [failed |-> TRUE]
IsFailed(result) == "failed" \in DOMAIN result

\* The byte of n with i bytes to its right.
Weight == <<1, 256, 65536, 16777216>>
Octet(n, i) == (n \div Weight[i + 1]) % 256
FromBytes(bytes) ==
  LET value[i \in 0..Len(bytes)] == IF i = 0 THEN 0 ELSE 256 * value[i - 1] + bytes[i]
  IN value[Len(bytes)]
From(bytes, i) == SubSeq(bytes, i, Len(bytes))

-----------------------------------------------------------------------------
(* TLVEncoder *)

encode_tag(tag) ==
  IF tag > 65535 THEN <<Octet(tag, 2), Octet(tag, 1), Octet(tag, 0)>>
  ELSE IF tag > 255 THEN <<Octet(tag, 1), Octet(tag, 0)>>
  ELSE <<Octet(tag, 0)>>

encode_length(length) ==
  IF length < 128 THEN <<length>>
  ELSE IF length < 256 THEN <<129, length>>
  ELSE IF length < 65536 THEN <<130, Octet(length, 1), Octet(length, 0)>>
  ELSE IF length < 16777216 THEN <<131, Octet(length, 2), Octet(length, 1), Octet(length, 0)>>
  ELSE <<132, Octet(length, 3), Octet(length, 2), Octet(length, 1), Octet(length, 0)>>

encode(tag, value) == encode_tag(tag) \o encode_length(Len(value)) \o value

\* For an element of a set that holds the children of its elements.
encode_tlv(tlvs, tlv) ==
  LET encoded[t \in tlvs] ==
        encode(t.tag, IF t.subs = <<>> THEN t.value
                      ELSE FlattenSeq([i \in DOMAIN t.subs |-> encoded[t.subs[i]]]))
  IN encoded[tlv]

-----------------------------------------------------------------------------
(* read_list and its parts.  parse_tag and parse_length return a number and  *)
(* how many bytes it took.                                                   *)

\* Mutant: a tag never takes a third byte.
parse_tag_two(bytes) ==
  IF bytes = <<>> THEN Failed
  ELSE IF bytes[1] % 32 # 31 THEN [n |-> bytes[1], took |-> 1]
  ELSE IF Len(bytes) < 2 THEN Failed
  ELSE [n |-> FromBytes(SubSeq(bytes, 1, 2)), took |-> 2]

parse_tag(bytes) ==
  IF bytes = <<>> THEN Failed
  ELSE IF bytes[1] % 32 # 31 THEN [n |-> bytes[1], took |-> 1]
  ELSE IF Len(bytes) < 2 THEN Failed
  ELSE IF bytes[2] < 128 THEN [n |-> FromBytes(SubSeq(bytes, 1, 2)), took |-> 2]
  ELSE IF Len(bytes) < 3 THEN Failed
  ELSE [n |-> FromBytes(SubSeq(bytes, 1, 3)), took |-> 3]

\* No indefinite length, and none of more than four bytes.
parse_length(bytes) ==
  IF bytes = <<>> THEN Failed
  ELSE IF bytes[1] < 128 THEN [n |-> bytes[1], took |-> 1]
  ELSE IF bytes[1] \notin 129..132 \/ Len(bytes) < bytes[1] - 127 THEN Failed
  ELSE [n |-> FromBytes(SubSeq(bytes, 2, bytes[1] - 127)), took |-> bytes[1] - 127]

FirstTagByte(tag) == Head(encode_tag(tag))
IsConstructed(tag) == (FirstTagByte(tag) \div 32) % 2 = 1
IsFiller(byte) == byte \in {0, 255}

\* The tags that are read as they were written: of at most three bytes, with
\* the bits that say whether another byte follows.
IsTag(tag) ==
  /\ tag \in Nat /\ tag < 16777216 /\ ~IsFiller(FirstTagByte(tag))
  /\ tag < 256 <=> FirstTagByte(tag) % 32 # 31
  /\ tag > 255 => (tag < 65536 <=> encode_tag(tag)[2] < 128)

\* The first element, before its value is looked into, and what follows it.
ReadValue(bytes, tag, start, end) ==
  IF end > Len(bytes) THEN Failed
  ELSE [tag |-> tag, value |-> SubSeq(bytes, start, end), rest |-> From(bytes, end + 1)]

ReadAfterTag(bytes, tag, length) ==
  IF IsFailed(length) THEN Failed
  ELSE ReadValue(bytes, tag.n, tag.took + length.took + 1, tag.took + length.took + length.n)

ReadWithTag(bytes, tag) ==
  IF IsFailed(tag) THEN Failed ELSE ReadAfterTag(bytes, tag, parse_length(From(bytes, 1 + tag.took)))

read_single(bytes) == ReadWithTag(bytes, parse_tag(bytes))

\* The elements of a list, where read reads shorter ones.
ReadSubs(read, one) ==
  IF IsConstructed(one.tag) /\ one.value # <<>> THEN read[one.value] ELSE <<>>

ReadOn(read, one) ==
  IF IsFailed(one) THEN <<>>
  ELSE <<TLV(one.tag, one.value, ReadSubs(read, one))>> \o read[one.rest]

ReadFrom(read, bytes) ==
  IF bytes = <<>> THEN <<>>
  ELSE IF IsFiller(bytes[1]) THEN read[Tail(bytes)]
  ELSE ReadOn(read, read_single(bytes))

\* With recursive = true, as every caller has it.
read_list(bytes) ==
  LET read[b \in Seq(Octets)] == ReadFrom(read, b) IN read[bytes]

\* iter().find: the first element with one of the tags, if there is one.
At(list, i) == IF i = 0 THEN <<>> ELSE <<list[i]>>
find(list, tags) == At(list, SelectInSeq(list, LAMBDA t : t.tag \in tags))
=============================================================================
