-------------------------------- MODULE Apdu --------------------------------
(***************************************************************************)
(* Command APDUs as bytes (apdu/mod.rs): the parser that every command     *)
(* passes, and the forms in which a host may send a command.  A command is *)
(* its four header bytes, its data and the expected response length, where *)
(* NoLe stands for None.                                                   *)
(***************************************************************************)
EXTENDS Integers, Sequences

NoLe == 0
APDU(header, data, le) == [header |-> header, data |-> data, le |-> le]
APDUError(why) == [error |-> why]

Byte(n) == n % 256
U16(bytes, i) == bytes[i] * 256 + bytes[i + 1]

\* A Le of zero stands for the largest length of its form.
LeOf(n, wide) == IF n > 0 THEN n ELSE IF wide THEN 65536 ELSE 256

\* Short format: Lc and Le of one byte.
parse_short_apdu(header, rest) ==
  LET n == Len(rest)
      lc == rest[1]
  IN IF n = 0 THEN APDU(header, <<>>, NoLe)
     ELSE IF n = 1 THEN APDU(header, <<>>, LeOf(rest[1], FALSE))
     ELSE IF n = 1 + lc THEN APDU(header, SubSeq(rest, 2, 1 + lc), NoLe)
     ELSE IF n = 2 + lc THEN APDU(header, SubSeq(rest, 2, 1 + lc), LeOf(rest[2 + lc], FALSE))
     ELSE APDUError("InvalidLength")

\* Extended format, after its leading zero byte: Lc and Le of two bytes.
parse_extended_apdu(header, rest) ==
  LET n == Len(rest)
      lc == U16(rest, 1)
  IN IF n < 2 THEN APDUError("InvalidExtendedFormat")
     ELSE IF n = 2 THEN APDU(header, <<>>, LeOf(U16(rest, 1), TRUE))
     ELSE IF n < 2 + lc THEN APDUError("InvalidLength")
     ELSE IF n = 2 + lc THEN APDU(header, SubSeq(rest, 3, 2 + lc), NoLe)
     ELSE IF n = 4 + lc THEN APDU(header, SubSeq(rest, 3, 2 + lc), LeOf(U16(rest, 3 + lc), TRUE))
     ELSE APDUError("InvalidExtendedFormat")

\* Mutant: a body whose length is right for Lc and Le is not taken as extended.
IsExtendedWithoutLe(ext) == Len(ext) \in {2, 2 + U16(ext, 1)}

\* The bytes after 00 have the length of an extended body.
IsExtended(ext) ==
  Len(ext) \in {2, 2 + U16(ext, 1), 4 + U16(ext, 1)}

IsError(result) == "error" \in DOMAIN result

\* An extended body is told from a short one by its length.  What fits neither
\* is tried as a short body behind a 00 that the T=1 protocol put there, and
\* then as a short body as it stands.
ParseZero(header, rest, ext, prefixed) ==
  IF IsExtended(ext) THEN parse_extended_apdu(header, ext)
  ELSE IF ~IsError(prefixed) THEN prefixed
  ELSE parse_short_apdu(header, rest)

ParseBody(header, rest) ==
  IF Len(rest) > 2 /\ rest[1] = 0
  THEN ParseZero(header, rest, Tail(rest), parse_short_apdu(header, Tail(rest)))
  ELSE parse_short_apdu(header, rest)

parse_apdu(bytes) ==
  IF Len(bytes) < 4 THEN APDUError("TooShort")
  ELSE ParseBody(SubSeq(bytes, 1, 4), SubSeq(bytes, 5, Len(bytes)))

-----------------------------------------------------------------------------
(* The host's side: ISO 7816-4, outside the repository. *)

Forms == {"short", "extended", "prefixed"}

Wide(n) == <<n \div 256, Byte(n)>>
LeBytes(cmd, wide) ==
  IF cmd.le = NoLe THEN <<>> ELSE IF wide THEN Wide(cmd.le % 65536) ELSE <<Byte(cmd.le)>>

ShortBody(cmd) ==
  (IF cmd.data = <<>> THEN <<>> ELSE <<Len(cmd.data)>> \o cmd.data) \o LeBytes(cmd, FALSE)

ExtendedBody(cmd) ==
  (IF cmd.data = <<>> THEN <<>> ELSE Wide(Len(cmd.data)) \o cmd.data) \o LeBytes(cmd, TRUE)

\* The commands a form can carry.  A prefixed body of two bytes is an extended
\* Le and nothing else, so the prefix is no form for one byte of data.
Carries(form, cmd) ==
  \/ form = "short" /\ Len(cmd.data) < 256 /\ cmd.le <= 256
  \/ form = "extended" /\ Len(cmd.data) < 65536 /\ (cmd.data # <<>> \/ cmd.le # NoLe)
  \/ /\ form = "prefixed" /\ Len(cmd.data) < 256 /\ cmd.le <= 256
     /\ Len(ShortBody(cmd)) \notin {0, 2}

EncodeApdu(form, cmd) ==
  cmd.header \o (IF form = "short" THEN ShortBody(cmd)
                 ELSE <<0>> \o (IF form = "extended" THEN ExtendedBody(cmd) ELSE ShortBody(cmd)))
=============================================================================
