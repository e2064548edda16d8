-------------------------- MODULE MC_OpenPGPApplet --------------------------
(* Small instances of the OpenPGP applet for TLC. *)
EXTENDS OpenPGPApplet

\* "pin6" and "pin8" are the factory PINs, "long" is "pin6" with 256 padding
\* bytes: 262 bytes, 6 in a byte.
MCLength == [empty |-> 0, pin6 |-> 6, pin8 |-> 8, long |-> 262]

MCSecretLen == [s \in Secrets |-> MCLength[s]]
MCStrip == [s \in Secrets |-> IF s = "long" THEN "pin6" ELSE s]

MCAlgKind ==
  [a \in Algs |-> CASE a = "rsa" -> "RSA" [] a = "ed25519" -> "EDDSA"
                    [] a = "p256" -> "ECDSA" [] a = "p256dh" -> "ECDH"
                    [] OTHER -> "OTHER"]
MCKeySize == [a \in Algs |-> IF a = "rsa" THEN 500 ELSE 32]

\* "bad" is a scalar that P-256 rejects and Ed25519 takes.
MCInvalidFor == [k \in KeyIds |-> IF k = "bad" THEN {"rsa", "p256", "p256dh"} \cap Algs ELSE {}]

\* The runs about keys leave out of a state what none of their actions'
\* guards and, types apart, none of their properties read: the last answer and
\* the guesses.
KeyView == <<card, store, session, made, halfImport>>
=============================================================================
