---------------------------- MODULE OpenPGPApplet ----------------------------
(***************************************************************************)
(* The OpenPGP applet of the virtual card (openpgp/applet.rs) with the     *)
(* parts it owns: the PIN manager, the session security state and the      *)
(* persistent card state with its save.  One action per command handler,   *)
(* each covering the handler from its first check to its trailing save.    *)
(* Commands arrive here whole: command and response chaining are modelled  *)
(* by VirtualCard.                                                         *)
(***************************************************************************)
EXTENDS Integers

CONSTANTS
  Secrets,       \* the byte strings a host may send as a PIN or reset code
  NoSecret,      \* an empty stored hash: no reset code is set
  EmptySecret,   \* the empty byte string
  DefaultPW1,    \* "123456"
  DefaultPW3,    \* "12345678"
  SecretLen,     \* length in bytes of a byte string
  Strip,         \* the byte string without its 0x00 and 0xFF bytes
  MaxRetries,    \* pw1_max_retries = pw3_max_retries = rc_max_retries (3)
  Slots,         \* the key slots: "SIG", "DEC", "AUT"
  Algs,          \* algorithm attributes: algorithm id and size or curve
  DefaultAlg,    \* RSA 2048
  AlgKind,       \* "RSA", "EDDSA", "ECDSA", "ECDH", or "OTHER" (unknown curve or id)
  KeySize,       \* bytes of a private key of the algorithm, as stored
  KeyIds,        \* key material a host may import or the card may generate
  NoKeyId,       \* no key material
  InvalidFor,    \* the algorithms under which the material is not a valid key
  UserObjects,   \* data objects written under PW1: private DOs 1 and 2
  AdminObjects,  \* data objects written under PW3: name, login, certificate, ...
  Values,        \* contents of a data object
  DefaultValue,  \* its factory content
  CounterMax,    \* u32::MAX, where the signature counter saturates
  MaxFaults      \* how many saves and loads may fail: a bound of the model

Refs == {"PW1", "PW3", "RC"}
Conditions == {"PW1_81", "PW1_82", "PW3"}

\* The stored secret that a verification condition is checked against.
RefOf(c) == IF c = "PW3" THEN "PW3" ELSE "PW1"

ASSUME SecretsAssumption ==
  /\ {EmptySecret, DefaultPW1, DefaultPW3} \subseteq Secrets
  /\ NoSecret \notin Secrets
  /\ SecretLen \in [Secrets -> Nat]
  /\ Strip \in [Secrets -> Secrets]
  /\ \A s \in Secrets : SecretLen[s] = 0 <=> s = EmptySecret
  /\ SecretLen[DefaultPW1] = 6 /\ SecretLen[DefaultPW3] = 8
  /\ \A s \in Secrets : SecretLen[Strip[s]] <= SecretLen[s]

ASSUME RetriesAssumption == MaxRetries \in Nat \ {0}

ASSUME KeysAssumption ==
  /\ DefaultAlg \in Algs
  /\ AlgKind \in [Algs -> {"RSA", "EDDSA", "ECDSA", "ECDH", "OTHER"}]
  /\ KeySize \in [Algs -> Nat]
  /\ NoKeyId \notin KeyIds
  /\ InvalidFor \in [KeyIds -> SUBSET Algs]
  /\ Slots \subseteq {"SIG", "DEC", "AUT"}

ASSUME ObjectsAssumption ==
  /\ UserObjects \cap AdminObjects = {}
  /\ DefaultValue \in Values

ASSUME BoundsAssumption == CounterMax \in Nat /\ MaxFaults \in Nat

VARIABLES
  card,        \* CardDataStore.state, the state in memory
  stored,      \* what CardDataStore.load would read back from the state file
  verified,    \* SecurityState: the conditions verified in this session
  validMulti,  \* SecurityState.pw1_valid_multiple, copied from card at VERIFY
  resp,        \* the last response: status word and, for 63Cx, whose tries
  \* History of the run, read by no action.
  faults,      \* saves and loads that failed so far
  guesses,     \* wrong attempts at a secret since its counter was refilled
  made,        \* signatures handed out since the card was in factory state
  halfImport   \* slots whose last import failed with the private key replaced

store == <<stored, faults>>
session == <<verified, validMulti>>
history == <<guesses, made, halfImport>>
vars == <<card, store, session, resp, history>>

-----------------------------------------------------------------------------
(* The persistent state (card/state.rs). *)

PinEntry == [secret: Secrets \cup {NoSecret}, length: 0..255, retries: 0..MaxRetries]

\* Private or public key bytes: which key, and the algorithm they encode.
KeyData == [kid: KeyIds \cup {NoKeyId}, alg: Algs]
NoKey == [kid |-> NoKeyId, alg |-> DefaultAlg]

KeySlot == [fingerprint: BOOLEAN, alg: Algs, priv: KeyData, pub: KeyData]

Objects == UserObjects \cup AdminObjects

CardStates == [pin: [Refs -> PinEntry], multi: BOOLEAN, slot: [Slots -> KeySlot],
               sigs: 0..CounterMax, obj: [Objects -> Values], terminated: BOOLEAN]

\* CardState::default with initialize_default_pins.
FactoryPin ==
  [r \in Refs |->
     CASE r = "PW1" -> [secret |-> DefaultPW1, length |-> 6, retries |-> MaxRetries]
       [] r = "PW3" -> [secret |-> DefaultPW3, length |-> 8, retries |-> MaxRetries]
       [] r = "RC"  -> [secret |-> NoSecret, length |-> 0, retries |-> 0]]

FactorySlot == [fingerprint |-> FALSE, alg |-> DefaultAlg, priv |-> NoKey, pub |-> NoKey]

FactoryState ==
  [pin |-> FactoryPin, multi |-> TRUE, slot |-> [k \in Slots |-> FactorySlot],
   sigs |-> 0, obj |-> [o \in Objects |-> DefaultValue], terminated |-> FALSE]

WithPin(c, r, e) == [c EXCEPT !.pin = [c.pin EXCEPT ![r] = e]]
WithSlot(c, k, s) == [c EXCEPT !.slot = [c.slot EXCEPT ![k] = s]]

\* has_key: a slot counts as filled by its fingerprint, not by its key bytes.
HasKey(k) == card.slot[k].fingerprint

(***************************************************************************)
(* CardDataStore.save.  Callers ignore its result.  The file is truncated  *)
(* and rewritten in place, so a save that fails leaves the old file, or a  *)
(* partial one that load cannot parse and replaces by the factory state.   *)
(***************************************************************************)
Save ==
  \/ stored' = card' /\ UNCHANGED faults
  \/ /\ faults < MaxFaults
     /\ faults' = faults + 1
     /\ stored' \in {stored, FactoryState}

-----------------------------------------------------------------------------
(* The PIN manager (openpgp/pin_manager.rs).  Hashes are compared for      *)
(* equality only, so a hash is the secret it was computed from.            *)

Byte(n) == n % 256
MinLength(r) == IF r = "PW1" THEN 6 ELSE 8
MaxLength == 127

LengthOK(r, s) == MinLength(r) <= Byte(SecretLen[s]) /\ Byte(SecretLen[s]) <= MaxLength

\* Mutant: verify_pin compares without looking at the counter.
MatchesBlocked(r, e, s) == LengthOK(r, s) /\ s = e.secret

\* verify_pin returns true.
Matches(r, e, s) == e.retries > 0 /\ LengthOK(r, s) /\ s = e.secret

\* Mutant: a decrement that does not stop at zero.
AfterAttemptUnderflow(r, e, s) ==
  [e EXCEPT !.retries = IF Matches(r, e, s) THEN MaxRetries ELSE e.retries - 1]

\* What verify_pin leaves in the entry.
AfterAttempt(r, e, s) ==
  [e EXCEPT !.retries = IF Matches(r, e, s) THEN MaxRetries
                        ELSE IF e.retries = 0 THEN 0 ELSE e.retries - 1]

Refilled(s) == [secret |-> s, length |-> Byte(SecretLen[s]), retries |-> MaxRetries]

\* change_pin returns true, and what it leaves in the entry.
Changes(r, e, old, new) == Matches(r, e, old) /\ LengthOK(r, new)

\* Mutant: the new length is not stored.
ChangePinKeepsLength(r, e, old, new) ==
  IF Changes(r, e, old, new) THEN [Refilled(new) EXCEPT !.length = e.length]
  ELSE AfterAttempt(r, e, old)

ChangePin(r, e, old, new) ==
  IF Changes(r, e, old, new) THEN Refilled(new) ELSE AfterAttempt(r, e, old)

\* The wrong attempts made at r, counting an attempt with s that compared it.
Guessed(r, s) ==
  LET e == card.pin[r] IN
    IF Matches(r, e, s) THEN 0
    ELSE IF e.retries = 0 THEN guesses[r] ELSE guesses[r] + 1

\* Status words; "none" before the first answer of a session.
Words == {"none", "9000", "63Cx", "6400", "6700", "6982", "6983", "6985",
          "6A80", "6A81", "6A88", "6B00"}
Responses == [sw: Words, ref: Refs, tries: 0..MaxRetries]

Sw(w) == [sw |-> w, ref |-> "PW1", tries |-> 0]

\* 6983 when the counter is used up, 63Cx with the tries left otherwise.
TriesLeft(r, n) ==
  IF n = 0 THEN Sw("6983") ELSE [sw |-> "63Cx", ref |-> r, tries |-> n]

\* A handler that returns before it changes anything.
Answer(w) == resp' = Sw(w) /\ UNCHANGED <<card, store, session, history>>

\* Mutant: the check for a terminated card is missing.
AlwaysOperational == TRUE

Operational == ~card.terminated

-----------------------------------------------------------------------------
(* PIN commands. *)

\* VERIFY with no data asks for the state of condition c.
VerifyStatus(c) ==
  LET n == card.pin[RefOf(c)].retries IN
  /\ Operational
  /\ resp' = IF n > 0 /\ verified[c] THEN Sw("9000") ELSE TriesLeft(RefOf(c), n)
  /\ UNCHANGED <<card, store, session, history>>

\* Mutant: only a successful VERIFY is saved.
VerifySavesSuccess(c, data) ==
  LET r == RefOf(c)
      e == card.pin[r]
      s == Strip[data]
      ok == Matches(r, e, s)
  IN
  /\ Operational
  /\ data # EmptySecret
  /\ card' = WithPin(card, r, AfterAttempt(r, e, s))
  /\ IF ok THEN /\ verified' = [verified EXCEPT ![c] = TRUE]
                /\ validMulti' = IF r = "PW1" THEN card.multi ELSE validMulti
                /\ resp' = Sw("9000")
                /\ Save
           ELSE /\ resp' = TriesLeft(r, AfterAttempt(r, e, s).retries)
                /\ UNCHANGED <<session, store>>
  /\ guesses' = [guesses EXCEPT ![r] = Guessed(r, s)]
  /\ UNCHANGED <<made, halfImport>>

\* VERIFY with data: padding is stripped, then verify_pin decides.
Verify(c, data) ==
  LET r == RefOf(c)
      e == card.pin[r]
      s == Strip[data]
      ok == Matches(r, e, s)
  IN
  /\ Operational
  /\ data # EmptySecret
  /\ card' = WithPin(card, r, AfterAttempt(r, e, s))
  /\ IF ok THEN /\ verified' = [verified EXCEPT ![c] = TRUE]
                /\ validMulti' = IF r = "PW1" THEN card.multi ELSE validMulti
                /\ resp' = Sw("9000")
           ELSE /\ resp' = TriesLeft(r, AfterAttempt(r, e, s).retries)
                /\ UNCHANGED session
  /\ Save
  /\ guesses' = [guesses EXCEPT ![r] = Guessed(r, s)]
  /\ UNCHANGED <<made, halfImport>>

(***************************************************************************)
(* CHANGE REFERENCE DATA.  The handler cuts the data at the stored length: *)
(* old is a slice of exactly that many bytes, new is what follows it.      *)
(***************************************************************************)
ChangeReferenceData(r, old, new) ==
  LET e == card.pin[r] IN
  /\ Operational
  /\ r \in {"PW1", "PW3"}
  /\ SecretLen[old] = e.length
  /\ new # EmptySecret
  /\ card' = WithPin(card, r, ChangePin(r, e, old, new))
  /\ resp' = IF Changes(r, e, old, new) THEN Sw("9000")
             ELSE TriesLeft(r, AfterAttempt(r, e, old).retries)
  /\ Save
  /\ guesses' = [guesses EXCEPT ![r] = Guessed(r, old)]
  /\ UNCHANGED <<session, made, halfImport>>

(***************************************************************************)
(* RESET RETRY COUNTER with the reset code, cut from the data in the same  *)
(* way.  Both outcomes are saved; a failure answers 6982 without a count.  *)
(***************************************************************************)
ResetRetryCounterWithRC(code, new) ==
  LET e == card.pin["RC"]
      tried == WithPin(card, "RC", AfterAttempt("RC", e, code))
      ok == Matches("RC", e, code) /\ LengthOK("PW1", new)
  IN
  /\ Operational
  /\ SecretLen[code] = e.length
  /\ new # EmptySecret
  /\ \/ /\ e.secret = NoSecret
        /\ resp' = Sw("6982")
        /\ UNCHANGED <<card, guesses>>
     \/ /\ e.secret # NoSecret /\ ok
        /\ resp' = Sw("9000")
        /\ card' = WithPin(tried, "PW1", Refilled(new))
        /\ guesses' = [guesses EXCEPT !["RC"] = 0, !["PW1"] = 0]
     \/ /\ e.secret # NoSecret /\ ~ok
        /\ resp' = Sw("6982")
        /\ card' = tried
        /\ guesses' = [guesses EXCEPT !["RC"] = Guessed("RC", code)]
  /\ Save
  /\ UNCHANGED <<session, made, halfImport>>

\* RESET RETRY COUNTER by the administrator.
ResetRetryCounterWithPW3(new) ==
  /\ Operational
  /\ \/ ~verified["PW3"] /\ Answer("6982")
     \/ verified["PW3"] /\ ~LengthOK("PW1", new) /\ Answer("6A80")
     \/ /\ verified["PW3"] /\ LengthOK("PW1", new)
        /\ card' = WithPin(card, "PW1", Refilled(new))
        /\ guesses' = [guesses EXCEPT !["PW1"] = 0]
        /\ resp' = Sw("9000")
        /\ Save
        /\ UNCHANGED <<session, made, halfImport>>

-----------------------------------------------------------------------------
(* PUT DATA.  Every object but private DOs 1 and 2 needs PW3. *)

\* Mutant: no access check.
MayPutAlways(o) == TRUE

\* check_access(put_data_access(tag)).
MayPut(o) ==
  IF o \in UserObjects THEN verified["PW1_81"] \/ verified["PW1_82"] ELSE verified["PW3"]

\* Mutant: an accepted PUT DATA is not saved.
PutUnsaved(c) ==
  /\ card' = c
  /\ resp' = Sw("9000")
  /\ UNCHANGED <<store, session, made>>

\* The common frame of an accepted PUT DATA: the new state is saved.
Put(c) ==
  /\ card' = c
  /\ resp' = Sw("9000")
  /\ Save
  /\ UNCHANGED <<session, made>>

PutObject(o, v) ==
  /\ Operational
  /\ \/ ~MayPut(o) /\ Answer("6982")
     \/ /\ MayPut(o)
        /\ Put([card EXCEPT !.obj = [card.obj EXCEPT ![o] = v]])
        /\ UNCHANGED <<guesses, halfImport>>

\* D3: an empty object clears the code but not its counter; a code has a
\* minimal length and no maximal one.
PutResetCode(s) ==
  LET e == card.pin["RC"] IN
  /\ Operational
  /\ \/ ~verified["PW3"] /\ Answer("6982")
     \/ /\ verified["PW3"] /\ s # EmptySecret /\ Byte(SecretLen[s]) < MinLength("RC")
        /\ Answer("6700")
     \/ /\ verified["PW3"] /\ s = EmptySecret
        /\ Put(WithPin(card, "RC", [e EXCEPT !.secret = NoSecret, !.length = 0]))
        /\ UNCHANGED <<guesses, halfImport>>
     \/ /\ verified["PW3"] /\ s # EmptySecret /\ Byte(SecretLen[s]) >= MinLength("RC")
        /\ Put(WithPin(card, "RC", Refilled(s)))
        /\ guesses' = [guesses EXCEPT !["RC"] = 0]
        /\ UNCHANGED halfImport

\* C4: whether PW1 stays valid for several signatures.  The copy in the
\* security state is not touched.
PutPWStatus(b) ==
  /\ Operational
  /\ \/ ~verified["PW3"] /\ Answer("6982")
     \/ verified["PW3"] /\ Put([card EXCEPT !.multi = b]) /\ UNCHANGED <<guesses, halfImport>>

\* C1-C3: the attributes change, the key bytes of the slot stay.
PutAlgorithm(k, a) ==
  /\ Operational
  /\ \/ ~verified["PW3"] /\ Answer("6982")
     \/ /\ verified["PW3"]
        /\ Put(WithSlot(card, k, [card.slot[k] EXCEPT !.alg = a]))
        /\ UNCHANGED <<guesses, halfImport>>

\* C7-C9: 20 bytes, all zero (b = FALSE) or not.
PutFingerprint(k, b) ==
  /\ Operational
  /\ \/ ~verified["PW3"] /\ Answer("6982")
     \/ /\ verified["PW3"]
        /\ Put(WithSlot(card, k, [card.slot[k] EXCEPT !.fingerprint = b]))
        /\ UNCHANGED <<guesses, halfImport>>

-----------------------------------------------------------------------------
(* Keys. *)

Kind(a) == AlgKind[a]
Valid(kid, a) == kid # NoKeyId /\ a \notin InvalidFor[kid]

\* The private operation of a slot goes through: RSA decodes the raw public
\* key and then the private one, a curve takes bytes of its own key size.
Decodes(s) ==
  /\ Valid(s.priv.kid, s.alg)
  /\ IF Kind(s.alg) = "RSA"
     THEN s.pub.kid # NoKeyId /\ Kind(s.pub.alg) = "RSA" /\ Kind(s.priv.alg) = "RSA"
     ELSE KeySize[s.priv.alg] = KeySize[s.alg]

\* A signature fails on a key that does not decode; with RSA and ECDSA it
\* also fails on a digest of the wrong length.
MayFail(s) == ~Decodes(s) \/ Kind(s.alg) # "EDDSA"

\* Mutant: import without the check of PW3.
ImportKeyUnchecked(k, kid) ==
  LET key == [kid |-> kid, alg |-> card.slot[k].alg] IN
  /\ Operational
  /\ Put(WithSlot(card, k, [card.slot[k] EXCEPT !.priv = key, !.pub = key]))
  /\ halfImport' = halfImport \ {k}
  /\ UNCHANGED guesses

(***************************************************************************)
(* PUT DATA odd: key import.  An RSA key is taken as it comes.  For a      *)
(* curve the private key is replaced before the public key is derived from *)
(* it, and a failed derivation returns without a save.                     *)
(***************************************************************************)
ImportKey(k, kid) ==
  LET s == card.slot[k]
      key == [kid |-> kid, alg |-> s.alg]
  IN
  /\ Operational
  /\ \/ ~verified["PW3"] /\ Answer("6982")
     \/ verified["PW3"] /\ Kind(s.alg) = "OTHER" /\ Answer("6A80")
     \/ /\ verified["PW3"] /\ Kind(s.alg) # "OTHER"
        /\ Kind(s.alg) = "RSA" \/ Valid(kid, s.alg)
        /\ Put(WithSlot(card, k, [s EXCEPT !.priv = key, !.pub = key]))
        /\ halfImport' = halfImport \ {k}
        /\ UNCHANGED guesses
     \/ /\ verified["PW3"] /\ Kind(s.alg) \notin {"OTHER", "RSA"}
        /\ ~Valid(kid, s.alg)
        /\ card' = WithSlot(card, k, [s EXCEPT !.priv = key])
        /\ resp' = Sw("6400")
        /\ halfImport' = halfImport \cup {k}
        /\ UNCHANGED <<store, session, guesses, made>>

\* Mutant: the public key of the new pair is not stored.
GenerateKeyPrivateOnly(k, kid) ==
  LET key == [kid |-> kid, alg |-> card.slot[k].alg] IN
  /\ Operational
  /\ verified["PW3"] /\ Kind(card.slot[k].alg) # "OTHER" /\ Valid(kid, card.slot[k].alg)
  /\ Put(WithSlot(card, k, [card.slot[k] EXCEPT !.fingerprint = TRUE, !.priv = key]))
  /\ halfImport' = halfImport \ {k}
  /\ UNCHANGED guesses

\* GENERATE ASYMMETRIC KEY PAIR, P1 = 80: new pair and its fingerprint.
GenerateKey(k, kid) ==
  LET s == card.slot[k]
      key == [kid |-> kid, alg |-> s.alg]
  IN
  /\ Operational
  /\ \/ ~verified["PW3"] /\ Answer("6982")
     \/ verified["PW3"] /\ Kind(s.alg) = "OTHER" /\ Answer("6A81")
     \/ verified["PW3"] /\ Kind(s.alg) # "OTHER" /\ Answer("6400")
     \/ /\ verified["PW3"] /\ Kind(s.alg) # "OTHER" /\ Valid(kid, s.alg)
        /\ Put(WithSlot(card, k,
                 [s EXCEPT !.fingerprint = TRUE, !.priv = key, !.pub = key]))
        /\ halfImport' = halfImport \ {k}
        /\ UNCHANGED guesses

\* GENERATE ASYMMETRIC KEY PAIR, P1 = 81: the stored public key.
ReadPublicKey(k) ==
  LET s == card.slot[k] IN
  /\ Operational
  /\ Answer(IF s.pub.kid = NoKeyId THEN "6A88"
            ELSE IF Kind(s.alg) = "RSA" /\ Kind(s.pub.alg) # "RSA" THEN "6400"
            ELSE "9000")

SignReady ==
  /\ verified["PW1_81"] /\ HasKey("SIG")
  /\ Kind(card.slot["SIG"].alg) \in {"RSA", "EDDSA", "ECDSA"}
  /\ Decodes(card.slot["SIG"])

\* Mutant: the counter is increased in memory only.
SignUnsaved ==
  /\ SignReady
  /\ card' = [card EXCEPT !.sigs = IF @ = CounterMax THEN @ ELSE @ + 1]
  /\ verified' = IF validMulti THEN verified ELSE [verified EXCEPT !["PW1_81"] = FALSE]
  /\ resp' = Sw("9000")
  /\ made' = IF made > CounterMax THEN made ELSE made + 1
  /\ UNCHANGED <<store, validMulti, guesses, halfImport>>

\* PSO: COMPUTE DIGITAL SIGNATURE goes through.  after_sign looks at the
\* copy of the policy that the last VERIFY of PW1 took.
SignSucceeds ==
  /\ SignReady
  /\ card' = [card EXCEPT !.sigs = IF @ = CounterMax THEN @ ELSE @ + 1]
  /\ Save
  /\ verified' = IF validMulti THEN verified ELSE [verified EXCEPT !["PW1_81"] = FALSE]
  /\ resp' = Sw("9000")
  /\ made' = IF made > CounterMax THEN made ELSE made + 1
  /\ UNCHANGED <<validMulti, guesses, halfImport>>

\* PSO: COMPUTE DIGITAL SIGNATURE.
PsoSign ==
  /\ Operational
  /\ "SIG" \in Slots
  /\ \/ ~verified["PW1_81"] /\ Answer("6982")
     \/ verified["PW1_81"] /\ ~HasKey("SIG") /\ Answer("6A88")
     \/ /\ verified["PW1_81"] /\ HasKey("SIG")
        /\ Kind(card.slot["SIG"].alg) \in {"ECDH", "OTHER"}
        /\ Answer("6A81")
     \/ /\ verified["PW1_81"] /\ HasKey("SIG")
        /\ Kind(card.slot["SIG"].alg) \in {"RSA", "EDDSA", "ECDSA"}
        /\ MayFail(card.slot["SIG"])
        /\ Answer("6400")
     \/ SignSucceeds

\* "OTHER" may be ECDH on a curve that the card does not know: 6A81.
DecipherErrors(kind, indicator) ==
  IF kind = indicator THEN {"6400"}
  ELSE IF kind = "OTHER" /\ indicator = "ECDH" THEN {"6A80", "6A81"} ELSE {"6A80"}

\* PSO: DECIPHER for padding indicator "RSA" (00) or "ECDH" (A6).
PsoDecipher(indicator) ==
  /\ Operational
  /\ "DEC" \in Slots
  /\ \/ ~verified["PW1_82"] /\ Answer("6982")
     \/ verified["PW1_82"] /\ ~HasKey("DEC") /\ Answer("6A88")
     \/ /\ verified["PW1_82"] /\ HasKey("DEC")
        /\ \E w \in DecipherErrors(Kind(card.slot["DEC"].alg), indicator) : Answer(w)
     \/ /\ verified["PW1_82"] /\ HasKey("DEC")
        /\ Kind(card.slot["DEC"].alg) = indicator /\ Decodes(card.slot["DEC"])
        /\ Answer("9000")

\* INTERNAL AUTHENTICATE: as a signature, but under mode 82 and uncounted.
InternalAuthenticate ==
  /\ Operational
  /\ "AUT" \in Slots
  /\ \/ ~verified["PW1_82"] /\ Answer("6982")
     \/ verified["PW1_82"] /\ ~HasKey("AUT") /\ Answer("6A88")
     \/ /\ verified["PW1_82"] /\ HasKey("AUT")
        /\ Kind(card.slot["AUT"].alg) \in {"ECDH", "OTHER"}
        /\ Answer("6A81")
     \/ /\ verified["PW1_82"] /\ HasKey("AUT")
        /\ Kind(card.slot["AUT"].alg) \in {"RSA", "EDDSA", "ECDSA"}
        /\ MayFail(card.slot["AUT"])
        /\ Answer("6400")
     \/ /\ verified["PW1_82"] /\ HasKey("AUT")
        /\ Kind(card.slot["AUT"].alg) \in {"RSA", "EDDSA", "ECDSA"}
        /\ Decodes(card.slot["AUT"])
        /\ Answer("9000")

-----------------------------------------------------------------------------
(* Life cycle. *)

\* TERMINATE DF.
Terminate ==
  LET blocked == card.pin["PW1"].retries = 0 /\ card.pin["PW3"].retries = 0 IN
  /\ Operational
  /\ \/ ~verified["PW3"] /\ ~blocked /\ Answer("6982")
     \/ /\ verified["PW3"] \/ blocked
        /\ Put([card EXCEPT !.terminated = TRUE])
        /\ UNCHANGED <<guesses, halfImport>>

\* ACTIVATE FILE: factory state, whether or not the card was terminated.
Activate ==
  /\ card' = FactoryState
  /\ Save
  /\ verified' = [c \in Conditions |-> FALSE]
  /\ resp' = Sw("9000")
  /\ guesses' = [r \in Refs |-> 0]
  /\ made' = 0
  /\ halfImport' = {}
  /\ UNCHANGED validMulti

\* GET DATA: an object that may be read at all may be read by everyone.
GetData == Operational /\ (Answer("9000") \/ Answer("6982"))

GetChallenge == Operational /\ (Answer("9000") \/ Answer("6700"))

\* Every other command on a terminated card.
RefuseTerminated == card.terminated /\ Answer("6985")

\* A command whose parameters or length the handler rejects: 6B00, 6700,
\* 6A80, 6A88 or 6D00, which nothing here tells apart.
RefuseMalformed == Operational /\ Answer("6B00")

\* OpenPGPApplet.reset, on card reset and on power off.
Reset ==
  /\ verified' = [c \in Conditions |-> FALSE]
  /\ resp' = Sw("none")
  /\ UNCHANGED <<card, store, validMulti, history>>

\* The process ends at any point and a new one loads the state file; a load
\* that fails yields the factory state and leaves the file.
Restart ==
  /\ \/ card' = stored /\ UNCHANGED faults
     \/ faults < MaxFaults /\ faults' = faults + 1 /\ card' = FactoryState
  /\ verified' = [c \in Conditions |-> FALSE]
  /\ validMulti' = TRUE
  /\ resp' = Sw("none")
  /\ UNCHANGED <<stored, history>>

Init ==
  /\ card = FactoryState
  /\ stored = FactoryState
  /\ verified = [c \in Conditions |-> FALSE]
  /\ validMulti = TRUE
  /\ resp = Sw("none")
  /\ faults = 0
  /\ guesses = [r \in Refs |-> 0]
  /\ made = 0
  /\ halfImport = {}

Next ==
  \/ \E c \in Conditions : VerifyStatus(c)
  \/ \E c \in Conditions, s \in Secrets : Verify(c, s)
  \/ \E r \in Refs, old, new \in Secrets : ChangeReferenceData(r, old, new)
  \/ \E code, new \in Secrets : ResetRetryCounterWithRC(code, new)
  \/ \E new \in Secrets : ResetRetryCounterWithPW3(new)
  \/ \E o \in Objects, v \in Values : PutObject(o, v)
  \/ \E s \in Secrets : PutResetCode(s)
  \/ \E b \in BOOLEAN : PutPWStatus(b)
  \/ \E k \in Slots, a \in Algs : PutAlgorithm(k, a)
  \/ \E k \in Slots, b \in BOOLEAN : PutFingerprint(k, b)
  \/ \E k \in Slots, kid \in KeyIds : ImportKey(k, kid) \/ GenerateKey(k, kid)
  \/ \E k \in Slots : ReadPublicKey(k)
  \/ PsoSign
  \/ \E i \in {"RSA", "ECDH"} : PsoDecipher(i)
  \/ InternalAuthenticate
  \/ Terminate
  \/ Activate
  \/ GetData
  \/ GetChallenge
  \/ RefuseTerminated
  \/ RefuseMalformed
  \/ Reset
  \/ Restart

Spec == Init /\ [][Next]_vars

-----------------------------------------------------------------------------
(* Properties. *)

\* The type of the state.
TypeOK ==
  /\ card \in CardStates
  /\ stored \in CardStates
  /\ verified \in [Conditions -> BOOLEAN]
  /\ validMulti \in BOOLEAN
  /\ resp \in Responses
  /\ faults \in 0..MaxFaults
  /\ guesses \in [Refs -> Nat]
  /\ made \in 0..(CounterMax + 1)
  /\ halfImport \in SUBSET Slots

\* PIN try limit.  The wrong attempts at a secret since its counter was last
\* refilled and the tries left never exceed the limit, whichever of VERIFY
\* 81, VERIFY 82, CHANGE REFERENCE DATA and RESET RETRY COUNTER made them and
\* however often the card was reset, powered off or restarted in between; a
\* save or load that fails gives back at most one full set of tries.  With
\* none failing every try at PW1 and PW3 is charged exactly once.
RetryBudget ==
  /\ \A r \in Refs : guesses[r] + card.pin[r].retries <= MaxRetries * (faults + 1)
  /\ faults = 0 =>
       \A r \in {"PW1", "PW3"} : guesses[r] + card.pin[r].retries = MaxRetries

\* Durability.  While saves succeed, a restart after any response finds the
\* state the response was given in, but for a slot left by a failed import.
AnsweredIsDurable == (faults = 0 /\ halfImport = {}) => stored = card

Store == INSTANCE AbstractStore WITH mem <- card, States <- CardStates, Factory <- FactoryState

\* Every command commits what it changed with its answer, in the way that
\* CardStore implements, whichever saves fail.  (A failed import does not:
\* the runs that check this have no key slots.)
CommitsToStore == Store!Spec

\* The stored length of PW1 and PW3, at which CHANGE REFERENCE DATA cuts its
\* data, is the length of the stored secret up to the width of the byte, and
\* the secret is one that verify_pin does not reject for its length.
LengthMatchesSecret ==
  \A r \in {"PW1", "PW3"} :
    /\ card.pin[r].secret \in Secrets
    /\ card.pin[r].length = Byte(SecretLen[card.pin[r].secret])
    /\ LengthOK(r, card.pin[r].secret)

\* The public key a slot publishes belongs to its private key, and both were
\* made for one algorithm, unless the last import into the slot failed.
KeyPairIntact ==
  faults = 0 => \A k \in Slots \ halfImport : card.slot[k].priv = card.slot[k].pub

\* Every signature handed out since the factory state is counted, up to the
\* saturation of the counter, across restarts included.
SignaturesCounted ==
  faults = 0 => card.sigs = IF made > CounterMax THEN CounterMax ELSE made

\* A terminated card keeps its state through every command, reset and
\* restart until ACTIVATE FILE returns it to the factory state.
TerminatedIsFrozen ==
  [][faults' = 0 /\ card.terminated => card' \in {card, FactoryState}]_vars

\* A blocked PW3 stays blocked until the factory state; a blocked PW1 is
\* unblocked only by the administrator or with a reset code that is set and
\* not itself blocked.
BlockedStaysBlocked ==
  [][faults' = 0 /\ card' # FactoryState =>
       /\ card.pin["PW3"].retries = 0 => card'.pin["PW3"].retries = 0
       /\ card.pin["PW1"].retries = 0 /\ card'.pin["PW1"].retries > 0 =>
            \/ verified["PW3"]
            \/ card.pin["RC"].retries > 0 /\ card.pin["RC"].secret # NoSecret]_vars

\* Between factory resets and restarts, keys, attributes, the reset code, the
\* PW1 policy and the administrator's objects change only in a session that
\* verified PW3, and private DOs 1 and 2 only in one that verified PW1.
ChangesAreAuthorised ==
  [][card' \notin {FactoryState, stored} =>
       /\ \/ verified["PW3"]
          \/ /\ card'.slot = card.slot /\ card'.multi = card.multi
             /\ card'.pin["RC"].secret = card.pin["RC"].secret
             /\ \A o \in AdminObjects : card'.obj[o] = card.obj[o]
       /\ \/ verified["PW1_81"] \/ verified["PW1_82"]
          \/ \A o \in UserObjects : card'.obj[o] = card.obj[o]]_vars

-----------------------------------------------------------------------------
(* What the repository says of the card and the code does not keep. *)

\* security_state.rs on after_sign: "If PW1 is not set to "valid for multiple
\* commands", clear PW1_81".
SignatureUsesUpPW1 == [][SignSucceeds /\ ~card.multi => ~verified'["PW1_81"]]_vars

=============================================================================
