------------------------------ MODULE PIVApplet ------------------------------
(***************************************************************************)
(* The command handlers of the PIV applet (piv/applet.rs) with its data    *)
(* objects and security state.  VirtualCard has what comes before them:    *)
(* power, selection and command chaining.  The applet keeps everything in  *)
(* memory; a new channel makes a new applet.                               *)
(***************************************************************************)
EXTENDS Naturals

CONSTANTS
  Full,         \* secrets of 8 bytes, none of them 0xFF
  Short,        \* shorter secrets, the empty one among them
  Empty,        \* no bytes at all: a secret, and the value of an unset object
  DefaultPin, DefaultPuk,
  Slots,        \* the key slots: some of 9A, 9C, 9D, 9E
  KeyIds, NoKeyId,
  ObjectIds,    \* the data objects: some of those that ReadField names
  Values,       \* contents of data objects that are not empty
  Witnesses, NoChallenge,
  MaxCards      \* times the channel may be created: a bound of the model

Secrets == Full \cup Short

ASSUME SecretsAssumption ==
  Full \cap Short = {} /\ Empty \in Short /\ DefaultPin \in Short /\ DefaultPuk \in Full

ASSUME KeysAssumption ==
  Slots \subseteq {"9A", "9C", "9D", "9E"} /\ NoKeyId \notin KeyIds

ASSUME ObjectsAssumption ==
  /\ ObjectIds \subseteq {"5FC102", "5FC107", "5FC105", "5FC10A", "5FC10B", "5FC101", "7E"}
  /\ Empty \notin Values /\ Empty \notin Witnesses /\ NoChallenge \notin Witnesses

ASSUME BoundAssumption == MaxCards \in Nat

VARIABLES
  pins,       \* pin, puk, pin_retries and puk_retries of PIVDataObjects
  keys,       \* key_9a ... key_9e, without their certificates
  objects,    \* the other data objects, the certificates among them
  auth,       \* PIVSecurityState: the conditions that are satisfied
  challenge,  \* current_challenge
  resp,       \* the last response
  \* History of the run, read by no action's guard but the bound of NewCard.
  guesses,    \* wrong attempts at a reference since its counter was refilled
  setPin,     \* the bytes that were last accepted as the PIN
  since,      \* what was proved since SELECT or a reset
  fresh,      \* a challenge was issued since then and not yet answered
  announced,  \* the key of each slot that GENERATE last answered
  written,    \* the contents of each object that PUT DATA last accepted
  created     \* applets made so far

data == <<pins, keys, objects>>
session == <<auth, challenge, since, fresh>>
pinHistory == <<guesses, setPin>>
dataHistory == <<announced, written>>
vars == <<data, session, resp, pinHistory, dataHistory, created>>

-----------------------------------------------------------------------------
(* Secrets as they are sent.  Every stored secret is without 0xFF bytes.   *)

Refs == {"PIN", "PUK"}
MaxTries == 3

\* Bytes that a host sends: those before the first 0xFF, and whether there is
\* a 0xFF.
Bytes == [body: Secrets, padded: BOOLEAN]
NoBytes == [body |-> Empty, padded |-> FALSE]

\* One half of the 16 bytes of CHANGE REFERENCE DATA or RESET RETRY COUNTER.
Block(s) == [body |-> s, padded |-> s \in Short]

\* Strip FF padding: take_while(b != 0xFF).
Strip(d) == d.body

\* The comparison of the bytes as they are.
RawEqual(d, s) == d.body = s /\ ~d.padded

-----------------------------------------------------------------------------
(* Answers. *)

Words == {"9000", "6400", "6700", "63Cx", "6982", "6983", "6985", "6A80",
          "6A81", "6A82", "6A88", "6B00", "6D00"}

\* A response: the status word, the tries of a 63Cx, and for the result of a
\* private key operation the slot it was asked of and the key that made it.
Responses == [sw: Words, tries: 0..MaxTries, slot: Slots \cup {"none"}, kid: KeyIds \cup {NoKeyId}]

Sw(w) == [sw |-> w, tries |-> 0, slot |-> "none", kid |-> NoKeyId]
Counter(n) == [Sw("63Cx") EXCEPT !.tries = n]

\* The handler returns without a change.
Answer(w) == resp' = Sw(w) /\ UNCHANGED <<data, session, pinHistory, dataHistory, created>>

-----------------------------------------------------------------------------
(* PIN and PUK. *)

\* A correct value: the counter is refilled and new is stored.
Right(r, new) ==
  /\ pins' = [pins EXCEPT ![r] = [value |-> new, tries |-> MaxTries]]
  /\ guesses' = [guesses EXCEPT ![r] = 0]
  /\ resp' = Sw("9000")

\* A wrong value costs a try.
Wrong(r) ==
  /\ pins' = [pins EXCEPT ![r].tries = @ - 1]
  /\ guesses' = [guesses EXCEPT ![r] = @ + 1]
  /\ resp' = IF pins[r].tries = 1 THEN Sw("6983") ELSE Counter(pins[r].tries - 1)
  /\ UNCHANGED setPin

\* Mutant: VERIFY compares the padded bytes with the PIN.
VerifyMatchesRaw(r, d) == RawEqual(d, pins[r].value)

\* VERIFY strips the padding of the PIN and compares the PUK as it is.
VerifyMatches(r, d) ==
  IF r = "PIN" THEN Strip(d) = pins["PIN"].value ELSE RawEqual(d, pins["PUK"].value)

\* VERIFY.  Only the PIN sets a condition; a wrong PIN leaves it set.
Verify(r, d) ==
  \/ /\ d = NoBytes
     /\ resp' = Counter(pins[r].tries)
     /\ UNCHANGED <<data, session, pinHistory, dataHistory, created>>
  \/ d # NoBytes /\ pins[r].tries = 0 /\ Answer("6983")
  \/ /\ d # NoBytes /\ pins[r].tries > 0
     /\ VerifyMatches(r, d)
     /\ Right(r, pins[r].value)
     /\ auth' = IF r = "PIN" THEN auth \cup {"PIN"} ELSE auth
     /\ since' = IF r = "PIN" THEN since \cup {"PIN"} ELSE since
     /\ UNCHANGED <<keys, objects, challenge, fresh, setPin, dataHistory, created>>
  \/ /\ d # NoBytes /\ pins[r].tries > 0
     /\ ~VerifyMatches(r, d)
     /\ Wrong(r)
     /\ UNCHANGED <<keys, objects, session, dataHistory, created>>

\* Mutant: a blocked reference is charged for another attempt.
ChangeReferenceDataUnblocked(r, old, new) ==
  /\ Strip(Block(old)) # pins[r].value
  /\ Wrong(r)
  /\ UNCHANGED <<keys, objects, session, dataHistory, created>>

\* CHANGE REFERENCE DATA: 16 bytes, the old and the new value, both stripped.
ChangeReferenceData(r, old, new) ==
  \/ pins[r].tries = 0 /\ Answer("6983")
  \/ /\ pins[r].tries > 0
     /\ \/ /\ Strip(Block(old)) = pins[r].value
           /\ Right(r, Strip(Block(new)))
           /\ setPin' = IF r = "PIN" THEN Block(new) ELSE setPin
        \/ Strip(Block(old)) # pins[r].value /\ Wrong(r)
     /\ UNCHANGED <<keys, objects, session, dataHistory, created>>

\* Mutant: RESET RETRY COUNTER does not charge a wrong PUK to its counter.
ResetRetryCounterFree(puk, new) ==
  \/ pins["PUK"].tries = 0 /\ Answer("6983")
  \/ /\ pins["PUK"].tries > 0 /\ ~RawEqual(Block(puk), pins["PUK"].value)
     /\ guesses' = [guesses EXCEPT !["PUK"] = @ + 1]
     /\ resp' = Counter(pins["PUK"].tries)
     /\ UNCHANGED <<data, session, setPin, dataHistory, created>>

\* Mutant: a blocked PUK still unblocks the PIN.
ResetRetryCounterBlocked(puk, new) ==
  /\ RawEqual(Block(puk), pins["PUK"].value)
  /\ pins' = [pins EXCEPT !["PIN"] = [value |-> Strip(Block(new)), tries |-> MaxTries]]
  /\ guesses' = [guesses EXCEPT !["PIN"] = 0]
  /\ setPin' = Block(new)
  /\ resp' = Sw("9000")
  /\ UNCHANGED <<keys, objects, session, dataHistory, created>>

\* RESET RETRY COUNTER: the PUK as it is, padding included, and the new PIN.
ResetRetryCounter(puk, new) ==
  \/ pins["PUK"].tries = 0 /\ Answer("6983")
  \/ /\ pins["PUK"].tries > 0
     /\ \/ /\ RawEqual(Block(puk), pins["PUK"].value)
           /\ pins' = [r \in Refs |-> [value |-> IF r = "PIN" THEN Strip(Block(new)) ELSE pins[r].value,
                                       tries |-> MaxTries]]
           /\ guesses' = [r \in Refs |-> 0]
           /\ setPin' = Block(new)
           /\ resp' = Sw("9000")
        \/ ~RawEqual(Block(puk), pins["PUK"].value) /\ Wrong("PUK")
     /\ UNCHANGED <<keys, objects, session, dataHistory, created>>

-----------------------------------------------------------------------------
(* Data objects. *)

Fields == {"chuid", "ccc", "cert9A", "cert9C", "cert9D", "cert9E", "discovery"}

\* The field that GET DATA reads for an object identifier.
ReadField(o) ==
  CASE o = "5FC102" -> "chuid"  [] o = "5FC107" -> "ccc"
    [] o = "5FC105" -> "cert9A" [] o = "5FC10A" -> "cert9C"
    [] o = "5FC10B" -> "cert9D" [] o = "5FC101" -> "cert9E"
    [] o = "7E" -> "discovery"

\* Mutant: the certificates of 9C and 9D are mixed up.
WriteFieldMixed(o) == IF o = "5FC10A" THEN "cert9D" ELSE ReadField(o)

\* The field that PUT DATA writes for it.
WriteField(o) ==
  CASE o = "5FC102" -> "chuid"  [] o = "5FC107" -> "ccc"
    [] o = "5FC105" -> "cert9A" [] o = "5FC10A" -> "cert9C"
    [] o = "5FC10B" -> "cert9D" [] o = "5FC101" -> "cert9E"
    [] o = "7E" -> "discovery"

\* GET DATA.  An object without contents is not found.
GetData(o) == Answer(IF objects[ReadField(o)] = Empty THEN "6A82" ELSE "9000")

\* PUT DATA of a whole command, chained or not.
PutData(o, v) ==
  \/ "MGMT" \notin auth /\ Answer("6982")
  \/ /\ "MGMT" \in auth
     /\ objects' = [objects EXCEPT ![WriteField(o)] = v]
     /\ written' = [written EXCEPT ![o] = v]
     /\ resp' = Sw("9000")
     /\ UNCHANGED <<pins, keys, session, pinHistory, announced, created>>

\* PUT DATA and GENERATE with data that does not parse, or of an object or a
\* slot that does not exist: refused, the missing authentication first.
RefuseUpdate ==
  \E w \in {"6A80", "6A82", "6B00"} : Answer(IF "MGMT" \notin auth THEN "6982" ELSE w)

-----------------------------------------------------------------------------
(* Keys. *)

Algorithms == {"RSA2048", "ECCP256", "ECCP384"}

\* Public key bytes: the key, the number in the first two bytes, the length.
PublicKeys == [kid: KeyIds \cup {NoKeyId}, head: Nat, len: Nat]

KeyData == [alg: Algorithms \cup {"none"}, priv: KeyIds \cup {NoKeyId}, pub: PublicKeys]
NoKey == [alg |-> "none", priv |-> NoKeyId, pub |-> [kid |-> NoKeyId, head |-> 0, len |-> 0]]

\* RsaOperations.get_modulus finds a modulus behind its length in two bytes.
HasModulus(p) == p.len >= 4 /\ p.len >= 2 + p.head

\* The template 7F49 in which a public key is answered and stored: the
\* modulus (256 bytes) and the exponent (3), or the point (65 or 97).
Template(k, a) ==
  [kid |-> k, head |-> 32585,
   len |-> CASE a = "RSA2048" -> 270 [] a = "ECCP256" -> 70 [] a = "ECCP384" -> 102]

\* Mutant: a private key that is there is not replaced.
StoredKeyKeepsPrivate(s, k, a) ==
  [alg |-> a, priv |-> IF keys[s].priv = NoKeyId THEN k ELSE keys[s].priv, pub |-> Template(k, a)]

\* What generate_rsa_key and generate_ecc_key store.
StoredKey(s, k, a) == [alg |-> a, priv |-> k, pub |-> Template(k, a)]

\* Mutant: the check for the management key is missing.
GenerateUnchecked(s, k, a) ==
  /\ keys' = [t \in Slots |-> IF t = s THEN StoredKey(t, k, a) ELSE keys[t]]
  /\ announced' = [t \in Slots |-> IF t = s THEN k ELSE announced[t]]
  /\ resp' = Sw("9000")
  /\ UNCHANGED <<pins, objects, session, pinHistory, written, created>>

\* GENERATE ASYMMETRIC KEY PAIR.  For 9B, which get_key_mut does not know, the
\* new key is answered and stored nowhere.  3DES is not supported, and the
\* generation itself may fail.
Generate(s, k, a) ==
  \/ "MGMT" \notin auth /\ Answer("6982")
  \/ "MGMT" \in auth /\ \E w \in {"6A81", "6400"} : Answer(w)
  \/ /\ "MGMT" \in auth
     /\ keys' = [t \in Slots |-> IF t = s THEN StoredKey(t, k, a) ELSE keys[t]]
     /\ announced' = [t \in Slots |-> IF t = s THEN k ELSE announced[t]]
     /\ resp' = Sw("9000")
     /\ UNCHANGED <<pins, objects, session, pinHistory, written, created>>

\* The slot's key may be used: the card authentication key without a PIN.
Usable(s) == (s = "9E" \/ "PIN" \in auth) /\ keys[s].priv # NoKeyId

\* The result of an operation with the private key of a slot.
Result(s) == [Sw("9000") EXCEPT !.slot = s, !.kid = keys[s].priv]

\* sign_data: RSA needs the modulus out of the stored public key; ECDSA fails
\* for a digest that is too short.
SignData(s, long) ==
  IF keys[s].alg = "RSA2048" THEN HasModulus(keys[s].pub) ELSE long

\* decrypt_data: RSA fails for a bad cryptogram; ECDH is not implemented.
DecryptData(s, good) == keys[s].alg = "RSA2048" /\ HasModulus(keys[s].pub) /\ good
DecryptError(s) == IF keys[s].alg = "RSA2048" THEN "6400" ELSE "6A81"

\* GENERAL AUTHENTICATE with a key slot.  An empty 82 asks for a signature of
\* what 81 holds, 85 for a decryption; other templates are wrong data.
KeyRefused(s) ==
  \/ s # "9E" /\ "PIN" \notin auth /\ Answer("6982")
  \/ (s = "9E" \/ "PIN" \in auth) /\ keys[s].priv = NoKeyId /\ Answer("6A88")
  \/ Usable(s) /\ Answer("6A80")

Sign(s, long) ==
  /\ Usable(s)
  /\ resp' = IF SignData(s, long) THEN Result(s) ELSE Sw("6400")
  /\ UNCHANGED <<data, session, pinHistory, dataHistory, created>>

Decrypt(s, good) ==
  /\ Usable(s)
  /\ resp' = IF DecryptData(s, good) THEN Result(s) ELSE Sw(DecryptError(s))
  /\ UNCHANGED <<data, session, pinHistory, dataHistory, created>>

-----------------------------------------------------------------------------
(* The management key. *)

\* Step 1 of authenticate_mgmt_key: a random witness, encrypted for the host.
RequestWitness(w) ==
  /\ challenge' = w
  /\ fresh' = TRUE
  /\ resp' = Sw("9000")
  /\ UNCHANGED <<data, auth, since, pinHistory, dataHistory, created>>

\* Mutant: a wrong witness leaves the challenge open for another answer.
AnswerWitnessAgain(w, whole) ==
  \/ challenge = NoChallenge /\ Answer("6985")
  \/ /\ challenge # NoChallenge /\ w # challenge
     /\ fresh' = FALSE
     /\ resp' = Sw("6982")
     /\ UNCHANGED <<data, auth, challenge, since, pinHistory, dataHistory, created>>

\* Step 2: the host's witness and its own challenge, which is encrypted if it
\* is made of whole blocks.  The challenge is used up either way.
AnswerWitness(w, whole) ==
  \/ challenge = NoChallenge /\ Answer("6985")
  \/ /\ challenge # NoChallenge
     /\ challenge' = NoChallenge
     /\ fresh' = FALSE
     /\ \/ w # challenge /\ resp' = Sw("6982") /\ UNCHANGED <<auth, since>>
        \/ w = challenge /\ ~whole /\ resp' = Sw("6400") /\ UNCHANGED <<auth, since>>
        \/ /\ w = challenge /\ whole
           /\ resp' = Sw("9000")
           /\ auth' = auth \cup {"MGMT"}
           /\ since' = since \cup {"MGMT"}
     /\ UNCHANGED <<data, pinHistory, dataHistory, created>>

-----------------------------------------------------------------------------
(* Sessions, and the applet itself. *)

\* Mutant: the PIN stays verified.
ClearSessionNot == auth' = auth \ {"MGMT"} /\ challenge' = NoChallenge /\ since' = {} /\ fresh' = FALSE

\* clear_all, and no challenge.
ClearSession == auth' = {} /\ challenge' = NoChallenge /\ since' = {} /\ fresh' = FALSE

Select ==
  /\ ClearSession
  /\ resp' = Sw("9000")
  /\ UNCHANGED <<data, pinHistory, dataHistory, created>>

\* Power off or reset of the card, which answers with the ATR at most.
Reset ==
  /\ ClearSession
  /\ resp' = Sw("9000")
  /\ UNCHANGED <<data, pinHistory, dataHistory, created>>

\* GET RESPONSE finds nothing, as no handler fills response_buffer; GET
\* VERSION and GET SERIAL answer; anything else that is malformed is refused.
Other == \E w \in {"6985", "9000", "6700", "6A80", "6A82", "6B00", "6D00"} : Answer(w)

NewPins ==
  [r \in Refs |-> [value |-> IF r = "PIN" THEN DefaultPin ELSE DefaultPuk, tries |-> MaxTries]]

\* IFDHCreateChannel builds a new card, and with it a new applet.
NewCard ==
  /\ created < MaxCards
  /\ created' = created + 1
  /\ pins' = NewPins
  /\ keys' = [s \in Slots |-> NoKey]
  /\ objects' = [f \in Fields |-> Empty]
  /\ ClearSession
  /\ resp' = Sw("9000")
  /\ guesses' = [r \in Refs |-> 0]
  /\ setPin' = Block(DefaultPin)
  /\ announced' = [s \in Slots |-> NoKeyId]
  /\ written' = [o \in ObjectIds |-> Empty]

Init ==
  /\ pins = NewPins
  /\ keys = [s \in Slots |-> NoKey]
  /\ objects = [f \in Fields |-> Empty]
  /\ auth = {} /\ challenge = NoChallenge /\ since = {} /\ fresh = FALSE
  /\ resp = Sw("9000")
  /\ guesses = [r \in Refs |-> 0]
  /\ setPin = Block(DefaultPin)
  /\ announced = [s \in Slots |-> NoKeyId]
  /\ written = [o \in ObjectIds |-> Empty]
  /\ created = 0

Next ==
  \/ \E r \in Refs, d \in Bytes : Verify(r, d)
  \/ \E r \in Refs, old, new \in Secrets : ChangeReferenceData(r, old, new)
  \/ \E puk, new \in Secrets : ResetRetryCounter(puk, new)
  \/ \E o \in ObjectIds : GetData(o)
  \/ \E o \in ObjectIds, v \in Values \cup {Empty} : PutData(o, v)
  \/ RefuseUpdate
  \/ \E s \in Slots \cup {"9B"}, k \in KeyIds, a \in Algorithms : Generate(s, k, a)
  \/ \E s \in Slots : KeyRefused(s)
  \/ \E s \in Slots, long \in BOOLEAN : Sign(s, long)
  \/ \E s \in Slots, good \in BOOLEAN : Decrypt(s, good)
  \/ \E w \in Witnesses : RequestWitness(w)
  \/ \E w \in Witnesses \cup {Empty}, whole \in BOOLEAN : AnswerWitness(w, whole)
  \/ Select
  \/ Reset
  \/ Other
  \/ NewCard

Spec == Init /\ [][Next]_vars

-----------------------------------------------------------------------------
(* Properties. *)

\* The state of the applet has its type: counters stay in 0..3, secrets are
\* stripped, a slot is empty or holds a key with its algorithm.
TypeOK ==
  /\ pins \in [Refs -> [value: Secrets, tries: 0..MaxTries]]
  /\ keys \in [Slots -> KeyData]
  /\ objects \in [Fields -> Values \cup {Empty}]
  /\ auth \subseteq {"PIN", "MGMT"} /\ since \subseteq {"PIN", "MGMT"}
  /\ challenge \in Witnesses \cup {NoChallenge} /\ fresh \in BOOLEAN
  /\ resp \in Responses
  /\ guesses \in [Refs -> Nat] /\ setPin \in Bytes
  /\ announced \in [Slots -> KeyIds \cup {NoKeyId}]
  /\ written \in [ObjectIds -> Values \cup {Empty}]
  /\ created \in 0..MaxCards

\* VERIFY, CHANGE REFERENCE DATA and RESET RETRY COUNTER together allow three
\* wrong attempts at the PIN and at the PUK, counted from the last refill.
TryLimit == \A r \in Refs : guesses[r] + pins[r].tries = MaxTries

\* A blocked PUK stays as it is for the life of the applet.  A blocked PIN
\* comes back only with the PUK, while that is not blocked, and until then no
\* session gains the PIN condition.
BlockedNeedsPuk ==
  [][created' = created =>
       /\ pins["PUK"].tries = 0 => pins'["PUK"] = pins["PUK"]
       /\ pins["PIN"].tries = 0 =>
            /\ "PIN" \in auth' => "PIN" \in auth
            /\ \/ pins'["PIN"] = pins["PIN"]
               \/ pins["PUK"].tries > 0 /\ pins'["PUK"].tries = MaxTries]_vars

\* The bytes that set the PIN, padding included, are bytes that VERIFY accepts.
PinBlockVerifies == VerifyMatches("PIN", setPin)

\* A condition that the applet holds was proved since the last SELECT or
\* reset: nothing that cleared the session left one behind.
AuthorityIsOfThisSession == auth \subseteq since

\* Keys and data objects of an applet change only after the management key was
\* authenticated in the same session.
ChangesNeedManagementKey ==
  [][created' = created /\ <<keys', objects'>> # <<keys, objects>> => "MGMT" \in since]_vars

\* A result of a private key other than the card authentication key is only
\* answered in a session that verified the PIN, and comes from the key pair
\* whose public key GENERATE last answered for that slot.
KeyUseIsRight ==
  resp.slot # "none" =>
    /\ resp.slot = "9E" \/ "PIN" \in since
    /\ resp.kid = announced[resp.slot]

\* A challenge that can still be answered was issued in this session and has
\* not been answered: each witness gives one attempt.
ChallengeUsedOnce == challenge # NoChallenge => fresh

\* GET DATA reads what PUT DATA last wrote, for each object separately.
ObjectsReadBack == \A o \in ObjectIds : objects[ReadField(o)] = written[o]

-----------------------------------------------------------------------------
(* What the repository says of the card and the code does not keep. *)

\* ifd-jcecard/README.md: "9A (PIV Authentication) | RSA 2048, ...".  A key
\* that GENERATE stored as RSA 2048 signs.
RSAKeysSign ==
  [][\A s \in Slots : Sign(s, TRUE) /\ keys[s].alg = "RSA2048" => resp'.sw = "9000"]_vars

=============================================================================
