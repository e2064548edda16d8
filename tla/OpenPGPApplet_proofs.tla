------------------------ MODULE OpenPGPApplet_proofs ------------------------
(***************************************************************************)
(* Proofs about the OpenPGP applet, for every set of secrets, keys and     *)
(* objects, every try limit and any number of failing saves and loads.     *)
(***************************************************************************)
EXTENDS OpenPGPApplet, TLAPS

-----------------------------------------------------------------------------
(* The operators that the actions build states with. *)

\* The factory state is a card state.
LEMMA FactoryTyped == FactoryState \in CardStates /\ FactoryState.pin = FactoryPin
<1>1. FactoryPin \in [Refs -> PinEntry]
  BY SecretsAssumption, RetriesAssumption DEF FactoryPin, Refs, PinEntry
<1>2. FactorySlot \in KeySlot
  BY KeysAssumption DEF FactorySlot, KeySlot, NoKey, KeyData
<1>3. QED
  BY <1>1, <1>2, ObjectsAssumption, BoundsAssumption DEF FactoryState, CardStates

\* Replacing one PIN entry keeps the type and touches nothing else.
LEMMA WithPinTyped ==
  ASSUME NEW c \in CardStates, NEW r \in Refs, NEW e \in PinEntry
  PROVE  /\ WithPin(c, r, e) \in CardStates
         /\ WithPin(c, r, e).pin = [c.pin EXCEPT ![r] = e]
         /\ WithPin(c, r, e).slot = c.slot /\ WithPin(c, r, e).multi = c.multi
         /\ WithPin(c, r, e).obj = c.obj /\ WithPin(c, r, e).sigs = c.sigs
         /\ WithPin(c, r, e).terminated = c.terminated
BY DEF WithPin, CardStates

\* Replacing one key slot keeps the type and touches nothing else.
LEMMA WithSlotTyped ==
  ASSUME NEW c \in CardStates, NEW k \in Slots, NEW s \in KeySlot
  PROVE  /\ WithSlot(c, k, s) \in CardStates
         /\ WithSlot(c, k, s).pin = c.pin /\ WithSlot(c, k, s).multi = c.multi
         /\ WithSlot(c, k, s).obj = c.obj /\ WithSlot(c, k, s).sigs = c.sigs
         /\ WithSlot(c, k, s).terminated = c.terminated
         /\ WithSlot(c, k, s).slot = [c.slot EXCEPT ![k] = s]
BY DEF WithSlot, CardStates

\* What verify_pin leaves: the secret and its length, and one try less unless
\* the attempt matched or none was left.
LEMMA AttemptTyped ==
  ASSUME NEW r \in Refs, NEW e \in PinEntry, NEW s \in Secrets
  PROVE  /\ AfterAttempt(r, e, s) \in PinEntry
         /\ AfterAttempt(r, e, s).secret = e.secret
         /\ AfterAttempt(r, e, s).length = e.length
         /\ Matches(r, e, s) => AfterAttempt(r, e, s).retries = MaxRetries
         /\ ~Matches(r, e, s) /\ e.retries = 0 => AfterAttempt(r, e, s).retries = 0
         /\ ~Matches(r, e, s) /\ e.retries # 0 => AfterAttempt(r, e, s).retries = e.retries - 1
<1> DEFINE n == IF Matches(r, e, s) THEN MaxRetries
                ELSE IF e.retries = 0 THEN 0 ELSE e.retries - 1
<1>1. n \in 0..MaxRetries
  BY RetriesAssumption DEF PinEntry
<1>2. AfterAttempt(r, e, s) = [e EXCEPT !.retries = n]
  BY DEF AfterAttempt
<1> HIDE DEF n
<1>3. AfterAttempt(r, e, s) \in PinEntry /\ AfterAttempt(r, e, s).retries = n
      /\ AfterAttempt(r, e, s).secret = e.secret
      /\ AfterAttempt(r, e, s).length = e.length
  BY <1>1, <1>2 DEF PinEntry
<1>4. QED
  BY <1>3 DEF n

\* A freshly set secret has all its tries.
LEMMA RefilledTyped ==
  ASSUME NEW s \in Secrets
  PROVE  /\ Refilled(s) \in PinEntry
         /\ Refilled(s).retries = MaxRetries
         /\ Refilled(s).secret = s
         /\ Refilled(s).length = Byte(SecretLen[s])
<1>1. SecretLen[s] \in Nat
  BY SecretsAssumption
<1>2. Byte(SecretLen[s]) \in 0..255
  BY <1>1 DEF Byte
<1>3. QED
  BY <1>2, RetriesAssumption DEF Refilled, PinEntry

\* A save of a card state leaves a card state behind.
LEMMA SaveTyped ==
  ASSUME TypeOK, Save, card' \in CardStates
  PROVE  /\ stored' \in CardStates
         /\ faults' \in 0..MaxFaults
         /\ \/ stored' = card' /\ faults' = faults
            \/ stored' \in {stored, FactoryState} /\ faults' = faults + 1
BY FactoryTyped, BoundsAssumption DEF Save, TypeOK

-----------------------------------------------------------------------------
(* What a step does to the PINs. *)

\* One step's effect on the tries left and the wrong attempts made at r:
\* none, one try charged, all tries refilled, or the factory entry.
Charge(r) ==
  \/ guesses'[r] = guesses[r] /\ card'.pin[r].retries = card.pin[r].retries
  \/ guesses'[r] = guesses[r] + 1 /\ card'.pin[r].retries = card.pin[r].retries - 1
  \/ guesses'[r] = 0 /\ card'.pin[r].retries = MaxRetries
  \/ guesses'[r] = 0 /\ card'.pin[r] = FactoryPin[r]

\* A saving step: typed, each PIN charged as above, and saved.
Saving == card' \in CardStates /\ guesses' \in [Refs -> Nat] /\ Save /\ \A r \in Refs : Charge(r)

\* A step that leaves the card, the file and the attempts alone.
Quiet ==
  /\ card' = card /\ guesses' = guesses /\ halfImport' = halfImport
  /\ stored' = stored /\ faults' = faults

\* A failed import: the private key is replaced, nothing is saved.
HalfImport ==
  /\ card'.pin = card.pin /\ guesses' = guesses /\ halfImport' # {}
  /\ stored' = stored /\ faults' = faults

\* A restart: the card is what the file holds, or factory new when the load
\* failed.
Reload ==
  /\ guesses' = guesses /\ halfImport' = halfImport /\ stored' = stored
  /\ \/ card' = stored /\ faults' = faults
     \/ card' = FactoryState /\ faults' = faults + 1

\* A status word is an answer.
LEMMA SwTyped == \A w \in Words : Sw(w) \in Responses
BY RetriesAssumption DEF Sw, Responses, Refs

\* A handler that returns early keeps the type and touches nothing.
LEMMA AnswerStep ==
  ASSUME TypeOK, NEW w \in Words, Answer(w)
  PROVE  TypeOK' /\ Quiet
BY SwTyped DEF Answer, TypeOK, Quiet, store, session, history

\* 6983 and 63Cx are answers.
LEMMA TriesLeftTyped ==
  ASSUME NEW r \in Refs, NEW n \in 0..MaxRetries
  PROVE  TriesLeft(r, n) \in Responses
<1>1. CASE n = 0
  BY <1>1, SwTyped DEF TriesLeft, Words
<1>2. CASE n # 0
  BY <1>2 DEF TriesLeft, Responses, Words
<1>3. QED
  BY <1>1, <1>2

\* VERIFY status changes nothing.
LEMMA VerifyStatusStep ==
  ASSUME TypeOK, NEW c \in Conditions, VerifyStatus(c)
  PROVE  TypeOK' /\ Quiet
<1>1. RefOf(c) \in Refs
  BY DEF RefOf, Refs
<1>2. card.pin[RefOf(c)].retries \in 0..MaxRetries
  BY <1>1 DEF TypeOK, CardStates, PinEntry
<1>3. resp' \in Responses
  BY <1>1, <1>2, TriesLeftTyped, SwTyped DEF VerifyStatus, Words
<1>4. QED
  BY <1>3 DEF VerifyStatus, TypeOK, Quiet, store, session, history

\* The attempts at r after one more, against what verify_pin leaves.
LEMMA GuessedCharge ==
  ASSUME TypeOK, NEW r \in Refs, NEW s \in Secrets
  PROVE  /\ Guessed(r, s) \in Nat
         /\ \/ /\ Guessed(r, s) = guesses[r]
               /\ AfterAttempt(r, card.pin[r], s).retries = card.pin[r].retries
            \/ /\ Guessed(r, s) = guesses[r] + 1
               /\ AfterAttempt(r, card.pin[r], s).retries = card.pin[r].retries - 1
            \/ /\ Guessed(r, s) = 0
               /\ AfterAttempt(r, card.pin[r], s).retries = MaxRetries
<1>1. card.pin[r] \in PinEntry /\ guesses[r] \in Nat
  BY DEF TypeOK, CardStates
<1>2. QED
  BY <1>1, AttemptTyped DEF Guessed

\* An entry replaced together with the count of its attempts: the other PINs
\* are not charged.
LEMMA OneEntry ==
  ASSUME TypeOK, NEW r \in Refs, NEW e \in PinEntry, NEW g \in Nat,
         card' = WithPin(card, r, e), guesses' = [guesses EXCEPT ![r] = g], Save,
         \/ g = guesses[r] /\ e.retries = card.pin[r].retries
         \/ g = guesses[r] + 1 /\ e.retries = card.pin[r].retries - 1
         \/ g = 0 /\ e.retries = MaxRetries
  PROVE  Saving
<1>1. card \in CardStates /\ card.pin \in [Refs -> PinEntry] /\ guesses \in [Refs -> Nat]
  BY DEF TypeOK, CardStates
<1>2. card' \in CardStates /\ card'.pin = [card.pin EXCEPT ![r] = e]
  BY <1>1, WithPinTyped
<1>3. guesses' \in [Refs -> Nat] /\ guesses'[r] = g /\ card'.pin[r] = e
  BY <1>1, <1>2
<1>4. \A q \in Refs : q # r => guesses'[q] = guesses[q] /\ card'.pin[q] = card.pin[q]
  BY <1>1, <1>2
<1>5. \A q \in Refs : Charge(q)
  BY <1>3, <1>4 DEF Charge
<1>6. QED
  BY <1>2, <1>3, <1>5 DEF Saving

\* VERIFY keeps the type and charges the attempt.
LEMMA VerifyStep ==
  ASSUME TypeOK, NEW c \in Conditions, NEW data \in Secrets, Verify(c, data)
  PROVE  TypeOK' /\ Saving
<1> DEFINE r == RefOf(c)
           e == card.pin[r]
           s == Strip[data]
<1>1. r \in Refs /\ s \in Secrets
  BY SecretsAssumption DEF RefOf, Refs
<1>2. e \in PinEntry
  BY <1>1 DEF TypeOK, CardStates
<1>3. AfterAttempt(r, e, s) \in PinEntry
  BY <1>1, <1>2, AttemptTyped
<1>4. /\ card' = WithPin(card, r, AfterAttempt(r, e, s))
      /\ guesses' = [guesses EXCEPT ![r] = Guessed(r, s)]
      /\ Save
  BY DEF Verify
<1>5. Saving
  BY <1>1, <1>3, <1>4, GuessedCharge, OneEntry
<1>6. resp' \in Responses
  <2>1. AfterAttempt(r, e, s).retries \in 0..MaxRetries
    BY <1>3 DEF PinEntry
  <2>2. QED
    BY <1>1, <2>1, TriesLeftTyped, SwTyped DEF Verify, Words
<1>7. verified' \in [Conditions -> BOOLEAN] /\ validMulti' \in BOOLEAN
  BY DEF Verify, TypeOK, session, CardStates
<1>8. stored' \in CardStates /\ faults' \in 0..MaxFaults
  BY <1>5, SaveTyped DEF Saving
<1>9. made' = made /\ halfImport' = halfImport
  BY DEF Verify
<1>10. QED
  BY <1>5, <1>6, <1>7, <1>8, <1>9 DEF TypeOK, Saving

\* CHANGE REFERENCE DATA keeps the type and charges the attempt at the old
\* secret.
LEMMA ChangeStep ==
  ASSUME TypeOK, NEW r \in Refs, NEW old \in Secrets, NEW new \in Secrets,
         ChangeReferenceData(r, old, new)
  PROVE  TypeOK' /\ Saving
<1> DEFINE e == card.pin[r]
           n == ChangePin(r, e, old, new)
<1>1. e \in PinEntry
  BY DEF TypeOK, CardStates
<1>2. /\ card' = WithPin(card, r, n)
      /\ guesses' = [guesses EXCEPT ![r] = Guessed(r, old)]
      /\ Save
  BY DEF ChangeReferenceData
<1>3. AfterAttempt(r, e, old) \in PinEntry
  BY <1>1, AttemptTyped
<1>4. /\ n \in PinEntry /\ Guessed(r, old) \in Nat
      /\ \/ Guessed(r, old) = guesses[r] /\ n.retries = e.retries
         \/ Guessed(r, old) = guesses[r] + 1 /\ n.retries = e.retries - 1
         \/ Guessed(r, old) = 0 /\ n.retries = MaxRetries
  <2>1. CASE Changes(r, e, old, new)
    <3>1. n = Refilled(new)
      BY <2>1 DEF ChangePin
    <3>2. Guessed(r, old) = 0
      BY <2>1 DEF Changes, Guessed
    <3>3. QED
      BY <3>1, <3>2, RefilledTyped
  <2>2. CASE ~Changes(r, e, old, new)
    <3>1. n = AfterAttempt(r, e, old)
      BY <2>2 DEF ChangePin
    <3>2. QED
      BY <1>3, <3>1, GuessedCharge
  <2>3. QED
    BY <2>1, <2>2
<1> HIDE DEF n
<1>5. Saving
  BY <1>2, <1>4, OneEntry
<1>6. resp' \in Responses
  <2>1. AfterAttempt(r, e, old).retries \in 0..MaxRetries
    BY <1>3 DEF PinEntry
  <2>2. QED
    BY <2>1, TriesLeftTyped, SwTyped DEF ChangeReferenceData, Words
<1>7. stored' \in CardStates /\ faults' \in 0..MaxFaults
  BY <1>5, SaveTyped DEF Saving
<1>8. QED
  BY <1>5, <1>6, <1>7 DEF ChangeReferenceData, TypeOK, Saving, session

\* RESET RETRY COUNTER with the reset code keeps the type, charges the attempt
\* at the code and, when it succeeds, refills PW1.
LEMMA ResetWithRCStep ==
  ASSUME TypeOK, NEW code \in Secrets, NEW new \in Secrets,
         ResetRetryCounterWithRC(code, new)
  PROVE  TypeOK' /\ Saving
<1> DEFINE e == card.pin["RC"]
           a == AfterAttempt("RC", e, code)
           ok == Matches("RC", e, code) /\ LengthOK("PW1", new)
           tried == WithPin(card, "RC", a)
<1>1. "RC" \in Refs /\ "PW1" \in Refs /\ card \in CardStates
      /\ card.pin \in [Refs -> PinEntry] /\ guesses \in [Refs -> Nat]
  BY DEF Refs, TypeOK, CardStates
<1>2. e \in PinEntry /\ a \in PinEntry
  BY <1>1, AttemptTyped
<1>3. Save
  BY DEF ResetRetryCounterWithRC
<1>4. Saving
  <2>1. CASE card' = card /\ guesses' = guesses
    BY <1>1, <1>3, <2>1 DEF Saving, Charge
  <2>2. CASE /\ ok /\ card' = WithPin(tried, "PW1", Refilled(new))
             /\ guesses' = [guesses EXCEPT !["RC"] = 0, !["PW1"] = 0]
    <3>1. tried \in CardStates /\ tried.pin = [card.pin EXCEPT !["RC"] = a]
      BY <1>1, <1>2, WithPinTyped
    <3>2. /\ card' \in CardStates
          /\ card'.pin = [tried.pin EXCEPT !["PW1"] = Refilled(new)]
      BY <1>1, <2>2, <3>1, WithPinTyped, RefilledTyped
    <3>3. a.retries = MaxRetries /\ Refilled(new).retries = MaxRetries
      BY <1>1, <1>2, <2>2, AttemptTyped, RefilledTyped
    <3>4. /\ card'.pin["RC"] = a /\ card'.pin["PW1"] = Refilled(new)
          /\ card'.pin["PW3"] = card.pin["PW3"]
      BY <1>1, <3>1, <3>2 DEF Refs
    <3>5. /\ guesses' \in [Refs -> Nat]
          /\ guesses'["RC"] = 0 /\ guesses'["PW1"] = 0 /\ guesses'["PW3"] = guesses["PW3"]
      BY <1>1, <2>2 DEF Refs
    <3>6. QED
      BY <1>3, <3>2, <3>3, <3>4, <3>5 DEF Saving, Charge, Refs
  <2>3. CASE card' = tried /\ guesses' = [guesses EXCEPT !["RC"] = Guessed("RC", code)]
    BY <1>1, <1>2, <1>3, <2>3, GuessedCharge, OneEntry
  <2>4. QED
    BY <2>1, <2>2, <2>3 DEF ResetRetryCounterWithRC
<1>5. resp' \in Responses
  BY SwTyped DEF ResetRetryCounterWithRC, Words
<1>6. stored' \in CardStates /\ faults' \in 0..MaxFaults
  BY <1>4, SaveTyped DEF Saving
<1>7. QED
  BY <1>4, <1>5, <1>6 DEF ResetRetryCounterWithRC, TypeOK, Saving, session

\* RESET RETRY COUNTER by the administrator refills PW1.
LEMMA ResetWithPW3Step ==
  ASSUME TypeOK, NEW new \in Secrets, ResetRetryCounterWithPW3(new)
  PROVE  TypeOK' /\ (Quiet \/ Saving)
<1>1. CASE \E w \in Words : Answer(w)
  BY <1>1, AnswerStep
<1>2. CASE /\ card' = WithPin(card, "PW1", Refilled(new))
           /\ guesses' = [guesses EXCEPT !["PW1"] = 0]
           /\ resp' = Sw("9000") /\ Save /\ UNCHANGED <<session, made, halfImport>>
  <2>1. Saving
    BY <1>2, RefilledTyped, OneEntry DEF Refs
  <2>2. stored' \in CardStates /\ faults' \in 0..MaxFaults
    BY <2>1, SaveTyped DEF Saving
  <2>3. resp' \in Responses
    BY <1>2, SwTyped DEF Words
  <2>4. QED
    BY <1>2, <2>1, <2>2, <2>3 DEF TypeOK, Saving, session
<1>3. QED
  BY <1>1, <1>2 DEF ResetRetryCounterWithPW3, Words

-----------------------------------------------------------------------------
(* The other commands. *)

\* A PUT DATA that leaves the PINs alone keeps the type.
LEMMA PutStep ==
  ASSUME TypeOK, NEW c \in CardStates, Put(c), c.pin = card.pin,
         guesses' = guesses, halfImport' \in SUBSET Slots
  PROVE  TypeOK' /\ Saving
<1>1. Saving
  BY DEF Put, Saving, Charge, TypeOK
<1>2. stored' \in CardStates /\ faults' \in 0..MaxFaults
  BY <1>1, SaveTyped DEF Saving
<1>3. resp' \in Responses
  BY SwTyped DEF Put, Words
<1>4. QED
  BY <1>1, <1>2, <1>3 DEF Put, TypeOK, Saving, session

\* PUT DATA of an object.
LEMMA PutObjectStep ==
  ASSUME TypeOK, NEW o \in Objects, NEW v \in Values, PutObject(o, v)
  PROVE  TypeOK' /\ (Quiet \/ Saving)
<1> DEFINE c == [card EXCEPT !.obj = [card.obj EXCEPT ![o] = v]]
<1>1. c \in CardStates /\ c.pin = card.pin
  BY DEF TypeOK, CardStates
<1>2. CASE Answer("6982")
  BY <1>2, AnswerStep DEF Words
<1>3. CASE Put(c) /\ UNCHANGED <<guesses, halfImport>>
  BY <1>1, <1>3, PutStep DEF TypeOK
<1>4. QED
  BY <1>2, <1>3 DEF PutObject

\* PUT DATA of the reset code.
LEMMA PutResetCodeStep ==
  ASSUME TypeOK, NEW s \in Secrets, PutResetCode(s)
  PROVE  TypeOK' /\ (Quiet \/ Saving)
<1> DEFINE e == card.pin["RC"]
           cleared == [e EXCEPT !.secret = NoSecret, !.length = 0]
<1>1. /\ "RC" \in Refs /\ e \in PinEntry /\ guesses \in [Refs -> Nat]
      /\ guesses["RC"] \in Nat
  BY DEF Refs, TypeOK, CardStates
<1>2. cleared \in PinEntry /\ cleared.retries = e.retries
  <2> DEFINE d == [e EXCEPT !.secret = NoSecret]
  <2>1. d \in PinEntry /\ d.retries = e.retries
    BY <1>1 DEF PinEntry
  <2>2. cleared = [d EXCEPT !.length = 0]
    OBVIOUS
  <2> HIDE DEF d, cleared
  <2>3. QED
    BY <2>1, <2>2 DEF PinEntry
<1>3. CASE Answer("6982") \/ Answer("6700")
  BY <1>3, AnswerStep DEF Words
<1>4. ASSUME Saving, NEW c, Put(c), UNCHANGED halfImport
      PROVE  TypeOK' /\ Saving
  <2>1. stored' \in CardStates /\ faults' \in 0..MaxFaults
    BY <1>4, SaveTyped DEF Saving
  <2>2. resp' \in Responses
    BY <1>4, SwTyped DEF Put, Words
  <2>3. QED
    BY <1>4, <2>1, <2>2 DEF Put, TypeOK, Saving, session
<1>5. CASE Put(WithPin(card, "RC", cleared)) /\ UNCHANGED <<guesses, halfImport>>
  <2>1. guesses' = [guesses EXCEPT !["RC"] = guesses["RC"]]
    BY <1>1, <1>5
  <2>2. Saving
    BY <1>1, <1>2, <1>5, <2>1, OneEntry DEF Put
  <2>3. QED
    BY <1>4, <1>5, <2>2
<1>6. CASE /\ Put(WithPin(card, "RC", Refilled(s)))
           /\ guesses' = [guesses EXCEPT !["RC"] = 0] /\ UNCHANGED halfImport
  <2>1. Saving
    BY <1>1, <1>6, RefilledTyped, OneEntry DEF Put
  <2>2. QED
    BY <1>4, <1>6, <2>1
<1>7. QED
  BY <1>3, <1>5, <1>6 DEF PutResetCode

\* PUT DATA of the PW1 policy.
LEMMA PutPWStatusStep ==
  ASSUME TypeOK, NEW b \in BOOLEAN, PutPWStatus(b)
  PROVE  TypeOK' /\ (Quiet \/ Saving)
<1> DEFINE c == [card EXCEPT !.multi = b]
<1>1. c \in CardStates /\ c.pin = card.pin
  BY DEF TypeOK, CardStates
<1>2. CASE Answer("6982")
  BY <1>2, AnswerStep DEF Words
<1>3. CASE Put(c) /\ UNCHANGED <<guesses, halfImport>>
  BY <1>1, <1>3, PutStep DEF TypeOK
<1>4. QED
  BY <1>2, <1>3 DEF PutPWStatus

\* PUT DATA of the algorithm attributes or the fingerprint of a slot.
LEMMA PutSlotStep ==
  ASSUME TypeOK, NEW k \in Slots,
         \/ \E a \in Algs : PutAlgorithm(k, a)
         \/ \E b \in BOOLEAN : PutFingerprint(k, b)
  PROVE  TypeOK' /\ (Quiet \/ Saving)
<1>1. card \in CardStates /\ card.slot[k] \in KeySlot
  BY DEF TypeOK, CardStates
<1>2. CASE Answer("6982")
  BY <1>2, AnswerStep DEF Words
<1>3. ASSUME NEW s \in KeySlot, Put(WithSlot(card, k, s)), UNCHANGED <<guesses, halfImport>>
      PROVE  TypeOK' /\ Saving
  BY <1>1, <1>3, WithSlotTyped, PutStep DEF TypeOK
<1>4. CASE \E a \in Algs : PutAlgorithm(k, a)
  <2>1. PICK a \in Algs : PutAlgorithm(k, a)
    BY <1>4
  <2>2. [card.slot[k] EXCEPT !.alg = a] \in KeySlot
    BY <1>1 DEF KeySlot
  <2>3. QED
    BY <1>2, <1>3, <2>1, <2>2 DEF PutAlgorithm
<1>5. CASE \E b \in BOOLEAN : PutFingerprint(k, b)
  <2>1. PICK b \in BOOLEAN : PutFingerprint(k, b)
    BY <1>5
  <2>2. [card.slot[k] EXCEPT !.fingerprint = b] \in KeySlot
    BY <1>1 DEF KeySlot
  <2>3. QED
    BY <1>2, <1>3, <2>1, <2>2 DEF PutFingerprint
<1>6. QED
  BY <1>4, <1>5

\* Key import: a success is saved, a failed derivation is not.
LEMMA ImportKeyStep ==
  ASSUME TypeOK, NEW k \in Slots, NEW kid \in KeyIds, ImportKey(k, kid)
  PROVE  TypeOK' /\ (Quiet \/ Saving \/ HalfImport)
<1> DEFINE s == card.slot[k]
           key == [kid |-> kid, alg |-> s.alg]
           half == [s EXCEPT !.priv = key]
           full == [s EXCEPT !.priv = key, !.pub = key]
<1>1. card \in CardStates /\ s \in KeySlot /\ halfImport \subseteq Slots
  BY DEF TypeOK, CardStates
<1>2. key \in KeyData
  BY <1>1 DEF KeySlot, KeyData
<1>3. half \in KeySlot
  BY <1>1, <1>2 DEF KeySlot
<1>4. full \in KeySlot
  <2>1. full = [half EXCEPT !.pub = key]
    OBVIOUS
  <2> HIDE DEF half
  <2>2. QED
    BY <1>2, <1>3, <2>1 DEF KeySlot
<1> HIDE DEF s, key, half, full
<1>5. CASE Answer("6982") \/ Answer("6A80")
  BY <1>5, AnswerStep DEF Words
<1>6. CASE /\ Put(WithSlot(card, k, full)) /\ halfImport' = halfImport \ {k}
           /\ UNCHANGED guesses
  <2>1. WithSlot(card, k, full) \in CardStates /\ WithSlot(card, k, full).pin = card.pin
    BY <1>1, <1>4, WithSlotTyped
  <2>2. halfImport' \in SUBSET Slots
    BY <1>1, <1>6
  <2>3. QED
    BY <1>6, <2>1, <2>2, PutStep
<1>7. CASE /\ card' = WithSlot(card, k, half) /\ resp' = Sw("6400")
           /\ halfImport' = halfImport \cup {k} /\ UNCHANGED <<store, session, guesses, made>>
  <2>1. card' \in CardStates /\ card'.pin = card.pin
    BY <1>1, <1>3, <1>7, WithSlotTyped
  <2>2. halfImport' \in SUBSET Slots /\ halfImport' # {}
    BY <1>1, <1>7
  <2>3. resp' \in Responses
    BY <1>7, SwTyped DEF Words
  <2>4. QED
    BY <1>7, <2>1, <2>2, <2>3 DEF TypeOK, HalfImport, store, session
<1>8. QED
  BY <1>5, <1>6, <1>7 DEF ImportKey, s, key, half, full

\* Key generation.
LEMMA GenerateKeyStep ==
  ASSUME TypeOK, NEW k \in Slots, NEW kid \in KeyIds, GenerateKey(k, kid)
  PROVE  TypeOK' /\ (Quiet \/ Saving)
<1> DEFINE s == card.slot[k]
           key == [kid |-> kid, alg |-> s.alg]
           new == [s EXCEPT !.fingerprint = TRUE, !.priv = key, !.pub = key]
<1>1. card \in CardStates /\ s \in KeySlot /\ halfImport \subseteq Slots
  BY DEF TypeOK, CardStates
<1>2. key \in KeyData
  BY <1>1 DEF KeySlot, KeyData
<1>3. new \in KeySlot
  <2> DEFINE n1 == [s EXCEPT !.fingerprint = TRUE]
             n2 == [n1 EXCEPT !.priv = key]
  <2>1. n1 \in KeySlot
    BY <1>1 DEF KeySlot
  <2>2. new = [n2 EXCEPT !.pub = key]
    OBVIOUS
  <2>3. n2 \in KeySlot
    <3> HIDE DEF n1
    <3>1. QED
      BY <1>2, <2>1 DEF KeySlot
  <2> HIDE DEF n2
  <2>4. QED
    BY <1>2, <2>2, <2>3 DEF KeySlot
<1> HIDE DEF s, key, new
<1>4. CASE Answer("6982") \/ Answer("6A81") \/ Answer("6400")
  BY <1>4, AnswerStep DEF Words
<1>5. CASE /\ Put(WithSlot(card, k, new)) /\ halfImport' = halfImport \ {k}
           /\ UNCHANGED guesses
  <2>1. WithSlot(card, k, new) \in CardStates /\ WithSlot(card, k, new).pin = card.pin
    BY <1>1, <1>3, WithSlotTyped
  <2>2. halfImport' \in SUBSET Slots
    BY <1>1, <1>5
  <2>3. QED
    BY <1>5, <2>1, <2>2, PutStep
<1>6. QED
  BY <1>4, <1>5 DEF GenerateKey, s, key, new

\* A signature that goes through is counted and saved.
LEMMA SignStep ==
  ASSUME TypeOK, SignSucceeds
  PROVE  TypeOK' /\ Saving
<1> DEFINE n == IF card.sigs = CounterMax THEN card.sigs ELSE card.sigs + 1
<1>1. n \in 0..CounterMax
  BY BoundsAssumption DEF TypeOK, CardStates
<1>2. card' = [card EXCEPT !.sigs = n]
  BY DEF SignSucceeds
<1> HIDE DEF n
<1>3. card' \in CardStates /\ card'.pin = card.pin
  BY <1>1, <1>2 DEF TypeOK, CardStates
<1>4. Saving
  BY <1>3 DEF SignSucceeds, Saving, Charge, TypeOK
<1>5. stored' \in CardStates /\ faults' \in 0..MaxFaults
  BY <1>4, SaveTyped DEF Saving
<1>6. resp' \in Responses
  BY SwTyped DEF SignSucceeds, Words
<1>7. made' \in 0..(CounterMax + 1)
  BY BoundsAssumption DEF SignSucceeds, TypeOK
<1>8. verified' \in [Conditions -> BOOLEAN] /\ validMulti' \in BOOLEAN
  BY DEF SignSucceeds, TypeOK
<1>9. QED
  BY <1>4, <1>5, <1>6, <1>7, <1>8 DEF SignSucceeds, TypeOK, Saving

\* The private key operations.
LEMMA KeyUseStep ==
  ASSUME TypeOK, PsoSign \/ InternalAuthenticate \/ (\E i \in {"RSA", "ECDH"} : PsoDecipher(i))
                 \/ (\E k \in Slots : ReadPublicKey(k))
  PROVE  TypeOK' /\ (Quiet \/ Saving)
<1>1. CASE \E w \in Words : Answer(w)
  BY <1>1, AnswerStep
<1>2. CASE SignSucceeds
  BY <1>2, SignStep
<1>3. PsoSign => SignSucceeds \/ \E w \in Words : Answer(w)
  BY DEF PsoSign, Words
<1>4. InternalAuthenticate => \E w \in Words : Answer(w)
  BY DEF InternalAuthenticate, Words
<1>5. \A i \in {"RSA", "ECDH"} : PsoDecipher(i) => \E w \in Words : Answer(w)
  BY DEF PsoDecipher, DecipherErrors, Words
<1>6. \A k \in Slots : ReadPublicKey(k) => \E w \in Words : Answer(w)
  BY DEF ReadPublicKey, Words
<1>7. QED
  BY <1>1, <1>2, <1>3, <1>4, <1>5, <1>6

\* TERMINATE DF.
LEMMA TerminateStep ==
  ASSUME TypeOK, Terminate
  PROVE  TypeOK' /\ (Quiet \/ Saving)
<1> DEFINE c == [card EXCEPT !.terminated = TRUE]
<1>1. c \in CardStates /\ c.pin = card.pin
  BY DEF TypeOK, CardStates
<1>2. CASE Answer("6982")
  BY <1>2, AnswerStep DEF Words
<1>3. CASE Put(c) /\ UNCHANGED <<guesses, halfImport>>
  BY <1>1, <1>3, PutStep DEF TypeOK
<1>4. QED
  BY <1>2, <1>3 DEF Terminate

\* ACTIVATE FILE.
LEMMA ActivateStep ==
  ASSUME TypeOK, Activate
  PROVE  TypeOK' /\ Saving
<1>1. guesses' \in [Refs -> Nat] /\ \A r \in Refs : guesses'[r] = 0
  BY DEF Activate
<1>2. card' \in CardStates /\ card'.pin = FactoryPin /\ Save
  BY FactoryTyped DEF Activate
<1>3. Saving
  BY <1>1, <1>2 DEF Saving, Charge
<1>4. stored' \in CardStates /\ faults' \in 0..MaxFaults
  BY <1>2, SaveTyped
<1>5. resp' \in Responses
  BY SwTyped DEF Activate, Words
<1>6. verified' \in [Conditions -> BOOLEAN] /\ made' \in 0..(CounterMax + 1)
      /\ halfImport' \in SUBSET Slots /\ validMulti' = validMulti
  BY BoundsAssumption DEF Activate
<1>7. QED
  BY <1>1, <1>2, <1>3, <1>4, <1>5, <1>6 DEF TypeOK

\* Reset of the session.
LEMMA ResetStep ==
  ASSUME TypeOK, Reset
  PROVE  TypeOK' /\ Quiet
<1>1. resp' \in Responses
  BY SwTyped DEF Reset, Words
<1>2. verified' \in [Conditions -> BOOLEAN]
  BY DEF Reset
<1>3. QED
  BY <1>1, <1>2 DEF Reset, TypeOK, Quiet, store, history

\* Restart from the state file.
LEMMA RestartStep ==
  ASSUME TypeOK, Restart
  PROVE  TypeOK' /\ Reload
<1>1. resp' \in Responses
  BY SwTyped DEF Restart, Words
<1>2. verified' \in [Conditions -> BOOLEAN] /\ validMulti' \in BOOLEAN
  BY DEF Restart
<1>3. QED
  BY <1>1, <1>2, FactoryTyped, BoundsAssumption DEF Restart, TypeOK, Reload, history

-----------------------------------------------------------------------------
(* The theorems. *)

\* Every step keeps the type and is quiet, saving, a failed import or a reload.
LEMMA StepEffect ==
  ASSUME TypeOK, [Next]_vars
  PROVE  TypeOK' /\ (Quiet \/ Saving \/ HalfImport \/ Reload)
<1>1. CASE UNCHANGED vars
  BY <1>1 DEF vars, store, session, history, TypeOK, Quiet
<1>2. CASE \E c \in Conditions : VerifyStatus(c)
  BY <1>2, VerifyStatusStep
<1>3. CASE \E c \in Conditions, s \in Secrets : Verify(c, s)
  BY <1>3, VerifyStep
<1>4. CASE \E r \in Refs, old, new \in Secrets : ChangeReferenceData(r, old, new)
  BY <1>4, ChangeStep
<1>5. CASE \E code, new \in Secrets : ResetRetryCounterWithRC(code, new)
  BY <1>5, ResetWithRCStep
<1>6. CASE \E new \in Secrets : ResetRetryCounterWithPW3(new)
  BY <1>6, ResetWithPW3Step
<1>7. CASE \E o \in Objects, v \in Values : PutObject(o, v)
  BY <1>7, PutObjectStep
<1>8. CASE \E s \in Secrets : PutResetCode(s)
  BY <1>8, PutResetCodeStep
<1>9. CASE \E b \in BOOLEAN : PutPWStatus(b)
  BY <1>9, PutPWStatusStep
<1>10. CASE (\E k \in Slots, a \in Algs : PutAlgorithm(k, a))
            \/ (\E k \in Slots, b \in BOOLEAN : PutFingerprint(k, b))
  BY <1>10, PutSlotStep
<1>11. CASE \E k \in Slots, kid \in KeyIds : ImportKey(k, kid) \/ GenerateKey(k, kid)
  BY <1>11, ImportKeyStep, GenerateKeyStep
<1>12. CASE PsoSign \/ InternalAuthenticate \/ (\E i \in {"RSA", "ECDH"} : PsoDecipher(i))
            \/ (\E k \in Slots : ReadPublicKey(k))
  BY <1>12, KeyUseStep
<1>13. CASE Terminate
  BY <1>13, TerminateStep
<1>14. CASE Activate
  BY <1>14, ActivateStep
<1>15. CASE GetData \/ GetChallenge \/ RefuseTerminated \/ RefuseMalformed
  <2>1. \E w \in Words : Answer(w)
    BY <1>15 DEF GetData, GetChallenge, RefuseTerminated, RefuseMalformed, Words
  <2>2. QED
    BY <2>1, AnswerStep
<1>16. CASE Reset
  BY <1>16, ResetStep
<1>17. CASE Restart
  BY <1>17, RestartStep
<1>18. QED
  BY <1>1, <1>2, <1>3, <1>4, <1>5, <1>6, <1>7, <1>8, <1>9, <1>10, <1>11, <1>12,
     <1>13, <1>14, <1>15, <1>16, <1>17 DEF Next

\* The initial state is typed.
LEMMA InitTyped == Init => TypeOK
<1> SUFFICES ASSUME Init PROVE TypeOK
  OBVIOUS
<1>1. resp \in Responses
  BY SwTyped DEF Init, Words
<1>2. /\ verified \in [Conditions -> BOOLEAN] /\ guesses \in [Refs -> Nat]
      /\ made \in 0..(CounterMax + 1) /\ faults \in 0..MaxFaults
      /\ halfImport \in SUBSET Slots /\ validMulti \in BOOLEAN
  BY BoundsAssumption DEF Init
<1>3. QED
  BY <1>1, <1>2, FactoryTyped DEF Init, TypeOK

\* Type correctness: no handler of the applet, for any secrets, keys, objects
\* and limits, leaves a field outside its range (retry counters and lengths
\* in particular).
THEOREM TypeCorrect == Spec => []TypeOK
<1>1. TypeOK /\ [Next]_vars => TypeOK'
  BY StepEffect
<1>2. QED
  BY <1>1, InitTyped, PTL DEF Spec

\* Durability: while saves succeed, the file holds the state in memory at
\* every answer, but for a slot that a failed import left behind.
THEOREM Durability == Spec => []AnsweredIsDurable
<1>1. Init => AnsweredIsDurable
  BY DEF Init, AnsweredIsDurable
<1>2. ASSUME TypeOK, AnsweredIsDurable, [Next]_vars
      PROVE  AnsweredIsDurable'
  <2>1. faults \in Nat
    BY <1>2, BoundsAssumption DEF TypeOK
  <2>2. Quiet \/ Saving \/ HalfImport \/ Reload
    BY <1>2, StepEffect
  <2>3. CASE Quiet
    BY <1>2, <2>3 DEF Quiet, AnsweredIsDurable
  <2>4. CASE Saving
    BY <1>2, <2>1, <2>4, SaveTyped DEF Saving, AnsweredIsDurable
  <2>5. CASE HalfImport
    BY <2>5 DEF HalfImport, AnsweredIsDurable
  <2>6. CASE Reload
    BY <2>1, <2>6 DEF Reload, AnsweredIsDurable
  <2>7. QED
    BY <2>2, <2>3, <2>4, <2>5, <2>6
<1>3. QED
  BY <1>1, <1>2, TypeCorrect, PTL DEF Spec

(***************************************************************************)
(* The try limit.  RetryBudget is not inductive: a restart replaces the    *)
(* counters in memory by those of the file, so the file has to keep within *)
(* the budget too, and without a failed save it has to agree with memory.  *)
(***************************************************************************)
Budget(f) == MaxRetries * (f + 1)

Within(c) == \A r \in Refs : guesses[r] + c.pin[r].retries <= Budget(faults)

Exact == \A r \in {"PW1", "PW3"} : guesses[r] + card.pin[r].retries = MaxRetries

RetryInv ==
  /\ Within(card) /\ Within(stored)
  /\ faults = 0 => stored.pin = card.pin /\ Exact

\* A failed save adds one full set of tries to the budget.
LEMMA BudgetGrows ==
  ASSUME NEW f \in Nat
  PROVE  /\ Budget(f) \in Nat /\ Budget(f + 1) = Budget(f) + MaxRetries
         /\ MaxRetries <= Budget(f) /\ Budget(0) = MaxRetries
<1>1. MaxRetries \in Nat
  BY RetriesAssumption
<1>2. MaxRetries * (f + 1) = MaxRetries * f + MaxRetries /\ MaxRetries * f \in Nat
  BY <1>1
<1>3. MaxRetries * ((f + 1) + 1) = MaxRetries * (f + 1) + MaxRetries
  BY <1>1
<1>4. QED
  BY <1>1, <1>2, <1>3 DEF Budget

\* Factory tries.
LEMMA FactoryTries ==
  /\ \A r \in Refs : FactoryPin[r].retries \in 0..MaxRetries
  /\ FactoryPin["PW1"].retries = MaxRetries /\ FactoryPin["PW3"].retries = MaxRetries
BY RetriesAssumption DEF FactoryPin, Refs

\* A saving step keeps the budget.
LEMMA SavingKeepsBudget ==
  ASSUME TypeOK, TypeOK', RetryInv, Saving
  PROVE  RetryInv'
<1>1. /\ faults \in Nat /\ guesses \in [Refs -> Nat] /\ guesses' \in [Refs -> Nat]
      /\ MaxRetries \in Nat
  BY BoundsAssumption, RetriesAssumption DEF TypeOK
<1>2. \A r \in Refs : /\ card.pin[r].retries \in 0..MaxRetries
                      /\ stored.pin[r].retries \in 0..MaxRetries
                      /\ card'.pin[r].retries \in 0..MaxRetries
  BY DEF TypeOK, CardStates, PinEntry
<1>3. Budget(faults) \in Nat /\ MaxRetries <= Budget(faults)
      /\ Budget(faults + 1) = Budget(faults) + MaxRetries
  BY <1>1, BudgetGrows
<1>4. \A r \in Refs : guesses'[r] + card'.pin[r].retries <= Budget(faults)
  <2> SUFFICES ASSUME NEW r \in Refs
               PROVE  guesses'[r] + card'.pin[r].retries <= Budget(faults)
    OBVIOUS
  <2>1. guesses[r] + card.pin[r].retries <= Budget(faults)
    BY DEF RetryInv, Within
  <2>2. Charge(r)
    BY DEF Saving
  <2>3. QED
    BY <1>1, <1>2, <1>3, <2>1, <2>2, FactoryTries DEF Charge
<1>5. CASE stored' = card' /\ faults' = faults
  <2>1. Within(card)' /\ Within(stored)'
    BY <1>4, <1>5 DEF Within
  <2>2. ASSUME faults = 0, NEW r \in {"PW1", "PW3"}
        PROVE  guesses'[r] + card'.pin[r].retries = MaxRetries
    <3>1. r \in Refs /\ guesses[r] + card.pin[r].retries = MaxRetries
      BY <2>2 DEF RetryInv, Exact, Refs
    <3>2. Charge(r)
      BY <3>1 DEF Saving
    <3>3. FactoryPin[r].retries = MaxRetries
      BY <2>2, FactoryTries
    <3>4. QED
      BY <1>1, <1>2, <3>1, <3>2, <3>3 DEF Charge
  <2>3. QED
    BY <1>5, <2>1, <2>2 DEF RetryInv, Exact
<1>6. CASE stored' \in {stored, FactoryState} /\ faults' = faults + 1
  <2>1. faults' # 0 /\ Budget(faults)' = Budget(faults) + MaxRetries
    BY <1>1, <1>3, <1>6 DEF Budget
  <2>2. \A r \in Refs : guesses'[r] <= Budget(faults)
    BY <1>1, <1>2, <1>3, <1>4
  <2>3. \A r \in Refs : stored'.pin[r].retries \in 0..MaxRetries
    BY <1>2, <1>6, FactoryTries, FactoryTyped
  <2>4. Within(stored)'
    BY <1>1, <1>3, <2>1, <2>2, <2>3 DEF Within
  <2>5. Within(card)'
    BY <1>1, <1>2, <1>3, <2>1, <2>2 DEF Within
  <2>6. QED
    BY <2>1, <2>4, <2>5 DEF RetryInv
<1>7. QED
  BY <1>5, <1>6, SaveTyped DEF Saving

\* A restart keeps the budget.
LEMMA ReloadKeepsBudget ==
  ASSUME TypeOK, RetryInv, Reload
  PROVE  RetryInv'
<1>1. CASE card' = stored /\ faults' = faults
  BY <1>1 DEF Reload, RetryInv, Within, Exact, Budget
<1>2. CASE card' = FactoryState /\ faults' = faults + 1
  <2>1. /\ faults \in Nat /\ guesses \in [Refs -> Nat] /\ MaxRetries \in Nat
        /\ \A r \in Refs : stored.pin[r].retries \in 0..MaxRetries
    BY BoundsAssumption, RetriesAssumption DEF TypeOK, CardStates, PinEntry
  <2>2. /\ Budget(faults) \in Nat /\ faults' # 0
        /\ Budget(faults)' = Budget(faults) + MaxRetries
    BY <1>2, <2>1, BudgetGrows DEF Budget
  <2>3. \A r \in Refs : guesses[r] + stored.pin[r].retries <= Budget(faults)
    BY DEF RetryInv, Within
  <2>4. \A r \in Refs : card'.pin[r].retries \in 0..MaxRetries
    BY <1>2, FactoryTries, FactoryTyped
  <2>5. Within(stored)'
    BY <2>1, <2>2, <2>3 DEF Reload, Within
  <2>6. Within(card)'
    BY <2>1, <2>2, <2>3, <2>4 DEF Reload, Within
  <2>7. QED
    BY <2>2, <2>5, <2>6 DEF RetryInv
<1>3. QED
  BY <1>1, <1>2 DEF Reload

LEMMA RetryInvariant == Spec => []RetryInv
<1>1. Init => RetryInv
  <2> SUFFICES ASSUME Init PROVE RetryInv
    OBVIOUS
  <2>1. /\ card.pin = FactoryPin /\ stored.pin = FactoryPin /\ faults = 0
        /\ \A r \in Refs : guesses[r] = 0
    BY FactoryTyped DEF Init
  <2>2. Budget(faults) = MaxRetries
    BY <2>1, BudgetGrows
  <2>3. QED
    BY <2>1, <2>2, FactoryTries, RetriesAssumption DEF RetryInv, Within, Exact, Refs
<1>2. ASSUME TypeOK, RetryInv, [Next]_vars
      PROVE  RetryInv'
  <2>1. TypeOK' /\ (Quiet \/ Saving \/ HalfImport \/ Reload)
    BY <1>2, StepEffect
  <2>2. CASE Quiet
    BY <1>2, <2>2 DEF Quiet, RetryInv, Within, Exact, Budget
  <2>3. CASE Saving
    BY <1>2, <2>1, <2>3, SavingKeepsBudget
  <2>4. CASE HalfImport
    BY <1>2, <2>4 DEF HalfImport, RetryInv, Within, Exact, Budget
  <2>5. CASE Reload
    BY <1>2, <2>1, <2>5, ReloadKeepsBudget
  <2>6. QED
    BY <2>1, <2>2, <2>3, <2>4, <2>5
<1>3. QED
  BY <1>1, <1>2, TypeCorrect, PTL DEF Spec

\* PIN try limit, for every limit, every set of secrets and any number of
\* failing saves: no interleaving of the four PIN commands with resets and
\* restarts yields a try that is not charged.
THEOREM TryLimit == Spec => []RetryBudget
<1>1. RetryInv => RetryBudget
  BY DEF RetryInv, Within, Exact, RetryBudget, Budget
<1>2. QED
  BY <1>1, RetryInvariant, PTL

-----------------------------------------------------------------------------
(***************************************************************************)
(* What a step does to the rest of the card.  A step leaves it as it is,   *)
(* edits it, returns it to the factory state or loads it; an edit keeps    *)
(* the rules below, one for each thing that a property is about.           *)
(***************************************************************************)

\* The entry of r: the secret stays and a blocked one stays blocked, or a
\* secret of a right length replaces PW1 or PW3, by who may do so, or the
\* administrator changes the reset code.
PinRule(r) ==
  \/ /\ card'.pin[r].secret = card.pin[r].secret /\ card'.pin[r].length = card.pin[r].length
     /\ card.pin[r].retries = 0 => card'.pin[r].retries = 0
  \/ /\ r # "RC"
     /\ \E s \in Secrets : card'.pin[r] = Refilled(s) /\ LengthOK(r, s)
     /\ \/ card.pin[r].retries > 0
        \/ r = "PW1" /\ verified["PW3"]
        \/ r = "PW1" /\ card.pin["RC"].retries > 0 /\ card.pin["RC"].secret # NoSecret
  \/ r = "RC" /\ verified["PW3"]

\* A slot that is not marked half imported holds a pair made together, or the
\* keys it had.
SlotRule ==
  \A k \in Slots \ halfImport' :
    \/ card'.slot[k].priv = card'.slot[k].pub
    \/ /\ k \notin halfImport
       /\ card'.slot[k].priv = card.slot[k].priv /\ card'.slot[k].pub = card.slot[k].pub

\* A signature is counted once, here and in the history.
CountRule ==
  \/ card'.sigs = card.sigs /\ made' = made
  \/ /\ card'.sigs = IF card.sigs = CounterMax THEN card.sigs ELSE card.sigs + 1
     /\ made' = IF made > CounterMax THEN made ELSE made + 1

\* Slots, policy and objects change for the one who may change them.
AuthorityRule ==
  /\ \/ verified["PW3"]
     \/ /\ card'.slot = card.slot /\ card'.multi = card.multi
        /\ \A o \in AdminObjects : card'.obj[o] = card.obj[o]
  /\ \/ verified["PW1_81"] \/ verified["PW1_82"]
     \/ \A o \in UserObjects : card'.obj[o] = card.obj[o]

\* An edit is saved; only a failed import is not, which touches one slot.
SaveRule ==
  \/ Save
  \/ /\ stored' = stored /\ faults' = faults
     /\ halfImport' # {} /\ halfImport \subseteq halfImport'
     /\ card'.pin = card.pin /\ card'.sigs = card.sigs /\ made' = made /\ ~card'.terminated

Edit ==
  /\ ~card.terminated /\ card' \in CardStates
  /\ \A r \in Refs : PinRule(r)
  /\ SlotRule /\ CountRule /\ AuthorityRule /\ SaveRule

Still == UNCHANGED <<card, stored, faults, made, halfImport>>

Activated == card' = FactoryState /\ Save /\ made' = 0 /\ halfImport' = {}

Restarted ==
  /\ stored' = stored /\ made' = made /\ halfImport' = halfImport
  /\ \/ card' = stored /\ faults' = faults
     \/ card' = FactoryState /\ faults' = faults + 1

LEMMA AnswerStill == ASSUME NEW w, Answer(w) PROVE Still
BY DEF Answer, Still, store, history

\* An edit of one PIN entry.
LEMMA PinEdit ==
  ASSUME TypeOK, Operational, NEW r \in Refs, NEW e \in PinEntry, card' = WithPin(card, r, e), Save,
         made' = made, halfImport' = halfImport,
         \/ /\ e.secret = card.pin[r].secret /\ e.length = card.pin[r].length
            /\ card.pin[r].retries = 0 => e.retries = 0
         \/ /\ r # "RC" /\ (\E s \in Secrets : e = Refilled(s) /\ LengthOK(r, s))
            /\ card.pin[r].retries > 0 \/ (r = "PW1" /\ verified["PW3"])
         \/ r = "RC" /\ verified["PW3"]
  PROVE  Edit
<1>1. card \in CardStates /\ card.pin \in [Refs -> PinEntry] /\ ~card.terminated
  BY DEF TypeOK, CardStates, Operational
<1>2. /\ card' \in CardStates /\ card'.pin = [card.pin EXCEPT ![r] = e]
      /\ card'.slot = card.slot /\ card'.multi = card.multi /\ card'.obj = card.obj
      /\ card'.sigs = card.sigs
  BY <1>1, WithPinTyped
<1>3. card'.pin[r] = e /\ \A q \in Refs : q # r => card'.pin[q] = card.pin[q]
  BY <1>1, <1>2
<1>4. \A q \in Refs : PinRule(q)
  <2> SUFFICES ASSUME NEW q \in Refs PROVE PinRule(q)
    OBVIOUS
  <2>1. CASE q # r
    BY <1>3, <2>1 DEF PinRule
  <2>2. CASE q = r
    BY <1>3, <2>2 DEF PinRule
  <2>3. QED
    BY <2>1, <2>2
<1>5. SlotRule /\ CountRule /\ AuthorityRule /\ SaveRule
  BY <1>2 DEF SlotRule, CountRule, AuthorityRule, SaveRule
<1>6. QED
  BY <1>1, <1>2, <1>4, <1>5 DEF Edit

\* An edit by PUT DATA of anything but the PINs.
LEMMA PutEdit ==
  ASSUME TypeOK, Operational, NEW c \in CardStates, Put(c), c.pin = card.pin, c.sigs = card.sigs,
         SlotRule, AuthorityRule
  PROVE  Edit
<1>1. card' = c /\ Save /\ made' = made /\ ~card.terminated
  BY DEF Put, Operational
<1>2. \A r \in Refs : PinRule(r)
  BY <1>1 DEF PinRule
<1>3. CountRule /\ SaveRule
  BY <1>1 DEF CountRule, SaveRule
<1>4. QED
  BY <1>1, <1>2, <1>3 DEF Edit

LEMMA SameSlots == ASSUME card'.slot = card.slot, halfImport' = halfImport PROVE SlotRule
BY DEF SlotRule

LEMMA VerifyEdits ==
  ASSUME TypeOK, NEW c \in Conditions, NEW data \in Secrets, Verify(c, data)
  PROVE  Edit
<1> DEFINE r == RefOf(c)
           e == card.pin[r]
           s == Strip[data]
<1>1. r \in Refs /\ s \in Secrets /\ Operational
  BY SecretsAssumption DEF RefOf, Refs, Verify
<1>2. e \in PinEntry
  BY <1>1 DEF TypeOK, CardStates
<1>3. /\ AfterAttempt(r, e, s) \in PinEntry
      /\ AfterAttempt(r, e, s).secret = e.secret /\ AfterAttempt(r, e, s).length = e.length
      /\ e.retries = 0 => AfterAttempt(r, e, s).retries = 0
  BY <1>1, <1>2, AttemptTyped DEF Matches
<1>4. /\ card' = WithPin(card, r, AfterAttempt(r, e, s))
      /\ Save /\ made' = made /\ halfImport' = halfImport
  BY DEF Verify
<1>5. QED
  BY <1>1, <1>3, <1>4, PinEdit

LEMMA ChangeEdits ==
  ASSUME TypeOK, NEW r \in Refs, NEW old \in Secrets, NEW new \in Secrets,
         ChangeReferenceData(r, old, new)
  PROVE  Edit
<1> DEFINE e == card.pin[r]
           n == ChangePin(r, e, old, new)
<1>1. e \in PinEntry
  BY DEF TypeOK, CardStates
<1>2. /\ card' = WithPin(card, r, n) /\ Save /\ made' = made /\ halfImport' = halfImport
      /\ Operational /\ r # "RC"
  BY DEF ChangeReferenceData
<1>3. CASE Changes(r, e, old, new)
  <2>1. n = Refilled(new) /\ LengthOK(r, new) /\ e.retries > 0
    BY <1>3 DEF ChangePin, Changes, Matches
  <2>2. n \in PinEntry
    BY <2>1, RefilledTyped
  <2> HIDE DEF n
  <2>3. QED
    BY <1>2, <2>1, <2>2, PinEdit
<1>4. CASE ~Changes(r, e, old, new)
  <2>1. n = AfterAttempt(r, e, old)
    BY <1>4 DEF ChangePin
  <2>2. /\ n \in PinEntry /\ n.secret = e.secret /\ n.length = e.length
        /\ e.retries = 0 => n.retries = 0
    BY <1>1, <2>1, AttemptTyped DEF Matches
  <2> HIDE DEF n
  <2>3. QED
    BY <1>2, <2>2, PinEdit
<1>5. QED
  BY <1>3, <1>4

LEMMA ResetWithRCEdits ==
  ASSUME TypeOK, NEW code \in Secrets, NEW new \in Secrets, ResetRetryCounterWithRC(code, new)
  PROVE  Edit
<1> DEFINE e == card.pin["RC"]
           a == AfterAttempt("RC", e, code)
           ok == Matches("RC", e, code) /\ LengthOK("PW1", new)
           tried == WithPin(card, "RC", a)
<1>1. /\ "RC" \in Refs /\ "PW1" \in Refs /\ card \in CardStates
      /\ card.pin \in [Refs -> PinEntry]
  BY DEF Refs, TypeOK, CardStates
<1>2. /\ e \in PinEntry /\ a \in PinEntry /\ a.secret = e.secret /\ a.length = e.length
      /\ e.retries = 0 => a.retries = 0
  <2>1. e \in PinEntry
    BY <1>1
  <2>2. e.retries = 0 => ~Matches("RC", e, code)
    BY DEF Matches
  <2>3. QED
    BY <1>1, <2>1, <2>2, AttemptTyped
<1>3. Save /\ made' = made /\ halfImport' = halfImport /\ Operational
  BY DEF ResetRetryCounterWithRC
<1>4. CASE card' = card
  <2>1. \A r \in Refs : PinRule(r)
    BY <1>4 DEF PinRule
  <2>2. QED
    BY <1>1, <1>3, <1>4, <2>1 DEF Edit, Operational, SlotRule, CountRule, AuthorityRule, SaveRule
<1>5. CASE e.secret # NoSecret /\ ok /\ card' = WithPin(tried, "PW1", Refilled(new))
  <2>1. /\ tried \in CardStates /\ tried.pin = [card.pin EXCEPT !["RC"] = a]
        /\ tried.slot = card.slot /\ tried.multi = card.multi /\ tried.obj = card.obj
        /\ tried.sigs = card.sigs
    BY <1>1, <1>2, WithPinTyped
  <2> HIDE DEF tried
  <2>2. /\ card' \in CardStates /\ card'.pin = [tried.pin EXCEPT !["PW1"] = Refilled(new)]
        /\ card'.slot = card.slot /\ card'.multi = card.multi /\ card'.obj = card.obj
        /\ card'.sigs = card.sigs
    BY <1>1, <1>5, <2>1, WithPinTyped, RefilledTyped, SMTT(30)
  <2>3. /\ card'.pin["RC"] = a /\ card'.pin["PW1"] = Refilled(new)
        /\ card'.pin["PW3"] = card.pin["PW3"]
    BY <1>1, <2>1, <2>2 DEF Refs
  <2>4. e.retries > 0 /\ LengthOK("PW1", new)
    BY <1>5 DEF Matches
  <2>5. PinRule("RC") /\ PinRule("PW1") /\ PinRule("PW3")
    <3> HIDE DEF a
    <3>1. PinRule("RC")
      BY <1>2, <2>3 DEF PinRule
    <3>2. PinRule("PW1")
      BY <1>5, <2>3, <2>4 DEF PinRule
    <3>3. PinRule("PW3")
      BY <2>3 DEF PinRule
    <3>4. QED
      BY <3>1, <3>2, <3>3
  <2>6. SlotRule /\ CountRule /\ AuthorityRule /\ SaveRule
    BY <1>3, <2>2 DEF SlotRule, CountRule, AuthorityRule, SaveRule
  <2>7. QED
    BY <1>3, <2>2, <2>5, <2>6 DEF Edit, Operational, Refs
<1>6. CASE card' = tried
  BY <1>1, <1>2, <1>3, <1>6, PinEdit
<1>7. QED
  BY <1>4, <1>5, <1>6 DEF ResetRetryCounterWithRC

LEMMA ResetWithPW3Edits ==
  ASSUME TypeOK, NEW new \in Secrets, ResetRetryCounterWithPW3(new)
  PROVE  Still \/ Edit
<1>1. CASE Answer("6982") \/ Answer("6A80")
  BY <1>1, AnswerStill
<1>2. CASE /\ verified["PW3"] /\ LengthOK("PW1", new)
           /\ card' = WithPin(card, "PW1", Refilled(new))
           /\ Save /\ UNCHANGED <<session, made, halfImport>>
  <2>1. Operational /\ "PW1" \in Refs /\ Refilled(new) \in PinEntry
    BY RefilledTyped DEF ResetRetryCounterWithPW3, Refs
  <2>2. QED
    BY <1>2, <2>1, PinEdit
<1>3. QED
  BY <1>1, <1>2 DEF ResetRetryCounterWithPW3

LEMMA PutResetCodeEdits ==
  ASSUME TypeOK, NEW s \in Secrets, PutResetCode(s)
  PROVE  Still \/ Edit
<1> DEFINE e == card.pin["RC"]
           d == [e EXCEPT !.secret = NoSecret]
           cleared == [e EXCEPT !.secret = NoSecret, !.length = 0]
<1>1. "RC" \in Refs /\ e \in PinEntry /\ Operational
  BY DEF Refs, TypeOK, CardStates, PutResetCode
<1>2. cleared \in PinEntry
  <2>1. d \in PinEntry
    BY <1>1 DEF PinEntry
  <2>2. cleared = [d EXCEPT !.length = 0]
    OBVIOUS
  <2> HIDE DEF d, cleared
  <2>3. QED
    BY <2>1, <2>2 DEF PinEntry
<1>3. CASE Answer("6982") \/ Answer("6700")
  BY <1>3, AnswerStill
<1>4. ASSUME NEW n \in PinEntry, verified["PW3"], Put(WithPin(card, "RC", n)), UNCHANGED halfImport
      PROVE  Edit
  BY <1>1, <1>4, PinEdit DEF Put
<1>5. Refilled(s) \in PinEntry
  BY RefilledTyped
<1>6. \/ Answer("6982") \/ Answer("6700")
      \/ verified["PW3"] /\ Put(WithPin(card, "RC", cleared)) /\ UNCHANGED halfImport
      \/ verified["PW3"] /\ Put(WithPin(card, "RC", Refilled(s))) /\ UNCHANGED halfImport
  BY DEF PutResetCode
<1> HIDE DEF cleared
<1>7. QED
  BY <1>2, <1>3, <1>4, <1>5, <1>6

LEMMA PutObjectEdits ==
  ASSUME TypeOK, NEW o \in Objects, NEW v \in Values, PutObject(o, v)
  PROVE  Still \/ Edit
<1> DEFINE c == [card EXCEPT !.obj = [card.obj EXCEPT ![o] = v]]
<1>1. /\ c \in CardStates /\ c.pin = card.pin /\ c.sigs = card.sigs
      /\ c.slot = card.slot /\ c.multi = card.multi
      /\ \A x \in Objects : x # o => c.obj[x] = card.obj[x]
  BY DEF TypeOK, CardStates
<1>2. CASE Answer("6982")
  BY <1>2, AnswerStill
<1>3. CASE MayPut(o) /\ Put(c) /\ UNCHANGED <<guesses, halfImport>>
  <2>1. card' = c
    BY <1>3 DEF Put
  <2> HIDE DEF c
  <2>2. SlotRule
    BY <1>1, <1>3, <2>1, SameSlots
  <2>3. AuthorityRule
    <3>1. CASE o \in UserObjects
      BY <1>1, <1>3, <2>1, <3>1, ObjectsAssumption DEF MayPut, AuthorityRule, Objects
    <3>2. CASE o \notin UserObjects
      BY <1>1, <1>3, <2>1, <3>2 DEF MayPut, AuthorityRule, Objects
    <3>3. QED
      BY <3>1, <3>2
  <2>4. QED
    BY <1>1, <1>3, <2>2, <2>3, PutEdit DEF PutObject
<1>4. QED
  BY <1>2, <1>3 DEF PutObject

LEMMA PutPWStatusEdits ==
  ASSUME TypeOK, NEW b \in BOOLEAN, PutPWStatus(b)
  PROVE  Still \/ Edit
<1> DEFINE c == [card EXCEPT !.multi = b]
<1>1. /\ c \in CardStates /\ c.pin = card.pin /\ c.sigs = card.sigs
      /\ c.slot = card.slot /\ c.obj = card.obj
  BY DEF TypeOK, CardStates
<1>2. CASE Answer("6982")
  BY <1>2, AnswerStill
<1>3. CASE verified["PW3"] /\ Put(c) /\ UNCHANGED <<guesses, halfImport>>
  <2>1. card' = c
    BY <1>3 DEF Put
  <2> HIDE DEF c
  <2>2. SlotRule
    BY <1>1, <1>3, <2>1, SameSlots
  <2>3. AuthorityRule
    BY <1>1, <1>3, <2>1 DEF AuthorityRule
  <2>4. QED
    BY <1>1, <1>3, <2>2, <2>3, PutEdit DEF PutPWStatus
<1>4. QED
  BY <1>2, <1>3 DEF PutPWStatus

\* An edit of one slot by the administrator.
LEMMA SlotEdit ==
  ASSUME TypeOK, Operational, verified["PW3"], NEW k \in Slots, NEW s \in KeySlot,
         Put(WithSlot(card, k, s)),
         \/ halfImport' = halfImport /\ s.priv = card.slot[k].priv /\ s.pub = card.slot[k].pub
         \/ halfImport' = halfImport \ {k} /\ s.priv = s.pub
  PROVE  Edit
<1> DEFINE c == WithSlot(card, k, s)
<1>1. card \in CardStates /\ card.slot \in [Slots -> KeySlot]
  BY DEF TypeOK, CardStates
<1>2. /\ c \in CardStates /\ c.pin = card.pin /\ c.sigs = card.sigs
      /\ c.multi = card.multi /\ c.obj = card.obj
      /\ c.slot = [card.slot EXCEPT ![k] = s]
  BY <1>1, WithSlotTyped
<1>3. card' = c
  BY DEF Put
<1> HIDE DEF c
<1>4. \A q \in Slots : card'.slot[q] = IF q = k THEN s ELSE card.slot[q]
  BY <1>1, <1>2, <1>3
<1>5. SlotRule
  BY <1>4 DEF SlotRule
<1>6. AuthorityRule
  BY <1>2, <1>3 DEF AuthorityRule
<1>7. QED
  BY <1>2, <1>5, <1>6, PutEdit DEF c

LEMMA PutSlotEdits ==
  ASSUME TypeOK, NEW k \in Slots,
         \/ \E a \in Algs : PutAlgorithm(k, a)
         \/ \E b \in BOOLEAN : PutFingerprint(k, b)
  PROVE  Still \/ Edit
<1>1. card.slot[k] \in KeySlot
  BY DEF TypeOK, CardStates
<1>2. CASE Answer("6982")
  BY <1>2, AnswerStill
<1>3. ASSUME NEW s \in KeySlot, Put(WithSlot(card, k, s)), UNCHANGED halfImport, Operational,
             verified["PW3"], s.priv = card.slot[k].priv, s.pub = card.slot[k].pub
      PROVE  Edit
  BY <1>3, SlotEdit
<1>4. CASE \E a \in Algs : PutAlgorithm(k, a)
  <2>1. PICK a \in Algs : PutAlgorithm(k, a)
    BY <1>4
  <2> DEFINE s == [card.slot[k] EXCEPT !.alg = a]
  <2>2. s \in KeySlot /\ s.priv = card.slot[k].priv /\ s.pub = card.slot[k].pub
    BY <1>1 DEF KeySlot
  <2>3. \/ Answer("6982")
        \/ Put(WithSlot(card, k, s)) /\ UNCHANGED halfImport /\ Operational /\ verified["PW3"]
    BY <2>1 DEF PutAlgorithm
  <2> HIDE DEF s
  <2>4. QED
    BY <1>2, <1>3, <2>2, <2>3
<1>5. CASE \E b \in BOOLEAN : PutFingerprint(k, b)
  <2>1. PICK b \in BOOLEAN : PutFingerprint(k, b)
    BY <1>5
  <2> DEFINE s == [card.slot[k] EXCEPT !.fingerprint = b]
  <2>2. s \in KeySlot /\ s.priv = card.slot[k].priv /\ s.pub = card.slot[k].pub
    BY <1>1 DEF KeySlot
  <2>3. \/ Answer("6982")
        \/ Put(WithSlot(card, k, s)) /\ UNCHANGED halfImport /\ Operational /\ verified["PW3"]
    BY <2>1 DEF PutFingerprint
  <2> HIDE DEF s
  <2>4. QED
    BY <1>2, <1>3, <2>2, <2>3
<1>6. QED
  BY <1>4, <1>5

\* A pair set as a whole.
LEMMA PairSet ==
  ASSUME NEW s \in KeySlot, NEW key \in KeyData
  PROVE  LET n == [s EXCEPT !.priv = key, !.pub = key]
         IN  n \in KeySlot /\ n.priv = n.pub
<1> DEFINE h == [s EXCEPT !.priv = key]
           n == [s EXCEPT !.priv = key, !.pub = key]
<1>1. h \in KeySlot /\ h.priv = key
  BY DEF KeySlot
<1>2. n = [h EXCEPT !.pub = key]
  OBVIOUS
<1> HIDE DEF h, n
<1>3. n \in KeySlot /\ n.priv = key /\ n.pub = key
  BY <1>1, <1>2 DEF KeySlot
<1>4. QED
  BY <1>3 DEF n

LEMMA ImportKeyEdits ==
  ASSUME TypeOK, NEW k \in Slots, NEW kid \in KeyIds, ImportKey(k, kid)
  PROVE  Still \/ Edit
<1> DEFINE s == card.slot[k]
           key == [kid |-> kid, alg |-> s.alg]
           half == [s EXCEPT !.priv = key]
           full == [s EXCEPT !.priv = key, !.pub = key]
<1>1. card \in CardStates /\ s \in KeySlot /\ halfImport \subseteq Slots /\ Operational
  BY DEF TypeOK, CardStates, ImportKey
<1>2. key \in KeyData
  BY <1>1 DEF KeySlot, KeyData
<1>3. half \in KeySlot
  BY <1>1, <1>2 DEF KeySlot
<1>4. full \in KeySlot /\ full.priv = full.pub
  BY <1>1, <1>2, PairSet
<1>5. CASE Answer("6982") \/ Answer("6A80")
  BY <1>5, AnswerStill
<1>6. CASE verified["PW3"] /\ Put(WithSlot(card, k, full)) /\ halfImport' = halfImport \ {k}
  <2> HIDE DEF full
  <2>1. QED
    BY <1>1, <1>4, <1>6, SlotEdit
<1>7. CASE /\ verified["PW3"] /\ card' = WithSlot(card, k, half)
           /\ halfImport' = halfImport \cup {k} /\ UNCHANGED <<store, session, guesses, made>>
  <2> HIDE DEF half
  <2>1. /\ card' \in CardStates /\ card'.pin = card.pin /\ card'.sigs = card.sigs
        /\ card'.multi = card.multi /\ card'.obj = card.obj /\ card'.terminated = card.terminated
        /\ card'.slot = [card.slot EXCEPT ![k] = half]
    BY <1>1, <1>3, <1>7, WithSlotTyped
  <2>2. SlotRule
    <3>1. \A q \in Slots : q # k => card'.slot[q] = card.slot[q]
      BY <2>1
    <3>2. QED
      BY <1>7, <3>1 DEF SlotRule
  <2>3. \A r \in Refs : PinRule(r)
    BY <2>1 DEF PinRule
  <2>4. CountRule /\ AuthorityRule /\ SaveRule
    BY <1>1, <1>7, <2>1 DEF CountRule, AuthorityRule, SaveRule, store, Operational
  <2>5. QED
    BY <1>1, <2>1, <2>2, <2>3, <2>4 DEF Edit, Operational
<1>8. QED
  BY <1>5, <1>6, <1>7 DEF ImportKey

LEMMA GenerateKeyEdits ==
  ASSUME TypeOK, NEW k \in Slots, NEW kid \in KeyIds, GenerateKey(k, kid)
  PROVE  Still \/ Edit
<1> DEFINE s == card.slot[k]
           key == [kid |-> kid, alg |-> s.alg]
           f == [s EXCEPT !.fingerprint = TRUE]
           new == [s EXCEPT !.fingerprint = TRUE, !.priv = key, !.pub = key]
<1>1. s \in KeySlot /\ Operational
  BY DEF TypeOK, CardStates, GenerateKey
<1>2. key \in KeyData
  BY <1>1 DEF KeySlot, KeyData
<1>3. f \in KeySlot
  BY <1>1 DEF KeySlot
<1>4. new = [f EXCEPT !.priv = key, !.pub = key]
  OBVIOUS
<1>5. new \in KeySlot /\ new.priv = new.pub
  <2> HIDE DEF f, key, new
  <2>1. QED
    BY <1>2, <1>3, <1>4, PairSet
<1>6. CASE Answer("6982") \/ Answer("6A81") \/ Answer("6400")
  BY <1>6, AnswerStill
<1>7. CASE verified["PW3"] /\ Put(WithSlot(card, k, new)) /\ halfImport' = halfImport \ {k}
  <2> HIDE DEF new
  <2>1. QED
    BY <1>1, <1>5, <1>7, SlotEdit
<1>8. QED
  BY <1>6, <1>7 DEF GenerateKey

LEMMA SignEdits ==
  ASSUME TypeOK, Operational, SignSucceeds
  PROVE  Edit
<1> DEFINE n == IF card.sigs = CounterMax THEN card.sigs ELSE card.sigs + 1
<1>1. n \in 0..CounterMax
  BY BoundsAssumption DEF TypeOK, CardStates
<1>2. card' = [card EXCEPT !.sigs = n]
  BY DEF SignSucceeds
<1> HIDE DEF n
<1>4. /\ card' \in CardStates /\ card'.pin = card.pin /\ card'.sigs = n
      /\ card'.slot = card.slot /\ card'.multi = card.multi /\ card'.obj = card.obj
  BY <1>1, <1>2 DEF TypeOK, CardStates
<1>5. Save /\ halfImport' = halfImport /\ made' = IF made > CounterMax THEN made ELSE made + 1
  BY DEF SignSucceeds
<1>6. \A r \in Refs : PinRule(r)
  BY <1>4 DEF PinRule
<1>7. SlotRule
  BY <1>4, <1>5, SameSlots
<1>8. CountRule /\ AuthorityRule /\ SaveRule
  BY <1>4, <1>5 DEF CountRule, AuthorityRule, SaveRule, n
<1>9. QED
  BY <1>4, <1>6, <1>7, <1>8 DEF Edit, Operational

LEMMA TerminateEdits ==
  ASSUME TypeOK, Terminate
  PROVE  Still \/ Edit
<1> DEFINE c == [card EXCEPT !.terminated = TRUE]
<1>1. /\ c \in CardStates /\ c.pin = card.pin /\ c.sigs = card.sigs
      /\ c.slot = card.slot /\ c.multi = card.multi /\ c.obj = card.obj
  BY DEF TypeOK, CardStates
<1>2. CASE Answer("6982")
  BY <1>2, AnswerStill
<1>3. CASE Put(c) /\ UNCHANGED <<guesses, halfImport>>
  <2>1. card' = c
    BY <1>3 DEF Put
  <2> HIDE DEF c
  <2>2. SlotRule
    BY <1>1, <1>3, <2>1, SameSlots
  <2>3. AuthorityRule
    BY <1>1, <2>1 DEF AuthorityRule
  <2>4. QED
    BY <1>1, <1>3, <2>2, <2>3, PutEdit DEF Terminate
<1>4. QED
  BY <1>2, <1>3 DEF Terminate

\* Every step is one of the four.
LEMMA StepKind ==
  ASSUME TypeOK, [Next]_vars
  PROVE  Still \/ Edit \/ Activated \/ Restarted
<1>1. CASE UNCHANGED vars
  BY <1>1 DEF vars, store, history, Still
<1>2. CASE \E c \in Conditions : VerifyStatus(c)
  BY <1>2 DEF VerifyStatus, Still, store, history
<1>3. CASE \E c \in Conditions, s \in Secrets : Verify(c, s)
  BY <1>3, VerifyEdits
<1>4. CASE \E r \in Refs, old, new \in Secrets : ChangeReferenceData(r, old, new)
  BY <1>4, ChangeEdits
<1>5. CASE \E code, new \in Secrets : ResetRetryCounterWithRC(code, new)
  BY <1>5, ResetWithRCEdits
<1>6. CASE \E new \in Secrets : ResetRetryCounterWithPW3(new)
  BY <1>6, ResetWithPW3Edits
<1>7. CASE \E o \in Objects, v \in Values : PutObject(o, v)
  BY <1>7, PutObjectEdits
<1>8. CASE \E s \in Secrets : PutResetCode(s)
  BY <1>8, PutResetCodeEdits
<1>9. CASE \E b \in BOOLEAN : PutPWStatus(b)
  BY <1>9, PutPWStatusEdits
<1>10. CASE (\E k \in Slots, a \in Algs : PutAlgorithm(k, a))
            \/ (\E k \in Slots, b \in BOOLEAN : PutFingerprint(k, b))
  BY <1>10, PutSlotEdits
<1>11. CASE \E k \in Slots, kid \in KeyIds : ImportKey(k, kid) \/ GenerateKey(k, kid)
  BY <1>11, ImportKeyEdits, GenerateKeyEdits
<1>12. CASE PsoSign
  BY <1>12, AnswerStill, SignEdits DEF PsoSign
<1>13. CASE \/ InternalAuthenticate \/ (\E i \in {"RSA", "ECDH"} : PsoDecipher(i))
            \/ (\E k \in Slots : ReadPublicKey(k))
            \/ GetData \/ GetChallenge \/ RefuseTerminated \/ RefuseMalformed
  <2>1. InternalAuthenticate => \E w : Answer(w)
    BY DEF InternalAuthenticate
  <2>2. \A i \in {"RSA", "ECDH"} : PsoDecipher(i) => \E w : Answer(w)
    BY DEF PsoDecipher
  <2>3. \A k \in Slots : ReadPublicKey(k) => \E w : Answer(w)
    BY DEF ReadPublicKey
  <2>4. GetData \/ GetChallenge \/ RefuseTerminated \/ RefuseMalformed => \E w : Answer(w)
    BY DEF GetData, GetChallenge, RefuseTerminated, RefuseMalformed
  <2>5. QED
    BY <1>13, <2>1, <2>2, <2>3, <2>4, AnswerStill
<1>14. CASE Terminate
  BY <1>14, TerminateEdits
<1>15. CASE Activate
  BY <1>15 DEF Activate, Activated
<1>16. CASE Reset
  BY <1>16 DEF Reset, Still, store, history
<1>17. CASE Restart
  BY <1>17 DEF Restart, Restarted, history
<1>18. QED
  BY <1>1, <1>2, <1>3, <1>4, <1>5, <1>6, <1>7, <1>8, <1>9, <1>10, <1>11, <1>12,
     <1>13, <1>14, <1>15, <1>16, <1>17 DEF Next

-----------------------------------------------------------------------------
(* The properties that follow. *)

\* A save that did not fail leaves the file as the memory.
LEMMA SavedWhole ==
  ASSUME TypeOK, Save, faults' = 0
  PROVE  stored' = card' /\ faults = 0
<1>1. faults \in Nat
  BY BoundsAssumption DEF TypeOK
<1>2. faults' # faults + 1
  BY <1>1
<1>3. QED
  BY <1>2 DEF Save

LEMMA FactoryFields ==
  /\ FactoryState.sigs = 0 /\ FactoryState.terminated = FALSE
  /\ \A k \in Slots : FactoryState.slot[k].priv = FactoryState.slot[k].pub
BY DEF FactoryState, FactorySlot

\* Every change but a factory reset and a restart is authorised, for every
\* command and every set of keys and objects.
THEOREM Authorisation == Spec => ChangesAreAuthorised
<1> DEFINE A == card' \notin {FactoryState, stored} =>
       /\ \/ verified["PW3"]
          \/ /\ card'.slot = card.slot /\ card'.multi = card.multi
             /\ card'.pin["RC"].secret = card.pin["RC"].secret
             /\ \A o \in AdminObjects : card'.obj[o] = card.obj[o]
       /\ \/ verified["PW1_81"] \/ verified["PW1_82"]
          \/ \A o \in UserObjects : card'.obj[o] = card.obj[o]
<1>1. ASSUME TypeOK, [Next]_vars
      PROVE  A
  <2>1. CASE Still
    BY <2>1 DEF Still
  <2>2. CASE Edit
    <3>1. "RC" \in Refs
      BY DEF Refs
    <3>2. card'.pin["RC"].secret = card.pin["RC"].secret \/ verified["PW3"]
      BY <2>2, <3>1 DEF Edit, PinRule
    <3>3. QED
      BY <2>2, <3>2 DEF Edit, AuthorityRule
  <2>3. CASE Activated \/ Restarted
    BY <2>3 DEF Activated, Restarted
  <2>4. QED
    BY <1>1, <2>1, <2>2, <2>3, StepKind
<1>2. TypeOK /\ [Next]_vars => [A]_vars
  BY <1>1
<1>3. QED
  BY <1>2, TypeCorrect, PTL DEF Spec, ChangesAreAuthorised

\* Of a card state: its PIN lengths are right.
LengthsRight(c) ==
  \A r \in {"PW1", "PW3"} :
    /\ c.pin[r].secret \in Secrets
    /\ c.pin[r].length = Byte(SecretLen[c.pin[r].secret])
    /\ LengthOK(r, c.pin[r].secret)

LEMMA FactoryLengths == LengthsRight(FactoryState)
<1>1. FactoryState.pin = FactoryPin
  BY FactoryTyped
<1>2. /\ FactoryPin["PW1"].secret = DefaultPW1 /\ FactoryPin["PW1"].length = 6
      /\ FactoryPin["PW3"].secret = DefaultPW3 /\ FactoryPin["PW3"].length = 8
  BY DEF FactoryPin, Refs
<1>3. Byte(SecretLen[DefaultPW1]) = 6 /\ Byte(SecretLen[DefaultPW3]) = 8
  BY SecretsAssumption DEF Byte
<1>4. LengthOK("PW1", DefaultPW1) /\ LengthOK("PW3", DefaultPW3)
  BY <1>3 DEF LengthOK, MinLength, MaxLength
<1>5. DefaultPW1 \in Secrets /\ DefaultPW3 \in Secrets
  BY SecretsAssumption
<1>6. QED
  BY <1>1, <1>2, <1>3, <1>4, <1>5 DEF LengthsRight

\* The length at which CHANGE REFERENCE DATA cuts its data is the length of the
\* stored secret, for every secret and whichever saves and loads fail: the file
\* keeps this too, so a restart does.
THEOREM LengthsMatch == Spec => []LengthMatchesSecret
<1> DEFINE I == LengthsRight(card) /\ LengthsRight(stored)
<1>1. Init => I
  BY FactoryLengths DEF Init
<1>2. ASSUME TypeOK, I, [Next]_vars
      PROVE  I'
  <2>1. CASE Still
    BY <1>2, <2>1 DEF Still, LengthsRight
  <2>2. CASE Edit
    <3>1. LengthsRight(card')
      <4> SUFFICES ASSUME NEW r \in {"PW1", "PW3"}
                   PROVE  /\ card'.pin[r].secret \in Secrets
                          /\ card'.pin[r].length = Byte(SecretLen[card'.pin[r].secret])
                          /\ LengthOK(r, card'.pin[r].secret)
        BY DEF LengthsRight
      <4>1. PinRule(r) /\ r # "RC"
        BY <2>2 DEF Edit, Refs
      <4>2. CASE card'.pin[r].secret = card.pin[r].secret /\ card'.pin[r].length = card.pin[r].length
        BY <1>2, <4>2 DEF LengthsRight
      <4>3. ASSUME NEW s \in Secrets, card'.pin[r] = Refilled(s), LengthOK(r, s)
            PROVE  /\ card'.pin[r].secret \in Secrets
                   /\ card'.pin[r].length = Byte(SecretLen[card'.pin[r].secret])
                   /\ LengthOK(r, card'.pin[r].secret)
        BY <4>3, RefilledTyped
      <4>4. QED
        BY <4>1, <4>2, <4>3 DEF PinRule
    <3>2. stored' \in {card', stored, FactoryState}
      BY <2>2 DEF Edit, SaveRule, Save
    <3>3. QED
      BY <1>2, <3>1, <3>2, FactoryLengths DEF LengthsRight
  <2>3. CASE Activated
    BY <1>2, <2>3, FactoryLengths DEF Activated, Save, LengthsRight
  <2>4. CASE Restarted
    BY <1>2, <2>4, FactoryLengths DEF Restarted, LengthsRight
  <2>5. QED
    BY <1>2, <2>1, <2>2, <2>3, <2>4, StepKind
<1>3. I => LengthMatchesSecret
  BY DEF LengthsRight, LengthMatchesSecret
<1>4. QED
  BY <1>1, <1>2, <1>3, TypeCorrect, PTL DEF Spec

(***************************************************************************)
(* What holds while no save and no load fails.  A restart brings back the  *)
(* file, so each part speaks of the file as well as of memory.             *)
(***************************************************************************)
PairsWhole(c) == \A k \in Slots \ halfImport : c.slot[k].priv = c.slot[k].pub
Counted == IF made > CounterMax THEN CounterMax ELSE made

FaultFree ==
  /\ PairsWhole(card) /\ PairsWhole(stored)
  /\ card.sigs = Counted /\ stored.sigs = Counted
  /\ card.terminated => stored = card

FaultInv == faults = 0 => FaultFree

LEMMA StepKeepsFaultInv ==
  ASSUME TypeOK, FaultInv, [Next]_vars
  PROVE  FaultInv'
<1> SUFFICES ASSUME faults' = 0 PROVE FaultFree'
  BY DEF FaultInv
<1>1. faults \in Nat /\ made \in Nat /\ card.sigs \in 0..CounterMax /\ CounterMax \in Nat
  BY BoundsAssumption DEF TypeOK, CardStates
<1>2. CASE Still
  BY <1>2 DEF Still, FaultInv, FaultFree, PairsWhole, Counted
<1>3. CASE Edit
  <2>1. faults = 0
    BY <1>3, SavedWhole DEF Edit, SaveRule
  <2>2. FaultFree
    BY <2>1 DEF FaultInv
  <2>3. \A k \in Slots \ halfImport' : card'.slot[k].priv = card'.slot[k].pub
    BY <1>3, <2>2 DEF Edit, SlotRule, FaultFree, PairsWhole
  <2>4. card'.sigs = Counted'
    <3>1. CASE card'.sigs = card.sigs /\ made' = made
      BY <2>2, <3>1 DEF FaultFree, Counted
    <3>2. CASE /\ card'.sigs = IF card.sigs = CounterMax THEN card.sigs ELSE card.sigs + 1
               /\ made' = IF made > CounterMax THEN made ELSE made + 1
      BY <1>1, <2>2, <3>2 DEF FaultFree, Counted
    <3>3. QED
      BY <1>3, <3>1, <3>2 DEF Edit, CountRule
  <2>5. CASE Save
    <3>1. stored' = card'
      BY <2>5, SavedWhole
    <3>2. QED
      BY <2>3, <2>4, <3>1 DEF FaultFree, PairsWhole
  <2>6. CASE /\ stored' = stored /\ faults' = faults
             /\ halfImport' # {} /\ halfImport \subseteq halfImport'
             /\ card'.pin = card.pin /\ card'.sigs = card.sigs /\ made' = made /\ ~card'.terminated
    <3>1. stored'.sigs = Counted'
      BY <2>2, <2>6 DEF FaultFree, Counted
    <3>2. \A k \in Slots \ halfImport' : stored'.slot[k].priv = stored'.slot[k].pub
      BY <1>3, <2>2, <2>6 DEF FaultFree, PairsWhole
    <3>3. QED
      BY <2>3, <2>4, <2>6, <3>1, <3>2 DEF FaultFree, PairsWhole
  <2>7. QED
    BY <1>3, <2>5, <2>6 DEF Edit, SaveRule
<1>4. CASE Activated
  <2>1. stored' = FactoryState /\ card' = FactoryState /\ made' = 0
    BY <1>4, SavedWhole DEF Activated
  <2>2. Counted' = 0
    BY <1>1, <2>1 DEF Counted
  <2>3. QED
    BY <2>1, <2>2, FactoryFields DEF FaultFree, PairsWhole
<1>5. CASE Restarted
  <2>1. /\ faults = 0 /\ card' = stored
        /\ stored' = stored /\ made' = made /\ halfImport' = halfImport
    BY <1>1, <1>5 DEF Restarted
  <2>2. QED
    BY <2>1 DEF FaultInv, FaultFree, PairsWhole, Counted
<1>6. QED
  BY <1>2, <1>3, <1>4, <1>5, StepKind

LEMMA FaultInvariant == Spec => []FaultInv
<1>1. Init => FaultInv
  <2> SUFFICES ASSUME Init PROVE FaultFree
    BY DEF FaultInv
  <2>1. card = FactoryState /\ stored = FactoryState /\ Counted = 0
    BY BoundsAssumption DEF Init, Counted
  <2>2. QED
    BY <2>1, FactoryFields DEF FaultFree, PairsWhole
<1>2. QED
  BY <1>1, StepKeepsFaultInv, TypeCorrect, PTL DEF Spec

\* The keys of a slot belong together unless its last import failed.
THEOREM PairsIntact == Spec => []KeyPairIntact
<1>1. FaultInv => KeyPairIntact
  BY DEF FaultInv, FaultFree, PairsWhole, KeyPairIntact
<1>2. QED
  BY <1>1, FaultInvariant, PTL

\* Every signature is counted, for every width of the counter.
THEOREM SignatureCount == Spec => []SignaturesCounted
<1>1. FaultInv => SignaturesCounted
  BY DEF FaultInv, FaultFree, Counted, SignaturesCounted
<1>2. QED
  BY <1>1, FaultInvariant, PTL

\* A terminated card stays as it is until ACTIVATE FILE: TERMINATE DF saves, so
\* that a restart finds the card terminated.
THEOREM Frozen == Spec => TerminatedIsFrozen
<1> DEFINE A == faults' = 0 /\ card.terminated => card' \in {card, FactoryState}
<1>1. ASSUME TypeOK, FaultInv, [Next]_vars, faults' = 0, card.terminated
      PROVE  card' \in {card, FactoryState}
  <2>1. CASE Still \/ Activated
    BY <2>1 DEF Still, Activated
  <2>2. CASE Edit
    BY <1>1, <2>2 DEF Edit
  <2>3. CASE Restarted
    <3>1. faults \in Nat
      BY <1>1, BoundsAssumption DEF TypeOK
    <3>2. faults = 0 /\ card' = stored
      BY <1>1, <2>3, <3>1 DEF Restarted
    <3>3. QED
      BY <1>1, <3>2 DEF FaultInv, FaultFree
  <2>4. QED
    BY <1>1, <2>1, <2>2, <2>3, StepKind
<1>2. TypeOK /\ FaultInv /\ [Next]_vars => [A]_vars
  BY <1>1
<1>3. QED
  BY <1>2, TypeCorrect, FaultInvariant, PTL DEF Spec, TerminatedIsFrozen

\* Blocking is final but for those who may unblock, for every try limit: the
\* counters in the file are those in memory, so a restart unblocks nothing.
THEOREM Blocking == Spec => BlockedStaysBlocked
<1> DEFINE A == faults' = 0 /\ card' # FactoryState =>
       /\ card.pin["PW3"].retries = 0 => card'.pin["PW3"].retries = 0
       /\ card.pin["PW1"].retries = 0 /\ card'.pin["PW1"].retries > 0 =>
            \/ verified["PW3"]
            \/ card.pin["RC"].retries > 0 /\ card.pin["RC"].secret # NoSecret
<1>1. ASSUME TypeOK, RetryInv, [Next]_vars
      PROVE  A
  <2>1. "PW1" \in Refs /\ "PW3" \in Refs /\ faults \in Nat
    BY <1>1, BoundsAssumption DEF Refs, TypeOK
  <2>2. CASE Still \/ Activated
    BY <2>2 DEF Still, Activated
  <2>3. CASE Edit
    <3>1. PinRule("PW1") /\ PinRule("PW3")
      BY <2>1, <2>3 DEF Edit
    <3>2. card.pin["PW3"].retries = 0 => card'.pin["PW3"].retries = 0
      BY <3>1 DEF PinRule
    <3>3. card.pin["PW1"].retries = 0 /\ card'.pin["PW1"].retries > 0 =>
            \/ verified["PW3"]
            \/ card.pin["RC"].retries > 0 /\ card.pin["RC"].secret # NoSecret
      BY <3>1 DEF PinRule
    <3>4. QED
      BY <3>2, <3>3
  <2>4. CASE Restarted
    <3>1. ASSUME faults' = 0, card' # FactoryState
          PROVE  card'.pin = card.pin
      BY <1>1, <2>1, <2>4, <3>1 DEF Restarted, RetryInv
    <3>2. QED
      BY <3>1
  <2>5. QED
    BY <1>1, <2>2, <2>3, <2>4, StepKind
<1>2. TypeOK /\ RetryInv /\ [Next]_vars => [A]_vars
  BY <1>1
<1>3. QED
  BY <1>2, TypeCorrect, RetryInvariant, PTL DEF Spec, BlockedStaysBlocked

NoHalfImport == halfImport = {}

\* In every behaviour in which no import fails halfway the applet commits each
\* change with its answer: it implements AbstractStore, which CardStore shows
\* the state file to implement, whichever saves and loads fail.
THEOREM Commitment == Spec /\ []NoHalfImport => CommitsToStore
<1>1. Init => Store!Init
  BY FactoryTyped DEF Init, Store!Init
<1>2. TypeOK /\ [Next]_vars /\ NoHalfImport' => [Store!Next]_<<card, stored, faults>>
  <2> SUFFICES ASSUME TypeOK, [Next]_vars, halfImport' = {}
               PROVE  [Store!Next]_<<card, stored, faults>>
    BY DEF NoHalfImport
  <2>1. CASE Still
    BY <2>1 DEF Still
  <2>2. ASSUME Save, card' \in CardStates
        PROVE  Store!Next
    BY <2>2 DEF Save, Store!Next, Store!Commit, Store!FailedCommit
  <2>3. CASE Edit
    BY <2>2, <2>3 DEF Edit, SaveRule
  <2>4. CASE Activated
    BY <2>2, <2>4, FactoryTyped DEF Activated
  <2>5. CASE Restarted
    BY <2>5 DEF Restarted, Store!Next, Store!Reload, Store!FailedLoad
  <2>6. QED
    BY <2>1, <2>3, <2>4, <2>5, StepKind
<1>3. QED
  BY <1>1, <1>2, TypeCorrect, PTL DEF Spec, CommitsToStore, Store!Spec

=============================================================================
