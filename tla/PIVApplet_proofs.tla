-------------------------- MODULE PIVApplet_proofs --------------------------
(***************************************************************************)
(* Proofs about the PIV applet, for every set of secrets, slots, keys,     *)
(* objects and witnesses, and any number of new channels.                  *)
(***************************************************************************)
EXTENDS PIVApplet, TLAPS

-----------------------------------------------------------------------------
(* The values that the handlers build. *)

PinEntry == [value: Secrets, tries: 0..MaxTries]

\* A status word is an answer about no slot; a counter is one too.
LEMMA SwTyped ==
  /\ \A w \in Words : Sw(w) \in Responses /\ Sw(w).slot = "none"
  /\ \A n \in 0..MaxTries : Counter(n) \in Responses /\ Counter(n).slot = "none"
BY DEF Sw, Counter, Responses, Words, MaxTries

\* Early answers keep the type of the response.
LEMMA AnswerStep ==
  ASSUME NEW w \in Words, Answer(w)
  PROVE  /\ resp' \in Responses /\ resp'.slot = "none"
         /\ UNCHANGED <<data, session, pinHistory, dataHistory, created>>
BY SwTyped DEF Answer

\* The bytes of a block are bytes, and stripping undoes the padding.
LEMMA BlockTyped == \A s \in Secrets : Block(s) \in Bytes /\ Strip(Block(s)) = s
BY DEF Block, Bytes, Strip

LEMMA DefaultsTyped ==
  /\ DefaultPin \in Secrets /\ DefaultPuk \in Secrets
  /\ NewPins \in [Refs -> PinEntry]
  /\ \A r \in Refs : NewPins[r].tries = MaxTries
  /\ NewPins["PIN"].value = DefaultPin
BY SecretsAssumption DEF Secrets, NewPins, PinEntry, Refs, MaxTries

\* A correct value leaves a full counter and no guesses.
LEMMA RightStep ==
  ASSUME TypeOK, NEW r \in Refs, NEW s \in Secrets, Right(r, s)
  PROVE  /\ pins' \in [Refs -> PinEntry]
         /\ guesses' \in [Refs -> Nat]
         /\ resp' \in Responses /\ resp'.slot = "none"
         /\ pins'[r].value = s /\ pins'[r].tries = MaxTries /\ guesses'[r] = 0
         /\ \A q \in Refs \ {r} : pins'[q] = pins[q] /\ guesses'[q] = guesses[q]
<1>1. resp' = Sw("9000") /\ resp' \in Responses /\ resp'.slot = "none"
  BY SwTyped DEF Right, Words
<1>2. QED
  BY <1>1 DEF TypeOK, Right, PinEntry, MaxTries

\* A wrong value moves one try from the counter to the guesses.
LEMMA WrongStep ==
  ASSUME TypeOK, NEW r \in Refs, Wrong(r), pins[r].tries > 0
  PROVE  /\ pins' \in [Refs -> PinEntry]
         /\ guesses' \in [Refs -> Nat]
         /\ resp' \in Responses /\ resp'.slot = "none"
         /\ setPin' = setPin
         /\ pins'[r].value = pins[r].value
         /\ pins'[r].tries = pins[r].tries - 1 /\ guesses'[r] = guesses[r] + 1
         /\ \A q \in Refs \ {r} : pins'[q] = pins[q] /\ guesses'[q] = guesses[q]
<1>1. pins[r] \in PinEntry /\ pins[r].tries \in 1..MaxTries
  BY DEF TypeOK, PinEntry, MaxTries
<1>2. pins[r].tries - 1 \in 0..MaxTries
  BY <1>1 DEF MaxTries
<1>3. resp' \in Responses /\ resp'.slot = "none"
  BY <1>2, SwTyped DEF Wrong, Words
<1>4. pins' = [pins EXCEPT ![r] = [pins[r] EXCEPT !.tries = pins[r].tries - 1]]
  BY DEF Wrong
<1>5. [pins[r] EXCEPT !.tries = pins[r].tries - 1] \in PinEntry
  BY <1>1, <1>2 DEF PinEntry
<1>6. QED
  BY <1>1, <1>3, <1>4, <1>5 DEF TypeOK, Wrong, PinEntry

-----------------------------------------------------------------------------
(* The inductive invariant, in the four parts that handlers change           *)
(* separately.                                                               *)

\* PIN and PUK: typed, within the try limit, and the PIN is what was set.
PinPart ==
  /\ pins \in [Refs -> PinEntry]
  /\ guesses \in [Refs -> Nat] /\ setPin \in Bytes
  /\ TryLimit /\ PinBlockVerifies

\* The session: what it holds was proved in it, an open challenge is fresh.
SessionPart ==
  /\ auth \subseteq {"PIN", "MGMT"} /\ since \subseteq {"PIN", "MGMT"}
  /\ challenge \in Witnesses \cup {NoChallenge} /\ fresh \in BOOLEAN
  /\ AuthorityIsOfThisSession /\ ChallengeUsedOnce

\* Keys and objects: the private key of a slot is the one announced for it.
DataPart ==
  /\ keys \in [Slots -> KeyData]
  /\ objects \in [Fields -> Values \cup {Empty}]
  /\ announced \in [Slots -> KeyIds \cup {NoKeyId}]
  /\ written \in [ObjectIds -> Values \cup {Empty}]
  /\ created \in 0..MaxCards
  /\ ObjectsReadBack
  /\ \A s \in Slots : announced[s] = keys[s].priv

AnswerPart == resp \in Responses /\ KeyUseIsRight

IInv == PinPart /\ SessionPart /\ DataPart /\ AnswerPart

\* The invariant has the properties of the runs as its conjuncts.
LEMMA IInvImplies ==
  IInv => /\ TypeOK /\ TryLimit /\ PinBlockVerifies /\ AuthorityIsOfThisSession
          /\ ChallengeUsedOnce /\ ObjectsReadBack /\ KeyUseIsRight
BY DEF IInv, PinPart, SessionPart, DataPart, AnswerPart, TypeOK, PinEntry

\* A part of the state that a step leaves alone keeps its part of the
\* invariant.
LEMMA PinFrame == PinPart /\ UNCHANGED <<pins, pinHistory>> => PinPart'
BY DEF PinPart, pinHistory, TryLimit, PinBlockVerifies, VerifyMatches, Strip

LEMMA SessionFrame == SessionPart /\ UNCHANGED session => SessionPart'
BY DEF SessionPart, session, AuthorityIsOfThisSession, ChallengeUsedOnce

LEMMA DataFrame == DataPart /\ UNCHANGED <<keys, objects, dataHistory, created>> => DataPart'
BY DEF DataPart, dataHistory, ObjectsReadBack

\* An answer that holds no result of a key.
LEMMA PlainAnswer == resp' \in Responses /\ resp'.slot = "none" => AnswerPart'
BY DEF AnswerPart, KeyUseIsRight

LEMMA AnswerKeeps ==
  ASSUME IInv, NEW w \in Words, Answer(w)
  PROVE  IInv'
<1>1. /\ resp' \in Responses /\ resp'.slot = "none"
      /\ UNCHANGED <<data, session, pinHistory, dataHistory, created>>
  BY AnswerStep
<1>2. QED
  BY <1>1, PinFrame, SessionFrame, DataFrame, PlainAnswer DEF IInv, data

-----------------------------------------------------------------------------
(* PIN and PUK. *)

\* A wrong value, whichever command it came with.
LEMMA WrongKeeps ==
  ASSUME IInv, NEW r \in Refs, pins[r].tries > 0, Wrong(r),
         UNCHANGED <<keys, objects, session, dataHistory, created>>
  PROVE  IInv'
<1>1. /\ pins' \in [Refs -> PinEntry] /\ guesses' \in [Refs -> Nat]
      /\ resp' \in Responses /\ resp'.slot = "none"
      /\ setPin' = setPin
      /\ pins'[r].value = pins[r].value
      /\ pins'[r].tries = pins[r].tries - 1 /\ guesses'[r] = guesses[r] + 1
      /\ \A q \in Refs \ {r} : pins'[q] = pins[q] /\ guesses'[q] = guesses[q]
  BY WrongStep, IInvImplies
<1>2. pins["PIN"].value = pins'["PIN"].value
  BY <1>1 DEF Refs
<1>3. \A q \in Refs : pins[q].tries \in Nat /\ guesses[q] \in Nat
  BY DEF IInv, PinPart, PinEntry, MaxTries
<1>4. TryLimit'
  BY <1>1, <1>3 DEF TryLimit, IInv, PinPart, MaxTries
<1>5. PinPart'
  BY <1>1, <1>2, <1>4 DEF IInv, PinPart, PinBlockVerifies, VerifyMatches, Strip
<1>6. QED
  BY <1>1, <1>5, SessionFrame, DataFrame, PlainAnswer DEF IInv

LEMMA VerifyKeeps ==
  ASSUME IInv, NEW r \in Refs, NEW d \in Bytes, Verify(r, d)
  PROVE  IInv'
<1> USE IInvImplies
<1>1. CASE d = NoBytes /\ resp' = Counter(pins[r].tries)
           /\ UNCHANGED <<data, session, pinHistory, dataHistory, created>>
  <2>1. pins[r].tries \in 0..MaxTries
    BY DEF TypeOK
  <2>2. QED
    BY <1>1, <2>1, SwTyped, PinFrame, SessionFrame, DataFrame, PlainAnswer DEF IInv, data
<1>2. CASE Answer("6983")
  BY <1>2, AnswerKeeps DEF Words
<1>3. CASE /\ pins[r].tries > 0 /\ Right(r, pins[r].value)
           /\ auth' = IF r = "PIN" THEN auth \cup {"PIN"} ELSE auth
           /\ since' = IF r = "PIN" THEN since \cup {"PIN"} ELSE since
           /\ UNCHANGED <<keys, objects, challenge, fresh, setPin, dataHistory, created>>
  <2>1. pins[r].value \in Secrets
    BY DEF TypeOK
  <2>2. PinPart' /\ AnswerPart'
    <3>1. /\ pins' \in [Refs -> PinEntry] /\ guesses' \in [Refs -> Nat]
          /\ resp' \in Responses /\ resp'.slot = "none"
          /\ pins'[r].value = pins[r].value /\ pins'[r].tries = MaxTries /\ guesses'[r] = 0
          /\ \A q \in Refs \ {r} : pins'[q] = pins[q] /\ guesses'[q] = guesses[q]
      BY <1>3, <2>1, RightStep
    <3>2. pins'["PIN"].value = pins["PIN"].value
      BY <3>1 DEF Refs
    <3>3. TryLimit'
      BY <3>1 DEF TryLimit, IInv, PinPart, MaxTries
    <3>4. QED
      BY <1>3, <3>1, <3>2, <3>3, PlainAnswer
      DEF IInv, PinPart, PinBlockVerifies, VerifyMatches, Strip
  <2>3. SessionPart'
    BY <1>3 DEF IInv, SessionPart, AuthorityIsOfThisSession, ChallengeUsedOnce
  <2>4. QED
    BY <1>3, <2>2, <2>3, DataFrame DEF IInv
<1>4. CASE pins[r].tries > 0 /\ Wrong(r) /\ UNCHANGED <<keys, objects, session, dataHistory, created>>
  BY <1>4, WrongKeeps
<1>5. QED
  BY <1>1, <1>2, <1>3, <1>4 DEF Verify

LEMMA ChangeKeeps ==
  ASSUME IInv, NEW r \in Refs, NEW old \in Secrets, NEW new \in Secrets,
         ChangeReferenceData(r, old, new)
  PROVE  IInv'
<1> USE IInvImplies
<1>1. CASE Answer("6983")
  BY <1>1, AnswerKeeps DEF Words
<1>2. CASE /\ Right(r, Strip(Block(new)))
           /\ setPin' = IF r = "PIN" THEN Block(new) ELSE setPin
           /\ UNCHANGED <<keys, objects, session, dataHistory, created>>
  <2>1. Block(new) \in Bytes /\ Strip(Block(new)) = new
    BY BlockTyped
  <2>2. /\ pins' \in [Refs -> PinEntry] /\ guesses' \in [Refs -> Nat]
        /\ resp' \in Responses /\ resp'.slot = "none"
        /\ pins'[r].value = new /\ pins'[r].tries = MaxTries /\ guesses'[r] = 0
        /\ \A q \in Refs \ {r} : pins'[q] = pins[q] /\ guesses'[q] = guesses[q]
    BY <1>2, <2>1, RightStep
  <2>3. setPin' \in Bytes /\ Strip(setPin') = pins'["PIN"].value
    <3>1. CASE r = "PIN"
      BY <1>2, <2>1, <2>2, <3>1
    <3>2. CASE r # "PIN"
      BY <1>2, <2>2, <3>2 DEF IInv, PinPart, PinBlockVerifies, VerifyMatches, Refs
    <3>3. QED
      BY <3>1, <3>2
  <2>4. TryLimit'
    BY <2>2 DEF TryLimit, IInv, PinPart, MaxTries
  <2>5. PinPart'
    BY <2>2, <2>3, <2>4 DEF PinPart, PinBlockVerifies, VerifyMatches, Strip
  <2>6. QED
    BY <1>2, <2>2, <2>5, SessionFrame, DataFrame, PlainAnswer DEF IInv
<1>3. CASE pins[r].tries > 0 /\ Wrong(r) /\ UNCHANGED <<keys, objects, session, dataHistory, created>>
  BY <1>3, WrongKeeps
<1>4. QED
  BY <1>1, <1>2, <1>3 DEF ChangeReferenceData

LEMMA ResetRetryCounterKeeps ==
  ASSUME IInv, NEW puk \in Secrets, NEW new \in Secrets, ResetRetryCounter(puk, new)
  PROVE  IInv'
<1> USE IInvImplies
<1>1. CASE Answer("6983")
  BY <1>1, AnswerKeeps DEF Words
<1>2. CASE /\ pins' = [r \in Refs |-> [value |-> IF r = "PIN" THEN Strip(Block(new)) ELSE pins[r].value,
                                       tries |-> MaxTries]]
           /\ guesses' = [r \in Refs |-> 0]
           /\ setPin' = Block(new)
           /\ resp' = Sw("9000")
           /\ UNCHANGED <<keys, objects, session, dataHistory, created>>
  <2>1. Block(new) \in Bytes /\ Strip(Block(new)) = new
    BY BlockTyped
  <2>2. /\ pins' \in [Refs -> PinEntry] /\ pins'["PIN"].value = new
        /\ \A r \in Refs : pins'[r].tries = MaxTries
    BY <1>2, <2>1 DEF TypeOK, PinEntry, MaxTries, Refs
  <2>3. PinPart'
    BY <1>2, <2>1, <2>2
    DEF PinPart, TryLimit, PinBlockVerifies, VerifyMatches, Strip, MaxTries
  <2>4. resp' \in Responses /\ resp'.slot = "none"
    BY <1>2, SwTyped DEF Words
  <2>5. QED
    BY <1>2, <2>3, <2>4, SessionFrame, DataFrame, PlainAnswer DEF IInv
<1>3. CASE /\ pins["PUK"].tries > 0 /\ Wrong("PUK")
           /\ UNCHANGED <<keys, objects, session, dataHistory, created>>
  BY <1>3, WrongKeeps DEF Refs
<1>4. QED
  BY <1>1, <1>2, <1>3 DEF ResetRetryCounter

-----------------------------------------------------------------------------
(* Objects and keys. *)

\* GET DATA and PUT DATA agree on the field of an object, and no two objects
\* share one.
LEMMA FieldsAgree ==
  /\ \A o \in ObjectIds : ReadField(o) = WriteField(o) /\ WriteField(o) \in Fields
  /\ \A o, q \in ObjectIds : ReadField(o) = ReadField(q) => o = q
BY ObjectsAssumption DEF ReadField, WriteField, Fields

LEMMA PutDataKeeps ==
  ASSUME IInv, NEW o \in ObjectIds, NEW v \in Values \cup {Empty}, PutData(o, v)
  PROVE  IInv'
<1>1. CASE Answer("6982")
  BY <1>1, AnswerKeeps DEF Words
<1>2. CASE /\ objects' = [objects EXCEPT ![WriteField(o)] = v]
           /\ written' = [written EXCEPT ![o] = v]
           /\ resp' = Sw("9000")
           /\ UNCHANGED <<pins, keys, session, pinHistory, announced, created>>
  <2>1. /\ objects' \in [Fields -> Values \cup {Empty}]
        /\ written' \in [ObjectIds -> Values \cup {Empty}]
    BY <1>2, FieldsAgree DEF IInv, DataPart
  <2>2. ASSUME NEW q \in ObjectIds
        PROVE  objects'[ReadField(q)] = written'[q]
    <3>1. objects[ReadField(q)] = written[q] /\ ReadField(q) \in Fields
      BY FieldsAgree DEF IInv, DataPart, ObjectsReadBack
    <3>2. CASE q = o
      BY <1>2, <3>1, <3>2, FieldsAgree DEF IInv, DataPart
    <3>3. CASE q # o
      BY <1>2, <3>1, <3>3, FieldsAgree DEF IInv, DataPart
    <3>4. QED
      BY <3>2, <3>3
  <2>3. DataPart'
    BY <1>2, <2>1, <2>2 DEF IInv, DataPart, ObjectsReadBack
  <2>4. resp' \in Responses /\ resp'.slot = "none"
    BY <1>2, SwTyped DEF Words
  <2>5. QED
    BY <1>2, <2>3, <2>4, PinFrame, SessionFrame, PlainAnswer DEF IInv
<1>3. QED
  BY <1>1, <1>2 DEF PutData

LEMMA StoredKeyTyped ==
  ASSUME NEW s, NEW k \in KeyIds, NEW a \in Algorithms
  PROVE  StoredKey(s, k, a) \in KeyData /\ StoredKey(s, k, a).priv = k
<1>1. Template(k, a) \in PublicKeys
  BY DEF Template, PublicKeys, Algorithms
<1>2. QED
  BY <1>1 DEF StoredKey, KeyData

LEMMA GenerateKeeps ==
  ASSUME IInv, NEW s \in Slots \cup {"9B"}, NEW k \in KeyIds, NEW a \in Algorithms,
         Generate(s, k, a)
  PROVE  IInv'
<1>1. CASE \E w \in Words : Answer(w)
  BY <1>1, AnswerKeeps
<1>2. CASE /\ keys' = [t \in Slots |-> IF t = s THEN StoredKey(t, k, a) ELSE keys[t]]
           /\ announced' = [t \in Slots |-> IF t = s THEN k ELSE announced[t]]
           /\ resp' = Sw("9000")
           /\ UNCHANGED <<pins, objects, session, pinHistory, written, created>>
  <2>1. /\ keys' \in [Slots -> KeyData]
        /\ announced' \in [Slots -> KeyIds \cup {NoKeyId}]
        /\ \A t \in Slots : announced'[t] = keys'[t].priv
    BY <1>2, StoredKeyTyped DEF IInv, DataPart
  <2>2. DataPart'
    BY <1>2, <2>1 DEF IInv, DataPart, ObjectsReadBack
  <2>3. resp' \in Responses /\ resp'.slot = "none"
    BY <1>2, SwTyped DEF Words
  <2>4. QED
    BY <1>2, <2>2, <2>3, PinFrame, SessionFrame, PlainAnswer DEF IInv
<1>3. QED
  BY <1>1, <1>2 DEF Generate, Words

\* An operation with a usable key answers with a result of the announced key,
\* in a session that verified the PIN unless the slot is 9E.
LEMMA UseKeeps ==
  ASSUME IInv, NEW s \in Slots, Usable(s),
         resp' = Result(s) \/ \E w \in Words : resp' = Sw(w),
         UNCHANGED <<data, session, pinHistory, dataHistory, created>>
  PROVE  IInv'
<1>1. AnswerPart'
  <2>1. CASE resp' = Result(s)
    <3>1. keys[s].priv \in KeyIds \cup {NoKeyId} /\ announced[s] = keys[s].priv
      BY DEF IInv, DataPart, KeyData
    <3>2. resp' = [sw |-> "9000", tries |-> 0, slot |-> s, kid |-> keys[s].priv]
      BY <2>1 DEF Result, Sw
    <3>3. resp' \in Responses
      BY <3>1, <3>2 DEF Responses, Words, MaxTries
    <3>4. s = "9E" \/ "PIN" \in since
      BY DEF Usable, IInv, SessionPart, AuthorityIsOfThisSession
    <3>5. QED
      BY <3>1, <3>2, <3>3, <3>4 DEF AnswerPart, KeyUseIsRight, session, dataHistory
  <2>2. CASE \E w \in Words : resp' = Sw(w)
    BY <2>2, SwTyped, PlainAnswer
  <2>3. QED
    BY <2>1, <2>2
<1>2. QED
  BY <1>1, PinFrame, SessionFrame, DataFrame DEF IInv, data

-----------------------------------------------------------------------------
(* The management key and sessions. *)

LEMMA RequestKeeps ==
  ASSUME IInv, NEW w \in Witnesses, RequestWitness(w)
  PROVE  IInv'
<1>1. SessionPart'
  BY DEF RequestWitness, IInv, SessionPart, AuthorityIsOfThisSession, ChallengeUsedOnce
<1>2. resp' \in Responses /\ resp'.slot = "none"
  BY SwTyped DEF RequestWitness, Words
<1>3. QED
  BY <1>1, <1>2, PinFrame, DataFrame, PlainAnswer DEF RequestWitness, IInv, data

LEMMA AnswerWitnessKeeps ==
  ASSUME IInv, NEW w, NEW whole \in BOOLEAN, AnswerWitness(w, whole)
  PROVE  IInv'
<1>1. CASE Answer("6985")
  BY <1>1, AnswerKeeps DEF Words
<1>2. CASE /\ challenge' = NoChallenge /\ fresh' = FALSE
           /\ \/ UNCHANGED <<auth, since>>
              \/ auth' = auth \cup {"MGMT"} /\ since' = since \cup {"MGMT"}
           /\ \E x \in Words : resp' = Sw(x)
           /\ UNCHANGED <<data, pinHistory, dataHistory, created>>
  <2>1. SessionPart'
    BY <1>2 DEF IInv, SessionPart, AuthorityIsOfThisSession, ChallengeUsedOnce
  <2>2. resp' \in Responses /\ resp'.slot = "none"
    BY <1>2, SwTyped
  <2>3. QED
    BY <1>2, <2>1, <2>2, PinFrame, DataFrame, PlainAnswer DEF IInv, data
<1>3. QED
  BY <1>1, <1>2 DEF AnswerWitness, Words

LEMMA ClearKeeps == ClearSession => SessionPart'
BY DEF ClearSession, SessionPart, AuthorityIsOfThisSession, ChallengeUsedOnce

LEMMA NoKeyTyped == NoKey \in KeyData /\ NoKey.priv = NoKeyId
BY DEF NoKey, KeyData, PublicKeys

\* A new applet satisfies the parts about PINs and data.
LEMMA NewApplet ==
  ASSUME NewCard, IInv
  PROVE  PinPart' /\ DataPart'
<1>1. created' \in 0..MaxCards
  BY BoundAssumption DEF NewCard, IInv, DataPart
<1>2. PinPart'
  BY DefaultsTyped, BlockTyped
  DEF NewCard, PinPart, TryLimit, PinBlockVerifies, VerifyMatches, MaxTries
<1>3. QED
  BY <1>1, <1>2, NoKeyTyped, FieldsAgree DEF NewCard, DataPart, ObjectsReadBack

LEMMA InitInv == Init => IInv
<1> SUFFICES ASSUME Init PROVE IInv
  OBVIOUS
<1>1. PinPart
  BY DefaultsTyped, BlockTyped
  DEF Init, PinPart, TryLimit, PinBlockVerifies, VerifyMatches, MaxTries
<1>2. SessionPart
  BY DEF Init, SessionPart, AuthorityIsOfThisSession, ChallengeUsedOnce
<1>3. DataPart
  BY NoKeyTyped, FieldsAgree, BoundAssumption DEF Init, DataPart, ObjectsReadBack
<1>4. AnswerPart
  BY SwTyped DEF Init, AnswerPart, KeyUseIsRight, Words
<1>5. QED
  BY <1>1, <1>2, <1>3, <1>4 DEF IInv

\* Every step keeps the invariant.
LEMMA NextInv == IInv /\ [Next]_vars => IInv'
<1> SUFFICES ASSUME IInv, [Next]_vars PROVE IInv'
  OBVIOUS
<1>1. CASE \E r \in Refs, d \in Bytes : Verify(r, d)
  BY <1>1, VerifyKeeps
<1>2. CASE \E r \in Refs, old, new \in Secrets : ChangeReferenceData(r, old, new)
  BY <1>2, ChangeKeeps
<1>3. CASE \E puk, new \in Secrets : ResetRetryCounter(puk, new)
  BY <1>3, ResetRetryCounterKeeps
<1>4. CASE \E o \in ObjectIds : GetData(o)
  BY <1>4, AnswerKeeps DEF GetData, Words
<1>5. CASE \E o \in ObjectIds, v \in Values \cup {Empty} : PutData(o, v)
  BY <1>5, PutDataKeeps
<1>6. CASE RefuseUpdate
  BY <1>6, AnswerKeeps DEF RefuseUpdate, Words
<1>7. CASE \E s \in Slots \cup {"9B"}, k \in KeyIds, a \in Algorithms : Generate(s, k, a)
  BY <1>7, GenerateKeeps
<1>8. CASE \E s \in Slots : KeyRefused(s)
  BY <1>8, AnswerKeeps DEF KeyRefused, Words
<1>9. CASE \E s \in Slots, long \in BOOLEAN : Sign(s, long)
  BY <1>9, UseKeeps DEF Sign, Words
<1>10. CASE \E s \in Slots, good \in BOOLEAN : Decrypt(s, good)
  BY <1>10, UseKeeps DEF Decrypt, DecryptError, Words
<1>11. CASE \E w \in Witnesses : RequestWitness(w)
  BY <1>11, RequestKeeps
<1>12. CASE \E w \in Witnesses \cup {Empty}, whole \in BOOLEAN : AnswerWitness(w, whole)
  BY <1>12, AnswerWitnessKeeps
<1>13. CASE Select \/ Reset
  <2>1. resp' \in Responses /\ resp'.slot = "none"
    BY <1>13, SwTyped DEF Select, Reset, Words
  <2>2. QED
    BY <1>13, <2>1, ClearKeeps, PinFrame, DataFrame, PlainAnswer DEF Select, Reset, IInv, data
<1>14. CASE Other
  BY <1>14, AnswerKeeps DEF Other, Words
<1>15. CASE NewCard
  <2>1. resp' \in Responses /\ resp'.slot = "none" /\ ClearSession
    BY <1>15, SwTyped DEF NewCard, Words
  <2>2. QED
    BY <1>15, <2>1, ClearKeeps, NewApplet, PlainAnswer DEF IInv
<1>16. CASE UNCHANGED vars
  <2>1. AnswerPart'
    BY <1>16 DEF vars, session, dataHistory, IInv, AnswerPart, KeyUseIsRight
  <2>2. QED
    BY <1>16, <2>1, PinFrame, SessionFrame, DataFrame DEF vars, IInv, data
<1>17. QED
  BY <1>1, <1>2, <1>3, <1>4, <1>5, <1>6, <1>7, <1>8, <1>9, <1>10, <1>11, <1>12,
     <1>13, <1>14, <1>15, <1>16 DEF Next

-----------------------------------------------------------------------------
(* Theorems. *)

\* The invariant holds in every state of the applet (piv/applet.rs).
THEOREM Invariance == Spec => []IInv
BY InitInv, NextInv, PTL DEF Spec

\* No handler takes the applet's state out of its type.
THEOREM TypeCorrect == Spec => []TypeOK
BY Invariance, IInvImplies, PTL

\* VERIFY, CHANGE REFERENCE DATA and RESET RETRY COUNTER, in any order, allow
\* three wrong attempts at PIN and PUK.
THEOREM PinTryLimit == Spec => []TryLimit
BY Invariance, IInvImplies, PTL

\* The block of 8 bytes that CHANGE REFERENCE DATA or RESET RETRY COUNTER took
\* as the new PIN verifies, padding included: the three commands strip alike.
THEOREM PinBlock == Spec => []PinBlockVerifies
BY Invariance, IInvImplies, PTL

\* Conditions do not outlive the SELECT or reset that clears a session.
THEOREM SessionAuthority == Spec => []AuthorityIsOfThisSession
BY Invariance, IInvImplies, PTL

\* A witness of authenticate_mgmt_key is good for one answer, in the session
\* that asked for it.
THEOREM ChallengeOnce == Spec => []ChallengeUsedOnce
BY Invariance, IInvImplies, PTL

\* GENERAL AUTHENTICATE answers only for sessions that verified the PIN (9E
\* apart), with the key pair that GENERATE announced for the slot.
THEOREM KeyUse == Spec => []KeyUseIsRight
BY Invariance, IInvImplies, PTL

\* GET DATA and PUT DATA work on the same object for every identifier.
THEOREM ReadBack == Spec => []ObjectsReadBack
BY Invariance, IInvImplies, PTL

\* Keys and objects change only in sessions that authenticated the management
\* key: PUT DATA and GENERATE check it, and no other handler changes them.
THEOREM Authorised == Spec => ChangesNeedManagementKey
<1> DEFINE Authority ==
      created' = created /\ <<keys', objects'>> # <<keys, objects>> => "MGMT" \in since
<1>1. IInv /\ [Next]_vars => [Authority]_vars
  <2> SUFFICES ASSUME IInv, Next PROVE Authority
    OBVIOUS
  <2> USE DEF data, Answer
  <2>1. "MGMT" \in auth => "MGMT" \in since
    BY DEF IInv, SessionPart, AuthorityIsOfThisSession
  <2>2. CASE \E o \in ObjectIds, v \in Values \cup {Empty} : PutData(o, v)
    BY <2>1, <2>2 DEF PutData
  <2>3. CASE \E s \in Slots \cup {"9B"}, k \in KeyIds, a \in Algorithms : Generate(s, k, a)
    BY <2>1, <2>3 DEF Generate
  <2>4. CASE \E r \in Refs, d \in Bytes : Verify(r, d)
    BY <2>4 DEF Verify
  <2>5. CASE \E r \in Refs, old, new \in Secrets : ChangeReferenceData(r, old, new)
    BY <2>5 DEF ChangeReferenceData
  <2>6. CASE \E puk, new \in Secrets : ResetRetryCounter(puk, new)
    BY <2>6 DEF ResetRetryCounter
  <2>7. CASE \/ \E o \in ObjectIds : GetData(o)
             \/ RefuseUpdate \/ Other
             \/ \E s \in Slots : KeyRefused(s)
    BY <2>7 DEF GetData, RefuseUpdate, Other, KeyRefused
  <2>8. CASE \/ \E s \in Slots, long \in BOOLEAN : Sign(s, long)
             \/ \E s \in Slots, good \in BOOLEAN : Decrypt(s, good)
    BY <2>8 DEF Sign, Decrypt
  <2>9. CASE \/ \E w \in Witnesses : RequestWitness(w)
             \/ \E w \in Witnesses \cup {Empty}, whole \in BOOLEAN : AnswerWitness(w, whole)
    BY <2>9 DEF RequestWitness, AnswerWitness
  <2>10. CASE Select \/ Reset
    BY <2>10 DEF Select, Reset
  <2>11. CASE NewCard
    <3>1. created' # created
      BY <2>11 DEF NewCard, IInv, DataPart
    <3>2. QED
      BY <3>1
  <2>12. QED
    BY <2>2, <2>3, <2>4, <2>5, <2>6, <2>7, <2>8, <2>9, <2>10, <2>11 DEF Next
<1>2. QED
  BY <1>1, Invariance, PTL DEF Spec, ChangesNeedManagementKey

\* A blocked PUK is final, and a blocked PIN comes back only through RESET
\* RETRY COUNTER with a PUK that is not blocked.
THEOREM Blocking == Spec => BlockedNeedsPuk
<1> DEFINE Kept ==
      created' = created =>
        /\ pins["PUK"].tries = 0 => pins'["PUK"] = pins["PUK"]
        /\ pins["PIN"].tries = 0 =>
             /\ "PIN" \in auth' => "PIN" \in auth
             /\ \/ pins'["PIN"] = pins["PIN"]
                \/ pins["PUK"].tries > 0 /\ pins'["PUK"].tries = MaxTries
<1>1. IInv /\ [Next]_vars => [Kept]_vars
  <2> SUFFICES ASSUME IInv, Next PROVE Kept
    OBVIOUS
  <2> USE DEF data, session, Answer
  <2>1. TypeOK
    BY IInvImplies
  <2>2. ASSUME NEW r \in Refs, pins[r].tries > 0,
               pins' = [pins EXCEPT ![r] = pins'[r]],
               r = "PIN" \/ auth' = auth
        PROVE  Kept
    BY <2>1, <2>2 DEF TypeOK, Refs
  <2>3. CASE \E r \in Refs, d \in Bytes : Verify(r, d)
    <3>1. PICK r \in Refs, d \in Bytes : Verify(r, d)
      BY <2>3
    <3>2. CASE UNCHANGED <<data, session>>
      BY <3>2
    <3>3. CASE pins[r].tries > 0 /\ Right(r, pins[r].value) /\ (r = "PIN" \/ auth' = auth)
      <4>1. pins' = [pins EXCEPT ![r] = pins'[r]]
        BY <2>1, <3>3 DEF Right, TypeOK
      <4>2. QED
        BY <2>2, <3>3, <4>1
    <3>4. CASE pins[r].tries > 0 /\ Wrong(r) /\ UNCHANGED session
      <4>1. pins' = [pins EXCEPT ![r] = pins'[r]]
        BY <2>1, <3>4 DEF Wrong, TypeOK
      <4>2. QED
        BY <2>2, <3>4, <4>1
    <3>5. QED
      BY <3>1, <3>2, <3>3, <3>4 DEF Verify
  <2>4. CASE \E r \in Refs, old, new \in Secrets : ChangeReferenceData(r, old, new)
    <3>1. PICK r \in Refs, old \in Secrets, new \in Secrets : ChangeReferenceData(r, old, new)
      BY <2>4
    <3>2. CASE UNCHANGED <<data, session>>
      BY <3>2
    <3>3. CASE pins[r].tries > 0 /\ (Wrong(r) \/ Right(r, Strip(Block(new)))) /\ UNCHANGED session
      <4>1. pins' = [pins EXCEPT ![r] = pins'[r]]
        BY <2>1, <3>3 DEF Right, Wrong, TypeOK
      <4>2. QED
        BY <2>2, <3>3, <4>1
    <3>4. QED
      BY <3>1, <3>2, <3>3 DEF ChangeReferenceData
  <2>5. CASE \E puk, new \in Secrets : ResetRetryCounter(puk, new)
    <3>1. PICK puk \in Secrets, new \in Secrets : ResetRetryCounter(puk, new)
      BY <2>5
    <3>2. CASE UNCHANGED <<data, session>>
      BY <3>2
    <3>3. CASE pins["PUK"].tries > 0 /\ Wrong("PUK") /\ UNCHANGED session
      <4>1. "PUK" \in Refs /\ pins' = [pins EXCEPT !["PUK"] = pins'["PUK"]]
        BY <2>1, <3>3 DEF Wrong, TypeOK, Refs
      <4>2. QED
        BY <2>2, <3>3, <4>1
    <3>4. CASE /\ pins["PUK"].tries > 0 /\ UNCHANGED session
               /\ \A r \in Refs : pins'[r].tries = MaxTries
      BY <3>4 DEF Refs
    <3>5. QED
      BY <3>1, <3>2, <3>3, <3>4 DEF ResetRetryCounter
  <2>6. CASE \/ \E o \in ObjectIds : GetData(o)
             \/ RefuseUpdate \/ Other
             \/ \E s \in Slots : KeyRefused(s)
    BY <2>6 DEF GetData, RefuseUpdate, Other, KeyRefused
  <2>7. CASE \/ \E o \in ObjectIds, v \in Values \cup {Empty} : PutData(o, v)
             \/ \E s \in Slots \cup {"9B"}, k \in KeyIds, a \in Algorithms : Generate(s, k, a)
    BY <2>7 DEF PutData, Generate
  <2>8. CASE \/ \E s \in Slots, long \in BOOLEAN : Sign(s, long)
             \/ \E s \in Slots, good \in BOOLEAN : Decrypt(s, good)
    BY <2>8 DEF Sign, Decrypt
  <2>9. CASE \/ \E w \in Witnesses : RequestWitness(w)
             \/ \E w \in Witnesses \cup {Empty}, whole \in BOOLEAN : AnswerWitness(w, whole)
    BY <2>9 DEF RequestWitness, AnswerWitness
  <2>10. CASE Select \/ Reset
    BY <2>10 DEF Select, Reset, ClearSession
  <2>11. CASE NewCard
    <3>1. created' # created
      BY <2>11 DEF NewCard, IInv, DataPart
    <3>2. QED
      BY <3>1
  <2>12. QED
    BY <2>3, <2>4, <2>5, <2>6, <2>7, <2>8, <2>9, <2>10, <2>11 DEF Next
<1>2. QED
  BY <1>1, Invariance, PTL DEF Spec, BlockedNeedsPuk

=============================================================================
