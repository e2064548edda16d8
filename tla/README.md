# A verification development for jcecard

jcecard is a virtual smart card: a driver library that pcscd loads
(`ifd-jcecard/`, Rust) and that presents two slots. Slot 0 holds a card with an
OpenPGP and a PIV applet written in this repository; slot 1 holds a Nitrokey 3
firmware stack run on the host. This directory holds TLA+ models of the driver
and of the cards of both slots, the TLC runs that check them, and theorems
about all of them, with proofs that TLAPS checks.

Paths below are relative to `ifd-jcecard/src/` unless they say otherwise.
`PROJECT.json` lists the runs, the source lines behind every definition, the
mutants, the hazards and the findings.

## 1. Inventory

| Component | State | Operations | Interacts with |
|---|---|---|---|
| IFD handler, `lib.rs` | slot table behind a mutex; a mutex per card | create and close channel, capabilities, power, transmit, presence | called by the threads of pcscd; calls the cards |
| Virtual card, `lib.rs` | powered, active applet | power on, power off, reset, APDU | routes APDUs to the applets |
| Chaining, `openpgp/applet.rs`, `piv/applet.rs` | command buffer and its instruction; response buffer and offset | chained blocks, GET RESPONSE | in front of the handlers |
| OpenPGP applet, `openpgp/` | session: verified conditions, copy of the PW1 policy | VERIFY, CHANGE REFERENCE DATA, RESET RETRY COUNTER, PUT DATA, key import, generate, sign, decipher, authenticate, terminate, activate | changes the card state, calls save |
| Card state and storage, `card/` | CardState in memory, the state file, the legacy file | load with migration, save, factory reset | used by the OpenPGP applet only |
| PIV applet, `piv/` | PIN and PUK with counters, management key, keys, objects, all in memory | VERIFY, CHANGE, RESET, GET and PUT DATA, generate, authenticate | - |
| Nitrokey card, `nitrokey/` | powered, APDU interchange, service thread, channels, littlefs volumes | transmit with a deadline, drop, mount | external applets, polled on the calling thread |
| APDU and TLV, `apdu/`, `tlv/` | none | parse, encode | used by both applets |
| Cryptography, `crypto/` | none | keys, signatures, decryption | external crates |
| Installer, Python card, vendored firmware | - | - | - |

What is hard in it:

- *Concurrency.* pcscd calls the driver from several threads. A call lets go of
  the slot table before it locks its card, or keeps the table while it waits
  for the card. The Nitrokey card has a second thread and a deadline.
- *Failure.* The state file is truncated and rewritten in place, the result of
  a save is ignored, and a file that does not parse becomes a factory card.
  pcscd may end between any two steps.
- *Order of commands.* Verified conditions, shared retry counters, open chains,
  half fetched responses and a life cycle meet in every order a host chooses.
- *Boundaries.* Lengths are cut to a byte, `61xx` has one byte for what is left,
  counters stop at zero and at 2^32 - 1, a command and an element have several
  forms by their length, and `mod_inverse` keeps signs of unsigned numbers.

What makes each component correct:

- OpenPGP applet: the limit on PIN tries, whatever is done in between; a change
  is durable before it is answered; blocked and terminated mean what they say;
  key pairs fit; signatures are counted; changes need the right PIN.
- Storage: a restart finds the state of the last answer, or the failure is one
  that the abstract store allows.
- PIV applet: three tries at PIN and PUK; authority ends with its session; a
  witness is good for one answer; keys and objects change only under the
  management key; a result is by the key that was announced.
- Virtual card: a command runs on its own data; a response is delivered once;
  a card that is off keeps no session.
- IFD handler: no call waits for ever, no command reaches a card that has left
  its slot, what was saved is there when a channel is created anew. (What was
  answered need not be: a save may fail unnoticed, and PIV saves nothing.)
- Nitrokey card: an answer belongs to its APDU, every call ends, and a volume
  that was formatted once keeps its data through builds, failures and crashes.
- APDU, TLV and key formats: what a host encodes the card decodes, what the card
  stored it finds again, and of a list that is cut only whole elements count: an
  RSA slot refuses a key that is not whole, a curve slot key data that is not.

## 2. Modules

| Module | Models | Role |
|---|---|---|
| `OpenPGPApplet` | `openpgp/applet.rs`, `pin_manager.rs`, `security_state.rs`, `card/state.rs` | the core |
| `OpenPGPApplet_proofs` | | its theorems |
| `MC_OpenPGPApplet` | | values of the constants for TLC |
| `AbstractStore` | what the applet relies on in `card/storage.rs` | abstract specification |
| `CardStore` | `card/storage.rs`, step by step | implements `AbstractStore` |
| `CardStore_proofs` | | its theorems, the refinement among them |
| `VirtualCard` | `VirtualCard` of `lib.rs`, `process_apdu` of both applets | composition of the applets' front ends |
| `VirtualCard_proofs` | | its theorems |
| `PIVApplet` | the handlers of `piv/applet.rs`, `data_objects.rs`, `security_state.rs` | the second applet |
| `PIVApplet_proofs` | | its theorems |
| `MC_PIVApplet` | | its view for TLC |
| `IfdHandler` | the entry points of `lib.rs` | threads and locks |
| `IfdHandler_proofs` | | its theorems |
| `NitrokeyCard` | `nitrokey/card.rs` | two threads and a deadline |
| `NitrokeySlot` | `nitrokey/platform.rs`, `storage.rs`, `NitrokeyCard::new` | composes a card with its volumes, their build and crashes |
| `NitrokeySlot_proofs` | | theorems about slot 1, its card included |
| `Apdu` | `apdu/mod.rs` | `parse_apdu` on bytes, and the host's encoder |
| `Tlv` | `tlv/parser.rs`, `tlv/encoder.rs` | encoder and parser on bytes |
| `KeyEncoding` | `crypto/rsa.rs`, `crypto/fingerprint.rs`, `card/state.rs` | formats of attributes, keys and fingerprints |
| `Encodings_proofs` | | theorems about `Apdu`, `Tlv` and the numbers of `KeyEncoding` |
| `ModInverse` | `mod_inverse` of `crypto/rsa.rs` | the loop, step by step |
| `KeyTransfer` | key import, generation, read and use in `openpgp/applet.rs` | composes `Apdu`, `Tlv`, `KeyEncoding` and `ModInverse` |
| `KeyTransfer_proofs` | | its theorems, those about `ModInverse` among them |
| `MC_KeyTransfer` | | values of its constants for TLC |

The operators whose comment begins with "Mutant:" are not part of the models.
Each is a plausible mistake in the code (a save that is missing, a guard that
is dropped); put in the place of the definition it precedes, it makes a named
property fail. They show that the properties can tell right code from wrong.

**OpenPGPApplet.** One action per command handler, from its first check to its
trailing save. `card` is the state in memory and `stored` what a load would
read back; `Save` is the last step of the handlers that call `save`, and may
fail. A secret is a value with a length and a stripped form (`SecretLen`,
`Strip`), because the code looks at nothing else of it: `as u8` is `Byte`, the
removal of padding bytes by VERIFY is `Strip`. A SHA-256 hash is the secret it
was made from. A key is a token with the algorithm it was made for; `InvalidFor`
says which tokens a curve rejects, which is what makes an import fail half way.
`guesses`, `made` and `halfImport` are history: no action reads them. `Restart`
is the end of the process at any point between commands, followed by `load`.

**CardStore and AbstractStore.** The abstract store has a state in memory and
a stored one; a change commits both at once, and a fault may leave the stored
state behind or lose it to the factory state. `CardStore` has the steps: the
migration of `~/.jcecard/card_state.json`, the load, the truncation and the
write of a save. Its refinement mapping counts a process that is not up as one
that has loaded what it will load, and lets a command take effect when its save
is over. `OpenPGPApplet` is shown to use its store in the same way
(`CommitsToStore`), so the two modules meet in `AbstractStore`.

**VirtualCard.** Both applets behind power, selection and chaining. The
handlers are left open: a command answers something, TERMINATE and ACTIVATE
change the life cycle, a key operation yields a response of any of `Lengths`.
A command buffer is the sequence of blocks it was built from, each marked with
its instruction and with whether it was sent since the last reset.

**PIVApplet.** One action per handler, on whole commands. A stored secret has no
0xFF byte, because every path to it cuts at the first one; what a host sends is
such a secret with or without padding (`Bytes`). `Strip` and `RawEqual` are the
two ways in which the code compares, and which command uses which is the point:
VERIFY strips the PIN and not the PUK, CHANGE REFERENCE DATA strips both, RESET
RETRY COUNTER does not strip the PUK. A public key is the two numbers that
`get_modulus` looks at, its first two bytes and its length; `Template` has the
real ones. `NewCard` is a channel created anew, which is all that happens to the
applet in a restart, as nothing of it is saved. `since`, `fresh`, `announced`,
`written`, `setPin` and `guesses` are history.

**IfdHandler.** A call is a thread at one of five points: outside, before the
table lock, holding it, before the card lock, using the card. Closing and the
ATR query keep the table lock while they wait for the card; power and transmit
do not. A card is its power and a set of numbered updates (`mem`), so that two
cards built from one file can be told apart: a command adds one and saves it, a
card built later loads what the file has. A load or a save may fail, a save before
or after the file was truncated, and the command is answered all the same
(`Update`). What the PIV applet holds is not among these updates: it has no store
(`lib.rs:112`), so its commands are here among those that save nothing, and
`PIVApplet` has its state and the loss of it (`NewCard`). `made` and `kept` are
history, the second being the updates that were saved and that no failure touched
since.

**NitrokeyCard.** The thread of the caller in the loop of `run_apdu`, inside an
applet or waiting for the Trussed service; the service thread in its loop of
`try_recv` and `recv_timeout`. The interchange, the dispatcher and the applets
are external crates, modelled by how this code uses them: an applet may call
the service any number of times, and `poll` may return without a response.

**NitrokeySlot.** The life of slot 1 around that card. `NitrokeyCard::new` is one
action per operation that can fail: the directory, the test whether the two
image files exist, their creation and size, format and mount, the threads. An
image is absent, short, of its size but never formatted, or a littlefs with the
number of updates in it. A mount knows the number of updates it has seen, and a
write through a mount that has missed one damages the image: this is how two
mounts of one image would show. littlefs itself, which keeps an image consistent
when a write to it is cut, is external. `Crash` ends the process anywhere.

**KeyTransfer and its parts.** One slot with real bytes. The host builds a
command from elements, sends it in each form of APDU that can carry it (short,
extended, and short behind a 00), whole or cut; the card parses it with the
operators of `Apdu` and `Tlv`, stores the key with those of `KeyEncoding`, and
`SignBegins`, `InverseStep` and `SignEnds` are the loop of `mod_inverse` when
the key is used. The host's encoder is written from ISO 7816-4 and is not the
card's: the two meet in `CommandArrives` and `ListsReadBack`. A public key on a
curve is a stand-in computed from the scalar, SHA-1 keeps what it hashed.
`request` and `held`, what the host sent and what a slot was said to hold, are
history. Hosts also send what they should not: keys cut to any length, imports
without 7F48 or with the elements of a key out of order, attributes too short
or too long. PINs and chaining are left to the modules that have them.

## 3. Runs

| Run | Checks | Instance |
|---|---|---|
| `pins` | try limit, durability, lengths, blocking, termination; refinement of `AbstractStore` (the try limit under more faults is theorem `TryLimit`) | 4 secrets: none, of 6, 8 and 262 bytes; 2 tries; 1 failing save or load |
| `keys` | signature key: pairs, counter, authority | RSA, P-256 and an unknown algorithm; a valid and an invalid key; counter up to 1 |
| `key_use` | authority over the decryption and authentication keys and a private DO | RSA and P-256 ECDH |
| `key_bytes` | commands arrive, what an import takes, slots and lists read back, `mod_inverse` | 1 slot, 8 RSA keys, 4 scalars, 9 attribute values, 7 lists cut at 11 places, 8 payloads, 5 values of Le |
| `state_file` | `CardStore` implements `AbstractStore`; installations keep their data | 4 states, 3 faults |
| `card_io` | chaining, selection, power | responses of 0 and 512 bytes, Le of 200 and 256, 2 blocks |
| `piv` | PIV try limit, blocking, PIN blocks, session authority, witnesses, key use, objects | 3 secrets: 8 bytes, 6 bytes, none; slot 9C, 2 keys, 3 algorithms; 2 certificates; 2 applets |
| `ifd` | every call returns; no orphan card in use, nothing saved is lost, table not held for long | 2 threads, 2 slots, 2 cards, 1 update, 1 failing load or save |
| `nitrokey` | own answers, next APDU accepted, volumes keep their data, a slot is lost only before its first card, every call ends | 3 APDUs, 2 rounds of the loop, 2 updates per volume, 2 faults |
| `policy`, `fingerprint`, `piv_rsa` | statements of the repository that the code does not keep | see section 6 |

Why the bounds are enough to be interesting. Two tries are the least limit at
which a PIN can be wrong once and not blocked; the theorem `TryLimit` removes
the bound. The secrets cover the classes that the lengths tell apart: too short,
allowed for PW1 only, allowed for both, and allowed only because its length is
cut to a byte. A counter that saturates at 1 reaches the
saturation and goes past it. 512 bytes with an Le of 200 or 256 give responses
in two and in three parts, with more than 255, exactly 256 and fewer bytes
left. Two blocks are the least number at which blocks of two commands can mix.
The PIV limit of three tries is the code's own; two keys tell an old one from a
new one, and the theorems about the PIV applet remove its other bounds. Two
cards let a channel be created again over a card in use; one update is enough
for it to be lost between two cards. Two faults let a build
fail or crash once and the next one again; two updates tell a volume that lost
one from a volume that lost all. The bytes of `key_bytes` sit at the places where
a form changes: values of 0, 127, 128, 255 and 256 bytes, tags of one to three
bytes, data that begins with 00, Le of 1, 256, 257 and 65536, keys whose
components are 128 bytes long, exponents with and without an inverse and one
above phi; the cuts fall between and inside elements. Two imports are of the kind
a curve slot takes against their meaning: a scalar without its 7F48, and a key of
33 bytes whose last byte is missing; one attribute value for RSA is a byte too
long. The algorithms of `key_use` do not include an unknown one, for which
`PsoDecipher` has an answer of its own (6A81) that no property reads. The key
runs use the view `KeyView`, which leaves out the last answer and the guesses: no guard
reads these and no property of those runs does. `View` of
`MC_PIVApplet` leaves out of the last answer all but the result of a key.

*Deadlock* is checked in every run.

*Fairness* is assumed in two modules. In `IfdHandler` a thread inside an entry
point is scheduled, and a mutex is not withheld from a waiting thread for ever:
strong fairness of the thread's steps, which at a lock are the taking of the lock
alone. The mutexes are those of parking_lot, which are eventually fair. In `NitrokeySlot`
both threads run and a build goes on (weak fairness), and an applet that keeps
calling the service returns from `poll` in the end (strong fairness of
`AppReturn`), which is a statement about the external applets. Nothing is assumed
of hosts: they need never send another command. The other modules have safety properties only.

*What three properties of `ifd` assume.* `IFDHGetCapabilities` answers 1 to
`TAG_IFD_SLOT_THREAD_SAFE`: pcscd then calls different slots at the same time
and the same slot one call at a time. The history variable `serial` says that it
did so far, and is the premise of `NoOrphanInUse`, `NothingSavedIsLost` and
`TableNotHeldForLong`: a call that waits for its card could otherwise see the
channel created anew, and a card that was replaced could overwrite what its
successor saved. So these three say nothing of overlapping calls of one slot,
which would lose updates. `EveryCallReturns` does without the premise.

*Types.* `TypeOK` is checked for the two applets, where it says that counters
stay within their limits. `CardStore`, `VirtualCard`, `IfdHandler` and
`NitrokeySlot` define it too, as the first part of the inductive invariants that
section 4 proves; no run lists it there.

## 4. Theorems

Every theorem holds for every value of the constants, which is what the runs of
section 3 cannot show. The only assumptions are those that the modules state of
their constants, and TLC evaluates them on every run.

### OpenPGP applet

`OpenPGPApplet_proofs` proves, for every set of secrets, keys, algorithms and
objects, every retry limit, every width of the signature counter and every
number of faults:

- `TypeCorrect`: `Spec => []TypeOK`. Retry counters stay in `0..MaxRetries`,
  lengths in a byte, the signature counter at or below its maximum.
- `Durability`: `Spec => []AnsweredIsDurable`. While nothing fails, the file
  holds the state in which an answer was given.
- `TryLimit`: `Spec => []RetryBudget`. Wrong attempts since the last refill and
  tries left add up to at most one limit per fault, and to exactly the limit
  for PW1 and PW3 while nothing fails.
- `LengthsMatch` (`LengthMatchesSecret`), `PairsIntact` (`KeyPairIntact`) and
  `SignatureCount` (`SignaturesCounted`): what the card says of a secret, a slot
  and a key agrees with what it holds.
- The action properties `Authorisation` (`ChangesAreAuthorised`), `Frozen`
  (`TerminatedIsFrozen`) and `Blocking` (`BlockedStaysBlocked`).
- `Commitment`: `Spec /\ []NoHalfImport => CommitsToStore`. A behaviour in which
  no import of a curve key fails half way is one of `AbstractStore`. The premise
  is needed: the failed import changes memory and does not save (section 6).

The argument. The lemma `StepEffect` sorts the steps by what they do to PINs,
memory and file: a step is *quiet* (neither changes), *saving* (the attempt at a
secret is charged or its counter is refilled, and then saved), a *half import*
(a private key replaced without a save), or a *reload* (memory is taken from
the file, or is the factory state after a failed load). One lemma per handler
puts it in its class. The invariants are then proved once per class instead of
once per handler. `StepKind` does the same for the later theorems, with finer
classes: an `Edit` obeys one rule for PINs (`PinRule`), one for slots
(`SlotRule`), one for the counter (`CountRule`), one for authority
(`AuthorityRule`) and one for the file (`SaveRule`).

`RetryBudget` speaks of the card in memory and is not inductive: a restart
brings back the counters of the file, about which it says nothing. `RetryInv`
adds the same bound for the counters of the file (`Within`), the same equality
for the file while there are no faults (`Exact`), and the bound itself
(`Budget`). A failed save or load adds one to `faults` and with it one full set
of tries to the bound, which pays for the counters that come back. The other
properties need the same kind of strengthening for the same reason: `FaultInv`
has `KeyPairIntact` and `SignaturesCounted` of the file as well as of memory, and
the lengths are shown to match in both. `Frozen` and `Blocking` rest on the file
having the terminated flag and the counters of memory while nothing fails.

### Storage

`CardStore_proofs` proves `InstallationKeepsData` (`InstallKeepsData`) and
`Implementation`: `Spec => ImplementsStore`, for every set of states and any
number of failing operations and crashes. The invariant says what the abstract
state is computed from: a save that has not opened the file has left what a load
would read (`CommandPart`), and data found at installation is in the state file
or, before the first start, in the legacy one (`InstallPart`). The refinement has
one lemma per step: most are stutters, the end of a save is `Commit`, and
failures and crashes are `FailedCommit` or `FailedLoad`. `Commitment` and
`Implementation` meet in `AbstractStore`: what the applet asks of its store is
what the file gives.

### Virtual card

`VirtualCard_proofs` proves, for responses of any length, any Le and chains of any
number of blocks, `WholeCommands` (`CommandsAreWhole`), `BytesOnce`
(`EveryByteOnce`), `SelectSucceeds` (`SelectRecovers`) and `CleanWhenOff`
(`OffIsClean`), which is about the sessions of both applets and the chain and the
response of the OpenPGP applet. `ChainPart` is the strengthening that is not obvious. The OpenPGP
applet's buffer always holds the blocks it acknowledged for the open instruction.
The PIV applet's need not: its chain outlives a reset. But only a SELECT makes the
applet active again, a SELECT can only turn such a chain into one of SELECT or
drop it, and a chain of SELECT is never run (`PIVReady`).

### IFD handler

`IfdHandler_proofs` proves, for any number of threads, slots, cards and updates:
`MutualExclusion` of both kinds of mutex, and under the premise `serial`
`NoOrphan` (`NoOrphanInUse`), `NothingLost` (`NothingSavedIsLost`) and `TableFree`
(`TableNotHeldForLong`). `NothingSavedIsLost` is about the updates that a save has
written and that no later failure touched. That no answered update is lost would
be false, for two reasons that the model has: a command whose save failed is
answered all the same, and the PIV applet never saves (section 6). The
invariant ties each lock to the point of the call
that holds it (`LockPart`), keeps the cards of the table distinct (`CardPart`) and
spells out `serial` (`SerialPart`): no two calls of one slot are under way. A call
that has let go of the table is then the only one that could take its card out of
the slot.

### Slot 1

`NitrokeySlot_proofs` proves, for any number of APDUs, rounds, updates, faults and
crashes: `OwnAnswers` (`AnswersOwnApdu`), `NextAccepted` (`NextIsAccepted`),
`RefusedOnlyAtFirst` (`RefusedOnlyIfNeverBuilt`) and `DataKept` (`VolumesKeepData`).
`CardPart` says in which state the interchange is at each point of `run_apdu`, and
that the service thread has a request only while an applet waits. `MountPart` is
what keeps the data: the mounts of the card know every update, so nothing is
written through a stale one. `FreshPart` says that what a build formats holds no
data yet, and `RefusedPart` that a start without faults formats what it creates.

### PIV applet

`PIVApplet_proofs` proves, for every set of secrets, slots, keys, objects and
witnesses and any number of new channels: `TypeCorrect`, `PinTryLimit`
(`TryLimit`), `PinBlock` (`PinBlockVerifies`), `SessionAuthority`
(`AuthorityIsOfThisSession`), `ChallengeOnce` (`ChallengeUsedOnce`), `KeyUse`
(`KeyUseIsRight`), `ReadBack` (`ObjectsReadBack`), and the action properties
`Authorised` (`ChangesNeedManagementKey`) and `Blocking` (`BlockedNeedsPuk`).

The inductive invariant `IInv` has four parts, for PINs, session, data and
answer, and a handler is taken through only the parts it changes (the frame
lemmas `PinFrame`, `SessionFrame` and `DataFrame` do the rest). It adds one
fact to the properties: the private key in a slot is the one announced for it.
`KeyUseIsRight` needs it, as an answer names the key that signed, and needs
`AuthorityIsOfThisSession`, as the handler looks at the condition and the
property at the session. `ReadBack` rests on `FieldsAgree`: the two tables of
object identifiers are equal and map no two objects to one field.

### Bytes and keys

`Encodings_proofs` has the operators on bytes, `KeyTransfer_proofs` the behaviour
of host and card. What a recursive definition computes is proved by induction on
numbers, which the lemmas `Induction` and `StrongInduction` state with a set in
the place of a predicate: the set of the inputs for which a claim holds. A
recursive function is first shown to exist (`ValueExists`, `ReadListUnfolds`,
`ToBytesUnfolds`, `FlattenIs`), one input longer or larger at a time, because a
definition by `CHOOSE` says nothing of a function that does not.

- `EveryFormArrives`: `parse_apdu` inverts each form of APDU that can carry a
  command, for data of every length up to what the form allows and every Le, and
  `ParsedInside`: for any bytes at all it answers an error or a command whose data
  lie within those bytes. The first turns on a short body behind a 00 never being
  as long as an extended one: its first two bytes, read as a length, are at least
  256 times the length of its data (`PrefixedArrives`).
- `SingleRead`: of bytes that start with an encoded element, for every tag of one
  to three bytes and every value of up to 2^24 - 1 bytes, `read_single` reads the
  element and leaves what follows. `CutListRead`: of the first c bytes of a list of
  elements, for every c, `read_list` reads the elements that are whole and no
  more. It rests on the two directions of each part, what is whole is read
  (`TagRead`, `LengthRead`) and what is cut is not (`TagCut`, `LengthCut`), and on
  offsets at which the elements of a list begin (`LaidOut`).
- `CommandsArrive` (`CommandArrives`): whatever keys, lists and commands a host
  sends, the applets get the header, the data and the Le it built them from. The
  invariant `Sent` says which commands can be on the way. It needs the lengths of
  what the host encodes to fit a command, which is where the bounds of
  `KeysAssumption` and `ListsAssumption` are used.
- `ListsAlwaysReadBack` (`ListsReadBack`): lists nested to any depth are read back,
  cut ones as their whole elements, and the encoder of the card builds the bytes
  that the host's does. The induction is on the length of the bytes: the lists
  within an element are shorter than the element (`SubShorter`).
- `InverseAlwaysRight` (`InverseIsRight`): `mod_inverse`, for every exponent and
  every modulus above zero. Each turn of the loop keeps `Congruent` (a remainder
  is its signed coefficient times the exponent, modulo the modulus), `Bounded` and
  the common divisors of the two remainders (`StepDivisors`). So at the end there
  is a result exactly when exponent and modulus have no common divisor, it is at
  most the modulus, and it inverts the exponent. `Bounded` carries the argument:
  the sum of the coefficients' magnitudes, each times the other remainder, stays
  equal to the modulus, because two coefficients of one sign are never both
  nonzero and the magnitudes so always add. It keeps every coefficient at or
  below the modulus, and `m - &old_s` at or above zero. `TransferInv` adds what
  starts the loop: the private keys in the slots are bytes whatever was imported
  (`AreSlots`), so exponent and modulus are numbers.
- `ImportAlwaysWhole` (`ImportIsWhole`) and `SlotAlwaysReadsBack` (`SlotReadsBack`):
  whatever keys a host imports, cut or whole, whatever lists it sends in their
  place, whatever attributes the slots are given in between and whatever the card
  generates. `ImportOutcome` follows the bytes of the host through
  `handle_key_import`: the template 4D, the three elements in it, the lengths in
  7F48 and the components cut at them (`CutListRefused`, `CutObjectRefused`,
  `RsaSlotImport`, `CurveSlotImport`), and finds five ways to end: nothing is
  stored, a whole RSA key is, a whole 5F48 is as a scalar, its private half is on
  a curve that the card does not know, or the list was one of the host's `Lists`
  that happens to begin with 4D, of which nothing is claimed (`StoringOther`). A
  curve slot does not read 7F48, so `Believed` has the host think that it holds
  the content of 5F48; the third way covers an RSA key that was cut to that size
  as well as a scalar. The invariant `ImportInv` is `TransferInv` with
  three parts. `HeldInv`: a slot of which the host was told that it holds a key
  has its secret, and its public key in the form of the algorithm the key was
  made for (`IsPublic`). That form is not in either property and is what makes
  them inductive: attributes change between the import and the read, and the
  bytes of one algorithm mean nothing to the next. `Told`: the answer that is out
  was true of the slots when it was given, and still is, because nothing but an
  answer changes a slot. `Signing`: the loop of `mod_inverse` runs for a signature
  only, so its end answers no other request. A public key that `IsPublic`
  describes is answered as it was made (`PublicRead`) and has a fingerprint
  (`FingerprintCounts`). Attributes are read as written but for RSA, where
  `AttributesKept` is the first six bytes, for written values of every length.

### Only model-checked

- `EveryCallReturns` and `EveryCallEnds`: liveness under fairness is out of the
  prover's reach. That the loop of `mod_inverse` ends is not stated; each turn
  lowers the remainder (`Remainder`).
- The violations of section 6, which are counterexamples.

## 5. Not modelled

- Cryptography that external crates do: of a signature, a cipher or a curve the
  models have whether it may fail and which key it used, of SHA-1 what it hashed.
- littlefs, Trussed and the applets of slot 1, also external: they are parties of
  `NitrokeyCard` and `NitrokeySlot`, modelled by how the driver uses them.
- The buffers of pcscd: a response longer than the buffer of the host is cut
  (`lib.rs:602`).
- Lengths of eight bytes and more in an import, whose sum could wrap: no host here
  sends them. An imported RSA prime of value zero, which makes `p - 1` panic when
  the key is used (`crypto/rsa.rs:130`), is in `DecodePrivateKey`.
- Formatting of data objects, ATRs, logging, the installer, the vendored
  firmware, and the Python card that the Rust one replaced.
- `CardStore` has no reordering of writes by the operating system after a power
  failure of the machine: the code never calls fsync, so nothing could be
  promised there; the crash modelled is that of the process.

## 6. Where the repository and the code disagree

Three runs expect a violation.

- `policy`: `after_sign` reads a copy of the PW1 policy that only VERIFY
  refreshes. After VERIFY 81 and PUT DATA C4 = 00 a signature leaves PW1
  verified, against the comment on `after_sign`.
- `fingerprint`: `calculate_fingerprint_rsa` writes 8 times the number of bytes
  where its comment and the format of OpenPGP have the number of bits. The
  exponent 65537 becomes 24 bits instead of 17, and the fingerprint of a
  generated key is that of no OpenPGP key. The other four functions of
  `crypto/fingerprint.rs` count in the same way.
- `piv_rsa`: `generate_rsa_key` stores the public key as the template 7F49, and
  `sign_data` and `decrypt_data` look for a modulus behind a two-byte length.
  GENERATE of an RSA key succeeds and no use of it ever does, against the table
  of algorithms in `ifd-jcecard/README.md`.

Observations from the source that no run is about:

- The PIV applet is built without a store (`lib.rs:112`) and saves nothing, while
  `ifd-jcecard/README.md` says "Card state persisted": a PIN, a key or an object
  that a PIV command changed and answered 9000 is gone when the channel is created
  anew (`NewCard`).
- VERIFY removes 0x00 and 0xFF bytes (`openpgp/applet.rs:357`), the commands that
  set a PIN do not. A PIN with such a byte is accepted and never verifies, and
  each attempt uses up a try.
- A crash of the first start of slot 1, between the creation of a volume and its
  format, leaves an image that later starts find but cannot mount: the slot has
  no card until the file is removed. `RefusedOnlyIfNeverBuilt` says that this is
  the only way to lose it.
- A short body behind a 00 (`apdu/mod.rs:153`) whose data is one byte and that has
  no Le, `00 01 xx`, is read as an extended Le; hosts have no reason to send it,
  and `Carries` leaves it out.
- GET RESPONSE and chained blocks are handled before the check for a terminated
  card (`openpgp/applet.rs:67`), which so still hands out a response it holds;
  the comment there says "Only ACTIVATE_FILE is allowed on terminated card".
- `decrypt_data` of the PIV applet refuses curve keys, while
  `ifd-jcecard/README.md` lists ECDH for slot 9D.
- ACTIVATE FILE resets a card that was not terminated, and asks for no PIN. For
  the Python card, `tests/test_integration.py:779` expects a refusal.
- After one APDU ran into the deadline of slot 1, the interchange is not idle
  and `run_apdu` returns before it polls: the card answers 6400 until its
  channel is created anew.
- A PUK of fewer than 8 bytes, which CHANGE REFERENCE DATA accepts, never
  unblocks the PIN: RESET RETRY COUNTER compares it with its padding.
- GENERATE for slot 9B answers a public key whose private key is stored nowhere.
- Clearing the reset code keeps its retry counter.
- A slot on a curve takes any key data of its scalar's size and does not look at
  7F48 (`openpgp/applet.rs:834`): a longer key that lost bytes until it has that
  size is taken as a scalar and answered 9000. `key_bytes` sends such keys;
  `ImportIsWhole` says of a curve slot only that it took a whole 5F48.
- Attributes for RSA are read from six bytes and more (`card/state.rs:282`), and
  what follows the sixth is forgotten: they are not read as they were written.
  `SlotReadsBack` says so (`AttributesKept`).
- A failed import of a curve key leaves the new private key in memory beside
  the old public key (`openpgp/applet.rs:891`); the next save makes it durable.
  `KeyPairIntact` and `AnsweredIsDurable` exempt such a slot.
- Lengths of PINs are cut to a byte: a PIN of 262 bytes passes as one of 6.
  `LengthMatchesSecret` states this and does not exclude it.
- A channel created anew refills the counters of the PIV PIN and PUK, which are in
  memory only: the three tries of `TryLimit` are per channel.

## 7. Plan

Order of the work, the most important behaviour first.

1. `OpenPGPApplet` with its theorems. *Done.*
2. `AbstractStore` and `CardStore`, with the refinement proved. *Done.*
3. `VirtualCard` with its theorems. *Done.*
4. `IfdHandler` with its safety theorems. *Done.*
5. `NitrokeyCard` and `NitrokeySlot` with their safety theorems. *Done.*
6. `PIVApplet` with its theorems. *Done.* A SELECT that meets an open chain and so
   passes by the handler that clears the session is in `VirtualCard`, where it is
   refused and succeeds the second time (`SelectRecovers`).
7. `Apdu`, `Tlv`, `KeyEncoding`, `ModInverse`, `KeyTransfer`, with theorems about
   parsing, lists and `mod_inverse`. *Done.*
8. The theorems that the properties of `KeyTransfer` hold for every key. *Done.*
