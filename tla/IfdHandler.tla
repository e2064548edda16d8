----------------------------- MODULE IfdHandler -----------------------------
(***************************************************************************)
(* The PC/SC entry points (lib.rs) called by the threads of pcscd: the     *)
(* mutex around the slot table, the mutex around each card, and the        *)
(* reference that a call keeps to a card after it let go of the table.  A  *)
(* card is its power and the updates it holds in memory for the state file *)
(* of its slot, which a card built later loads; saving and loading may     *)
(* fail.  The volumes of the Nitrokey in slot 1 are such a file.  What the *)
(* PIV applet of slot 0 holds has no file and dies with the card           *)
(* (PIVApplet.NewCard): its commands are among those that save nothing.    *)
(***************************************************************************)
EXTENDS Naturals

CONSTANTS
  Threads,     \* threads of pcscd
  Slots,       \* slot numbers, NUM_SLOTS of them
  MaxCards,    \* card objects the handler may build: a bound of the model
  MaxUpdates,  \* changes that commands may make to cards: a bound of the model
  MaxFaults,   \* loads and saves that may fail: a bound of the model
  Nobody       \* holder of a free mutex

ASSUME IfdAssumption ==
  /\ MaxCards \in Nat /\ MaxUpdates \in Nat /\ MaxFaults \in Nat
  /\ Nobody \notin Threads

\* Cards and updates are numbered in the order in which they come about.
Cards == 1..MaxCards
Updates == 1..MaxUpdates
NoCard == 0

\* Power: the three actions of IFDHPowerICC.
Ops == {"Create", "Close", "Atr", "Power", "Transmit", "Presence"}

VARIABLES
  slots,      \* IfdState.slots
  stateLock,  \* holder of the mutex of IFD_STATE
  cardLock,   \* holder of the mutex of each card
  call,       \* what each thread is doing: point, operation, slot, card
  powered,    \* the cards that are powered
  mem,        \* the updates each card holds in memory and saves
  file,       \* the updates in the state file of each slot
  built,      \* how many cards were built so far
  faults,     \* how many loads and saves have failed
  \* History of the run, read by no action but to number the updates.
  made,       \* how many updates were made and answered
  kept,       \* the updates of each slot that were saved and that no failure
              \* touched since
  serial      \* no two calls of one slot overlapped so far: what pcscd keeps
              \* to for a driver that answers 1 to TAG_IFD_SLOT_THREAD_SAFE

locks == <<stateLock, cardLock>>
data == <<mem, file, faults, made, kept>>
cards == <<powered, built, data>>
vars == <<slots, locks, call, cards, serial>>

Idle == [at |-> "idle", op |-> "Presence", slot |-> 0, card |-> NoCard]
At(t, p) == call[t].at = p
Busy(s) == \E t \in Threads : call[t].at # "idle" /\ call[t].slot = s

\* The thread goes on at p, with the card c, or returns.
GoTo(t, p, c) == call' = [call EXCEPT ![t].at = p, ![t].card = c]
Return(t) == call' = [call EXCEPT ![t] = Idle]

-----------------------------------------------------------------------------

\* pcscd calls an entry point.
Call(t, op, s) ==
  /\ At(t, "idle")
  /\ serial' = (serial /\ ~Busy(s))
  /\ call' = [call EXCEPT ![t] = [at |-> "state", op |-> op, slot |-> s, card |-> NoCard]]
  /\ UNCHANGED <<slots, locks, cards>>

\* get_state().lock()
LockState(t) ==
  /\ At(t, "state") /\ stateLock = Nobody
  /\ stateLock' = t
  /\ GoTo(t, "table", NoCard)
  /\ UNCHANGED <<slots, cardLock, cards>>

\* Mutant: the card is built without load().
CreateUnloaded(t) ==
  LET s == call[t].slot IN
  /\ At(t, "table") /\ call[t].op = "Create" /\ built < MaxCards
  /\ built' = built + 1
  /\ slots' = [slots EXCEPT ![s] = built + 1]
  /\ stateLock' = Nobody
  /\ Return(t)
  /\ UNCHANGED <<cardLock, powered, data>>

\* CardDataStore::load for the card c: a file that cannot be read leaves it in
\* the factory state, and what the file had counts as touched by the failure.
Load(s, c) ==
  \/ /\ mem' = [mem EXCEPT ![c] = file[s]]
     /\ UNCHANGED <<kept, faults>>
  \/ /\ faults < MaxFaults /\ faults' = faults + 1
     /\ mem' = [mem EXCEPT ![c] = {}]
     /\ kept' = [kept EXCEPT ![s] = {}]

\* IFDHCreateChannelByName and IFDHCreateChannel: the card is built from the
\* file and replaces the one in the table; a build may fail.
CreateChannel(t) ==
  LET s == call[t].slot IN
  /\ At(t, "table") /\ call[t].op = "Create"
  /\ \/ /\ built < MaxCards
        /\ built' = built + 1
        /\ Load(s, built + 1)
        /\ slots' = [slots EXCEPT ![s] = built + 1]
     \/ UNCHANGED <<built, mem, kept, faults, slots>>
  /\ stateLock' = Nobody
  /\ Return(t)
  /\ UNCHANGED <<cardLock, powered, file, made>>

\* Mutant: an early return that keeps the lock of the table.
NoCardKeepsLock(t) ==
  /\ At(t, "table")
  /\ \/ call[t].op = "Presence"
     \/ call[t].op # "Create" /\ slots[call[t].slot] = NoCard
  /\ Return(t)
  /\ UNCHANGED <<slots, locks, cards>>

\* IFDHICCPresence, and every entry point that finds no card in its slot.
NoCardInSlot(t) ==
  /\ At(t, "table")
  /\ \/ call[t].op = "Presence"
     \/ call[t].op # "Create" /\ slots[call[t].slot] = NoCard
  /\ stateLock' = Nobody
  /\ Return(t)
  /\ UNCHANGED <<slots, cardLock, cards>>

\* Mutant: the card is taken out of the table for its ATR too.
KeepTableTakes(t) ==
  LET s == call[t].slot IN
  /\ At(t, "table") /\ call[t].op \in {"Close", "Atr"} /\ slots[s] # NoCard
  /\ GoTo(t, "card", slots[s])
  /\ slots' = [slots EXCEPT ![s] = NoCard]
  /\ UNCHANGED <<locks, cards>>

\* IFDHCloseChannel takes the card out of the table; IFDHGetCapabilities for
\* the ATR looks at it.  Both keep the lock of the table.
KeepTable(t) ==
  LET s == call[t].slot IN
  /\ At(t, "table") /\ call[t].op \in {"Close", "Atr"} /\ slots[s] # NoCard
  /\ GoTo(t, "card", slots[s])
  /\ slots' = IF call[t].op = "Close" THEN [slots EXCEPT ![s] = NoCard] ELSE slots
  /\ UNCHANGED <<locks, cards>>

\* Mutant: every call goes to the card of slot 0.
LeaveTableFirst(t) ==
  /\ At(t, "table") /\ call[t].op \in {"Power", "Transmit"} /\ slots[0] # NoCard
  /\ GoTo(t, "card", slots[0])
  /\ stateLock' = Nobody
  /\ UNCHANGED <<slots, cardLock, cards>>

\* IFDHPowerICC and IFDHTransmitToICC clone the reference and let go.
LeaveTable(t) ==
  LET s == call[t].slot IN
  /\ At(t, "table") /\ call[t].op \in {"Power", "Transmit"} /\ slots[s] # NoCard
  /\ GoTo(t, "card", slots[s])
  /\ stateLock' = Nobody
  /\ UNCHANGED <<slots, cardLock, cards>>

\* card_arc.lock()
LockCard(t) ==
  /\ At(t, "card") /\ cardLock[call[t].card] = Nobody
  /\ cardLock' = [cardLock EXCEPT ![call[t].card] = t]
  /\ GoTo(t, "use", call[t].card)
  /\ UNCHANGED <<slots, stateLock, cards>>

\* CardDataStore::save of the card c after an update: it may fail before it touches the file,
\* or after fs::write has truncated it.
Save(s, c) ==
  \/ /\ file' = [file EXCEPT ![s] = mem'[c]]
     /\ kept' = [kept EXCEPT ![s] = @ \cup mem'[c]]
     /\ UNCHANGED faults
  \/ /\ faults < MaxFaults /\ faults' = faults + 1
     /\ \/ UNCHANGED <<file, kept>>
        \/ /\ file' = [file EXCEPT ![s] = {}]
           /\ kept' = [kept EXCEPT ![s] = {}]

\* A command of the OpenPGP applet, or of the Nitrokey, makes an update to the
\* card c and is answered, whatever becomes of the save.
Update(s, c) ==
  /\ made < MaxUpdates /\ made' = made + 1
  /\ mem' = [mem EXCEPT ![c] = @ \cup {made + 1}]
  /\ Save(s, c)

\* The operation on the card, after which the guards are dropped.
UseCard(t) ==
  LET c == call[t].card
      s == call[t].slot
  IN
  /\ At(t, "use")
  /\ \/ /\ call[t].op \in {"Close", "Power"}
        /\ powered' = powered \ {c}
        /\ UNCHANGED data
     \/ /\ call[t].op = "Power"
        /\ powered' = powered \cup {c}
        /\ UNCHANGED data
     \/ /\ call[t].op = "Transmit" /\ c \in powered
        /\ Update(s, c)
        /\ UNCHANGED powered
     \/ /\ call[t].op \in {"Transmit", "Atr"}
        /\ UNCHANGED <<powered, data>>
  /\ cardLock' = [cardLock EXCEPT ![c] = Nobody]
  /\ stateLock' = IF stateLock = t THEN Nobody ELSE stateLock
  /\ Return(t)
  /\ UNCHANGED <<slots, built>>

Init ==
  /\ slots = [s \in Slots |-> NoCard]
  /\ stateLock = Nobody /\ cardLock = [c \in Cards |-> Nobody]
  /\ call = [t \in Threads |-> Idle]
  /\ powered = {} /\ built = 0 /\ faults = 0 /\ made = 0
  /\ mem = [c \in Cards |-> {}]
  /\ file = [s \in Slots |-> {}] /\ kept = [s \in Slots |-> {}]
  /\ serial = TRUE

Step(t) ==
  /\ \/ LockState(t) \/ CreateChannel(t) \/ NoCardInSlot(t) \/ KeepTable(t) \/ LeaveTable(t)
     \/ LockCard(t) \/ UseCard(t)
  /\ UNCHANGED serial

Next == \E t \in Threads : Step(t) \/ \E op \in Ops, s \in Slots : Call(t, op, s)

(***************************************************************************)
(* A thread inside an entry point is scheduled, and the mutexes (those of  *)
(* parking_lot) hand over to a waiting thread in the end however often     *)
(* others take them: at such a point taking the lock is its only step.     *)
(***************************************************************************)
Fairness == \A t \in Threads : SF_vars(Step(t))

Spec == Init /\ [][Next]_vars /\ Fairness

-----------------------------------------------------------------------------
(* Properties. *)

\* The type of the state.
TypeOK ==
  /\ slots \in [Slots -> Cards \cup {NoCard}]
  /\ stateLock \in Threads \cup {Nobody}
  /\ cardLock \in [Cards -> Threads \cup {Nobody}]
  /\ call \in [Threads -> [at: {"idle", "state", "table", "card", "use"}, op: Ops,
                           slot: Slots \cup {0}, card: Cards \cup {NoCard}]]
  /\ built \in 0..MaxCards /\ powered \subseteq 1..built /\ faults \in 0..MaxFaults
  /\ made \in 0..MaxUpdates /\ mem \in [Cards -> SUBSET Updates]
  /\ file \in [Slots -> SUBSET Updates] /\ kept \in [Slots -> SUBSET Updates]
  /\ serial \in BOOLEAN

\* Every call returns, with calls of all slots, and of the same slot, made at
\* the same time: the order in which the two kinds of mutex are taken leaves
\* nobody waiting for ever.
EveryCallReturns == \A t \in Threads : ~At(t, "idle") ~> At(t, "idle")

\* While pcscd makes one call of a slot at a time, a card that a call works on
\* is the card of its slot, or the one that this very call took out of the
\* table: no command reaches a card after its channel was closed or created
\* anew.
NoOrphanInUse ==
  serial => \A t \in Threads : call[t].at \in {"card", "use"} /\ call[t].op # "Close" =>
              slots[call[t].slot] = call[t].card

\* While it does, no update that a save has written is lost, unless a later load
\* or save of its slot fails: the file has it, and so has the card in the table,
\* however often the channel is closed and created.  That says less than that
\* no answered update is lost: a save may fail unnoticed, and a PIV applet never
\* saves.
NothingSavedIsLost ==
  serial => \A s \in Slots : /\ kept[s] \subseteq file[s]
                             /\ slots[s] # NoCard => kept[s] \subseteq mem[slots[s]]

\* While it does, whoever waits for a card holding the lock of the table gets
\* it at once: a long command on one slot does not keep the calls of the other
\* waiting.
TableNotHeldForLong ==
  serial => \A t \in Threads : stateLock = t /\ At(t, "card") => cardLock[call[t].card] = Nobody

=============================================================================
