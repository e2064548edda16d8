-------------------------- MODULE IfdHandler_proofs --------------------------
(***************************************************************************)
(* Proofs about the PC/SC entry points, for any number of threads, slots,  *)
(* cards and updates.                                                      *)
(***************************************************************************)
EXTENDS IfdHandler, TLAPS

-----------------------------------------------------------------------------
(* The inductive invariant. *)

\* A call that holds the lock of the table.
HoldsTable(t) ==
  \/ At(t, "table")
  \/ call[t].at \in {"card", "use"} /\ call[t].op \in {"Close", "Atr"}

\* A call that has a reference to a card.
HasCard(t) == call[t].at \in {"card", "use"}

\* The locks are held by the calls that are at the points where the code holds
\* them, and by nobody else.
LockPart ==
  /\ \A t \in Threads : HoldsTable(t) <=> stateLock = t
  /\ \A t \in Threads : At(t, "use") => cardLock[call[t].card] = t
  /\ \A c \in Cards : cardLock[c] # Nobody =>
       At(cardLock[c], "use") /\ call[cardLock[c]].card = c

\* Cards in the table were built and are in one slot each; a call refers to a
\* card that was built, and to one that has left the table if it closes it.
CardPart ==
  /\ \A s \in Slots : slots[s] <= built
  /\ \A r, s \in Slots : slots[r] = slots[s] /\ slots[r] # NoCard => r = s
  /\ \A t \in Threads : ~At(t, "idle") => call[t].slot \in Slots
  /\ \A t \in Threads : HasCard(t) =>
       /\ call[t].card \in 1..built
       /\ call[t].op \in {"Close", "Atr", "Power", "Transmit"}
       /\ call[t].op = "Close" => \A s \in Slots : slots[s] # call[t].card

\* What serial says: no two calls of one slot are under way.
SerialPart ==
  serial => \A t, u \in Threads :
              t # u /\ ~At(t, "idle") /\ ~At(u, "idle") => call[t].slot # call[u].slot

IInv == TypeOK /\ LockPart /\ CardPart /\ SerialPart /\ NoOrphanInUse /\ NothingSavedIsLost

-----------------------------------------------------------------------------
(* How a step changes the calls. *)

CallType == [at: {"idle", "state", "table", "card", "use"}, op: Ops,
             slot: Slots \cup {0}, card: Cards \cup {NoCard}]

\* The thread t is at p with the card c; all else about calls is as before.
Moved(t, p, c) ==
  /\ call' \in [Threads -> CallType]
  /\ call'[t].at = p /\ call'[t].card = c
  /\ call'[t].op = call[t].op /\ call'[t].slot = call[t].slot
  /\ \A u \in Threads : u # t => call'[u] = call[u]

LEMMA GoToMoves ==
  ASSUME TypeOK, NEW t \in Threads, NEW p \in {"idle", "state", "table", "card", "use"},
         NEW c \in Cards \cup {NoCard}, GoTo(t, p, c)
  PROVE  Moved(t, p, c)
<1> DEFINE e == [call[t] EXCEPT !.at = p]
           f == [e EXCEPT !.card = c]
<1>1. call[t] \in CallType
  BY DEF TypeOK, CallType
<1>2. e \in CallType /\ e.at = p /\ e.op = call[t].op /\ e.slot = call[t].slot
  BY <1>1 DEF CallType
<1> HIDE DEF e
<1>3. f \in CallType /\ f.at = p /\ f.card = c /\ f.op = call[t].op /\ f.slot = call[t].slot
  BY <1>2 DEF CallType
<1>4. call' = [call EXCEPT ![t] = f]
  BY DEF GoTo, e, TypeOK
<1> HIDE DEF f
<1>5. QED
  BY <1>3, <1>4 DEF Moved, TypeOK, CallType

\* A call that returns leaves its thread idle.
Returned(t) ==
  /\ call' \in [Threads -> CallType]
  /\ call'[t].at = "idle"
  /\ \A u \in Threads : u # t => call'[u] = call[u]

LEMMA ReturnMoves ==
  ASSUME TypeOK, NEW t \in Threads, Return(t)
  PROVE  Returned(t)
BY DEF TypeOK, Return, Returned, Idle, CallType, Ops

-----------------------------------------------------------------------------
(* One lemma per action. *)

LEMMA InitInv == Init => IInv
<1> SUFFICES ASSUME Init PROVE IInv
  OBVIOUS
<1>1. TypeOK
  BY IfdAssumption DEF Init, TypeOK, Idle, Ops, Cards, NoCard
<1>2. LockPart
  BY IfdAssumption DEF Init, LockPart, HoldsTable, At, Idle
<1>3. CardPart /\ SerialPart
  BY DEF Init, CardPart, SerialPart, HasCard, At, Idle, NoCard
<1>4. NoOrphanInUse /\ NothingSavedIsLost
  BY DEF Init, NoOrphanInUse, NothingSavedIsLost, Idle
<1>5. QED
  BY <1>1, <1>2, <1>3, <1>4 DEF IInv

\* pcscd calls an entry point.
LEMMA CallKeeps ==
  ASSUME IInv, NEW t \in Threads, NEW op \in Ops, NEW s \in Slots, Call(t, op, s)
  PROVE  IInv'
<1>1. /\ call' \in [Threads -> CallType]
      /\ call'[t].at = "state" /\ call'[t].slot = s
      /\ \A u \in Threads : u # t => call'[u] = call[u]
      /\ call[t].at = "idle"
  BY DEF IInv, TypeOK, Call, CallType, At
<1>2. UNCHANGED <<slots, stateLock, cardLock, powered, built, data>>
  BY DEF Call, locks, cards
<1>3. serial' = (serial /\ ~Busy(s))
  BY DEF Call
<1>4. TypeOK'
  BY <1>1, <1>2, <1>3 DEF IInv, TypeOK, CallType, data
<1>5. LockPart'
  <2>1. /\ \A c \in Cards : cardLock[c] \in Threads \cup {Nobody}
        /\ UNCHANGED <<stateLock, cardLock>>
    BY <1>2 DEF IInv, TypeOK
  <2>2. LockPart
    BY DEF IInv
  <2>3. QED
    BY <1>1, <2>1, <2>2, IfdAssumption DEF LockPart, HoldsTable, At
<1>6. CardPart'
  BY <1>1, <1>2 DEF IInv, CardPart, HasCard, At
<1>7. SerialPart'
  <2>1. SerialPart
    BY DEF IInv
  <2>2. serial' => \A u \in Threads : call[u].at # "idle" => call[u].slot # s
    BY <1>3 DEF Busy
  <2>3. call'[t].slot = s /\ \A u \in Threads : u # t => call'[u] = call[u]
    BY <1>1
  <2>4. serial' => serial
    BY <1>3
  <2>5. QED
    BY <2>1, <2>2, <2>3, <2>4 DEF SerialPart, At
<1>8. NoOrphanInUse' /\ NothingSavedIsLost'
  BY <1>1, <1>2, <1>3 DEF IInv, NoOrphanInUse, NothingSavedIsLost, data
<1>9. QED
  BY <1>4, <1>5, <1>6, <1>7, <1>8 DEF IInv

\* The lock of the table is taken.
LEMMA LockStateKeeps ==
  ASSUME IInv, NEW t \in Threads, LockState(t), UNCHANGED serial
  PROVE  IInv'
<1>1. Moved(t, "table", NoCard)
  BY GoToMoves DEF IInv, LockState
<1>2. /\ call[t].at = "state" /\ stateLock = Nobody /\ stateLock' = t
      /\ UNCHANGED <<slots, cardLock, powered, built, data>>
  BY DEF LockState, cards, At
<1> USE <1>1, <1>2 DEF Moved
<1>3. TypeOK'
  BY DEF IInv, TypeOK, CallType, data
<1>4. LockPart'
  BY IfdAssumption DEF IInv, TypeOK, LockPart, HoldsTable, At
<1>5. CardPart' /\ SerialPart'
  BY DEF IInv, CardPart, SerialPart, HasCard, At
<1>6. NoOrphanInUse' /\ NothingSavedIsLost'
  BY DEF IInv, NoOrphanInUse, NothingSavedIsLost, data
<1>7. QED
  BY <1>3, <1>4, <1>5, <1>6 DEF IInv

\* A card that is loaded has what its file keeps.
LEMMA LoadKeeps ==
  ASSUME IInv, NEW s \in Slots, NEW c \in Cards, Load(s, c), UNCHANGED file
  PROVE  /\ mem' \in [Cards -> SUBSET Updates] /\ kept' \in [Slots -> SUBSET Updates]
         /\ faults' \in 0..MaxFaults
         /\ \A d \in Cards : d # c => mem'[d] = mem[d]
         /\ \A r \in Slots : r # s => kept'[r] = kept[r]
         /\ serial => kept'[s] \subseteq file'[s] /\ kept'[s] \subseteq mem'[c]
<1>1. CASE mem' = [mem EXCEPT ![c] = file[s]] /\ UNCHANGED <<kept, faults>>
  BY <1>1 DEF IInv, TypeOK, NothingSavedIsLost
<1>2. CASE /\ faults < MaxFaults /\ faults' = faults + 1
           /\ mem' = [mem EXCEPT ![c] = {}] /\ kept' = [kept EXCEPT ![s] = {}]
  BY <1>2, IfdAssumption DEF IInv, TypeOK
<1>3. QED
  BY <1>1, <1>2 DEF Load

\* A channel is created: the new card has a number of its own.
LEMMA CreateChannelKeeps ==
  ASSUME IInv, NEW t \in Threads, CreateChannel(t), UNCHANGED serial
  PROVE  IInv'
<1> DEFINE s == call[t].slot
           n == built + 1
<1>1. Returned(t)
  BY ReturnMoves DEF IInv, CreateChannel
<1>2. /\ call[t].at = "table" /\ s \in Slots /\ stateLock = t /\ stateLock' = Nobody
      /\ UNCHANGED <<cardLock, powered, file, made>>
  BY DEF CreateChannel, IInv, LockPart, HoldsTable, CardPart, At
<1>3. \/ /\ built < MaxCards /\ built' = n /\ Load(s, n)
         /\ slots' = [slots EXCEPT ![s] = n]
      \/ UNCHANGED <<built, mem, kept, faults, slots>>
  BY DEF CreateChannel
<1>4. LockPart' /\ SerialPart'
  BY <1>1, <1>2, IfdAssumption DEF IInv, TypeOK, LockPart, HoldsTable, SerialPart, At, Returned
<1>5. CASE UNCHANGED <<built, mem, kept, faults, slots>>
  <2>1. TypeOK'
    BY <1>1, <1>2, <1>5 DEF IInv, TypeOK, CallType, Returned
  <2>2. CardPart' /\ NoOrphanInUse' /\ NothingSavedIsLost'
    BY <1>1, <1>2, <1>5 DEF IInv, CardPart, NoOrphanInUse, NothingSavedIsLost, HasCard, At,
       Returned
  <2>3. QED
    BY <1>4, <2>1, <2>2 DEF IInv
<1>6. CASE /\ built < MaxCards /\ built' = n /\ Load(s, n)
           /\ slots' = [slots EXCEPT ![s] = n]
  <2>1. n \in Cards /\ built' \in 0..MaxCards /\ 1..built \subseteq 1..built' /\ n # NoCard
    BY <1>6, IfdAssumption DEF IInv, TypeOK, Cards, NoCard
  <2>2. slots'[s] = n /\ \A r \in Slots : r # s => slots'[r] = slots[r]
    BY <1>2, <1>6, <2>1 DEF IInv, TypeOK
  <2>3. /\ mem' \in [Cards -> SUBSET Updates] /\ kept' \in [Slots -> SUBSET Updates]
        /\ faults' \in 0..MaxFaults
        /\ \A c \in Cards : c # n => mem'[c] = mem[c]
        /\ \A r \in Slots : r # s => kept'[r] = kept[r]
        /\ serial => kept'[s] \subseteq file'[s] /\ kept'[s] \subseteq mem'[n]
    BY <1>2, <1>6, <2>1, LoadKeeps
  <2>4. /\ \A r \in Slots : slots[r] # n
        /\ \A u \in Threads : HasCard(u) => call[u].card # n
    BY IfdAssumption DEF IInv, TypeOK, CardPart, HasCard
  <2>5. \A r \in Slots : slots'[r] <= built'
    BY <1>6, <2>2, IfdAssumption DEF IInv, TypeOK, CardPart, Cards, NoCard
  <2> HIDE DEF n
  <2>6. TypeOK'
    <3>1. slots' \in [Slots -> Cards \cup {NoCard}]
      BY <1>2, <1>6, <2>1 DEF IInv, TypeOK
    <3>2. powered' \subseteq 1..built'
      BY <1>2, <2>1 DEF IInv, TypeOK
    <3>3. QED
      BY <1>1, <1>2, <2>1, <2>3, <3>1, <3>2 DEF IInv, TypeOK, CallType, Returned
  <2>7. CardPart'
    BY <1>1, <1>2, <2>1, <2>2, <2>4, <2>5 DEF IInv, CardPart, HasCard, At, Returned
  <2>8. NoOrphanInUse'
    <3> SUFFICES ASSUME serial, NEW u \in Threads, call'[u].at \in {"card", "use"},
                        call'[u].op # "Close"
                 PROVE  slots'[call'[u].slot] = call'[u].card
      BY DEF NoOrphanInUse
    <3>1. u # t /\ call'[u] = call[u]
      BY <1>1 DEF Returned
    <3>2. call[u].slot # s /\ call[u].slot \in Slots
      BY <1>2, <3>1 DEF IInv, SerialPart, CardPart, At
    <3>3. QED
      BY <2>2, <3>1, <3>2 DEF IInv, NoOrphanInUse
  <2>9. NothingSavedIsLost'
    <3> SUFFICES ASSUME serial, NEW r \in Slots
                 PROVE  /\ kept'[r] \subseteq file'[r]
                        /\ slots'[r] # NoCard => kept'[r] \subseteq mem'[slots'[r]]
      BY DEF NothingSavedIsLost
    <3>1. CASE r = s
      BY <2>2, <2>3, <3>1
    <3>2. CASE r # s
      <4>1. slots[r] # NoCard => slots[r] \in Cards /\ slots[r] # n
        BY <2>4 DEF IInv, TypeOK
      <4>2. QED
        BY <1>2, <2>2, <2>3, <3>2, <4>1 DEF IInv, NothingSavedIsLost
    <3>3. QED
      BY <3>1, <3>2
  <2>10. QED
    BY <1>4, <2>6, <2>7, <2>8, <2>9 DEF IInv
<1>7. QED
  BY <1>3, <1>5, <1>6

\* The entry point finds no card.
LEMMA NoCardInSlotKeeps ==
  ASSUME IInv, NEW t \in Threads, NoCardInSlot(t), UNCHANGED serial
  PROVE  IInv'
<1>1. Returned(t)
  BY ReturnMoves DEF IInv, NoCardInSlot
<1>2. /\ call[t].at = "table" /\ stateLock = t /\ stateLock' = Nobody
      /\ UNCHANGED <<slots, cardLock, powered, built, data>>
  BY DEF NoCardInSlot, IInv, LockPart, HoldsTable, At, cards
<1> USE <1>1, <1>2 DEF Returned
<1>3. TypeOK'
  BY DEF IInv, TypeOK, CallType, data
<1>4. LockPart'
  BY IfdAssumption DEF IInv, TypeOK, LockPart, HoldsTable, At
<1>5. CardPart' /\ SerialPart'
  BY DEF IInv, CardPart, SerialPart, HasCard, At
<1>6. NoOrphanInUse' /\ NothingSavedIsLost'
  BY DEF IInv, NoOrphanInUse, NothingSavedIsLost, data
<1>7. QED
  BY <1>3, <1>4, <1>5, <1>6 DEF IInv

\* The call goes on to the card with the table locked; closing takes the card
\* out of its slot, and so out of the table.
LEMMA KeepTableKeeps ==
  ASSUME IInv, NEW t \in Threads, KeepTable(t), UNCHANGED serial
  PROVE  IInv'
<1> DEFINE s == call[t].slot
           c == slots[s]
<1>1. /\ call[t].at = "table" /\ call[t].op \in {"Close", "Atr"} /\ c # NoCard /\ s \in Slots
      /\ stateLock = t /\ UNCHANGED <<stateLock, cardLock, powered, built, data>>
  BY DEF KeepTable, IInv, LockPart, HoldsTable, CardPart, At, cards, locks
<1>2. c \in Cards /\ c \in 1..built
  BY <1>1, IfdAssumption DEF IInv, TypeOK, CardPart, Cards, NoCard
<1>3. Moved(t, "card", c)
  BY <1>1, <1>2, GoToMoves DEF IInv, KeepTable
<1>4. slots' = IF call[t].op = "Close" THEN [slots EXCEPT ![s] = NoCard] ELSE slots
  BY DEF KeepTable
<1>5. TypeOK'
  <2>1. slots' \in [Slots -> Cards \cup {NoCard}]
    BY <1>4 DEF IInv, TypeOK
  <2>2. QED
    BY <1>1, <1>3, <2>1 DEF IInv, TypeOK, CallType, Moved, data
<1>6. LockPart'
  <2>1. \A u \in Threads : HoldsTable(u)' <=> stateLock' = u
    BY <1>1, <1>3, IfdAssumption DEF IInv, LockPart, HoldsTable, At, Moved
  <2>2. \A u \in Threads : At(u, "use")' => u # t /\ cardLock'[call'[u].card] = u
    BY <1>1, <1>3 DEF IInv, LockPart, At, Moved
  <2>3. ASSUME NEW d \in Cards, cardLock'[d] # Nobody
        PROVE  call'[cardLock'[d]].at = "use" /\ call'[cardLock'[d]].card = d
    <3>1. cardLock[d] \in Threads /\ call[cardLock[d]].at = "use" /\ call[cardLock[d]].card = d
      BY <1>1, <2>3 DEF IInv, TypeOK, LockPart, At
    <3>2. QED
      BY <1>1, <1>3, <3>1 DEF Moved
  <2>4. QED
    BY <2>1, <2>2, <2>3 DEF LockPart, At
<1> USE <1>1, <1>2, <1>3, <1>4 DEF Moved
<1> HIDE DEF s, c
<1>7. CardPart'
  <2>1. \A r \in Slots : r # s => slots'[r] = slots[r] /\ slots[r] # c
    BY DEF IInv, TypeOK, CardPart, s, c
  <2>2. slots'[s] = IF call[t].op = "Close" THEN NoCard ELSE c
    BY DEF IInv, TypeOK, s, c
  <2>3. slots'[s] <= built /\ \A r \in Slots : slots'[r] \in {slots[r], NoCard}
    BY <2>1, <2>2 DEF IInv, CardPart, NoCard, TypeOK, c
  <2>4. \A r \in Slots : slots'[r] <= built'
    BY <2>1, <2>3 DEF IInv, CardPart
  <2>5. \A q, r \in Slots : slots'[q] = slots'[r] /\ slots'[q] # NoCard => q = r
    BY <2>3 DEF IInv, CardPart
  <2>6. \A u \in Threads : HasCard(u)' =>
          /\ call'[u].card \in 1..built'
          /\ call'[u].op \in {"Close", "Atr", "Power", "Transmit"}
          /\ call'[u].op = "Close" => \A r \in Slots : slots'[r] # call'[u].card
    <3>1. call'[t].op = "Close" => \A r \in Slots : slots'[r] # c
      BY <2>1, <2>2
    <3>2. \A u \in Threads : u # t /\ HasCard(u) => call[u].card \in 1..built /\ call[u].card # NoCard
      BY DEF IInv, TypeOK, CardPart, NoCard
    <3>3. QED
      BY <2>3, <3>1, <3>2 DEF IInv, CardPart, HasCard
  <2>7. \A u \in Threads : ~At(u, "idle")' => call'[u].slot \in Slots
    BY DEF IInv, CardPart, At, s
  <2>8. QED
    BY <2>4, <2>5, <2>6, <2>7 DEF CardPart
<1>8. SerialPart'
  BY DEF IInv, SerialPart, At
<1>9. NoOrphanInUse'
  BY DEF IInv, TypeOK, NoOrphanInUse, SerialPart, At, s, c
<1>10. NothingSavedIsLost'
  BY DEF IInv, TypeOK, NothingSavedIsLost, data
<1>11. QED
  BY <1>5, <1>6, <1>7, <1>8, <1>9, <1>10 DEF IInv

\* The call lets go of the table and goes on to the card.
LEMMA LeaveTableKeeps ==
  ASSUME IInv, NEW t \in Threads, LeaveTable(t), UNCHANGED serial
  PROVE  IInv'
<1> DEFINE s == call[t].slot
           c == slots[s]
<1>1. /\ call[t].at = "table" /\ call[t].op \in {"Power", "Transmit"} /\ c # NoCard /\ s \in Slots
      /\ stateLock = t /\ stateLock' = Nobody
      /\ UNCHANGED <<slots, cardLock, powered, built, data>>
  BY DEF LeaveTable, IInv, LockPart, HoldsTable, CardPart, At, cards
<1>2. c \in Cards /\ c \in 1..built
  BY <1>1, IfdAssumption DEF IInv, TypeOK, CardPart, Cards, NoCard
<1>3. Moved(t, "card", c)
  BY <1>1, <1>2, GoToMoves DEF IInv, LeaveTable
<1> USE <1>1, <1>2, <1>3 DEF Moved
<1> HIDE DEF s, c
<1>4. TypeOK'
  BY DEF IInv, TypeOK, CallType, data
<1>5. LockPart'
  BY IfdAssumption DEF IInv, TypeOK, LockPart, HoldsTable, At
<1>6. CardPart' /\ SerialPart'
  BY DEF IInv, CardPart, SerialPart, HasCard, At
<1>7. NoOrphanInUse' /\ NothingSavedIsLost'
  BY DEF IInv, NoOrphanInUse, NothingSavedIsLost, s, c, data
<1>8. QED
  BY <1>4, <1>5, <1>6, <1>7 DEF IInv

\* The lock of the card is taken.
LEMMA LockCardKeeps ==
  ASSUME IInv, NEW t \in Threads, LockCard(t), UNCHANGED serial
  PROVE  IInv'
<1> DEFINE c == call[t].card
<1>1. /\ call[t].at = "card" /\ cardLock[c] = Nobody
      /\ cardLock' = [cardLock EXCEPT ![c] = t]
      /\ UNCHANGED <<slots, stateLock, powered, built, data>>
  BY DEF LockCard, cards, At
<1>2. c \in Cards
  BY <1>1, IfdAssumption DEF IInv, TypeOK, CardPart, HasCard, Cards
<1>3. Moved(t, "use", c)
  BY <1>2, GoToMoves DEF IInv, LockCard
<1> USE <1>1, <1>2, <1>3 DEF Moved
<1>4. TypeOK'
  BY DEF IInv, TypeOK, CallType, data
<1>5. LockPart'
  <2>1. /\ cardLock'[c] = t /\ \A d \in Cards : d # c => cardLock'[d] = cardLock[d]
        /\ \A d \in Cards : cardLock[d] \in Threads \cup {Nobody}
    BY DEF IInv, TypeOK
  <2>2. LockPart /\ call'[t].op = call[t].op /\ UNCHANGED stateLock
    BY DEF IInv
  <2>3. QED
    BY <2>1, <2>2, IfdAssumption DEF LockPart, HoldsTable, At
<1>6. CardPart' /\ SerialPart'
  BY DEF IInv, CardPart, SerialPart, HasCard, At
<1>7. NoOrphanInUse' /\ NothingSavedIsLost'
  BY DEF IInv, NoOrphanInUse, NothingSavedIsLost, data
<1>8. QED
  BY <1>4, <1>5, <1>6, <1>7 DEF IInv

\* An update touches the card and the slot it is made to; what is kept of the
\* slot is in its file and in the card.
LEMMA UpdateKeeps ==
  ASSUME IInv, NEW s \in Slots, NEW c \in Cards, Update(s, c),
         serial => kept[s] \subseteq mem[c]
  PROVE  /\ mem' \in [Cards -> SUBSET Updates] /\ made' \in 0..MaxUpdates
         /\ file' \in [Slots -> SUBSET Updates]
         /\ kept' \in [Slots -> SUBSET Updates] /\ faults' \in 0..MaxFaults
         /\ \A d \in Cards : d # c => mem'[d] = mem[d]
         /\ \A r \in Slots : r # s => kept'[r] = kept[r] /\ file'[r] = file[r]
         /\ serial => kept'[s] \subseteq file'[s] /\ kept'[s] \subseteq mem'[c]
<1>1. made' \in 0..MaxUpdates /\ made + 1 \in Updates
  BY IfdAssumption DEF Update, IInv, TypeOK, Updates
<1>2. /\ mem' \in [Cards -> SUBSET Updates] /\ mem'[c] = mem[c] \cup {made + 1}
      /\ \A d \in Cards : d # c => mem'[d] = mem[d]
  BY <1>1 DEF Update, IInv, TypeOK
<1>3. CASE /\ file' = [file EXCEPT ![s] = mem'[c]]
           /\ kept' = [kept EXCEPT ![s] = @ \cup mem'[c]]
           /\ UNCHANGED faults
  BY <1>1, <1>2, <1>3 DEF IInv, TypeOK
<1>4. CASE faults < MaxFaults /\ faults' = faults + 1 /\ UNCHANGED <<file, kept>>
  BY <1>1, <1>2, <1>4, IfdAssumption DEF IInv, TypeOK, NothingSavedIsLost
<1>5. CASE /\ faults < MaxFaults /\ faults' = faults + 1
           /\ file' = [file EXCEPT ![s] = {}] /\ kept' = [kept EXCEPT ![s] = {}]
  BY <1>1, <1>2, <1>5, IfdAssumption DEF IInv, TypeOK
<1>6. QED
  BY <1>3, <1>4, <1>5 DEF Update, Save

\* The operation on the card.  A card that changes is, while calls are serial,
\* the one in the slot of the call, and in no other slot.
LEMMA UseCardKeeps ==
  ASSUME IInv, NEW t \in Threads, UseCard(t), UNCHANGED serial
  PROVE  IInv'
<1> DEFINE c == call[t].card
           s == call[t].slot
<1>1. /\ call[t].at = "use" /\ cardLock' = [cardLock EXCEPT ![c] = Nobody]
      /\ stateLock' = IF stateLock = t THEN Nobody ELSE stateLock
      /\ UNCHANGED <<slots, built>>
  BY DEF UseCard, At
<1>2. c \in Cards /\ c \in 1..built /\ s \in Slots
  BY <1>1, IfdAssumption DEF IInv, TypeOK, CardPart, HasCard, At, Cards
<1>3. Returned(t)
  BY ReturnMoves DEF IInv, UseCard
<1>4. LockPart'
  BY <1>1, <1>2, <1>3, IfdAssumption DEF IInv, TypeOK, LockPart, HoldsTable, At, Returned
<1>5. CardPart' /\ SerialPart'
  BY <1>1, <1>3 DEF IInv, CardPart, SerialPart, HasCard, At, Returned
<1>6. NoOrphanInUse'
  BY <1>1, <1>3 DEF IInv, NoOrphanInUse, Returned
<1>7. /\ call' \in [Threads -> CallType]
      /\ stateLock' \in Threads \cup {Nobody} /\ cardLock' \in [Cards -> Threads \cup {Nobody}]
  BY <1>1, <1>2, <1>3 DEF IInv, TypeOK, Returned
<1>8. CASE UNCHANGED data /\ powered' \in {powered, powered \cup {c}, powered \ {c}}
  <2>1. TypeOK'
    BY <1>1, <1>2, <1>7, <1>8 DEF IInv, TypeOK, CallType, data
  <2>2. NothingSavedIsLost'
    BY <1>1, <1>8 DEF IInv, NothingSavedIsLost, data
  <2>3. QED
    BY <1>4, <1>5, <1>6, <2>1, <2>2 DEF IInv
<1>9. ASSUME call[t].op = "Transmit", UNCHANGED powered, Update(s, c)
      PROVE  IInv'
  <2>1. c # NoCard /\ (serial => slots[s] = c)
    BY <1>1, <1>2, <1>9 DEF IInv, NoOrphanInUse, NoCard, Cards
  <2>2. serial => kept[s] \subseteq mem[c]
    BY <1>2, <2>1 DEF IInv, NothingSavedIsLost
  <2>3. /\ mem' \in [Cards -> SUBSET Updates] /\ made' \in 0..MaxUpdates
        /\ file' \in [Slots -> SUBSET Updates]
        /\ kept' \in [Slots -> SUBSET Updates] /\ faults' \in 0..MaxFaults
        /\ \A d \in Cards : d # c => mem'[d] = mem[d]
        /\ \A r \in Slots : r # s => kept'[r] = kept[r] /\ file'[r] = file[r]
        /\ serial => kept'[s] \subseteq file'[s] /\ kept'[s] \subseteq mem'[c]
    BY <1>2, <1>9, <2>2, UpdateKeeps
  <2>4. TypeOK'
    BY <1>1, <1>7, <1>9, <2>3 DEF IInv, TypeOK, CallType
  <2>5. NothingSavedIsLost'
    <3> SUFFICES ASSUME serial, NEW r \in Slots
                 PROVE  /\ kept'[r] \subseteq file'[r]
                        /\ slots[r] # NoCard => kept'[r] \subseteq mem'[slots[r]]
      BY <1>1 DEF NothingSavedIsLost
    <3>1. CASE r = s
      BY <2>1, <2>3, <3>1
    <3>2. CASE r # s
      <4>1. slots[r] # NoCard => slots[r] # c /\ slots[r] \in Cards
        BY <1>2, <2>1, <3>2 DEF IInv, TypeOK, CardPart
      <4>2. QED
        BY <2>3, <3>2, <4>1 DEF IInv, NothingSavedIsLost
    <3>3. QED
      BY <3>1, <3>2
  <2>6. QED
    BY <1>4, <1>5, <1>6, <2>4, <2>5 DEF IInv
<1>10. QED
  <2>1. CASE UNCHANGED data /\ powered' \in {powered, powered \cup {c}, powered \ {c}}
    BY <1>8, <2>1
  <2>2. CASE call[t].op = "Transmit" /\ UNCHANGED powered /\ Update(s, c)
    BY <1>9, <2>2
  <2>3. QED
    BY <2>1, <2>2 DEF UseCard

LEMMA NextInv == IInv /\ [Next]_vars => IInv'
<1> SUFFICES ASSUME IInv, [Next]_vars PROVE IInv'
  OBVIOUS
<1>1. CASE UNCHANGED vars
  BY <1>1 DEF vars, locks, cards, data, IInv, TypeOK, LockPart, CardPart, SerialPart, NoOrphanInUse,
     NothingSavedIsLost, HoldsTable, HasCard, At
<1>2. ASSUME NEW t \in Threads, Step(t)
      PROVE  IInv'
  BY <1>2, LockStateKeeps, CreateChannelKeeps, NoCardInSlotKeeps, KeepTableKeeps, LeaveTableKeeps,
     LockCardKeeps, UseCardKeeps DEF Step
<1>3. ASSUME NEW t \in Threads, NEW op \in Ops, NEW s \in Slots, Call(t, op, s)
      PROVE  IInv'
  BY <1>3, CallKeeps
<1>4. QED
  BY <1>1, <1>2, <1>3 DEF Next

-----------------------------------------------------------------------------
(* The theorems. *)

\* The invariant of the entry points (lib.rs).
THEOREM Invariance == Spec => []IInv
BY InitInv, NextInv, PTL DEF Spec

\* Mutual exclusion: at most one call works with the table, and at most one
\* with each card.
Exclusion ==
  \A t, u \in Threads : t # u =>
    /\ ~(HoldsTable(t) /\ HoldsTable(u))
    /\ ~(At(t, "use") /\ At(u, "use") /\ call[t].card = call[u].card)

\* Both mutexes of lib.rs exclude, wherever a call returns early or lets go of
\* the table on its way to a card.
THEOREM MutualExclusion == Spec => []Exclusion
<1>1. IInv => Exclusion
  BY DEF IInv, LockPart, Exclusion
<1>2. QED
  BY <1>1, Invariance, PTL

\* While pcscd keeps to one call of a slot at a time, no call works on a card
\* that has left its slot, though IFDHTransmitToICC and IFDHPowerICC let go of
\* the table before they lock the card.
THEOREM NoOrphan == Spec => []NoOrphanInUse
BY Invariance, PTL DEF IInv

\* And no update that a save has written is lost, unless a later load or save of
\* its slot fails, however often a channel is closed and created anew.
THEOREM NothingLost == Spec => []NothingSavedIsLost
BY Invariance, PTL DEF IInv

\* And no call waits for a card with the table locked: the card it wants is in
\* no other slot, and nobody else calls its own.
THEOREM TableFree == Spec => []TableNotHeldForLong
<1>1. IInv => TableNotHeldForLong
  <2> SUFFICES ASSUME IInv, serial, NEW t \in Threads, stateLock = t, At(t, "card"),
                      cardLock[call[t].card] # Nobody
               PROVE  FALSE
    BY DEF TableNotHeldForLong
  <2> DEFINE c == call[t].card
             u == cardLock[c]
  <2>1. c \in Cards /\ HasCard(t) /\ call[t].slot \in Slots
    BY IfdAssumption DEF IInv, TypeOK, CardPart, HasCard, At, Cards
  <2>2. u \in Threads /\ At(u, "use") /\ call[u].card = c /\ u # t
    BY <2>1 DEF IInv, TypeOK, LockPart, At
  <2>3. HasCard(u) /\ call[u].slot \in Slots /\ call[u].op # "Close"
    BY <2>2 DEF IInv, LockPart, CardPart, HasCard, HoldsTable, At
  <2>4. slots[call[u].slot] = c /\ call[u].slot # call[t].slot
    BY <2>1, <2>2, <2>3 DEF IInv, NoOrphanInUse, SerialPart, HasCard, At
  <2>5. call[t].op # "Close"
    BY <2>1, <2>3, <2>4 DEF IInv, CardPart
  <2>6. slots[call[t].slot] = c
    BY <2>1, <2>5 DEF IInv, NoOrphanInUse, HasCard
  <2>7. QED
    BY <2>1, <2>3, <2>4, <2>6 DEF IInv, CardPart, Cards, NoCard
<1>2. QED
  BY <1>1, Invariance, PTL
=============================================================================
