-------------------------- MODULE NitrokeySlot_proofs --------------------------
(***************************************************************************)
(* Proofs about slot 1, for any number of APDUs, polls, updates, failing   *)
(* operations and crashes.                                                 *)
(***************************************************************************)
EXTENDS NitrokeySlot, TLAPS

-----------------------------------------------------------------------------
(* The inductive invariant. *)

\* A call is under way in run_apdu.
Calling == ifd \in {"loop", "app", "waiting", "take"}

\* The service has a ping only while the applet waits for it, and the
\* interchange holds the APDU of the call, in the state its point implies.
CardPart ==
  /\ pings = IF request THEN 1 ELSE 0
  /\ request => ifd = "waiting"
  /\ Calling => channel.apdu = sent /\ at = "idle"
  /\ ifd = "loop" => channel.state \in {"requested", "building"}
  /\ ifd \in {"app", "waiting"} => channel.state = "building"
  /\ ifd = "take" => channel.state \in {"building", "responded"}
  /\ AnswersOwnApdu /\ NextIsAccepted

Intact(v) == disk[v].file = "littlefs"

\* The build has mounted the volume; it has formatted it if need be.
Mounted(v) ==
  \/ at \in {"spawn", "install"}
  \/ at \in {"format", "mount"} /\ vol = 2 /\ v = "ifs"
Formatted(v) == Mounted(v) \/ (at = "mount" /\ v = Volume)

\* The card in the slot has the one mount that is written to, and knows every
\* update; the mounts of a build know them too.
MountPart ==
  /\ ifd # "gone" => \A v \in Volumes : Intact(v) /\ mount[v] = disk[v].updates
  /\ \A v \in Volumes : Mounted(v) => Intact(v) /\ fsview[v] = disk[v].updates
  /\ built => \A v \in Volumes : Intact(v)

\* What a build formats holds no data, and what it sizes is short.
FreshPart ==
  /\ at \in {"idle", "dir", "probe"} => fresh = {}
  /\ \A v \in fresh : Intact(v) => Formatted(v)
  /\ at = "size" => disk[Volume].file = "short"

\* A run without faults formats every volume that it creates.
RefusedPart ==
  /\ refused => at = "idle" /\ faults > 0 /\ ~built
  /\ faults = 0 => \A v \in Volumes :
       \/ Intact(v)
       \/ at \in {"idle", "dir", "probe"} /\ disk[v].file = "absent"
       \/ v \in fresh /\ ~Formatted(v)

IInv == TypeOK /\ CardPart /\ MountPart /\ FreshPart /\ RefusedPart

-----------------------------------------------------------------------------
(* The type of the state in two parts: the card's and the slot's. *)

CardTypes ==
  /\ ifd \in {"ready", "loop", "app", "waiting", "take", "joining", "gone"}
  /\ powered \in BOOLEAN /\ left \in 0..MaxPolls
  /\ channel \in [state: {"idle", "requested", "building", "responded"}, apdu: 0..MaxApdus]
  /\ pings \in 0..1 /\ request \in BOOLEAN /\ stop \in BOOLEAN /\ late \in BOOLEAN
  /\ svc \in {"check", "receive", "exited"} /\ sent \in 0..MaxApdus

SlotTypes ==
  /\ at \in {"idle", "dir", "probe", "open", "size", "format", "mount", "spawn", "install"}
  /\ vol \in 1..2 /\ fresh \in SUBSET Volumes
  /\ disk \in [Volumes -> [file: Files, updates: 0..MaxUpdates]]
  /\ mount \in [Volumes -> 0..MaxUpdates] /\ fsview \in [Volumes -> 0..MaxUpdates]
  /\ faults \in 0..MaxFaults /\ built \in BOOLEAN /\ refused \in BOOLEAN

LEMMA OrderFacts == Len(Order) = 2 /\ Order[1] = "ifs" /\ Order[2] = "efs"
BY DEF Order

LEMMA TypeSplit == TypeOK <=> CardTypes /\ SlotTypes
BY OrderFacts DEF TypeOK, CardTypes, SlotTypes

LEMMA TypeJoin == CardTypes' /\ SlotTypes' => TypeOK'
BY OrderFacts DEF TypeOK, CardTypes, SlotTypes

LEMMA VolumeFacts ==
  ASSUME SlotTypes
  PROVE  Volume \in Volumes /\ (vol = 1 => Volume = "ifs") /\ (vol = 2 => Volume = "efs")
BY OrderFacts DEF SlotTypes, Volume, Volumes

LEMMA VolumeFactsNext ==
  ASSUME SlotTypes'
  PROVE  Volume' \in Volumes /\ (vol' = 1 => Volume' = "ifs") /\ (vol' = 2 => Volume' = "efs")
BY OrderFacts DEF SlotTypes, Volume, Volumes

\* No volume loses data in a step.
KeepsData ==
  \A v \in Volumes : Intact(v) => Intact(v)' /\ disk'[v].updates >= disk[v].updates

LEMMA SameDisk ==
  ASSUME SlotTypes, disk' = disk
  PROVE  KeepsData /\ \A v : Intact(v)' <=> Intact(v)
BY SlotAssumption DEF SlotTypes, KeepsData, Intact

\* A step of the card alone: only the end of the card matters to the slot.
LEMMA SlotUntouched ==
  ASSUME IInv, UNCHANGED slotVars, ifd = "gone" => ifd' = "gone"
  PROVE  SlotTypes' /\ MountPart' /\ FreshPart' /\ RefusedPart'
<1> USE DEF slotVars, buildVars
<1>1. SlotTypes'
  BY TypeSplit DEF IInv, SlotTypes
<1>2. \A v : (Intact(v)' <=> Intact(v)) /\ (Mounted(v)' <=> Mounted(v)) /\ (Formatted(v)' <=> Formatted(v))
  BY DEF Intact, Mounted, Formatted, Volume
<1>3. MountPart'
  BY <1>2 DEF IInv, MountPart
<1>4. FreshPart' /\ RefusedPart'
  BY <1>2 DEF IInv, FreshPart, RefusedPart, Volume
<1>5. QED
  BY <1>1, <1>3, <1>4

\* A step of a build: no call is under way then.
LEMMA CardUntouched ==
  ASSUME IInv, UNCHANGED cardVars, at # "idle" \/ ~Calling
  PROVE  CardTypes' /\ CardPart' /\ ~Calling
<1> USE DEF cardVars, service
<1>1. CardTypes'
  BY TypeSplit DEF IInv, CardTypes
<1>2. ~Calling
  BY DEF IInv, CardPart
<1>3. CardPart'
  BY <1>2 DEF IInv, CardPart, Calling, AnswersOwnApdu, NextIsAccepted, InState
<1>4. QED
  BY <1>1, <1>2, <1>3

-----------------------------------------------------------------------------
(* The steps of the card. *)

LEMMA ChannelState ==
  ASSUME CardTypes, NEW st \in {"idle", "requested", "building", "responded"},
         channel' = [channel EXCEPT !.state = st]
  PROVE  /\ channel' \in [state: {"idle", "requested", "building", "responded"}, apdu: 0..MaxApdus]
         /\ channel'.state = st /\ channel'.apdu = channel.apdu
BY DEF CardTypes

LEMMA HostCallKeeps ==
  ASSUME IInv, HostCall, UNCHANGED slotVars, at = "idle"
  PROVE  IInv'
<1> USE BoundsAssumption DEF service, slotVars, buildVars
<1>1. CardTypes /\ CardPart
  BY TypeSplit DEF IInv
<1>2. CASE \E on \in BOOLEAN : Power(on)
  <2>1. CardTypes'
    BY <1>1, <1>2 DEF Power, CardTypes
  <2>2. CardPart'
    BY <1>1, <1>2 DEF Power, CardPart, Calling, AnswersOwnApdu, NextIsAccepted, InState
  <2>3. QED
    BY <1>2, <2>1, <2>2, SlotUntouched, TypeJoin DEF IInv, Power
<1>3. CASE Refuse
  <2>1. CardTypes'
    BY <1>1, <1>3 DEF Refuse, CardTypes
  <2>2. answer'.apdu = sent'
    BY <1>3 DEF Refuse, Local
  <2>3. CardPart'
    BY <1>1, <1>3, <2>2 DEF Refuse, CardPart, Calling, AnswersOwnApdu, NextIsAccepted, InState
  <2>4. QED
    BY <1>3, <2>1, <2>3, SlotUntouched, TypeJoin DEF IInv, Refuse
<1>4. CASE Transmit
  <2>1. ifd = "ready" /\ sent' = sent + 1 /\ sent' \in 0..MaxApdus
    BY <1>1, <1>4 DEF Transmit, CardTypes
  <2>2. CASE InState("idle") \/ InState("responded")
    <3>1. /\ channel' = [state |-> "requested", apdu |-> sent'] /\ ifd' = "loop" /\ left' = MaxPolls
          /\ UNCHANGED <<powered, pings, request, stop, svc, late, answer>>
      BY <1>4, <2>1, <2>2 DEF Transmit
    <3>2. CardTypes'
      BY <1>1, <2>1, <3>1 DEF CardTypes
    <3>3. CardPart'
      BY <1>1, <2>1, <3>1 DEF CardPart, Calling, AnswersOwnApdu, NextIsAccepted
    <3>4. QED
      BY <2>1, <3>2, <3>3, SlotUntouched, TypeJoin DEF IInv
  <2>3. CASE ~(InState("idle") \/ InState("responded"))
    <3>1. answer'.apdu = sent' /\ UNCHANGED <<channel, ifd, left, powered, pings, request, stop, svc, late>>
      BY <1>4, <2>1, <2>3 DEF Transmit, Local
    <3>2. CardTypes'
      BY <1>1, <2>1, <3>1 DEF CardTypes
    <3>3. CardPart'
      BY <1>1, <2>1, <3>1 DEF CardPart, Calling, AnswersOwnApdu, NextIsAccepted, InState
    <3>4. QED
      BY <2>1, <3>1, <3>2, <3>3, SlotUntouched, TypeJoin DEF IInv
  <2>4. QED
    BY <2>2, <2>3
<1>5. QED
  BY <1>2, <1>3, <1>4 DEF HostCall

LEMMA AppSyscallKeeps ==
  ASSUME IInv, AppSyscall, UNCHANGED slotVars, at = "idle"
  PROVE  IInv'
<1> USE DEF service, slotVars, buildVars
<1>1. CardTypes /\ CardPart
  BY TypeSplit DEF IInv
<1>2. pings = 0
  BY <1>1 DEF CardPart, CardTypes, AppSyscall
<1>3. CardTypes'
  BY <1>1, <1>2 DEF AppSyscall, CardTypes
<1>4. CardPart'
  BY <1>1, <1>2 DEF AppSyscall, CardPart, Calling, AnswersOwnApdu, NextIsAccepted, InState
<1>5. QED
  BY <1>3, <1>4, SlotUntouched, TypeJoin DEF IInv, AppSyscall

LEMMA InCallKeeps ==
  ASSUME IInv, InCall, UNCHANGED slotVars
  PROVE  IInv'
<1> USE BoundsAssumption DEF service, slotVars, buildVars
<1>1. CardTypes /\ CardPart
  BY TypeSplit DEF IInv
<1>2. CardTypes' /\ CardPart' /\ ifd # "gone"
  <2>1. CASE Poll
    <3>1. /\ channel' \in [state: {"idle", "requested", "building", "responded"}, apdu: 0..MaxApdus]
          /\ channel'.state = "building" /\ channel'.apdu = channel.apdu
      BY <1>1, <2>1, ChannelState DEF Poll
    <3>2. CardTypes' /\ ifd # "gone"
      BY <1>1, <2>1, <3>1 DEF Poll, CardTypes
    <3>3. CardPart'
      BY <1>1, <2>1, <3>1 DEF Poll, CardPart, Calling, AnswersOwnApdu, NextIsAccepted
    <3>4. QED
      BY <3>2, <3>3
  <2>2. CASE AppReturn
    <3>1. /\ channel' \in [state: {"idle", "requested", "building", "responded"}, apdu: 0..MaxApdus]
          /\ channel'.state \in {"building", "responded"} /\ channel'.apdu = channel.apdu
      <4>1. CASE channel' = channel
        BY <1>1, <2>2, <4>1 DEF AppReturn, CardTypes, CardPart
      <4>2. CASE channel' = [channel EXCEPT !.state = "responded"]
        BY <1>1, <4>2, ChannelState
      <4>3. QED
        BY <2>2, <4>1, <4>2 DEF AppReturn
    <3>2. CardTypes' /\ ifd # "gone"
      BY <1>1, <2>2, <3>1 DEF AppReturn, CardTypes
    <3>3. CardPart'
      BY <1>1, <2>2, <3>1 DEF AppReturn, CardPart, Calling, AnswersOwnApdu, NextIsAccepted
    <3>4. QED
      BY <3>2, <3>3
  <2>3. CASE AppResume
    <3>1. CardTypes' /\ ifd # "gone"
      BY <1>1, <2>3 DEF AppResume, CardTypes
    <3>2. CardPart'
      BY <1>1, <2>3 DEF AppResume, CardPart, Calling, AnswersOwnApdu, NextIsAccepted
    <3>3. QED
      BY <3>1, <3>2
  <2>4. CASE TakeResponse
    <3>1. CASE InState("responded")
      <4>1. /\ channel' = [channel EXCEPT !.state = "idle"] /\ ifd' = "ready" /\ ifd = "take"
            /\ answer'.apdu = channel.apdu
            /\ UNCHANGED <<powered, left, pings, request, stop, svc, sent, late>>
        BY <2>4, <3>1 DEF TakeResponse
      <4>2. /\ channel' \in [state: {"idle", "requested", "building", "responded"}, apdu: 0..MaxApdus]
            /\ channel'.state = "idle" /\ channel'.apdu = channel.apdu
        BY <1>1, <4>1, ChannelState
      <4>3. CardTypes'
        BY <1>1, <4>1, <4>2 DEF CardTypes
      <4>4. CardPart'
        BY <1>1, <4>1, <4>2 DEF CardPart, Calling, AnswersOwnApdu, NextIsAccepted, InState
      <4>5. QED
        BY <4>1, <4>3, <4>4
    <3>2. CASE ~InState("responded")
      <4>1. /\ ifd' = "loop" /\ ifd = "take"
            /\ UNCHANGED <<channel, answer, powered, left, pings, request, stop, svc, sent, late>>
        BY <2>4, <3>2 DEF TakeResponse
      <4>2. CardTypes'
        BY <1>1, <4>1 DEF CardTypes
      <4>3. CardPart'
        BY <1>1, <3>2, <4>1 DEF CardPart, Calling, AnswersOwnApdu, NextIsAccepted, InState
      <4>4. QED
        BY <4>1, <4>2, <4>3
    <3>3. QED
      BY <3>1, <3>2
  <2>5. CASE Timeout
    <3>1. CardTypes' /\ ifd # "gone"
      BY <1>1, <2>5 DEF Timeout, CardTypes
    <3>2. answer'.apdu = sent /\ late'
      BY <2>5 DEF Timeout, Local
    <3>3. CardPart'
      BY <1>1, <2>5, <3>2 DEF Timeout, CardPart, Calling, AnswersOwnApdu, NextIsAccepted, InState
    <3>4. QED
      BY <3>1, <3>3
  <2>6. CASE Join
    <3>1. CardTypes' /\ ifd # "gone"
      BY <1>1, <2>6 DEF Join, CardTypes
    <3>2. CardPart'
      BY <1>1, <2>6 DEF Join, CardPart, Calling, AnswersOwnApdu, NextIsAccepted
    <3>3. QED
      BY <3>1, <3>2
  <2>7. QED
    BY <2>1, <2>2, <2>3, <2>4, <2>5, <2>6 DEF InCall
<1>3. QED
  BY <1>2, SlotUntouched, TypeJoin DEF IInv

LEMMA DropKeeps ==
  ASSUME IInv, Drop, UNCHANGED slotVars
  PROVE  IInv'
<1> USE DEF service, slotVars, buildVars
<1>1. CardTypes /\ CardPart
  BY TypeSplit DEF IInv
<1>2. CardTypes' /\ ifd # "gone"
  BY <1>1 DEF Drop, CardTypes
<1>3. CardPart'
  BY <1>1 DEF Drop, CardPart, Calling, AnswersOwnApdu, NextIsAccepted
<1>4. QED
  BY <1>2, <1>3, SlotUntouched, TypeJoin DEF IInv

-----------------------------------------------------------------------------
(* The service thread. *)

LEMMA CheckStopKeeps ==
  ASSUME IInv, CheckStop, UNCHANGED slotVars
  PROVE  IInv'
<1> USE DEF service, slotVars, buildVars
<1>1. CardTypes /\ CardPart
  BY TypeSplit DEF IInv
<1>2. CardTypes'
  BY <1>1 DEF CheckStop, CardTypes
<1>3. CardPart'
  BY <1>1 DEF CheckStop, CardPart, Calling, AnswersOwnApdu, NextIsAccepted, InState
<1>4. QED
  BY <1>2, <1>3, SlotUntouched, TypeJoin DEF IInv, CheckStop

LEMMA ReceiveCard ==
  ASSUME IInv, Receive, at' = at
  PROVE  CardTypes' /\ CardPart' /\ ifd' = ifd /\ (pings > 0 => ifd = "waiting" /\ at = "idle")
<1>1. CardTypes /\ CardPart
  BY TypeSplit DEF IInv
<1>2. CardTypes' /\ ifd' = ifd
  <2>1. pings' \in 0..1
    BY <1>1 DEF Receive, CardTypes
  <2>2. request' \in BOOLEAN
    BY <1>1, Zenon DEF Receive, CardTypes
  <2>3. QED
    BY <1>1, <2>1, <2>2 DEF Receive, CardTypes
<1>3. pings > 0 => ifd = "waiting" /\ at = "idle" /\ pings = 1
  BY <1>1 DEF CardPart, Calling, CardTypes
<1>4. pings' = (IF request' THEN 1 ELSE 0) /\ (request' => request)
  <2>1. CASE pings > 0
    BY <1>3, <2>1 DEF Receive
  <2>2. CASE ~(pings > 0)
    BY <1>1, <2>2 DEF Receive, CardPart, CardTypes
  <2>3. QED
    BY <2>1, <2>2
<1>5. CardPart'
  BY <1>1, <1>4 DEF Receive, CardPart, Calling, AnswersOwnApdu, NextIsAccepted, InState
<1>6. QED
  BY <1>2, <1>3, <1>5

\* An update keeps the volume a littlefs that its mount knows.
LEMMA WriteKeeps ==
  ASSUME IInv, NEW v \in Volumes, Write(v), ifd # "gone", at = "idle",
         UNCHANGED <<ifd, buildVars, faults, built, refused>>
  PROVE  /\ SlotTypes' /\ MountPart' /\ FreshPart' /\ RefusedPart'
         /\ KeepsData
<1> USE DEF buildVars
<1>1. SlotTypes
  BY TypeSplit DEF IInv
<1>2. disk[v] \in [file: Files, updates: 0..MaxUpdates] /\ mount[v] = disk[v].updates /\ Intact(v)
  BY <1>1 DEF IInv, MountPart, SlotTypes
<1>3. disk[v].updates < MaxUpdates
  BY DEF Write
<1> DEFINE d == [file |-> disk[v].file, updates |-> disk[v].updates + 1]
<1>4. disk' = [disk EXCEPT ![v] = d] /\ mount' = [mount EXCEPT ![v] = mount[v] + 1]
  BY <1>1, <1>2 DEF Write, SlotTypes
<1>5. mount[v] + 1 \in 0..MaxUpdates /\ disk[v].updates \in Nat
  BY <1>2, <1>3, SlotAssumption
<1>6. d \in [file: Files, updates: 0..MaxUpdates] /\ d.file = "littlefs" /\ d.updates = disk[v].updates + 1
  BY <1>2, <1>5 DEF Intact
<1> HIDE DEF d
<1>7. /\ disk' \in [Volumes -> [file: Files, updates: 0..MaxUpdates]]
      /\ mount' \in [Volumes -> 0..MaxUpdates]
  BY <1>1, <1>4, <1>5, <1>6 DEF SlotTypes
<1>8. SlotTypes'
  BY <1>1, <1>7 DEF SlotTypes
<1>9. \A x \in Volumes : /\ disk'[x] = IF x = v THEN d ELSE disk[x]
                         /\ mount'[x] = IF x = v THEN mount[v] + 1 ELSE mount[x]
  BY <1>1, <1>4 DEF SlotTypes
<1>10. \A x \in Volumes : Intact(x) /\ Intact(x)' /\ mount'[x] = disk'[x].updates
  BY <1>2, <1>6, <1>9 DEF IInv, MountPart, Intact
<1>11. \A x \in Volumes : disk'[x].updates >= disk[x].updates
  <2> SUFFICES ASSUME NEW x \in Volumes PROVE disk'[x].updates >= disk[x].updates
    OBVIOUS
  <2>1. disk[x].updates \in Nat
    BY <1>1, SlotAssumption DEF SlotTypes
  <2>2. QED
    BY <1>5, <1>6, <1>9, <2>1
<1>12. MountPart'
  BY <1>10 DEF MountPart, Mounted
<1>13. FreshPart' /\ RefusedPart'
  BY <1>1, <1>10 DEF IInv, FreshPart, RefusedPart, SlotTypes
<1>14. QED
  BY <1>8, <1>10, <1>11, <1>12, <1>13 DEF KeepsData

LEMMA ServeKeeps ==
  ASSUME IInv, Serve
  PROVE  /\ IInv'
         /\ KeepsData
<1>1. SlotTypes
  BY TypeSplit DEF IInv
<1>3. CASE CheckStop /\ UNCHANGED slotVars
  BY <1>1, <1>3, CheckStopKeeps, SameDisk DEF slotVars
<1>4. CASE Receive /\ UNCHANGED <<disk, mount>> /\ UNCHANGED <<buildVars, faults, built, refused>>
  <2>1. UNCHANGED slotVars
    BY <1>4 DEF slotVars
  <2>2. CardTypes' /\ CardPart' /\ ifd' = ifd
    BY <1>4, ReceiveCard DEF buildVars
  <2>3. QED
    BY <1>1, <2>1, <2>2, SlotUntouched, SameDisk, TypeJoin DEF IInv, slotVars
<1>5. ASSUME NEW v \in Volumes, Receive, pings > 0, Write(v), UNCHANGED <<buildVars, faults, built, refused>>
      PROVE  /\ IInv'
             /\ KeepsData
  <2>1. CardTypes' /\ CardPart' /\ ifd' = ifd /\ ifd # "gone" /\ at = "idle"
    BY <1>5, ReceiveCard DEF buildVars
  <2>2. /\ SlotTypes' /\ MountPart' /\ FreshPart' /\ RefusedPart'
        /\ KeepsData
    BY <1>5, <2>1, WriteKeeps
  <2>3. QED
    BY <2>1, <2>2, TypeJoin DEF IInv
<1>6. QED
  BY <1>3, <1>4, <1>5 DEF Serve

-----------------------------------------------------------------------------
(* The steps of NitrokeyCard::new. *)

\* What a step of the slot has to show for itself.
SlotKept == SlotTypes' /\ MountPart' /\ FreshPart' /\ RefusedPart' /\ KeepsData

LEMMA InitInv == Init => IInv
<1> SUFFICES ASSUME Init PROVE IInv
  OBVIOUS
<1> USE BoundsAssumption, SlotAssumption DEF Init, NoCard, NoUpdates
<1>1. CardTypes
  <2>1. powered \in BOOLEAN /\ request \in BOOLEAN /\ stop \in BOOLEAN /\ late \in BOOLEAN
    BY Zenon
  <2>2. QED
    BY <2>1 DEF CardTypes
<1>2. SlotTypes
  <2>1. built \in BOOLEAN /\ refused \in BOOLEAN
    BY Zenon
  <2>2. NoUpdates \in [Volumes -> 0..MaxUpdates]
    OBVIOUS
  <2>3. disk \in [Volumes -> [file: Files, updates: 0..MaxUpdates]]
    BY DEF Files
  <2>4. QED
    BY <2>1, <2>2, <2>3 DEF SlotTypes
<1>3. CardPart
  BY DEF CardPart, Calling, AnswersOwnApdu, NextIsAccepted
<1>4. MountPart /\ FreshPart /\ RefusedPart
  BY DEF MountPart, FreshPart, RefusedPart, Mounted, Formatted, Intact
<1>5. QED
  BY <1>1, <1>2, <1>3, <1>4, TypeSplit DEF IInv

\* The call is over: its variables are cleared and the volumes left alone.
LEMMA ReturnKeeps ==
  ASSUME IInv, Return, disk' = disk, mount' = mount, built' = built, at # "idle" \/ faults' > 0,
         ifd = "gone" => ifd' = "gone", faults' \in 0..MaxFaults, refused' \in BOOLEAN,
         refused' => faults' > 0 /\ ~built,
         faults' = 0 => \A v \in Volumes : Intact(v)
  PROVE  SlotKept
<1>1. SlotTypes
  BY TypeSplit DEF IInv
<1>2. at' = "idle" /\ vol' = 1 /\ fresh' = {} /\ fsview' = NoUpdates
  BY DEF Return, Go
<1>3. SlotTypes'
  BY <1>1, <1>2, SlotAssumption DEF SlotTypes, NoUpdates
<1>4. KeepsData /\ \A v : Intact(v)' <=> Intact(v)
  BY <1>1, SameDisk
<1>5. MountPart'
  BY <1>2, <1>4 DEF IInv, MountPart, Mounted
<1>6. FreshPart' /\ RefusedPart'
  BY <1>2, <1>4 DEF FreshPart, RefusedPart
<1>7. QED
  BY <1>3, <1>4, <1>5, <1>6 DEF SlotKept

\* Without faults no volume is left that a build could refuse.
LEMMA MountWorks ==
  ASSUME IInv, at = "mount", faults = 0
  PROVE  disk[Volume].file = "littlefs"
<1>1. Volume \in Volumes
  BY TypeSplit, VolumeFacts DEF IInv
<1>2. Formatted(Volume)
  BY DEF Formatted
<1>3. QED
  BY <1>1, <1>2 DEF IInv, RefusedPart, Intact

LEMMA BeginKeeps ==
  ASSUME IInv, CreateChannel \/ ensure_slot1_dir
  PROVE  SlotKept
<1> USE DEF CreateChannel, ensure_slot1_dir, Go, KeepHistory
<1>1. SlotTypes
  BY TypeSplit DEF IInv
<1>2. /\ at \in {"idle", "dir"} /\ at' \in {"dir", "probe"} /\ vol' = 1 /\ refused' \in {FALSE, refused}
      /\ UNCHANGED <<fresh, fsview, disk, mount, faults, built>> /\ ifd' = ifd
  BY DEF cardVars
<1>3. (refused' => refused) /\ (at # "idle" => ~refused) /\ (at = "idle" => ~refused')
  BY DEF IInv, RefusedPart
<1>4. SlotTypes'
  <2>1. refused' \in BOOLEAN
    BY <1>1, <1>2, Zenon DEF SlotTypes
  <2>2. QED
    BY <1>1, <1>2, <2>1 DEF SlotTypes
<1>5. KeepsData /\ \A v : Intact(v)' <=> Intact(v)
  BY <1>1, <1>2, SameDisk
<1> HIDE DEF CreateChannel, ensure_slot1_dir
<1>6. MountPart'
  BY <1>2, <1>5 DEF IInv, MountPart, Mounted
<1>7. FreshPart' /\ RefusedPart'
  BY <1>2, <1>3, <1>5 DEF IInv, FreshPart, RefusedPart
<1>8. QED
  BY <1>4, <1>5, <1>6, <1>7 DEF SlotKept

LEMMA ProbeKeeps ==
  ASSUME IInv, Probe
  PROVE  SlotKept
<1>1. SlotTypes
  BY TypeSplit DEF IInv
<1>2. /\ at = "probe" /\ at' = "open" /\ vol' = 1 /\ fresh' = {v \in Volumes : disk[v].file = "absent"}
      /\ UNCHANGED <<fsview, disk, mount, faults, built, refused>> /\ ifd' = ifd
  BY DEF Probe, Go, KeepHistory, cardVars
<1>3. SlotTypes'
  BY <1>1, <1>2 DEF SlotTypes
<1>4. KeepsData /\ \A v : Intact(v)' <=> Intact(v)
  BY <1>1, <1>2, SameDisk
<1>5. \A v : ~Mounted(v)' /\ ~Formatted(v)'
  BY <1>2 DEF Mounted, Formatted
<1>6. MountPart'
  BY <1>2, <1>4, <1>5 DEF IInv, MountPart
<1>7. FreshPart' /\ RefusedPart'
  BY <1>2, <1>4, <1>5 DEF IInv, FreshPart, RefusedPart, Intact
<1>8. QED
  BY <1>3, <1>4, <1>6, <1>7 DEF SlotKept

\* A volume that is no littlefs gets another size: open_or_create and set_len.
LEMMA SetFileKeeps ==
  ASSUME IInv, NEW f \in {"short", "blank"}, SetFile(Volume, f), ~Intact(Volume)
  PROVE  /\ disk' \in [Volumes -> [file: Files, updates: 0..MaxUpdates]]
         /\ disk'[Volume].file = f /\ KeepsData
         /\ \A v \in Volumes : Intact(v)' <=> Intact(v)
         /\ \A v \in Volumes : disk'[v].updates = disk[v].updates
         /\ \A v \in Volumes : v # Volume => disk'[v] = disk[v]
<1>1. SlotTypes /\ Volume \in Volumes
  BY TypeSplit, VolumeFacts DEF IInv
<1> DEFINE d == [disk[Volume] EXCEPT !.file = f]
<1>2. disk[Volume] \in [file: Files, updates: 0..MaxUpdates]
  BY <1>1 DEF SlotTypes
<1>3. d \in [file: Files, updates: 0..MaxUpdates] /\ d.file = f /\ d.updates = disk[Volume].updates
  BY <1>2 DEF Files
<1>4. disk' = [disk EXCEPT ![Volume] = d]
  BY <1>1 DEF SetFile, SlotTypes
<1> HIDE DEF d
<1>5. \A v \in Volumes : disk'[v] = IF v = Volume THEN d ELSE disk[v]
  BY <1>1, <1>4 DEF SlotTypes
<1>6. disk' \in [Volumes -> [file: Files, updates: 0..MaxUpdates]]
  BY <1>1, <1>3, <1>4 DEF SlotTypes
<1>7. \A v \in Volumes : (Intact(v)' <=> Intact(v)) /\ disk'[v].updates = disk[v].updates
  BY <1>3, <1>5 DEF Intact
<1>8. \A v \in Volumes : disk[v].updates \in Nat
  BY <1>1, SlotAssumption DEF SlotTypes
<1>9. QED
  BY <1>1, <1>3, <1>5, <1>6, <1>7, <1>8 DEF KeepsData

LEMMA OnwardGoes ==
  ASSUME SlotTypes, NEW again, NEW step, Onward(again, step)
  PROVE  \/ vol = 1 /\ at' = again /\ vol' = 2
         \/ vol = 2 /\ at' = step /\ vol' = 1
BY OrderFacts DEF SlotTypes, Onward, Go

\* Opening and sizing the files: nothing is mounted, and no volume with data
\* is touched.
LEMMA OpeningKeeps ==
  ASSUME IInv, Open \/ SetLen
  PROVE  SlotKept
<1>1. SlotTypes /\ Volume \in Volumes
  BY TypeSplit, VolumeFacts DEF IInv
<1>2. /\ at \in {"open", "size"} /\ UNCHANGED <<fresh, fsview, mount, faults, built, refused>> /\ ifd' = ifd
  BY DEF Open, SetLen, KeepHistory, cardVars
<1>3. /\ at' \in {"open", "size", "format"} /\ vol' \in 1..2 /\ (at' = "format" => vol' = 1)
      /\ at' = "size" => vol' = vol /\ disk'[Volume].file = "short"
      /\ disk' \in [Volumes -> [file: Files, updates: 0..MaxUpdates]] /\ KeepsData
      /\ \A v \in Volumes : Intact(v)' <=> Intact(v)
      /\ \A v \in Volumes : disk'[v].updates = disk[v].updates
  <2>1. CASE at = "open" /\ disk[Volume].file \in {"absent", "short"}
    <3>1. SetFile(Volume, "short") /\ at' = "size" /\ vol' = vol
      BY <2>1 DEF Open, SetLen
    <3>2. ~Intact(Volume)
      BY <2>1 DEF Intact
    <3>3. QED
      BY <1>1, <3>1, <3>2, SetFileKeeps DEF SlotTypes
  <2>2. CASE at = "open" /\ disk[Volume].file \notin {"absent", "short"}
    <3>1. Onward("open", "format") /\ disk' = disk
      BY <2>2 DEF Open, SetLen
    <3>2. QED
      BY <1>1, <3>1, OnwardGoes, SameDisk DEF SlotTypes
  <2>3. CASE at = "size"
    <3>1. SetFile(Volume, "blank") /\ Onward("open", "format")
      BY <2>3 DEF Open, SetLen
    <3>2. ~Intact(Volume)
      BY <2>3 DEF Intact, IInv, FreshPart
    <3>3. QED
      BY <1>1, <3>1, <3>2, SetFileKeeps, OnwardGoes
  <2>4. QED
    BY <1>2, <2>1, <2>2, <2>3
<1>4. SlotTypes'
  BY <1>1, <1>2, <1>3 DEF SlotTypes
<1>5. \A v : ~Mounted(v) /\ ~Formatted(v) /\ ~Mounted(v)' /\ ~Formatted(v)'
  BY <1>2, <1>3 DEF Mounted, Formatted
<1>6. MountPart'
  BY <1>2, <1>3, <1>5 DEF IInv, MountPart
<1>7. at' = "size" => disk'[Volume'].file = "short"
  BY <1>3 DEF Volume
<1>8. FreshPart'
  BY <1>1, <1>2, <1>3, <1>5, <1>7 DEF IInv, FreshPart, SlotTypes
<1>9. RefusedPart'
  BY <1>2, <1>3, <1>5 DEF IInv, RefusedPart
<1>10. QED
  BY <1>3, <1>4, <1>6, <1>8, <1>9 DEF SlotKept

\* Formatting: only a volume whose file was absent, which holds no data.
LEMMA FormatKeeps ==
  ASSUME IInv, Format
  PROVE  SlotKept
<1>1. SlotTypes /\ Volume \in Volumes /\ (vol = 1 => Volume = "ifs") /\ (vol = 2 => Volume = "efs")
  BY TypeSplit, VolumeFacts DEF IInv
<1>2. /\ at = "format" /\ at' = "mount" /\ vol' = vol
      /\ UNCHANGED <<fresh, fsview, mount, faults, built, refused>> /\ ifd' = ifd /\ Volume' = Volume
  BY DEF Format, KeepHistory, cardVars, Volume
<1>3. \A v \in Volumes : /\ Mounted(v)' <=> Mounted(v)
                         /\ Formatted(v)' <=> (Mounted(v) \/ v = Volume)
                         /\ Formatted(v) <=> Mounted(v)
  BY <1>2 DEF Mounted, Formatted
<1>4. ~Mounted(Volume)
  BY <1>1, <1>2 DEF Mounted
<1>5. CASE Volume \in fresh
  <2> DEFINE d == [file |-> "littlefs", updates |-> 0]
  <2>1. ~Intact(Volume)
    BY <1>3, <1>4, <1>1, <1>5 DEF IInv, FreshPart
  <2>2. disk' = [disk EXCEPT ![Volume] = d]
    BY <1>5 DEF Format
  <2>3. d \in [file: Files, updates: 0..MaxUpdates] /\ d.file = "littlefs"
    BY SlotAssumption DEF Files
  <2> HIDE DEF d
  <2>4. \A v \in Volumes : disk'[v] = IF v = Volume THEN d ELSE disk[v]
    BY <1>1, <2>2 DEF SlotTypes
  <2>5. \A v \in Volumes : (Intact(v)' <=> Intact(v) \/ v = Volume) /\ (v # Volume => disk'[v] = disk[v])
    BY <2>3, <2>4 DEF Intact
  <2>6. SlotTypes'
    BY <1>1, <1>2, <2>2, <2>3 DEF SlotTypes
  <2>7. \A v \in Volumes : disk[v].updates \in Nat
    BY <1>1, SlotAssumption DEF SlotTypes
  <2>8. KeepsData
    BY <2>1, <2>5, <2>7 DEF KeepsData
  <2>9. ifd = "gone" /\ ~built
    BY <1>1, <2>1 DEF IInv, MountPart
  <2>10. MountPart'
    BY <1>2, <1>3, <1>4, <2>5, <2>9 DEF IInv, MountPart
  <2>11. FreshPart'
    BY <1>1, <1>2, <1>3, <2>5 DEF IInv, FreshPart, SlotTypes
  <2>12. RefusedPart'
    BY <1>2, <1>3, <2>5 DEF IInv, RefusedPart
  <2>13. QED
    BY <2>6, <2>8, <2>10, <2>11, <2>12 DEF SlotKept
<1>6. CASE Volume \notin fresh
  <2>1. disk' = disk
    BY <1>6 DEF Format
  <2>2. KeepsData /\ \A v : Intact(v)' <=> Intact(v)
    BY <1>1, <2>1, SameDisk
  <2>3. SlotTypes'
    BY <1>1, <1>2, <2>1 DEF SlotTypes
  <2>4. MountPart'
    BY <1>2, <1>3, <2>1, <2>2 DEF IInv, MountPart
  <2>5. FreshPart'
    BY <1>1, <1>2, <1>3, <2>2 DEF IInv, FreshPart, SlotTypes
  <2>6. RefusedPart'
    BY <1>2, <1>3, <1>6, <2>2 DEF IInv, RefusedPart
  <2>7. QED
    BY <2>2, <2>3, <2>4, <2>5, <2>6 DEF SlotKept
<1>7. QED
  BY <1>5, <1>6

LEMMA MountKeeps ==
  ASSUME IInv, Mount
  PROVE  SlotKept
<1>1. SlotTypes /\ Volume \in Volumes /\ (vol = 1 => Volume = "ifs") /\ (vol = 2 => Volume = "efs")
  BY TypeSplit, VolumeFacts DEF IInv
<1>2. /\ at = "mount" /\ Intact(Volume)
      /\ fsview' = [fsview EXCEPT ![Volume] = disk[Volume].updates]
      /\ UNCHANGED <<fresh, disk, mount, faults, built, refused>> /\ ifd' = ifd
  BY DEF Mount, KeepHistory, cardVars, Intact
<1>3. \/ vol = 1 /\ at' = "format" /\ vol' = 2
      \/ vol = 2 /\ at' = "spawn" /\ vol' = 1
  BY <1>1, OnwardGoes DEF Mount
<1>4. \A v \in Volumes : /\ Mounted(v)' <=> (Mounted(v) \/ v = Volume)
                         /\ Formatted(v)' <=> Formatted(v)
  BY <1>1, <1>2, <1>3 DEF Mounted, Formatted, Volumes
<1>5. disk[Volume].updates \in 0..MaxUpdates
  BY <1>1 DEF SlotTypes
<1>6. SlotTypes'
  BY <1>1, <1>2, <1>3, <1>5 DEF SlotTypes
<1>7. KeepsData /\ \A v : Intact(v)' <=> Intact(v)
  BY <1>1, <1>2, SameDisk
<1>8. \A v \in Volumes : fsview'[v] = IF v = Volume THEN disk[v].updates ELSE fsview[v]
  BY <1>1, <1>2 DEF SlotTypes
<1>9. MountPart'
  BY <1>2, <1>4, <1>7, <1>8 DEF IInv, MountPart
<1>10. FreshPart'
  BY <1>1, <1>2, <1>3, <1>4, <1>7 DEF IInv, FreshPart, SlotTypes
<1>11. RefusedPart'
  BY <1>2, <1>3, <1>4, <1>7 DEF IInv, RefusedPart
<1>12. QED
  BY <1>6, <1>7, <1>9, <1>10, <1>11 DEF SlotKept

LEMMA MountRefusedKeeps ==
  ASSUME IInv, MountRefused
  PROVE  SlotKept
<1>1. /\ at = "mount" /\ ~Intact(Volume) /\ Return /\ refused' = TRUE
      /\ UNCHANGED <<disk, mount, faults, built>> /\ ifd' = ifd
  BY DEF MountRefused, cardVars, Intact
<1>2. SlotTypes /\ Volume \in Volumes
  BY TypeSplit, VolumeFacts DEF IInv
<1>3. faults # 0 /\ ~built
  BY <1>1, <1>2, MountWorks DEF IInv, MountPart, Intact
<1>4. faults' > 0 /\ faults' \in 0..MaxFaults
  BY <1>1, <1>2, <1>3, SlotAssumption DEF SlotTypes
<1>5. refused' \in BOOLEAN
  BY <1>1
<1>6. QED
  BY <1>1, <1>3, <1>4, <1>5, ReturnKeeps

LEMMA SpawnKeeps ==
  ASSUME IInv, Spawn
  PROVE  SlotKept
<1>1. SlotTypes
  BY TypeSplit DEF IInv
<1>2. /\ at = "spawn" /\ at' = "install" /\ vol' = 1
      /\ UNCHANGED <<fresh, fsview, disk, mount, faults, built, refused>> /\ ifd' = ifd
  BY DEF Spawn, Go, KeepHistory, cardVars
<1>3. SlotTypes'
  BY <1>1, <1>2 DEF SlotTypes
<1>4. KeepsData /\ \A v : Intact(v)' <=> Intact(v)
  BY <1>1, <1>2, SameDisk
<1>5. \A v : Mounted(v) /\ Formatted(v) /\ Mounted(v)' /\ Formatted(v)'
  BY <1>2 DEF Mounted, Formatted
<1>6. MountPart'
  BY <1>2, <1>4, <1>5 DEF IInv, MountPart
<1>7. FreshPart' /\ RefusedPart'
  BY <1>2, <1>4, <1>5 DEF IInv, FreshPart, RefusedPart
<1>8. QED
  BY <1>3, <1>4, <1>6, <1>7 DEF SlotKept

\* A card that is new, or that ended with its process, has no call under way.
LEMMA RestKeeps ==
  ASSUME IInv, NEW i \in {"ready", "gone"}, NEW s \in {"check", "exited"}, Rest(i, s)
  PROVE  CardTypes' /\ CardPart'
<1>1. CardTypes
  BY TypeSplit DEF IInv
<1>2. /\ ifd' = i /\ left' = 0 /\ pings' = 0 /\ svc' = s /\ sent' = sent
      /\ channel' = [state |-> "idle", apdu |-> sent] /\ answer'.apdu = sent
  BY DEF Rest
<1>3. powered' = FALSE /\ request' = FALSE /\ stop' = FALSE /\ late' = FALSE
  BY DEF Rest
<1>4. powered' \in BOOLEAN /\ request' \in BOOLEAN /\ stop' \in BOOLEAN /\ late' \in BOOLEAN
  BY <1>3
<1>5. CardTypes'
  BY <1>1, <1>2, <1>4, BoundsAssumption DEF CardTypes
<1>6. CardPart'
  BY <1>2, <1>3 DEF CardPart, Calling, AnswersOwnApdu, NextIsAccepted, InState
<1>7. QED
  BY <1>5, <1>6

LEMMA InstallKeeps ==
  ASSUME IInv, Install
  PROVE  IInv' /\ KeepsData
<1>1. SlotTypes
  BY TypeSplit DEF IInv
<1>2. /\ at = "install" /\ ifd = "gone" /\ mount' = fsview /\ built' = TRUE
      /\ at' = "idle" /\ vol' = 1 /\ fresh' = {} /\ fsview' = NoUpdates
      /\ UNCHANGED <<disk, faults, refused>> /\ Rest("ready", "check")
  BY DEF Install, Return, Go, NewCard
<1>3. CardTypes' /\ CardPart'
  BY <1>2, RestKeeps
<1>4. \A v \in Volumes : Intact(v) /\ fsview[v] = disk[v].updates
  BY <1>2 DEF IInv, MountPart, Mounted
<1>5. KeepsData /\ \A v : Intact(v)' <=> Intact(v)
  BY <1>1, <1>2, SameDisk
<1>6. SlotTypes'
  <2>1. built' \in BOOLEAN
    BY <1>2
  <2>2. QED
    BY <1>1, <1>2, <2>1, SlotAssumption DEF SlotTypes, NoUpdates
<1>7. MountPart'
  BY <1>2, <1>4, <1>5 DEF MountPart, Mounted
<1>8. FreshPart' /\ RefusedPart'
  BY <1>2, <1>4, <1>5 DEF IInv, FreshPart, RefusedPart
<1>9. QED
  BY <1>3, <1>5, <1>6, <1>7, <1>8, TypeJoin DEF IInv

LEMMA FaultCounts ==
  ASSUME IInv, faults < MaxFaults, faults' = faults + 1
  PROVE  faults' \in 0..MaxFaults /\ faults' > 0 /\ faults' # 0
BY TypeSplit, SlotAssumption DEF IInv, SlotTypes

LEMMA BuildFailsKeeps ==
  ASSUME IInv, BuildFails
  PROVE  SlotKept
<1>1. /\ at # "idle" /\ Return /\ UNCHANGED <<disk, mount, built, refused>> /\ ifd' = ifd
      /\ faults < MaxFaults /\ faults' = faults + 1
  BY DEF BuildFails, cardVars
<1>2. faults' \in 0..MaxFaults /\ faults' > 0 /\ faults' # 0
  BY <1>1, FaultCounts
<1>3. ~refused'
  BY <1>1 DEF IInv, RefusedPart
<1>4. refused' \in BOOLEAN
  BY <1>1, TypeSplit DEF IInv, SlotTypes
<1>5. QED
  BY <1>1, <1>2, <1>3, <1>4, ReturnKeeps

LEMMA CrashKeeps ==
  ASSUME IInv, Crash
  PROVE  IInv' /\ KeepsData
<1>1. /\ Return /\ UNCHANGED <<disk, mount, built>> /\ refused' = FALSE
      /\ faults < MaxFaults /\ faults' = faults + 1 /\ Rest("gone", "exited")
  BY DEF Crash, EndCard
<1>2. faults' \in 0..MaxFaults /\ faults' > 0 /\ faults' # 0
  BY <1>1, FaultCounts
<1>3. CardTypes' /\ CardPart'
  BY <1>1, RestKeeps
<1>4. ifd' = "gone" /\ refused' \in BOOLEAN /\ ~refused'
  BY <1>1 DEF Rest
<1>5. SlotKept
  BY <1>1, <1>2, <1>4, ReturnKeeps
<1>6. QED
  BY <1>3, <1>5, TypeJoin DEF SlotKept, IInv

-----------------------------------------------------------------------------
(* The theorems. *)

\* Every step keeps the inductive invariant, and no step loses data.
LEMMA StepKeeps == IInv /\ [Next]_vars => IInv' /\ KeepsData
<1> SUFFICES ASSUME IInv, [Next]_vars PROVE IInv' /\ KeepsData
  OBVIOUS
<1>1. SlotTypes
  BY TypeSplit DEF IInv
<1>2. ASSUME UNCHANGED slotVars PROVE KeepsData
  BY <1>1, <1>2, SameDisk DEF slotVars
<1>3. ASSUME SlotKept, UNCHANGED cardVars, at # "idle" \/ ~Calling PROVE IInv' /\ KeepsData
  BY <1>3, CardUntouched, TypeJoin DEF SlotKept, IInv
<1>4. CASE CreateChannel
  <2>1. SlotKept
    BY <1>4, BeginKeeps
  <2>2. UNCHANGED cardVars /\ ~Calling
    BY <1>4 DEF CreateChannel, Calling
  <2>3. QED
    BY <1>3, <2>1, <2>2
<1>5. CASE Build
  <2>1. CASE ensure_slot1_dir
    BY <1>3, <2>1, BeginKeeps DEF ensure_slot1_dir
  <2>2. CASE Probe
    BY <1>3, <2>2, ProbeKeeps DEF Probe
  <2>3. CASE Open \/ SetLen
    BY <1>3, <2>3, OpeningKeeps DEF Open, SetLen
  <2>4. CASE Format
    BY <1>3, <2>4, FormatKeeps DEF Format
  <2>5. CASE Mount
    BY <1>3, <2>5, MountKeeps DEF Mount
  <2>6. CASE MountRefused
    BY <1>3, <2>6, MountRefusedKeeps DEF MountRefused
  <2>7. CASE Spawn
    BY <1>3, <2>7, SpawnKeeps DEF Spawn
  <2>8. CASE DropOld
    BY <1>2, <2>8, DropKeeps DEF DropOld
  <2>9. CASE Install
    BY <2>9, InstallKeeps
  <2>10. QED
    BY <1>5, <2>1, <2>2, <2>3, <2>4, <2>5, <2>6, <2>7, <2>8, <2>9 DEF Build
<1>6. CASE BuildFails
  BY <1>3, <1>6, BuildFailsKeeps DEF BuildFails
<1>7. CASE Crash
  BY <1>7, CrashKeeps
<1>8. CASE Use
  BY <1>2, <1>8, HostCallKeeps, AppSyscallKeeps DEF Use
<1>9. CASE CloseChannel
  BY <1>2, <1>9, DropKeeps DEF CloseChannel
<1>10. CASE Running
  BY <1>2, <1>10, InCallKeeps DEF Running
<1>11. CASE Serve
  BY <1>11, ServeKeeps
<1>12. CASE UNCHANGED vars
  <2>1. UNCHANGED slotVars /\ UNCHANGED cardVars
    BY <1>12 DEF vars
  <2>2. SlotTypes' /\ MountPart' /\ FreshPart' /\ RefusedPart'
    BY <2>1, SlotUntouched DEF cardVars
  <2>3. CardTypes' /\ CardPart'
    BY <2>1, TypeSplit DEF IInv, CardTypes, CardPart, Calling, AnswersOwnApdu, NextIsAccepted, InState,
                           cardVars, service, slotVars, buildVars
  <2>4. QED
    BY <1>2, <2>1, <2>2, <2>3, TypeJoin DEF IInv
<1>13. QED
  BY <1>4, <1>5, <1>6, <1>7, <1>8, <1>9, <1>10, <1>11, <1>12 DEF Next

\* Slot 1 keeps the inductive invariant through builds, calls and crashes.
THEOREM Invariance == Spec => []IInv
<1>1. IInv /\ [Next]_vars => IInv'
  BY StepKeeps
<1>2. QED
  BY <1>1, InitInv, PTL DEF Spec

\* An answer belongs to the APDU that was just sent, for any number of APDUs.
THEOREM OwnAnswers == Spec => []AnswersOwnApdu
<1>1. IInv => AnswersOwnApdu
  BY DEF IInv, CardPart
<1>2. QED
  BY <1>1, Invariance, PTL

\* Between calls the interchange takes the next APDU unless a deadline passed,
\* and no finished response is left in it.
THEOREM NextAccepted == Spec => []NextIsAccepted
<1>1. IInv => NextIsAccepted
  BY DEF IInv, CardPart
<1>2. QED
  BY <1>1, Invariance, PTL

\* Without a failing operation of its own a build fails only in a slot where
\* none ever succeeded and an earlier one was cut short.
THEOREM RefusedOnlyAtFirst == Spec => []RefusedOnlyIfNeverBuilt
<1>1. IInv => RefusedOnlyIfNeverBuilt
  BY DEF IInv, RefusedPart, RefusedOnlyIfNeverBuilt
<1>2. QED
  BY <1>1, Invariance, PTL

\* A volume that is a littlefs stays one and keeps its updates, for any number
\* of builds, failing operations and crashes.
THEOREM DataKept == Spec => VolumesKeepData
<1>1. IInv /\ [Next]_vars =>
        [\A v \in Volumes : disk[v].file = "littlefs" =>
           disk'[v].file = "littlefs" /\ disk'[v].updates >= disk[v].updates]_vars
  BY StepKeeps DEF KeepsData, Intact
<1>2. QED
  BY <1>1, Invariance, PTL DEF Spec, VolumesKeepData

=============================================================================
