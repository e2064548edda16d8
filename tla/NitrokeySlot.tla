---------------------------- MODULE NitrokeySlot ----------------------------
(***************************************************************************)
(* Slot 1 over its lifetime: NitrokeyCard::new with its volumes, the card  *)
(* in use, a channel that is closed or created anew, and pcscd dying at    *)
(* any point.  IFDHCreateChannel builds the new card, which opens, formats *)
(* and mounts the two images under ~/.jcecard/slot-1, before it drops the  *)
(* card that is in the slot.  The calls for one reader come one after the  *)
(* other, as pcscd makes them.                                             *)
(***************************************************************************)
EXTENDS NitrokeyCard, Sequences

CONSTANTS
  MaxUpdates,  \* updates that the applets make to a volume: a bound
  MaxFaults    \* failing I/O operations and crashes: a bound

ASSUME SlotAssumption == MaxUpdates \in Nat /\ MaxFaults \in Nat

VARIABLES
  at,      \* the next step of NitrokeyCard::new; idle outside a call
  vol,     \* the volume this step is about, an index of Order
  fresh,   \* ifs_new and efs_new: the volumes found absent
  disk,    \* per volume: its image file and the updates that are in it
  mount,   \* the updates known to the littlefs mounts of the card in the slot
  fsview,  \* the same for the mounts of the card that is being built
  \* History of the run, read by no action but for the bound.
  faults,  \* operations that failed and crashes
  built,   \* some call has built a card
  refused  \* the last build failed though no operation of it did

buildVars == <<at, vol, fresh, fsview>>
slotVars == <<buildVars, disk, mount, faults, built, refused>>
vars == <<cardVars, slotVars>>

\* The volumes in the order build_store opens and mounts them.
Order == <<"ifs", "efs">>
Volumes == {"ifs", "efs"}
Volume == Order[vol]

(***************************************************************************)
(* An image file: absent, short of VOLUME_SIZE, of that size but never     *)
(* formatted, or a littlefs; littlefs keeps it consistent when a write to  *)
(* it is cut short.  Two mounts that are both written to damage it.        *)
(***************************************************************************)
Files == {"absent", "short", "blank", "littlefs", "damaged"}
NoUpdates == [v \in Volumes |-> 0]
SetFile(v, f) == disk' = [disk EXCEPT ![v].file = f]

-----------------------------------------------------------------------------
(* NitrokeyCard::new, one action per operation that can fail. *)

Go(step) == at' = step /\ vol' = 1
\* On to the next volume, or to the next step once all had this one.
Onward(again, step) == IF vol < Len(Order) THEN at' = again /\ vol' = vol + 1 ELSE Go(step)

\* The call is over, and with it its local variables.
Return == Go("idle") /\ fresh' = {} /\ fsview' = NoUpdates

KeepHistory == UNCHANGED <<faults, built, refused>>

CreateChannel ==
  /\ at = "idle" /\ ifd \in {"ready", "gone"}
  /\ Go("dir") /\ refused' = FALSE
  /\ UNCHANGED <<cardVars, fresh, fsview, disk, mount, faults, built>>

ensure_slot1_dir ==
  /\ at = "dir" /\ Go("probe")
  /\ UNCHANGED <<cardVars, fresh, fsview, disk, mount>> /\ KeepHistory

\* ifs_new and efs_new.
Probe ==
  /\ at = "probe" /\ Go("open")
  /\ fresh' = {v \in Volumes : disk[v].file = "absent"}
  /\ UNCHANGED <<cardVars, fsview, disk, mount>> /\ KeepHistory

\* Mutant: File::create on a file that exists, which truncates it.
OpenTruncates ==
  /\ at = "open"
  /\ SetFile(Volume, "short") /\ at' = "size" /\ UNCHANGED vol
  /\ UNCHANGED <<cardVars, fresh, fsview, mount>> /\ KeepHistory

\* DiskStorage::open_or_create: create the file, or see that it has its size.
Open ==
  /\ at = "open"
  /\ \/ /\ disk[Volume].file \in {"absent", "short"}
        /\ SetFile(Volume, "short") /\ at' = "size" /\ UNCHANGED vol
     \/ /\ disk[Volume].file \notin {"absent", "short"}
        /\ Onward("open", "format") /\ UNCHANGED disk
  /\ UNCHANGED <<cardVars, fresh, fsview, mount>> /\ KeepHistory

\* set_len on a new file, or on one that a crash left short.
SetLen ==
  /\ at = "size"
  /\ SetFile(Volume, "blank") /\ Onward("open", "format")
  /\ UNCHANGED <<cardVars, fresh, fsview, mount>> /\ KeepHistory

\* Mutant: the volumes on disk are formatted like the volatile one.
FormatAlways ==
  /\ at = "format" /\ at' = "mount"
  /\ disk' = [disk EXCEPT ![Volume] = [file |-> "littlefs", updates |-> 0]]
  /\ UNCHANGED <<cardVars, vol, fresh, fsview, mount>> /\ KeepHistory

\* leak_fs: Filesystem::format, for a volume whose file was absent.
Format ==
  /\ at = "format" /\ at' = "mount"
  /\ disk' = IF Volume \in fresh THEN [disk EXCEPT ![Volume] = [file |-> "littlefs", updates |-> 0]]
             ELSE disk
  /\ UNCHANGED <<cardVars, vol, fresh, fsview, mount>> /\ KeepHistory

\* leak_fs: Filesystem::mount, which reads the volume as it is now.
Mount ==
  /\ at = "mount" /\ disk[Volume].file = "littlefs"
  /\ Onward("format", "spawn")
  /\ fsview' = [fsview EXCEPT ![Volume] = disk[Volume].updates]
  /\ UNCHANGED <<cardVars, fresh, disk, mount>> /\ KeepHistory

\* The image is no littlefs: build_slot_card gives no card, and the slot keeps
\* the one it has.
MountRefused ==
  /\ at = "mount" /\ disk[Volume].file # "littlefs"
  /\ Return /\ refused' = TRUE
  /\ UNCHANGED <<cardVars, disk, mount, faults, built>>

\* The volatile volume, the platform, the apps and the service thread.
Spawn ==
  /\ at = "spawn" /\ Go("install")
  /\ UNCHANGED <<cardVars, fresh, fsview, disk, mount>> /\ KeepHistory

\* The old card is dropped by the assignment to the slot...
DropOld ==
  /\ at = "install" /\ Drop
  /\ UNCHANGED slotVars

\* ... and IFDHCreateChannel returns when it is gone.
Install ==
  /\ at = "install" /\ ifd = "gone"
  /\ NewCard
  /\ mount' = fsview
  /\ Return /\ built' = TRUE
  /\ UNCHANGED <<disk, faults, refused>>

\* An operation of the build fails: the `?` of new and of build_store.
BuildFails ==
  /\ at \in {"dir", "open", "size", "format", "mount", "spawn"} /\ faults < MaxFaults
  /\ faults' = faults + 1 /\ Return
  /\ UNCHANGED <<cardVars, disk, mount, built, refused>>

\* The process ends, in a build or in a call; an applet that asks for a
\* reboot ends it too, with a panic.
Crash ==
  /\ faults < MaxFaults
  /\ faults' = faults + 1 /\ Return /\ refused' = FALSE
  /\ EndCard
  /\ UNCHANGED <<disk, mount, built>>

-----------------------------------------------------------------------------
(* The card in use. *)

\* What service.process does to the volumes through the mounts of its card.
Write(v) ==
  /\ disk[v].updates < MaxUpdates
  /\ disk' = [disk EXCEPT ![v] =
       [file |-> IF mount[v] = @.updates THEN @.file ELSE "damaged", updates |-> @.updates + 1]]
  /\ mount' = [mount EXCEPT ![v] = @ + 1]

Use ==
  /\ at = "idle" /\ (HostCall \/ AppSyscall)
  /\ UNCHANGED slotVars

CloseChannel ==
  /\ at = "idle" /\ Drop
  /\ UNCHANGED slotVars

Running == InCall /\ UNCHANGED slotVars

Serve ==
  \/ CheckStop /\ UNCHANGED slotVars
  \/ /\ Receive
     /\ UNCHANGED <<disk, mount>> \/ (pings > 0 /\ \E v \in Volumes : Write(v))
     /\ UNCHANGED <<buildVars, faults, built, refused>>

Build ==
  \/ ensure_slot1_dir \/ Probe \/ Open \/ SetLen \/ Format \/ Mount \/ MountRefused
  \/ Spawn \/ DropOld \/ Install

Init ==
  /\ NoCard
  /\ at = "idle" /\ vol = 1 /\ fresh = {}
  /\ disk = [v \in Volumes |-> [file |-> "absent", updates |-> 0]]
  /\ mount = NoUpdates /\ fsview = NoUpdates
  /\ faults = 0 /\ built = FALSE /\ refused = FALSE

Next ==
  \/ CreateChannel \/ Build \/ BuildFails \/ Crash
  \/ Use \/ CloseChannel \/ Running \/ Serve

(***************************************************************************)
(* Both threads run.  An applet may call the service any number of times   *)
(* for one APDU but returns in the end.                                    *)
(***************************************************************************)
Fairness ==
  /\ WF_vars(Running) /\ SF_vars(AppReturn /\ UNCHANGED slotVars) /\ WF_vars(Serve)
  /\ WF_vars(Build)

Spec == Init /\ [][Next]_vars /\ Fairness

-----------------------------------------------------------------------------
(* Properties. *)

\* The type of the state of the slot and of the card in it.
TypeOK ==
  /\ ifd \in {"ready", "loop", "app", "waiting", "take", "joining", "gone"}
  /\ powered \in BOOLEAN /\ left \in 0..MaxPolls
  /\ channel \in [state: {"idle", "requested", "building", "responded"}, apdu: 0..MaxApdus]
  /\ pings \in 0..1 /\ request \in BOOLEAN /\ stop \in BOOLEAN /\ late \in BOOLEAN
  /\ svc \in {"check", "receive", "exited"} /\ sent \in 0..MaxApdus
  /\ at \in {"idle", "dir", "probe", "open", "size", "format", "mount", "spawn", "install"}
  /\ vol \in 1..Len(Order) /\ fresh \in SUBSET Volumes
  /\ disk \in [Volumes -> [file: Files, updates: 0..MaxUpdates]]
  /\ mount \in [Volumes -> 0..MaxUpdates] /\ fsview \in [Volumes -> 0..MaxUpdates]
  /\ faults \in 0..MaxFaults /\ built \in BOOLEAN /\ refused \in BOOLEAN

\* build_store formats only what has no data: a volume that is a littlefs stays
\* one and keeps every update, through builds, failures and crashes, and though
\* a channel created anew mounts the images a second time.
VolumesKeepData ==
  [][\A v \in Volumes : disk[v].file = "littlefs" =>
       disk'[v].file = "littlefs" /\ disk'[v].updates >= disk[v].updates]_vars

\* A build whose own operations all work fails only if the very first builds
\* were cut short, between creating a file and formatting it: once a card was
\* built the slot never loses its volumes, and with no fault it never fails.
RefusedOnlyIfNeverBuilt == refused => faults > 0 /\ ~built

\* Every APDU is answered, every build ends and every drop of the card ends: no
\* ping is lost, a stop is noticed between pings, and the service outlives its
\* callers.
EveryCallEnds == (ifd # "ready" \/ at # "idle") ~> (ifd \in {"ready", "gone"} /\ at = "idle")
=============================================================================
