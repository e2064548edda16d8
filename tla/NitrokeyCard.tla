---------------------------- MODULE NitrokeyCard ----------------------------
(***************************************************************************)
(* The card of slot 1 (nitrokey/card.rs): the thread of the IFD handler    *)
(* that sends an APDU and polls the applets until the deadline, and the    *)
(* Trussed service thread that the applets call through a channel of       *)
(* pings.  The card mutex of lib.rs lets one call in at a time.  The       *)
(* interchange, the dispatcher and the applets are external crates: they   *)
(* are modelled by how run_apdu and the service loop use them.             *)
(***************************************************************************)
EXTENDS Naturals

CONSTANTS
  MaxApdus,  \* APDUs a host sends: a bound of the model
  MaxPolls   \* rounds of the loop before the deadline has passed for sure

ASSUME BoundsAssumption == MaxApdus \in Nat /\ MaxPolls \in Nat \ {0}

VARIABLES
  ifd,      \* the IFD thread: ready, loop, app, waiting, take, joining, gone
  powered,  \* NitrokeyCard.powered
  left,     \* rounds of the loop left
  channel,  \* the APDU interchange: its state and the APDU in it
  pings,    \* messages in the syscall channel
  request,  \* the Trussed pipe holds a request of the applet
  stop,     \* the stop message was sent
  svc,      \* the service thread: check, receive, exited
  \* History of the run, read by no action.
  sent,     \* APDUs sent so far; the last one has this number
  answer,   \* status of the last answer and the APDU it belongs to
  late      \* a deadline has passed on this card

service == <<pings, request, stop, svc>>
cardVars == <<ifd, powered, left, channel, service, sent, answer, late>>

InState(s) == channel.state = s
\* An answer of the driver itself, to APDU n.
Local(w, n) == [sw |-> w, apdu |-> n]

-----------------------------------------------------------------------------
(* The calls of the IFD handler. *)

\* power_on, power_off and reset touch nothing but the flag.
Power(on) ==
  /\ ifd = "ready"
  /\ powered' = on
  /\ UNCHANGED <<ifd, left, channel, service, sent, answer, late>>

\* transmit_apdu on a card that is off, or an APDU that is too large.
Refuse ==
  /\ ifd = "ready" /\ sent < MaxApdus
  /\ sent' = sent + 1
  /\ answer' = Local(IF powered THEN "6700" ELSE "6985", sent + 1)
  /\ UNCHANGED <<ifd, powered, left, channel, service, late>>

\* Mutant: the loop is entered though the request was not accepted.
TransmitBusy ==
  /\ ifd = "ready" /\ powered /\ sent < MaxApdus
  /\ sent' = sent + 1
  /\ channel' = IF InState("idle") THEN [state |-> "requested", apdu |-> sent + 1] ELSE channel
  /\ ifd' = "loop" /\ left' = MaxPolls
  /\ UNCHANGED <<powered, service, answer, late>>

(***************************************************************************)
(* run_apdu up to its loop: an old response is dropped, and a request is   *)
(* accepted only by an idle interchange.                                   *)
(***************************************************************************)
Transmit ==
  LET free == InState("idle") \/ InState("responded") IN
  /\ ifd = "ready" /\ powered /\ sent < MaxApdus
  /\ sent' = sent + 1
  /\ \/ /\ free
        /\ channel' = [state |-> "requested", apdu |-> sent + 1]
        /\ ifd' = "loop" /\ left' = MaxPolls
        /\ UNCHANGED answer
     \/ /\ ~free
        /\ answer' = Local("6400", sent + 1)
        /\ UNCHANGED <<channel, ifd, left>>
  /\ UNCHANGED <<powered, service, late>>

\* A round of the loop: ApduDispatch.poll, when it holds a request.
Poll ==
  /\ ifd = "loop" /\ left > 0
  /\ ifd' = "app" /\ left' = left - 1
  /\ channel' = [channel EXCEPT !.state = "building"]
  /\ UNCHANGED <<powered, service, sent, answer, late>>

\* DesktopSyscall.syscall: the applet asks the service and waits for it.
AppSyscall ==
  /\ ifd = "app"
  /\ request' = TRUE /\ pings' = pings + 1
  /\ ifd' = "waiting"
  /\ UNCHANGED <<powered, left, channel, stop, svc, sent, answer, late>>

\* The applet sees its answer and goes on.
AppResume ==
  /\ ifd = "waiting" /\ ~request
  /\ ifd' = "app"
  /\ UNCHANGED <<powered, left, channel, service, sent, answer, late>>

\* poll returns, with the response in the interchange or still to come.
AppReturn ==
  /\ ifd = "app"
  /\ ifd' = "take"
  /\ channel' \in {channel, [channel EXCEPT !.state = "responded"]}
  /\ UNCHANGED <<powered, left, service, sent, answer, late>>

\* Mutant: the deadline is looked at before the response.
TakeResponseLate ==
  /\ ifd = "take"
  /\ \/ /\ InState("responded")
        /\ answer' = [sw |-> "applet", apdu |-> channel.apdu]
        /\ channel' = [channel EXCEPT !.state = "idle"]
        /\ ifd' = "ready"
     \/ ifd' = "loop" /\ UNCHANGED <<channel, answer>>
  /\ UNCHANGED <<powered, left, service, sent, late>>

\* take_response inside the loop: return it, or sleep and go round again.
TakeResponse ==
  /\ ifd = "take"
  /\ \/ /\ InState("responded")
        /\ answer' = [sw |-> "applet", apdu |-> channel.apdu]
        /\ channel' = [channel EXCEPT !.state = "idle"]
        /\ ifd' = "ready"
     \/ /\ ~InState("responded")
        /\ ifd' = "loop"
        /\ UNCHANGED <<channel, answer>>
  /\ UNCHANGED <<powered, left, service, sent, late>>

\* The head of the loop finds that the deadline has passed.
Timeout ==
  /\ ifd = "loop"
  /\ ifd' = "ready"
  /\ answer' = Local("6400", sent) /\ late' = TRUE
  /\ UNCHANGED <<powered, left, channel, service, sent>>

\* Drop: the stop message, then join.
Drop ==
  /\ ifd = "ready"
  /\ ifd' = "joining" /\ stop' = TRUE
  /\ UNCHANGED <<powered, left, channel, pings, request, svc, sent, answer, late>>

Join ==
  /\ ifd = "joining" /\ svc = "exited"
  /\ ifd' = "gone"
  /\ UNCHANGED <<powered, left, channel, service, sent, answer, late>>

-----------------------------------------------------------------------------
(* The service thread. *)

\* stop_rx.try_recv()
CheckStop ==
  /\ svc = "check"
  /\ svc' = IF stop THEN "exited" ELSE "receive"
  /\ stop' = FALSE
  /\ UNCHANGED <<ifd, powered, left, channel, pings, request, sent, answer, late>>

\* Mutant: recv() instead of recv_timeout().
ReceiveBlocking ==
  /\ svc = "receive" /\ pings > 0
  /\ pings' = pings - 1 /\ request' = FALSE
  /\ svc' = "check"
  /\ UNCHANGED <<ifd, powered, left, channel, stop, sent, answer, late>>

\* recv_timeout: a ping, after which the service answers what is queued, or
\* the end of the 25 ms.
Receive ==
  /\ svc = "receive"
  /\ svc' = "check"
  /\ \/ pings > 0 /\ pings' = pings - 1 /\ request' = FALSE
     \/ pings = 0 /\ UNCHANGED <<pings, request>>
  /\ UNCHANGED <<ifd, powered, left, channel, stop, sent, answer, late>>

\* A card with nothing under way and its threads in states i and s.
Rest(i, s) ==
  /\ ifd' = i /\ powered' = FALSE /\ left' = 0
  /\ channel' = [state |-> "idle", apdu |-> sent]
  /\ pings' = 0 /\ request' = FALSE /\ stop' = FALSE /\ svc' = s
  /\ answer' = [sw |-> "none", apdu |-> sent] /\ late' = FALSE
  /\ UNCHANGED sent

\* The card that NitrokeyCard::new returns; a card that ends with its process.
NewCard == Rest("ready", "check")
EndCard == Rest("gone", "exited")

NoCard ==
  /\ ifd = "gone" /\ powered = FALSE /\ left = 0
  /\ channel = [state |-> "idle", apdu |-> 0]
  /\ pings = 0 /\ request = FALSE /\ stop = FALSE /\ svc = "exited"
  /\ sent = 0 /\ answer = [sw |-> "none", apdu |-> 0] /\ late = FALSE

\* The calls of a host, the steps of a call under way, the service thread.
HostCall == (\E on \in BOOLEAN : Power(on)) \/ Refuse \/ Transmit
InCall == Poll \/ AppReturn \/ AppResume \/ TakeResponse \/ Timeout \/ Join

-----------------------------------------------------------------------------
(* Properties. *)

\* An answer belongs to the APDU that was just sent, never to an earlier one
\* that ran into the deadline while its applet was still at work.
AnswersOwnApdu == ifd = "ready" => answer.apdu = sent

\* Between calls the interchange takes the next APDU, unless a deadline has
\* passed on this card; and then still no response that an applet finished is
\* left behind: what the applet did and what the host was told agree.
NextIsAccepted == ifd = "ready" => InState("idle") \/ (late /\ ~InState("responded"))
=============================================================================
