----------------------------- MODULE VirtualCard -----------------------------
(***************************************************************************)
(* The virtual card of slot 0 (lib.rs): power, applet selection, and the   *)
(* command and response chaining in front of the handlers of the two       *)
(* applets (process_apdu of openpgp/applet.rs and piv/applet.rs).  What a  *)
(* handler computes is left open here: OpenPGPApplet has the handlers.     *)
(***************************************************************************)
EXTENDS Naturals, Sequences

CONSTANTS
  Lengths,    \* response lengths a key operation may produce, in bytes
  Les,        \* Le values a host may ask for; 256 when the command has none
  MaxBlocks   \* blocks a command buffer may hold: a bound of the model

ASSUME LengthsAssumption ==
  Lengths \subseteq Nat /\ Les \subseteq Nat \ {0} /\ 256 \in Les /\ MaxBlocks \in Nat

Applets == {"OpenPGP", "PIV"}

\* KEYOP: the OpenPGP commands that answer through create_response.
\* PUT: PUT DATA, the one command the PIV applet takes in chained form.
Instructions == {"SELECT", "GET_RESPONSE", "TERMINATE", "ACTIVATE", "KEYOP", "PUT"}
None == "None"

VARIABLES
  powered,     \* VirtualCard.powered
  active,      \* VirtualCard.active_applet
  buffer,      \* command_buffer of each applet, as the blocks it was built from
  chainIns,    \* chaining_ins, command_chain_ins
  respLen,     \* length of OpenPGPApplet.response_buffer
  respOff,     \* OpenPGPApplet.response_offset
  terminated,  \* CardState.terminated
  verified,    \* the applets with a verified condition
  resp,        \* last answer: status word and, for 61xx, the count
  \* History of the run, read by no action.
  accepted,    \* blocks acknowledged since the applet last ran or refused
  exec,        \* the command that the last APDU ran, if any
  total,       \* length of the last response announced with 61xx
  sent,        \* bytes of it handed out
  refused      \* the whole SELECTs that the active applet refused in a row

chaining == <<buffer, chainIns>>
response == <<respLen, respOff, total, sent>>
vars == <<powered, active, chaining, response, terminated, verified, resp, accepted, exec, refused>>

\* A block of a chained command: its instruction and whether it was sent
\* since the card was last reset.
Block == [ins: Instructions, fresh: BOOLEAN]

Minimum(m, n) == IF m < n THEN m ELSE n
Answered(w) == [sw |-> w, n |-> 0]
NoExec == [ins |-> None, data |-> <<>>, blocks |-> <<>>]

\* SW2 of 61xx for n bytes still to fetch.
Remaining(n) == IF n > 255 THEN 0 ELSE n

-----------------------------------------------------------------------------
(* Effects on one applet's chaining state. *)

SetChain(a, b, i) ==
  buffer' = [buffer EXCEPT ![a] = b] /\ chainIns' = [chainIns EXCEPT ![a] = i]

\* Mutant: a refused command leaves the chain as it was.
DropChainNot(a, w) ==
  /\ exec' = NoExec
  /\ resp' = Answered(w)
  /\ UNCHANGED <<chaining, accepted, response, terminated, verified>>

\* The command is refused with the chain dropped.
DropChain(a, w) ==
  /\ SetChain(a, <<>>, None)
  /\ accepted' = [accepted EXCEPT ![a] = <<>>]
  /\ exec' = NoExec
  /\ resp' = Answered(w)
  /\ UNCHANGED <<response, terminated, verified>>

\* The block is stored and the next one awaited.
KeepBlock(a, cmd, old) ==
  /\ Len(old) + Len(cmd.data) <= MaxBlocks
  /\ SetChain(a, old \o cmd.data, cmd.ins)
  /\ accepted' = [accepted EXCEPT ![a] = @ \o cmd.data]
  /\ exec' = NoExec
  /\ resp' = Answered("9000")
  /\ UNCHANGED <<response, terminated, verified>>

Ran(a, cmd, data) ==
  /\ exec' = [ins |-> cmd.ins, data |-> data, blocks |-> accepted[a] \o cmd.data]
  /\ accepted' = [accepted EXCEPT ![a] = <<>>]

-----------------------------------------------------------------------------
(* The OpenPGP applet. *)

\* Mutant: the second part starts at the first byte again.
CreateResponseFromStart(n, le) ==
  IF n <= le
  THEN resp' = Answered("9000") /\ UNCHANGED response
  ELSE /\ respLen' = n /\ respOff' = 0
       /\ resp' = [sw |-> "61xx", n |-> Remaining(n - le)]
       /\ total' = n /\ sent' = le

\* create_response: a long answer is kept, its first part goes out.
CreateResponse(n, le) ==
  IF n <= le
  THEN resp' = Answered("9000") /\ UNCHANGED response
  ELSE /\ respLen' = n /\ respOff' = le
       /\ resp' = [sw |-> "61xx", n |-> Remaining(n - le)]
       /\ total' = n /\ sent' = le

\* handle_get_response.
GetResponse(le) ==
  LET chunk == Minimum(le, respLen - respOff)
      left == respLen - (respOff + chunk)
  IN
  /\ IF respLen = 0
     THEN resp' = Answered("6985") /\ UNCHANGED response
     ELSE /\ respLen' = IF left = 0 THEN 0 ELSE respLen
          /\ respOff' = IF left = 0 THEN 0 ELSE respOff + chunk
          /\ resp' = IF left = 0 THEN Answered("9000")
                     ELSE [sw |-> "61xx", n |-> Remaining(left)]
          /\ sent' = sent + chunk /\ UNCHANGED total
  /\ exec' = NoExec
  /\ UNCHANGED <<chaining, accepted, terminated, verified>>

\* The handler of a whole command, after the check for a terminated card.
OpenPGPHandler(cmd) ==
  \/ /\ cmd.ins = "SELECT"
     /\ resp' = Answered("9000")
     /\ UNCHANGED <<response, terminated, verified>>
  \/ /\ cmd.ins = "TERMINATE"
     /\ \/ terminated' = TRUE /\ resp' = Answered("9000")
        \/ resp' = Answered("6982") /\ UNCHANGED terminated
     /\ UNCHANGED <<response, verified>>
  \/ /\ cmd.ins = "ACTIVATE"
     /\ terminated' = FALSE
     /\ verified' = verified \ {"OpenPGP"}
     /\ respLen' = 0 /\ respOff' = 0 /\ total' = 0 /\ sent' = 0
     /\ resp' = Answered("9000")
  \/ /\ cmd.ins = "KEYOP"
     /\ \/ \E n \in Lengths : CreateResponse(n, cmd.le)
        \/ resp' = Answered("6400") /\ UNCHANGED response
     /\ UNCHANGED <<terminated, verified>>
  \/ /\ cmd.ins = "PUT"      \* and every other command: VERIFY, GET DATA, ...
     /\ resp' = Answered("9000")
     /\ verified' \in {verified, verified \cup {"OpenPGP"}}
     /\ UNCHANGED <<response, terminated>>

\* A command that is not a block of a chain.  The buffer is joined only when
\* it holds data: chaining_ins stays behind a chain of empty blocks, until
\* ACTIVATE FILE clears it.
OpenPGPRun(cmd) ==
  LET b == buffer["OpenPGP"]
      left == IF b = <<>> /\ ~(cmd.ins = "ACTIVATE") THEN chainIns["OpenPGP"] ELSE None
  IN
  IF b # <<>> /\ chainIns["OpenPGP"] # cmd.ins
  THEN DropChain("OpenPGP", "6985")
  ELSE /\ SetChain("OpenPGP", <<>>, left)
       /\ IF terminated /\ cmd.ins # "ACTIVATE"
          THEN /\ resp' = Answered("6985")
               /\ accepted' = [accepted EXCEPT !["OpenPGP"] = <<>>]
               /\ exec' = NoExec
               /\ UNCHANGED <<response, terminated, verified>>
          ELSE Ran("OpenPGP", cmd, b \o cmd.data) /\ OpenPGPHandler(cmd)

\* handle_command_chaining.
OpenPGPChain(cmd) ==
  LET i == chainIns["OpenPGP"] IN
  IF i = None THEN KeepBlock("OpenPGP", cmd, <<>>)
  ELSE IF i = cmd.ins THEN KeepBlock("OpenPGP", cmd, buffer["OpenPGP"])
  ELSE DropChain("OpenPGP", "6985")

\* OpenPGPApplet.process_apdu.
OpenPGPProcess(cmd) ==
  IF cmd.ins = "GET_RESPONSE" THEN GetResponse(cmd.le)
  ELSE IF cmd.chained THEN OpenPGPChain(cmd)
  ELSE OpenPGPRun(cmd)

-----------------------------------------------------------------------------
(* The PIV applet.  Nothing ever fills its response buffer. *)

\* The handler of a command that did not arrive in blocks.
PIVHandler(cmd) ==
  /\ \/ /\ cmd.ins = "SELECT"
        /\ resp' = Answered("9000")
        /\ verified' = verified \ {"PIV"}
     \/ /\ cmd.ins = "GET_RESPONSE"
        /\ resp' = Answered("6985")
        /\ UNCHANGED verified
     \/ /\ cmd.ins = "PUT"      \* and every other PIV command
        /\ resp' = Answered("9000")
        /\ verified' \in {verified, verified \cup {"PIV"}}
     \/ /\ cmd.ins \in {"TERMINATE", "ACTIVATE", "KEYOP"}
        /\ resp' = Answered("6D00")
        /\ UNCHANGED verified
  /\ UNCHANGED <<response, terminated>>

\* Mutant: a block of another instruction is added to the chain.
PIVChainAnyIns(cmd) ==
  LET b == buffer["PIV"] IN
  IF cmd.chained THEN KeepBlock("PIV", cmd, b)
  ELSE /\ SetChain("PIV", <<>>, None)
       /\ Ran("PIV", cmd, b \o cmd.data)
       /\ resp' = Answered("9000")
       /\ UNCHANGED <<response, terminated, verified>>

\* A chain is open or opened: check the instruction, store, run at the end.
PIVChain(cmd) ==
  LET i == IF chainIns["PIV"] = None THEN cmd.ins ELSE chainIns["PIV"]
      b == IF chainIns["PIV"] = None THEN <<>> ELSE buffer["PIV"]
  IN
  IF i # cmd.ins THEN DropChain("PIV", "6985")
  ELSE IF cmd.chained THEN KeepBlock("PIV", cmd, b)
  ELSE IF cmd.ins # "PUT" THEN DropChain("PIV", "6D00")
  ELSE /\ SetChain("PIV", <<>>, None)
       /\ Ran("PIV", cmd, b \o cmd.data)
       /\ resp' = Answered("9000")
       /\ UNCHANGED <<response, terminated, verified>>

\* PIVApplet.process_apdu.
PIVProcess(cmd) ==
  IF cmd.chained \/ chainIns["PIV"] # None THEN PIVChain(cmd)
  ELSE Ran("PIV", cmd, cmd.data) /\ PIVHandler(cmd) /\ UNCHANGED chaining

Process(a, cmd) == IF a = "OpenPGP" THEN OpenPGPProcess(cmd) ELSE PIVProcess(cmd)

-----------------------------------------------------------------------------
(* The card. *)

\* An APDU that no applet sees: card off, parse error, SELECT of the MF or of
\* another AID, or no applet selected.
NotRouted(w) ==
  /\ resp' = Answered(w)
  /\ exec' = NoExec
  /\ refused' = 0
  /\ UNCHANGED <<powered, active, chaining, response, terminated, verified, accepted>>

Unrouted ==
  \/ ~powered /\ NotRouted("6985")
  \/ powered /\ \E w \in {"6700", "6D00", "6A82", "9000"} : NotRouted(w)
  \/ powered /\ active = None /\ NotRouted("6985")

\* handle_select: the applet is active before it sees the SELECT.
Select(a, chained) ==
  /\ powered
  /\ active' = a
  /\ Process(a, [ins |-> "SELECT", chained |-> chained, le |-> 256,
                 data |-> <<[ins |-> "SELECT", fresh |-> TRUE]>>])
  /\ refused' = IF chained \/ resp'.sw = "9000" \/ (a = "OpenPGP" /\ terminated) THEN 0
                ELSE IF active = a THEN Minimum(refused + 1, 2) ELSE 1
  /\ UNCHANGED powered

\* Any other command goes to the active applet.
Command(i, chained, hasData, le) ==
  /\ powered /\ active # None
  /\ Process(active, [ins |-> i, chained |-> chained, le |-> le,
                      data |-> IF hasData THEN <<[ins |-> i, fresh |-> TRUE]>> ELSE <<>>])
  /\ refused' = 0
  /\ UNCHANGED <<powered, active>>

\* openpgp.reset() and piv.reset(): the PIV applet keeps its chain.
ResetApplets ==
  /\ buffer' = [buffer EXCEPT
                  !["OpenPGP"] = <<>>,
                  !["PIV"] = [k \in DOMAIN buffer["PIV"] |-> [buffer["PIV"][k] EXCEPT !.fresh = FALSE]]]
  /\ chainIns' = [chainIns EXCEPT !["OpenPGP"] = None]
  /\ respLen' = 0 /\ respOff' = 0 /\ total' = 0 /\ sent' = 0
  /\ verified' = {}
  /\ accepted' = [a \in Applets |-> <<>>]
  /\ exec' = NoExec /\ refused' = 0 /\ resp' = Answered("none")
  /\ UNCHANGED terminated

\* Power up leaves the applets as they are.
PowerOn ==
  /\ powered' = TRUE /\ active' = None
  /\ exec' = NoExec /\ refused' = 0 /\ resp' = Answered("none")
  /\ UNCHANGED <<chaining, response, terminated, verified, accepted>>

\* Mutant: power off without the reset of the applets.
PowerOffOnly ==
  /\ powered' = FALSE /\ active' = None
  /\ exec' = NoExec /\ refused' = 0 /\ resp' = Answered("none")
  /\ UNCHANGED <<chaining, response, terminated, verified, accepted>>

PowerOff == powered' = FALSE /\ active' = None /\ ResetApplets

Reset == powered' = TRUE /\ active' = None /\ ResetApplets

Init ==
  /\ powered = FALSE /\ active = None
  /\ buffer = [a \in Applets |-> <<>>] /\ chainIns = [a \in Applets |-> None]
  /\ respLen = 0 /\ respOff = 0 /\ total = 0 /\ sent = 0
  /\ terminated \in BOOLEAN
  /\ verified = {}
  /\ accepted = [a \in Applets |-> <<>>]
  /\ exec = NoExec /\ refused = 0 /\ resp = Answered("none")

Next ==
  \/ Unrouted
  \/ \E a \in Applets, chained \in BOOLEAN : Select(a, chained)
  \/ \E i \in Instructions \ {"SELECT"}, chained, hasData \in BOOLEAN, le \in Les :
       Command(i, chained, hasData, le)
  \/ PowerOn
  \/ PowerOff
  \/ Reset

Spec == Init /\ [][Next]_vars

-----------------------------------------------------------------------------
(* Properties. *)

\* The type of the state; the offset stays within the response.
TypeOK ==
  /\ powered \in BOOLEAN
  /\ active \in Applets \cup {None}
  /\ buffer \in [Applets -> Seq(Block)] /\ accepted \in [Applets -> Seq(Block)]
  /\ chainIns \in [Applets -> Instructions \cup {None}]
  /\ respLen \in Nat /\ respOff \in 0..respLen
  /\ total \in Nat /\ sent \in 0..total
  /\ terminated \in BOOLEAN
  /\ verified \in SUBSET Applets
  /\ refused \in 0..2

\* A command that arrives in blocks runs on exactly the blocks that were
\* acknowledged for it, all of its own instruction and all sent since the
\* last reset, whatever was selected, refused or reset in between.
CommandsAreWhole ==
  exec # NoExec =>
    /\ exec.data = exec.blocks
    /\ \A k \in DOMAIN exec.data : exec.data[k] = [ins |-> exec.ins, fresh |-> TRUE]

\* Response chaining hands out every byte of a long response once and in
\* order, and 61xx announces what is left (00 for more than 255 bytes).
EveryByteOnce ==
  /\ respLen > 0 => respOff = sent /\ respLen = total /\ sent < total
  /\ respLen = 0 => sent = total
  /\ resp.sw = "61xx" =>
       LET left == respLen - respOff IN IF resp.n = 0 THEN left > 255 ELSE left = resp.n

\* A SELECT that fails, because a chain was left open, even one from before a
\* reset, succeeds when it is sent again, unless the card is terminated.
SelectRecovers == refused < 2

\* A card that is off has no verified condition in either applet, and no response
\* data and no open command in the OpenPGP applet, so that power on need not clear
\* them.  An open chain of the PIV applet stays; SelectRecovers and CommandsAreWhole
\* say what becomes of it.
OffIsClean ==
  ~powered => /\ verified = {} /\ respLen = 0
              /\ buffer["OpenPGP"] = <<>> /\ chainIns["OpenPGP"] = None

=============================================================================
