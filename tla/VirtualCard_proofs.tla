-------------------------- MODULE VirtualCard_proofs --------------------------
(***************************************************************************)
(* Proofs about power, selection and chaining of the card of slot 0, for   *)
(* responses of any length, any Le and command chains of any number of     *)
(* blocks.                                                                 *)
(***************************************************************************)
EXTENDS VirtualCard, TLAPS

-----------------------------------------------------------------------------
(* The inductive invariant. *)

\* Blocks of one instruction, all sent since the last reset.
Pure(s, i) == \A k \in DOMAIN s : s[k] = [ins |-> i, fresh |-> TRUE]

\* What the applet joins is what it acknowledged, of the open chain's instruction.
Whole(a) == buffer[a] = accepted[a] /\ Pure(buffer[a], chainIns[a])

\* An applet without an open chain holds no block.
NoneIsEmpty(a) == chainIns[a] = None => buffer[a] = <<>> /\ accepted[a] = <<>>

\* The PIV applet keeps its chain over a reset.  Only the SELECT that makes it
\* the active applet again can be added to such a chain, and a chain of SELECT
\* is never run.
PIVReady == chainIns["PIV"] = "SELECT" \/ Whole("PIV")

ChainPart ==
  /\ NoneIsEmpty("OpenPGP") /\ Whole("OpenPGP")
  /\ NoneIsEmpty("PIV")
  /\ active = "PIV" => PIVReady

\* After a refused SELECT nothing is left that the next one could fail on.
RefusedPart ==
  /\ refused < 2
  /\ refused = 1 => \/ active = "OpenPGP" /\ buffer["OpenPGP"] = <<>>
                    \/ active = "PIV" /\ chainIns["PIV"] = None

IInv == TypeOK /\ ChainPart /\ RefusedPart /\ CommandsAreWhole /\ EveryByteOnce /\ OffIsClean

-----------------------------------------------------------------------------
(* What a step does to the chain of one applet. *)

\* A command as the card hands it to an applet.
Commands ==
  {cmd \in [ins: Instructions, chained: BOOLEAN, le: Nat \ {0}, data: Seq(Block)] :
     Pure(cmd.data, cmd.ins)}

ChainTypes ==
  /\ buffer \in [Applets -> Seq(Block)] /\ accepted \in [Applets -> Seq(Block)]
  /\ chainIns \in [Applets -> Instructions \cup {None}]

\* Only the chain of a changes.
OnlyChain(a) ==
  \A x \in Applets \ {a} : /\ buffer'[x] = buffer[x] /\ accepted'[x] = accepted[x]
                           /\ chainIns'[x] = chainIns[x]

\* Nothing is left of the chain of a, and nothing was run.
Dropped(a) ==
  /\ ChainTypes' /\ OnlyChain(a)
  /\ chainIns'[a] = None /\ buffer'[a] = <<>> /\ accepted'[a] = <<>>
  /\ exec' = NoExec

LEMMA PureJoin ==
  ASSUME NEW i \in Instructions, NEW s \in Seq(Block), NEW d \in Seq(Block), Pure(s, i), Pure(d, i)
  PROVE  s \o d \in Seq(Block) /\ Pure(s \o d, i)
<1>1. s \o d \in Seq(Block) /\ DOMAIN (s \o d) = 1..(Len(s) + Len(d))
  OBVIOUS
<1>2. ASSUME NEW k \in DOMAIN (s \o d)
      PROVE  (s \o d)[k] = [ins |-> i, fresh |-> TRUE]
  <2>1. CASE k <= Len(s)
    <3>1. k \in DOMAIN s /\ (s \o d)[k] = s[k]
      BY <1>1, <2>1
    <3>2. QED
      BY <3>1 DEF Pure
  <2>2. CASE k > Len(s)
    <3>1. k - Len(s) \in DOMAIN d /\ (s \o d)[k] = d[k - Len(s)]
      BY <1>1, <2>2
    <3>2. QED
      BY <3>1 DEF Pure
  <2>3. QED
    BY <1>1, <2>1, <2>2
<1>3. QED
  BY <1>1, <1>2 DEF Pure

LEMMA OneBlock ==
  ASSUME NEW i \in Instructions
  PROVE  /\ <<[ins |-> i, fresh |-> TRUE]>> \in Seq(Block)
         /\ Pure(<<[ins |-> i, fresh |-> TRUE]>>, i)
<1> DEFINE e == [ins |-> i, fresh |-> TRUE]
<1>1. e \in Block
  BY DEF Block
<1> HIDE DEF e
<1>2. <<e>> \in Seq(Block) /\ DOMAIN <<e>> = 1..1 /\ <<e>>[1] = e
  BY <1>1
<1>3. \A k \in DOMAIN <<e>> : <<e>>[k] = e
  BY <1>2
<1>4. QED
  BY <1>2, <1>3 DEF e, Pure

LEMMA DropChainDrops ==
  ASSUME TypeOK, NEW a \in Applets, NEW w, DropChain(a, w)
  PROVE  Dropped(a)
BY DEF TypeOK, DropChain, SetChain, Dropped, OnlyChain, ChainTypes

\* A block is added to the empty chain, or to one of its own instruction.
LEMMA KeepBlockKeeps ==
  ASSUME TypeOK, NEW a \in Applets, NEW cmd \in Commands, NEW old \in Seq(Block),
         KeepBlock(a, cmd, old)
  PROVE  /\ ChainTypes' /\ OnlyChain(a) /\ exec' = NoExec
         /\ chainIns'[a] = cmd.ins
         /\ old = accepted[a] /\ Pure(old, cmd.ins) => Whole(a)'
<1>1. /\ cmd.ins \in Instructions /\ cmd.data \in Seq(Block) /\ Pure(cmd.data, cmd.ins)
      /\ old \o cmd.data \in Seq(Block) /\ accepted[a] \o cmd.data \in Seq(Block)
  BY DEF Commands, TypeOK
<1>2. /\ buffer' = [buffer EXCEPT ![a] = old \o cmd.data]
      /\ chainIns' = [chainIns EXCEPT ![a] = cmd.ins]
      /\ accepted' = [accepted EXCEPT ![a] = accepted[a] \o cmd.data]
      /\ exec' = NoExec
  BY DEF KeepBlock, SetChain
<1>3. ChainTypes' /\ OnlyChain(a) /\ chainIns'[a] = cmd.ins
  BY <1>1, <1>2 DEF TypeOK, ChainTypes, OnlyChain
<1>4. ASSUME old = accepted[a], Pure(old, cmd.ins)
      PROVE  Whole(a)'
  <2>1. Pure(old \o cmd.data, cmd.ins)
    BY <1>1, <1>4, PureJoin
  <2>2. buffer'[a] = old \o cmd.data /\ accepted'[a] = old \o cmd.data
    BY <1>2, <1>4 DEF TypeOK
  <2>3. Pure(buffer'[a], chainIns'[a])
    BY <1>3, <2>1, <2>2
  <2>4. QED
    BY <2>2, <2>3 DEF Whole, Pure
<1>5. QED
  BY <1>2, <1>3, <1>4

\* A command runs on the blocks acknowledged for it.
LEMMA RanRuns ==
  ASSUME TypeOK, NEW a \in Applets, NEW cmd \in Commands, Ran(a, cmd, accepted[a] \o cmd.data),
         Pure(accepted[a], cmd.ins)
  PROVE  CommandsAreWhole' /\ accepted' = [accepted EXCEPT ![a] = <<>>]
<1>1. /\ cmd.ins \in Instructions /\ cmd.data \in Seq(Block) /\ Pure(cmd.data, cmd.ins)
      /\ accepted[a] \in Seq(Block)
  BY DEF Commands, TypeOK
<1>2. Pure(accepted[a] \o cmd.data, cmd.ins)
  BY <1>1, PureJoin
<1>3. exec'.ins = cmd.ins /\ exec'.data = accepted[a] \o cmd.data /\ exec'.blocks = exec'.data
  BY DEF Ran
<1>4. \A k \in DOMAIN exec'.data : exec'.data[k] = [ins |-> exec'.ins, fresh |-> TRUE]
  BY <1>2, <1>3 DEF Pure
<1>5. QED
  BY <1>3, <1>4 DEF CommandsAreWhole, Ran

LEMMA NothingRun == ASSUME exec' = NoExec PROVE CommandsAreWhole'
BY DEF CommandsAreWhole

-----------------------------------------------------------------------------
(* What a step does to the response that is handed out in parts. *)

ResponseTypes ==
  /\ respLen \in Nat /\ respOff \in 0..respLen
  /\ total \in Nat /\ sent \in 0..total

LEMMA PlainAnswer ==
  ASSUME TypeOK, EveryByteOnce, NEW w, w # "61xx", resp' = Answered(w), UNCHANGED response
  PROVE  ResponseTypes' /\ EveryByteOnce'
BY DEF TypeOK, EveryByteOnce, Answered, response, ResponseTypes

LEMMA NoResponse ==
  ASSUME NEW w, w # "61xx", resp' = Answered(w),
         respLen' = 0, respOff' = 0, total' = 0, sent' = 0
  PROVE  ResponseTypes' /\ EveryByteOnce'
BY DEF EveryByteOnce, Answered, ResponseTypes

LEMMA CreateResponseAnswers ==
  ASSUME TypeOK, EveryByteOnce, NEW n \in Nat, NEW le \in Nat \ {0}, CreateResponse(n, le)
  PROVE  ResponseTypes' /\ EveryByteOnce'
<1>1. CASE n <= le
  BY <1>1, PlainAnswer DEF CreateResponse
<1>2. CASE n > le
  <2>1. respLen' = n /\ respOff' = le /\ total' = n /\ sent' = le
    BY <1>2 DEF CreateResponse
  <2>2. resp'.n = Remaining(n - le)
    BY <1>2 DEF CreateResponse
  <2>3. IF resp'.n = 0 THEN n - le > 255 ELSE n - le = resp'.n
    BY <1>2, <2>2 DEF Remaining
  <2>4. QED
    BY <1>2, <2>1, <2>3 DEF ResponseTypes, EveryByteOnce
<1>3. QED
  BY <1>1, <1>2

LEMMA GetResponseAnswers ==
  ASSUME TypeOK, EveryByteOnce, NEW le \in Nat \ {0}, GetResponse(le)
  PROVE  ResponseTypes' /\ EveryByteOnce'
<1>1. CASE respLen = 0
  BY <1>1, PlainAnswer DEF GetResponse
<1>2. CASE respLen # 0
  <2> DEFINE chunk == Minimum(le, respLen - respOff)
             left == respLen - (respOff + chunk)
  <2>1. /\ respLen \in Nat /\ respOff \in Nat /\ respOff < respLen
        /\ sent = respOff /\ total = respLen
    BY <1>2 DEF TypeOK, EveryByteOnce
  <2>2. chunk \in 1..(respLen - respOff)
    BY <2>1 DEF Minimum
  <2>3. left \in Nat /\ respOff + chunk = respLen - left
    BY <2>1, <2>2
  <2>4. /\ respLen' = IF left = 0 THEN 0 ELSE respLen
        /\ respOff' = IF left = 0 THEN 0 ELSE respOff + chunk
        /\ resp' = IF left = 0 THEN Answered("9000") ELSE [sw |-> "61xx", n |-> Remaining(left)]
        /\ sent' = sent + chunk /\ total' = total
    BY <1>2 DEF GetResponse
  <2> HIDE DEF chunk, left
  <2>5. CASE left = 0
    BY <2>1, <2>2, <2>3, <2>4, <2>5 DEF ResponseTypes, EveryByteOnce, Answered
  <2>6. CASE left # 0
    <3>1. /\ respLen' = respLen /\ respOff' = respOff + chunk /\ resp'.n = Remaining(left)
          /\ total' = respLen /\ sent' = respOff + chunk
      BY <2>1, <2>4, <2>6
    <3>2. respLen' - respOff' = left
      BY <2>1, <2>2, <2>3, <3>1
    <3>3. IF resp'.n = 0 THEN left > 255 ELSE left = resp'.n
      BY <2>3, <2>6, <3>1 DEF Remaining
    <3>4. ResponseTypes' /\ respOff' = sent' /\ respLen' = total' /\ sent' < total' /\ respLen' # 0
      BY <2>1, <2>2, <2>3, <2>6, <3>1 DEF ResponseTypes
    <3>5. QED
      BY <3>2, <3>3, <3>4 DEF EveryByteOnce, ResponseTypes
  <2>7. QED
    BY <2>5, <2>6
<1>3. QED
  BY <1>1, <1>2

-----------------------------------------------------------------------------
(* The two applets. *)

\* What every command keeps, whichever applet a it goes to.
Handled(a) ==
  /\ ChainTypes' /\ OnlyChain(a) /\ NoneIsEmpty(a)' /\ CommandsAreWhole'
  /\ ResponseTypes' /\ EveryByteOnce'
  /\ terminated' \in BOOLEAN /\ verified' \in SUBSET Applets

\* A handler's answer: its effect on all but the chain.
Answering ==
  /\ ResponseTypes' /\ EveryByteOnce'
  /\ terminated' \in BOOLEAN /\ verified' \in SUBSET Applets

LEMMA PlainAnswering ==
  ASSUME TypeOK, EveryByteOnce, NEW w, w # "61xx", resp' = Answered(w),
         UNCHANGED response, terminated' \in BOOLEAN, verified' \in SUBSET Applets
  PROVE  Answering
BY PlainAnswer DEF Answering

LEMMA OpenPGPHandlerAnswers ==
  ASSUME TypeOK, EveryByteOnce, NEW cmd \in Commands, OpenPGPHandler(cmd)
  PROVE  Answering /\ (cmd.ins = "SELECT" => resp'.sw = "9000")
<1> USE DEF TypeOK, Applets
<1>1. CASE cmd.ins \in {"SELECT", "TERMINATE", "PUT"}
  <2>1. UNCHANGED response /\ terminated' \in BOOLEAN /\ verified' \in SUBSET Applets
    <3>1. CASE cmd.ins = "SELECT"
      BY <3>1 DEF OpenPGPHandler
    <3>2. CASE cmd.ins = "TERMINATE"
      BY <3>2 DEF OpenPGPHandler
    <3>3. CASE cmd.ins = "PUT"
      BY <3>3 DEF OpenPGPHandler
    <3>4. QED
      BY <1>1, <3>1, <3>2, <3>3
  <2>2. \E w \in {"9000", "6982"} : resp' = Answered(w) /\ (cmd.ins = "SELECT" => w = "9000")
    <3> HIDE DEF TypeOK
    <3>1. CASE cmd.ins = "SELECT"
      BY <3>1 DEF OpenPGPHandler
    <3>2. CASE cmd.ins = "TERMINATE"
      BY <3>2 DEF OpenPGPHandler
    <3>3. CASE cmd.ins = "PUT"
      BY <3>3 DEF OpenPGPHandler
    <3>4. QED
      BY <1>1, <3>1, <3>2, <3>3
  <2>3. Answering
    BY <2>1, <2>2, PlainAnswering
  <2>4. QED
    BY <2>2, <2>3 DEF Answered
<1>2. CASE cmd.ins = "ACTIVATE"
  BY <1>2, NoResponse DEF OpenPGPHandler, Answering
<1>3. CASE cmd.ins = "KEYOP"
  <2>1. terminated' \in BOOLEAN /\ verified' \in SUBSET Applets
    BY <1>3 DEF OpenPGPHandler
  <2>2. cmd.le \in Nat \ {0}
    BY DEF Commands
  <2>3. \/ \E n \in Nat : CreateResponse(n, cmd.le)
        \/ resp' = Answered("6400") /\ UNCHANGED response
    BY <1>3, LengthsAssumption DEF OpenPGPHandler
  <2>4. CASE \E n \in Nat : CreateResponse(n, cmd.le)
    BY <1>3, <2>1, <2>2, <2>4, CreateResponseAnswers DEF Answering
  <2>5. CASE resp' = Answered("6400") /\ UNCHANGED response
    BY <1>3, <2>1, <2>5, PlainAnswering
  <2>6. QED
    BY <1>3, <2>3, <2>4, <2>5
<1>4. QED
  BY <1>1, <1>2, <1>3 DEF OpenPGPHandler

LEMMA OpenPGPProcessHandles ==
  ASSUME TypeOK, EveryByteOnce, NoneIsEmpty("OpenPGP"), Whole("OpenPGP"),
         NEW cmd \in Commands, OpenPGPProcess(cmd)
  PROVE  /\ Handled("OpenPGP") /\ Whole("OpenPGP")'
         /\ cmd.ins = "SELECT" /\ ~cmd.chained /\ ~terminated =>
              buffer'["OpenPGP"] = <<>> /\ (buffer["OpenPGP"] = <<>> => resp'.sw = "9000")
<1> DEFINE a == "OpenPGP"
<1>1. a \in Applets /\ cmd.ins \in Instructions /\ cmd.data \in Seq(Block) /\ cmd.le \in Nat \ {0}
  BY DEF Applets, Commands
<1>2. ASSUME NEW w, w # "61xx", DropChain(a, w)
      PROVE  Handled(a) /\ Whole(a)' /\ buffer'[a] = <<>>
  <2>1. Dropped(a)
    BY <1>1, <1>2, DropChainDrops
  <2>2. Answering
    BY <1>2, PlainAnswering DEF DropChain, TypeOK
  <2>3. QED
    BY <2>1, <2>2, NothingRun DEF Dropped, Handled, Answering, NoneIsEmpty, Whole, Pure
<1>3. CASE cmd.ins = "GET_RESPONSE"
  <2>1. GetResponse(cmd.le) /\ UNCHANGED <<buffer, chainIns, accepted, terminated, verified>> /\ exec' = NoExec
    BY <1>3 DEF OpenPGPProcess, GetResponse, chaining
  <2>2. ResponseTypes' /\ EveryByteOnce'
    BY <1>1, <2>1, GetResponseAnswers
  <2>3. ChainTypes' /\ OnlyChain(a) /\ NoneIsEmpty(a)' /\ Whole(a)'
    BY <2>1 DEF TypeOK, ChainTypes, OnlyChain, NoneIsEmpty, Whole, Pure
  <2>4. QED
    BY <1>3, <2>1, <2>2, <2>3, NothingRun DEF Handled, TypeOK
<1>4. CASE cmd.ins # "GET_RESPONSE" /\ cmd.chained
  <2>1. OpenPGPChain(cmd)
    BY <1>4 DEF OpenPGPProcess
  <2>2. CASE DropChain(a, "6985")
    BY <1>2, <1>4, <2>2
  <2>3. ASSUME NEW old \in Seq(Block), old = accepted[a], Pure(old, cmd.ins), KeepBlock(a, cmd, old)
        PROVE  Handled(a) /\ Whole(a)'
    <3>1. /\ ChainTypes' /\ OnlyChain(a) /\ exec' = NoExec /\ Whole(a)'
          /\ chainIns'[a] = cmd.ins
      BY <1>1, <2>3, KeepBlockKeeps
    <3>2. Answering
      BY <2>3, PlainAnswering DEF KeepBlock, TypeOK
    <3>3. cmd.ins # None
      BY <1>1 DEF Instructions, None
    <3>4. QED
      BY <3>1, <3>2, <3>3, NothingRun DEF Handled, Answering, NoneIsEmpty
  <2>4. CASE chainIns[a] = None /\ KeepBlock(a, cmd, <<>>)
    <3>1. accepted[a] = <<>> /\ <<>> \in Seq(Block) /\ Pure(<<>>, cmd.ins)
      BY <2>4 DEF NoneIsEmpty, Pure
    <3>2. QED
      BY <1>4, <2>3, <2>4, <3>1
  <2>5. CASE chainIns[a] = cmd.ins /\ KeepBlock(a, cmd, buffer[a])
    <3>1. buffer[a] \in Seq(Block) /\ buffer[a] = accepted[a] /\ Pure(buffer[a], cmd.ins)
      BY <1>1, <2>5 DEF TypeOK, Whole
    <3>2. QED
      BY <1>4, <2>3, <2>5, <3>1
  <2>6. QED
    BY <2>1, <2>2, <2>4, <2>5 DEF OpenPGPChain
<1>5. CASE cmd.ins # "GET_RESPONSE" /\ ~cmd.chained
  <2> DEFINE b == buffer[a]
             left == IF b = <<>> /\ ~(cmd.ins = "ACTIVATE") THEN chainIns[a] ELSE None
  <2>1. OpenPGPRun(cmd)
    BY <1>5 DEF OpenPGPProcess
  <2>2. CASE b # <<>> /\ chainIns[a] # cmd.ins
    BY <1>2, <2>1, <2>2 DEF OpenPGPRun
  <2>3. CASE ~(b # <<>> /\ chainIns[a] # cmd.ins)
    <3>1. SetChain(a, <<>>, left)
      BY <2>1, <2>3 DEF OpenPGPRun
    <3>2. ASSUME accepted' = [accepted EXCEPT ![a] = <<>>]
          PROVE  ChainTypes' /\ OnlyChain(a) /\ NoneIsEmpty(a)' /\ Whole(a)' /\ buffer'[a] = <<>>
      <4>1. left \in Instructions \cup {None}
        BY <1>1 DEF TypeOK
      <4>2. ChainTypes' /\ OnlyChain(a) /\ buffer'[a] = <<>> /\ accepted'[a] = <<>>
        BY <1>1, <3>1, <3>2, <4>1 DEF SetChain, TypeOK, ChainTypes, OnlyChain
      <4>3. QED
        BY <4>2 DEF NoneIsEmpty, Whole, Pure
    <3>3. CASE terminated /\ cmd.ins # "ACTIVATE"
      <4>1. /\ resp' = Answered("6985") /\ accepted' = [accepted EXCEPT ![a] = <<>>]
            /\ exec' = NoExec /\ UNCHANGED <<response, terminated, verified>>
        BY <2>1, <2>3, <3>3 DEF OpenPGPRun
      <4>2. Answering
        BY <4>1, PlainAnswering DEF TypeOK
      <4>3. QED
        BY <3>2, <3>3, <4>1, <4>2, NothingRun DEF Handled, Answering
    <3>4. CASE ~(terminated /\ cmd.ins # "ACTIVATE")
      <4>1. Ran(a, cmd, b \o cmd.data) /\ OpenPGPHandler(cmd)
        BY <2>1, <2>3, <3>4 DEF OpenPGPRun
      <4>2. b = accepted[a] /\ Pure(accepted[a], cmd.ins)
        <5>1. CASE b = <<>>
          BY <5>1 DEF Whole, Pure
        <5>2. CASE chainIns[a] = cmd.ins
          BY <5>2 DEF Whole
        <5>3. QED
          BY <2>3, <5>1, <5>2
      <4>3. CommandsAreWhole' /\ accepted' = [accepted EXCEPT ![a] = <<>>]
        BY <1>1, <4>1, <4>2, RanRuns
      <4>4. Answering /\ (cmd.ins = "SELECT" => resp'.sw = "9000")
        BY <4>1, OpenPGPHandlerAnswers
      <4>5. QED
        BY <3>2, <4>3, <4>4 DEF Handled, Answering
    <3>5. QED
      BY <3>3, <3>4
  <2>4. QED
    BY <2>2, <2>3
<1>6. QED
  BY <1>3, <1>4, <1>5

LEMMA PIVHandlerAnswers ==
  ASSUME TypeOK, EveryByteOnce, NEW cmd \in Commands, PIVHandler(cmd)
  PROVE  Answering /\ (cmd.ins = "SELECT" => resp'.sw = "9000")
<1>1. UNCHANGED response /\ terminated' \in BOOLEAN /\ verified' \in SUBSET Applets
  BY DEF PIVHandler, TypeOK, Applets
<1>2. \E w \in {"9000", "6985", "6D00"} : resp' = Answered(w) /\ (cmd.ins = "SELECT" => w = "9000")
  BY DEF PIVHandler
<1>3. Answering
  BY <1>1, <1>2, PlainAnswering
<1>4. QED
  BY <1>2, <1>3 DEF Answered

LEMMA PIVProcessHandles ==
  ASSUME TypeOK, EveryByteOnce, NoneIsEmpty("PIV"),
         NEW cmd \in Commands, PIVProcess(cmd), cmd.ins = "SELECT" \/ PIVReady
  PROVE  /\ Handled("PIV") /\ PIVReady'
         /\ cmd.ins = "SELECT" /\ ~cmd.chained =>
              chainIns'["PIV"] = None /\ (chainIns["PIV"] = None => resp'.sw = "9000")
<1> DEFINE a == "PIV"
           i == IF chainIns[a] = None THEN cmd.ins ELSE chainIns[a]
           b == IF chainIns[a] = None THEN <<>> ELSE buffer[a]
<1>1. /\ a \in Applets /\ cmd.ins \in Instructions /\ cmd.data \in Seq(Block)
      /\ cmd.ins # None
  BY DEF Applets, Commands, Instructions, None
<1>2. ASSUME NEW w, w # "61xx", DropChain(a, w)
      PROVE  Handled(a) /\ PIVReady' /\ chainIns'[a] = None
  <2>1. Dropped(a)
    BY <1>1, <1>2, DropChainDrops
  <2>2. Answering
    BY <1>2, PlainAnswering DEF DropChain, TypeOK
  <2>3. QED
    BY <2>1, <2>2, NothingRun DEF Dropped, Handled, Answering, NoneIsEmpty, PIVReady, Whole, Pure
<1>3. CASE chainIns[a] = None /\ ~cmd.chained
  <2>1. Ran(a, cmd, cmd.data) /\ PIVHandler(cmd) /\ UNCHANGED <<buffer, chainIns>>
    BY <1>3 DEF PIVProcess, chaining
  <2>2. accepted[a] = <<>> /\ buffer[a] = <<>> /\ Pure(accepted[a], cmd.ins)
    BY <1>3 DEF NoneIsEmpty, Pure
  <2>3. accepted[a] \o cmd.data = cmd.data
    BY <1>1, <2>2
  <2>4. CommandsAreWhole' /\ accepted' = [accepted EXCEPT ![a] = <<>>]
    BY <1>1, <2>1, <2>2, <2>3, RanRuns
  <2>5. Answering /\ (cmd.ins = "SELECT" => resp'.sw = "9000")
    BY <2>1, PIVHandlerAnswers
  <2>6. ChainTypes' /\ OnlyChain(a) /\ NoneIsEmpty(a)' /\ PIVReady' /\ chainIns'[a] = None
    BY <1>1, <1>3, <2>1, <2>2, <2>4
       DEF TypeOK, ChainTypes, OnlyChain, NoneIsEmpty, PIVReady, Whole, Pure
  <2>7. QED
    BY <2>4, <2>5, <2>6 DEF Handled, Answering
<1>4. CASE chainIns[a] # None \/ cmd.chained
  <2>1. PIVChain(cmd)
    BY <1>4 DEF PIVProcess
  <2>2. CASE i # cmd.ins
    <3>1. DropChain(a, "6985")
      BY <2>1, <2>2 DEF PIVChain
    <3>2. QED
      BY <1>2, <1>4, <2>2, <3>1
  \* The chain is new or of the instruction of the command.
  <2>3. ASSUME i = cmd.ins, cmd.ins # "SELECT"
        PROVE  b = accepted[a] /\ Pure(b, cmd.ins)
    <3>1. CASE chainIns[a] = None
      BY <3>1 DEF NoneIsEmpty, Pure
    <3>2. CASE chainIns[a] # None
      <4>1. chainIns[a] = cmd.ins /\ b = buffer[a]
        BY <2>3, <3>2
      <4>2. Whole(a)
        BY <2>3, <4>1 DEF PIVReady
      <4>3. QED
        BY <4>1, <4>2 DEF Whole
    <3>3. QED
      BY <3>1, <3>2
  <2>4. b \in Seq(Block)
    BY <1>1 DEF TypeOK
  <2>5. CASE i = cmd.ins /\ cmd.chained
    <3>1. KeepBlock(a, cmd, b)
      BY <2>1, <2>5 DEF PIVChain
    <3>2. /\ ChainTypes' /\ OnlyChain(a) /\ exec' = NoExec
          /\ chainIns'[a] = cmd.ins
          /\ b = accepted[a] /\ Pure(b, cmd.ins) => Whole(a)'
      BY <1>1, <2>4, <3>1, KeepBlockKeeps
    <3>3. PIVReady'
      BY <2>3, <2>5, <3>2 DEF PIVReady
    <3>4. Answering
      BY <3>1, PlainAnswering DEF KeepBlock, TypeOK
    <3>5. QED
      BY <1>1, <2>5, <3>2, <3>3, <3>4, NothingRun DEF Handled, Answering, NoneIsEmpty
  <2>6. CASE i = cmd.ins /\ ~cmd.chained /\ cmd.ins # "PUT"
    <3>1. DropChain(a, "6D00")
      BY <2>1, <2>6 DEF PIVChain
    <3>2. QED
      BY <1>2, <1>4, <2>6, <3>1
  <2>7. CASE i = cmd.ins /\ ~cmd.chained /\ cmd.ins = "PUT"
    <3>1. /\ SetChain(a, <<>>, None) /\ Ran(a, cmd, b \o cmd.data)
          /\ resp' = Answered("9000") /\ UNCHANGED <<response, terminated, verified>>
      BY <2>1, <2>7 DEF PIVChain
    <3>2. CommandsAreWhole' /\ accepted' = [accepted EXCEPT ![a] = <<>>]
      BY <1>1, <2>3, <2>7, <3>1, RanRuns
    <3>3. ChainTypes' /\ OnlyChain(a) /\ NoneIsEmpty(a)' /\ PIVReady'
      BY <1>1, <3>1, <3>2
         DEF SetChain, TypeOK, ChainTypes, OnlyChain, NoneIsEmpty, PIVReady, Whole, Pure
    <3>4. Answering
      BY <3>1, PlainAnswering DEF TypeOK
    <3>5. QED
      BY <2>7, <3>2, <3>3, <3>4 DEF Handled, Answering
  <2>8. QED
    BY <2>2, <2>5, <2>6, <2>7
<1>5. QED
  BY <1>3, <1>4

-----------------------------------------------------------------------------
(* The actions of the card. *)

LEMMA InitInv == Init => IInv
<1> SUFFICES ASSUME Init PROVE IInv
  OBVIOUS
<1>1. TypeOK
  <2>1. <<>> \in Seq(Block)
    OBVIOUS
  <2>2. buffer \in [Applets -> Seq(Block)] /\ accepted \in [Applets -> Seq(Block)]
    BY <2>1 DEF Init
  <2>3. chainIns \in [Applets -> Instructions \cup {None}]
    BY DEF Init
  <2>4. QED
    <3>1. terminated \in BOOLEAN /\ powered \in BOOLEAN /\ verified \in SUBSET Applets
      BY DEF Init
    <3>2. active \in Applets \cup {None}
      BY DEF Init
    <3>3. QED
      BY <2>2, <2>3, <3>1, <3>2 DEF Init, TypeOK
<1>2. ChainPart
  BY DEF Init, ChainPart, NoneIsEmpty, Whole, Pure, Applets, None
<1>3. RefusedPart /\ CommandsAreWhole /\ EveryByteOnce /\ OffIsClean
  BY DEF Init, RefusedPart, CommandsAreWhole, EveryByteOnce, Answered, OffIsClean, Applets
<1>4. QED
  BY <1>1, <1>2, <1>3 DEF IInv

\* Whatever leaves the applets as they are and answers in one word.
LEMMA AppletsUntouched ==
  ASSUME IInv, NEW w, w # "61xx", resp' = Answered(w), exec' = NoExec, refused' = 0,
         powered' \in BOOLEAN, active' \in {None, active}, OffIsClean',
         UNCHANGED <<chaining, response, terminated, verified, accepted>>
  PROVE  IInv'
<1>1. ResponseTypes' /\ EveryByteOnce'
  BY PlainAnswer DEF IInv
<1>2. TypeOK'
  BY <1>1 DEF IInv, TypeOK, chaining, response
<1>3. ChainPart'
  BY DEF IInv, ChainPart, NoneIsEmpty, PIVReady, Whole, Pure, chaining, None
<1>4. RefusedPart' /\ CommandsAreWhole'
  BY NothingRun DEF RefusedPart
<1>5. QED
  BY <1>1, <1>2, <1>3, <1>4 DEF IInv

LEMMA UnroutedKeeps == IInv /\ Unrouted => IInv'
<1> SUFFICES ASSUME IInv, Unrouted PROVE IInv'
  OBVIOUS
<1>1. PICK w \in {"6985", "6700", "6D00", "6A82", "9000"} : NotRouted(w)
  BY DEF Unrouted
<1>2. OffIsClean' /\ powered' \in BOOLEAN
  BY <1>1 DEF NotRouted, IInv, OffIsClean, TypeOK, chaining, response
<1>3. QED
  BY <1>1, <1>2, AppletsUntouched DEF NotRouted

LEMMA PowerOnKeeps == IInv /\ PowerOn => IInv'
<1> SUFFICES ASSUME IInv, PowerOn PROVE IInv'
  OBVIOUS
<1>1. OffIsClean'
  BY DEF PowerOn, OffIsClean
<1>2. QED
  BY <1>1, AppletsUntouched DEF PowerOn

LEMMA ResetAppletsKeeps ==
  ASSUME IInv, ResetApplets, powered' \in BOOLEAN, active' = None
  PROVE  IInv'
<1> DEFINE s == buffer["PIV"]
           t == [k \in DOMAIN s |-> [s[k] EXCEPT !.fresh = FALSE]]
<1>1. s \in Seq(Block) /\ Applets = {"OpenPGP", "PIV"}
  BY DEF IInv, TypeOK, Applets
<1>2. t \in Seq(Block) /\ (s = <<>> => t = <<>>)
  <2>1. Len(s) \in Nat /\ DOMAIN s = 1..Len(s)
    BY <1>1
  <2>2. ASSUME NEW k \in 1..Len(s) PROVE [s[k] EXCEPT !.fresh = FALSE] \in Block
    <3>1. s[k] \in Block
      BY <1>1, <2>1
    <3>2. QED
      BY <3>1 DEF Block
  <2>3. t \in [1..Len(s) -> Block]
    BY <2>1, <2>2
  <2>4. t \in Seq(Block) /\ Len(t) = Len(s)
    BY <2>1, <2>3
  <2> HIDE DEF t
  <2>5. s = <<>> => t = <<>>
    BY <1>1, <2>4
  <2>6. QED
    BY <2>4, <2>5
<1>3. buffer'["OpenPGP"] = <<>> /\ buffer'["PIV"] = t /\ buffer' \in [Applets -> Seq(Block)]
  <2>1. buffer' = [buffer EXCEPT !["OpenPGP"] = <<>>, !["PIV"] = t]
    BY DEF ResetApplets
  <2> HIDE DEF t
  <2>2. <<>> \in Seq(Block)
    OBVIOUS
  <2>3. QED
    BY <1>1, <1>2, <2>1, <2>2 DEF IInv, TypeOK
<1>4. chainIns'["OpenPGP"] = None /\ chainIns'["PIV"] = chainIns["PIV"]
  BY <1>1 DEF ResetApplets, IInv, TypeOK
<1>5. accepted'["OpenPGP"] = <<>> /\ accepted'["PIV"] = <<>> /\ accepted' \in [Applets -> Seq(Block)]
  BY <1>1 DEF ResetApplets
<1>6. ResponseTypes' /\ EveryByteOnce'
  BY NoResponse DEF ResetApplets
<1>7. TypeOK'
  <2> HIDE DEF t
  <2>1. chainIns' \in [Applets -> Instructions \cup {None}] /\ active' \in Applets \cup {None}
    BY DEF ResetApplets, IInv, TypeOK
  <2>2. terminated' \in BOOLEAN /\ verified' \in SUBSET Applets /\ refused' \in 0..2
    BY DEF ResetApplets, IInv, TypeOK
  <2>3. QED
    BY <1>3, <1>5, <1>6, <2>1, <2>2 DEF TypeOK, ResponseTypes
<1>8. ChainPart'
  BY <1>2, <1>3, <1>4, <1>5 DEF IInv, ChainPart, NoneIsEmpty, Whole, Pure, None
<1>9. RefusedPart' /\ CommandsAreWhole' /\ OffIsClean'
  BY <1>3, <1>4, NothingRun DEF ResetApplets, RefusedPart, OffIsClean
<1>10. QED
  BY <1>6, <1>7, <1>8, <1>9 DEF IInv

\* A command that reaches an applet, without what it does to refused.
LEMMA ProcessKeeps ==
  ASSUME IInv, NEW a \in Applets, NEW cmd \in Commands, Process(a, cmd), powered, powered' = powered,
         active' = a, cmd.ins = "SELECT" \/ active = a, refused' \in 0..2
  PROVE  /\ TypeOK' /\ ChainPart' /\ CommandsAreWhole' /\ EveryByteOnce' /\ OffIsClean'
         /\ cmd.ins = "SELECT" /\ ~cmd.chained /\ ~(a = "OpenPGP" /\ terminated) =>
              IF a = "OpenPGP"
              THEN buffer'[a] = <<>> /\ (buffer[a] = <<>> => resp'.sw = "9000")
              ELSE chainIns'[a] = None /\ (chainIns[a] = None => resp'.sw = "9000")
<1> USE DEF Applets
<1>1. /\ TypeOK /\ EveryByteOnce /\ NoneIsEmpty("OpenPGP") /\ Whole("OpenPGP") /\ NoneIsEmpty("PIV")
      /\ active = "PIV" => PIVReady
  BY DEF IInv, ChainPart
<1>2. ASSUME Handled(a) PROVE TypeOK' /\ CommandsAreWhole' /\ EveryByteOnce' /\ OffIsClean'
  BY <1>1, <1>2 DEF Handled, ChainTypes, ResponseTypes, TypeOK, OffIsClean
<1>3. CASE a = "OpenPGP"
  <2>1. OpenPGPProcess(cmd)
    BY <1>3 DEF Process
  <2>2. /\ Handled(a) /\ Whole(a)'
        /\ cmd.ins = "SELECT" /\ ~cmd.chained /\ ~terminated =>
             buffer'[a] = <<>> /\ (buffer[a] = <<>> => resp'.sw = "9000")
    BY <1>1, <1>3, <2>1, OpenPGPProcessHandles
  <2>3. NoneIsEmpty("PIV")'
    BY <1>1, <1>3, <2>2 DEF Handled, OnlyChain, NoneIsEmpty
  <2>4. ChainPart'
    BY <1>3, <2>2, <2>3 DEF Handled, ChainPart
  <2>5. QED
    BY <1>2, <1>3, <2>2, <2>4
<1>4. CASE a = "PIV"
  <2>1. PIVProcess(cmd) /\ (cmd.ins = "SELECT" \/ PIVReady)
    BY <1>1, <1>4 DEF Process
  <2>2. /\ Handled(a) /\ PIVReady'
        /\ cmd.ins = "SELECT" /\ ~cmd.chained =>
             chainIns'[a] = None /\ (chainIns[a] = None => resp'.sw = "9000")
    BY <1>1, <1>4, <2>1, PIVProcessHandles
  <2>3. NoneIsEmpty("OpenPGP")' /\ Whole("OpenPGP")'
    BY <1>1, <1>4, <2>2 DEF Handled, OnlyChain, NoneIsEmpty, Whole, Pure
  <2>4. ChainPart'
    BY <1>4, <2>2, <2>3 DEF Handled, ChainPart
  <2>5. QED
    BY <1>2, <1>4, <2>2, <2>4
<1>5. QED
  BY <1>3, <1>4

LEMMA SelectKeeps ==
  ASSUME IInv, NEW a \in Applets, NEW chained \in BOOLEAN, Select(a, chained)
  PROVE  IInv'
<1> DEFINE cmd == [ins |-> "SELECT", chained |-> chained, le |-> 256,
                   data |-> <<[ins |-> "SELECT", fresh |-> TRUE]>>]
<1>1. cmd \in Commands
  <2> DEFINE d == <<[ins |-> "SELECT", fresh |-> TRUE]>>
  <2>1. "SELECT" \in Instructions
    BY DEF Instructions
  <2>2. d \in Seq(Block) /\ Pure(d, "SELECT")
    BY <2>1, OneBlock
  <2>3. cmd = [ins |-> "SELECT", chained |-> chained, le |-> 256, data |-> d]
    OBVIOUS
  <2> HIDE DEF d, cmd
  <2>4. QED
    BY <2>1, <2>2, <2>3 DEF Commands
<1>2. Process(a, cmd) /\ powered /\ active' = a /\ powered' = powered
  BY DEF Select
<1>3. cmd.ins = "SELECT" /\ cmd.chained = chained
  OBVIOUS
<1> HIDE DEF cmd
<1>4. refused' = IF chained \/ resp'.sw = "9000" \/ (a = "OpenPGP" /\ terminated) THEN 0
                 ELSE IF active = a THEN Minimum(refused + 1, 2) ELSE 1
  BY DEF Select
<1>5. refused \in 0..1 /\ refused' \in 0..2
  BY <1>4 DEF IInv, TypeOK, RefusedPart, Minimum
<1>6. /\ TypeOK' /\ ChainPart' /\ CommandsAreWhole' /\ EveryByteOnce' /\ OffIsClean'
      /\ ~chained /\ ~(a = "OpenPGP" /\ terminated) =>
           IF a = "OpenPGP"
           THEN buffer'[a] = <<>> /\ (buffer[a] = <<>> => resp'.sw = "9000")
           ELSE chainIns'[a] = None /\ (chainIns[a] = None => resp'.sw = "9000")
  BY <1>1, <1>2, <1>3, <1>5, ProcessKeeps
<1>7. RefusedPart'
  <2>1. CASE refused' = 0
    BY <2>1 DEF RefusedPart
  <2>2. CASE refused' # 0
    <3>1. /\ ~chained /\ ~(a = "OpenPGP" /\ terminated) /\ resp'.sw # "9000"
          /\ refused' = IF active = a THEN Minimum(refused + 1, 2) ELSE 1
      BY <1>4, <2>2
    <3>2. IF a = "OpenPGP" THEN buffer'[a] = <<>> /\ buffer[a] # <<>>
                           ELSE chainIns'[a] = None /\ chainIns[a] # None
      BY <1>6, <3>1
    <3>3. ~(refused = 1 /\ active = a)
      BY <3>2 DEF IInv, RefusedPart
    <3>4. refused' = 1
      BY <1>5, <3>1, <3>3 DEF Minimum
    <3>5. QED
      BY <1>2, <3>2, <3>4 DEF RefusedPart, Applets
  <2>3. QED
    BY <2>1, <2>2
<1>8. QED
  BY <1>6, <1>7 DEF IInv

LEMMA CommandKeeps ==
  ASSUME IInv, NEW i \in Instructions \ {"SELECT"}, NEW chained \in BOOLEAN,
         NEW hasData \in BOOLEAN, NEW le \in Les, Command(i, chained, hasData, le)
  PROVE  IInv'
<1> DEFINE d == IF hasData THEN <<[ins |-> i, fresh |-> TRUE]>> ELSE <<>>
           cmd == [ins |-> i, chained |-> chained, le |-> le, data |-> d]
<1>1. d \in Seq(Block) /\ Pure(d, i)
  <2>1. CASE hasData
    BY <2>1, OneBlock
  <2>2. CASE ~hasData
    BY <2>2 DEF Pure
  <2>3. QED
    BY <2>1, <2>2
<1>2. le \in Nat \ {0}
  BY LengthsAssumption
<1>3. /\ Process(active, cmd) /\ powered /\ active \in Applets
      /\ active' = active /\ powered' = powered /\ refused' = 0
  BY DEF Command, IInv, TypeOK
<1> HIDE DEF d
<1>4. cmd \in Commands
  BY <1>1, <1>2 DEF Commands
<1> HIDE DEF cmd
<1>5. TypeOK' /\ ChainPart' /\ CommandsAreWhole' /\ EveryByteOnce' /\ OffIsClean'
  BY <1>3, <1>4, ProcessKeeps
<1>6. RefusedPart'
  BY <1>3 DEF RefusedPart
<1>7. QED
  BY <1>5, <1>6 DEF IInv

-----------------------------------------------------------------------------
(* The theorems. *)

\* Every step of the card keeps the inductive invariant.
THEOREM Invariance == Spec => []IInv
<1>1. IInv /\ [Next]_vars => IInv'
  <2> SUFFICES ASSUME IInv, [Next]_vars PROVE IInv'
    OBVIOUS
  <2>1. CASE Unrouted
    BY <2>1, UnroutedKeeps
  <2>2. ASSUME NEW a \in Applets, NEW chained \in BOOLEAN, Select(a, chained)
        PROVE  IInv'
    BY <2>2, SelectKeeps
  <2>3. ASSUME NEW i \in Instructions \ {"SELECT"}, NEW chained \in BOOLEAN,
               NEW hasData \in BOOLEAN, NEW le \in Les, Command(i, chained, hasData, le)
        PROVE  IInv'
    BY <2>3, CommandKeeps
  <2>4. CASE PowerOn
    BY <2>4, PowerOnKeeps
  <2>5. CASE PowerOff
    BY <2>5, ResetAppletsKeeps DEF PowerOff
  <2>6. CASE Reset
    BY <2>6, ResetAppletsKeeps DEF Reset
  <2>7. CASE UNCHANGED vars
    <3> USE <2>7 DEF vars, chaining, response
    <3>1. TypeOK' /\ RefusedPart'
      BY DEF IInv, TypeOK, RefusedPart
    <3>2. ChainPart'
      BY DEF IInv, ChainPart, NoneIsEmpty, Whole, Pure, PIVReady
    <3>3. CommandsAreWhole' /\ EveryByteOnce' /\ OffIsClean'
      BY DEF IInv, CommandsAreWhole, EveryByteOnce, OffIsClean
    <3>4. QED
      BY <3>1, <3>2, <3>3 DEF IInv
  <2>8. QED
    BY <2>1, <2>2, <2>3, <2>4, <2>5, <2>6, <2>7 DEF Next
<1>2. QED
  BY <1>1, InitInv, PTL DEF Spec

\* A command that arrives in blocks runs on exactly the blocks acknowledged
\* for it, for chains of any length: the PIV applet's chain that outlives a
\* reset is never run, because only SELECT can reach it and PUT DATA alone runs.
THEOREM WholeCommands == Spec => []CommandsAreWhole
<1>1. IInv => CommandsAreWhole
  BY DEF IInv
<1>2. QED
  BY <1>1, Invariance, PTL

\* create_response and handle_get_response hand out every byte of a response
\* once and in order and announce what is left, for every length and every Le.
THEOREM BytesOnce == Spec => []EveryByteOnce
<1>1. IInv => EveryByteOnce
  BY DEF IInv
<1>2. QED
  BY <1>1, Invariance, PTL

\* A SELECT that is refused because of an open chain succeeds when repeated.
THEOREM SelectSucceeds == Spec => []SelectRecovers
<1>1. IInv => SelectRecovers
  BY DEF IInv, RefusedPart, SelectRecovers
<1>2. QED
  BY <1>1, Invariance, PTL

\* power_off and reset leave no session in either applet, and no chain or response
\* in the OpenPGP applet, that power_on would have to clear.  The chain of the PIV
\* applet they leave (PIVApplet::reset); WholeCommands and SelectSucceeds are about
\* what it can do later.
THEOREM CleanWhenOff == Spec => []OffIsClean
<1>1. IInv => OffIsClean
  BY DEF IInv
<1>2. QED
  BY <1>1, Invariance, PTL

=============================================================================
