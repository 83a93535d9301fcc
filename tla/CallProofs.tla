----------------------------- MODULE CallProofs -----------------------------
(***************************************************************************)
(* The protocol of module Call implements module Exchange for any number of *)
(* incarnations, any number of lives of their containers and any capacity   *)
(* of the channel. The argument: a terminal never says anything but a       *)
(* verdict the incarnation it names has reached (Agreement), and a verdict   *)
(* that is reached stays so, also when the container that remembered it is   *)
(* collected; so the client can only report a verdict that was reached.      *)
(***************************************************************************)
EXTENDS Call, TLAPS

Inv == TypeOK /\ Agreement

LEMMA PutSubset == ASSUME NEW n, NEW out PROVE Put(n, out) \subseteq n \cup out
  BY DEF Put

LEMMA DeliveredSubset ==
  ASSUME NEW f, NEW out, Delivered(f, out) PROVE net' \subseteq net \cup out
  BY PutSubset DEF Delivered

\* The conjuncts of Inv, each over the variables it is about.
NetOK ==
  /\ net \subseteq Frame
  /\ \A f \in net : (f.t = "T") = (f.v # "none")
  /\ \A f \in net : /\ f.t = "T" => f.se \in Srv /\ Reached(f.se, f.ce, f.v)
                    /\ f.t = "OPEN" => f.ce \in asked

CliOK ==
  /\ ce \in Client /\ cl \in ClientCall
  /\ asked \subseteq Caller
  /\ outcome \in [Caller -> {"none"} \cup LocalEnd \cup Exch!Verdict]
  /\ \A c \in Caller : c > ce => outcome[c] = "none"
  /\ Live => outcome[ce] = "none"
  /\ cl.phase = "idle" => cl = NoCall /\ (ce \in Caller => outcome[ce] = "none")
  /\ cl.phase # "idle" => ce \in Caller
  /\ cl.retxOpen => ce \in asked

SrvOK ==
  /\ se \in Srv /\ sv \in [Caller -> Entry] /\ life \in [Caller -> Life]
  /\ fate \in [Memory -> [Caller -> {"none", "running", "dropped"} \cup Exch!Verdict]]
  /\ \A c \in Caller :
       /\ (sv[c].know = "tomb") = (sv[c].term # "none")
       /\ (sv[c].know = "unknown") = (fate[Mem(c)][c] = "none")
       /\ (sv[c].know = "live") = (fate[Mem(c)][c] = "running")
       /\ sv[c].know = "tomb" => fate[Mem(c)][c] = sv[c].term
       /\ \A s \in Srv, l \in Life :
            s > se \/ (s = se /\ l > life[c]) => fate[<<s, l>>][c] = "none"

LEMMA Parts == Inv <=> kind \in {"unary", "stream"} /\ NetOK /\ CliOK /\ SrvOK
  BY DEF Inv, TypeOK, Agreement, NetOK, CliOK, SrvOK, Known

LEMMA MemOf ==
  ASSUME SrvOK, NEW c \in Caller PROVE Mem(c) \in Memory /\ life[c] \in Life /\ se \in Srv
  BY DEF SrvOK, Mem, Memory

LEMMA MemKept == ASSUME UNCHANGED <<se, life>>, NEW c PROVE Mem(c)' = Mem(c)
  BY DEF Mem

LEMMA ReachedKept ==
  ASSUME fate' = fate, NEW s, NEW c, NEW v PROVE Reached(s, c, v)' <=> Reached(s, c, v)
  BY DEF Reached

LEMMA InitInv == Init => Inv /\ Exch!Init
<1> SUFFICES ASSUME Init PROVE kind \in {"unary", "stream"} /\ NetOK /\ CliOK /\ SrvOK
  BY Parts DEF Init
<1>1. NetOK
  BY DEF Init, NetOK
<1>2. CliOK
  BY CallAssumption DEF Init, CliOK, NoCall, ClientCall, Client, Live, LocalEnd, Exch!Init, Exch!Verdict
<1>3. SrvOK
  <2>1. se \in Srv /\ life \in [Caller -> Life] /\ \A c \in Caller : Mem(c) \in Memory
    BY CallAssumption DEF Init, Srv, Life, Memory, Mem
  <2>2. fate = [m \in Memory |-> [c \in Caller |-> "none"]]
    BY DEF Init, Exch!Init
  <2>3. \A s \in Srv, l \in Life : <<s, l>> \in Memory
    BY DEF Memory
  <2>4. sv = [c \in Caller |-> NoEntry] /\ NoEntry \in Entry
    BY DEF Init, NoEntry, Entry
  <2> QED BY <2>1, <2>2, <2>3, <2>4 DEF SrvOK, NoEntry
<1> QED BY <1>1, <1>2, <1>3 DEF Init

\* What is sent by the client is no terminal, and an OPEN only of a call made.
ClientOut(out) ==
  \A f \in out : /\ f \in Frame /\ f.v = "none" /\ f.t # "T"
                 /\ f.t = "OPEN" => f.ce \in asked'

LEMMA ClientNet ==
  ASSUME NetOK, NEW out, net' \subseteq net \cup out, ClientOut(out),
         fate' = fate, asked \subseteq asked'
  PROVE  NetOK'
  BY ReachedKept DEF NetOK, ClientOut, Frame, ClientFrames, ServerFrames

LEMMA SrvKept == ASSUME SrvOK, UNCHANGED ServerSide PROVE SrvOK'
  BY MemKept DEF SrvOK, ServerSide

LEMMA CliKept == ASSUME CliOK, UNCHANGED <<asked, ClientSide>> PROVE CliOK'
  BY DEF CliOK, ClientSide, Live

-----------------------------------------------------------------------------
(***************************************************************************)
(* The client's steps.                                                     *)
(***************************************************************************)


\* What is shown of every step: the invariant stands, the abstract variables
\* take a step of Exchange or stutter, and the lock holds.
LockStep == Live /\ cl.lock # 0 /\ outcome'[ce] \in Exch!Verdict
              => Reached(cl.lock, ce, outcome'[ce])

Step == Inv' /\ [Exch!Next]_(Exch!exchange) /\ LockStep

\* A step that ends no call.
LEMMA QuietStep ==
  ASSUME Inv, UNCHANGED <<kind, fate, outcome>>, NetOK', CliOK', SrvOK',
         asked' = asked \/ (ce \in Caller /\ asked' = asked \cup {ce})
  PROVE  Step
<1>1. Inv'
  <2>1. kind' \in {"unary", "stream"}
    BY Parts
  <2>2. (kind \in {"unary", "stream"} /\ NetOK /\ CliOK /\ SrvOK)' => Inv'
    BY Parts, PTL
  <2> QED BY <2>1, <2>2
<1>2. [Exch!Next]_(Exch!exchange)
  BY DEF Exch!Next, Exch!exchange, Exch!Ask
<1>3. LockStep
  BY Parts DEF LockStep, CliOK, Live, Exch!Verdict
<1> QED BY <1>1, <1>2, <1>3 DEF Step

\* The live call ends as failed.
LEMMA FailedStep ==
  ASSUME Inv, Live, UNCHANGED <<kind, fate, asked>>, NetOK', CliOK', SrvOK', Ends("failed")
  PROVE  Step
<1>1. Inv'
  <2>1. kind' \in {"unary", "stream"}
    BY Parts
  <2>2. (kind \in {"unary", "stream"} /\ NetOK /\ CliOK /\ SrvOK)' => Inv'
    BY Parts, PTL
  <2> QED BY <2>1, <2>2
<1>2. ce \in Caller /\ outcome[ce] = "none" /\ outcome \in [Caller -> {"none"} \cup LocalEnd \cup Exch!Verdict]
  BY Parts DEF CliOK, Live
<1>3. outcome' = [outcome EXCEPT ![ce] = "failed"]
  BY DEF Ends
<1>4. [Exch!Next]_(Exch!exchange)
  BY Zenon, <1>2, <1>3 DEF Exch!Next, Exch!exchange, Exch!Report, LocalEnd
<1>5. LockStep
  BY <1>2, <1>3 DEF LockStep, Exch!Verdict
<1> QED BY <1>1, <1>4, <1>5 DEF Step

\* The client's part of the invariant when the live call ends.
LEMMA RetiredCli ==
  ASSUME CliOK, Live, NEW a, a.abort \in BOOLEAN, cl' = Retired(a), UNCHANGED <<ce, asked>>,
         NEW o \in LocalEnd \cup Exch!Verdict, Ends(o)
  PROVE  CliOK'
<1>1. cl' \in ClientCall /\ cl'.phase = "ended" /\ ~cl'.retxOpen
  BY Zenon DEF Retired, NoCall, ClientCall
<1>2. ce \in Caller /\ ce \in Client /\ outcome' = [outcome EXCEPT ![ce] = o]
  BY DEF CliOK, Live, Ends
<1>3. \A c \in Caller : c > ce => outcome'[c] = "none"
  BY <1>2, CallAssumption DEF CliOK, Client
<1>4. outcome' \in [Caller -> {"none"} \cup LocalEnd \cup Exch!Verdict]
  BY <1>2 DEF CliOK
<1> QED BY <1>1, <1>2, <1>3, <1>4 DEF CliOK, Live

LEMMA ToServerFrame ==
  ASSUME Inv, cl.phase # "idle", NEW t \in ClientFrames
  PROVE  /\ ToServer(t) \in Frame /\ ToServer(t).v = "none" /\ ToServer(t).t = t
         /\ ToServer(t).ce = ce
  BY Parts DEF CliOK, ToServer, F, Frame

\* All the client sends but an OPEN.
LEMMA PlainOut ==
  ASSUME Inv, cl.phase # "idle",
         NEW out, out \subseteq {ToServer("CLOSE"), ToServer("ABORT"), ToServer("PING")}
  PROVE  ClientOut(out)
  BY ToServerFrame DEF ClientOut, ClientFrames

LEMMA OpenStep ==
  ASSUME Inv, NEW c \in ClientCall, c.phase = "live", ce \in Caller, outcome[ce] = "none", SendOpen(c),
         UNCHANGED <<kind, ce, outcome, ServerSide>>
  PROVE  Step
<1>1. CliOK'
  BY Zenon, Parts DEF CliOK, Live, SendOpen, ClientCall, NoCall
<1>2. ClientOut({ToServer("OPEN")})
  BY DEF ClientOut, SendOpen, ToServer, F, Frame, ClientFrames
<1>3. NetOK'
  BY <1>2, Parts, PutSubset, ClientNet DEF SendOpen, ServerSide
<1>4. SrvOK'
  BY Parts, SrvKept
<1> QED BY <1>1, <1>3, <1>4, QuietStep DEF SendOpen, ServerSide

LEMMA createStreamStep == ASSUME Inv, createStream PROVE Step
<1> DEFINE c == [NoCall EXCEPT !.phase = "live"]
<1>1. c \in ClientCall /\ c.phase = "live" /\ c.retxOpen = FALSE
  BY Zenon DEF NoCall, ClientCall
<1>2. ce \in Caller /\ outcome[ce] = "none"
  BY Parts DEF createStream, CliOK
<1>3. UNCHANGED <<kind, ce, outcome, ServerSide>>
  BY DEF createStream
<1>4. CASE SendOpen(c)
  BY Zenon, <1>1, <1>2, <1>3, <1>4, OpenStep
<1>5. CASE cl' = c /\ UNCHANGED <<asked, net>>
  <2>1. CliOK'
    BY <1>1, <1>2, <1>3, <1>5, Parts DEF CliOK, Live
  <2>2. NetOK'
    BY <1>3, <1>5, Parts, ReachedKept DEF NetOK, ServerSide
  <2> QED BY <2>1, <2>2, <1>3, <1>5, Parts, SrvKept, QuietStep DEF ServerSide
<1> QED BY <1>4, <1>5 DEF createStream

LEMMA sendRawStep == ASSUME Inv, sendRaw PROVE Step
<1>1. cl \in ClientCall /\ cl.phase = "live" /\ ce \in Caller /\ outcome[ce] = "none"
  BY Parts DEF sendRaw, CliOK, Live
<1> QED BY <1>1, OpenStep DEF sendRaw

LEMMA OpenRefusedStep == ASSUME Inv, OpenRefused \/ failAll PROVE Step
<1>1. Live /\ cl' = Retired(cl) /\ Ends("failed") /\ UNCHANGED <<kind, ce, net, asked, ServerSide>>
  BY DEF OpenRefused, failAll
<1>2. cl.abort \in BOOLEAN /\ CliOK
  BY Parts DEF CliOK, ClientCall
<1>3. CliOK'
  BY <1>1, <1>2, RetiredCli DEF LocalEnd
<1>4. NetOK'
  BY <1>1, Parts, ReachedKept DEF NetOK, ServerSide
<1> QED BY <1>1, <1>3, <1>4, Parts, SrvKept, FailedStep DEF ServerSide

LEMMA closeSendStep == ASSUME Inv, closeSend PROVE Step
<1>1. CliOK'
  BY Zenon, Parts DEF closeSend, CliOK, Live, ClientCall
<1>2. NetOK'
  BY Parts, PutSubset, PlainOut, ClientNet DEF closeSend, Live, ServerSide
<1> QED BY <1>1, <1>2, Parts, SrvKept, QuietStep DEF closeSend, ServerSide

\* An abort, as a cancellation or in answer to a RESET.
LEMMA AbortStep ==
  ASSUME Inv, Live, cl' = Retired(sendAbort(cl)), net' \subseteq net \cup AbortFrame(cl),
         Ends("failed"), UNCHANGED <<kind, ce, asked, ServerSide>>
  PROVE  Step
<1>1. sendAbort(cl).abort \in BOOLEAN
  BY Parts DEF CliOK, sendAbort, ClientCall
<1>2. CliOK'
  BY <1>1, Parts, RetiredCli DEF LocalEnd
<1>3. ClientOut(AbortFrame(cl))
  BY PlainOut DEF AbortFrame, Live
<1>4. NetOK'
  BY <1>3, Parts, ClientNet DEF ServerSide
<1> QED BY <1>2, <1>4, Parts, SrvKept, FailedStep DEF ServerSide

LEMMA cancelStep == ASSUME Inv, cancel PROVE Step
  BY PutSubset, AbortStep DEF cancel

LEMMA sweepRetxStep == ASSUME Inv, sweepRetx PROVE Step
<1>1. cl.phase # "idle"
  BY DEF sweepRetx, Owed, Inv, Agreement, NoCall
<1>2. ClientOut(Owed)
  <2> SUFFICES ASSUME NEW f \in Owed
               PROVE  /\ f \in Frame /\ f.v = "none" /\ f.t # "T"
                      /\ f.t = "OPEN" => f.ce \in asked'
    BY DEF ClientOut
  <2>1. CASE f = ToServer("OPEN") /\ cl.retxOpen
    BY <1>1, <2>1, ToServerFrame, Parts DEF CliOK, ClientFrames, sweepRetx
  <2>2. CASE f \in {ToServer("CLOSE"), ToServer("ABORT")}
    BY <1>1, <2>2, ToServerFrame DEF ClientFrames
  <2> QED BY <2>1, <2>2 DEF Owed
<1>3. NetOK'
  BY <1>2, Parts, PutSubset, ClientNet DEF sweepRetx, ServerSide
<1> QED BY <1>3, Parts, SrvKept, CliKept, QuietStep DEF sweepRetx, ServerSide, ClientSide

LEMMA probeDueStep == ASSUME Inv, probeDue PROVE Step
<1>1. NetOK'
  BY Parts, PutSubset, PlainOut, ClientNet DEF probeDue, Live, ServerSide
<1> QED BY <1>1, Parts, SrvKept, CliKept, QuietStep DEF probeDue, ServerSide, ClientSide

LEMMA TombExpiresStep == ASSUME Inv, TombExpires PROVE Step
<1>1. CliOK'
  BY Zenon, Parts DEF TombExpires, CliOK, Live, ClientCall
<1>2. NetOK'
  BY Parts, ReachedKept DEF TombExpires, NetOK, ServerSide
<1> QED BY <1>1, <1>2, Parts, SrvKept, QuietStep DEF TombExpires, ServerSide

-----------------------------------------------------------------------------
(***************************************************************************)
(* The client's handling of a frame.                                       *)
(***************************************************************************)
LEMMA RstForFrame == ASSUME Inv, NEW f \in net PROVE ClientOut({RstFor(f)})
  BY Parts DEF NetOK, ClientOut, RstFor, F, Frame, ClientFrames

LEMMA OnResetStep == ASSUME Inv, NEW f \in net, OnReset(f) PROVE Step
<1>0. UNCHANGED <<kind, asked, ServerSide>>
  BY DEF OnReset
<1>1. CASE UNCHANGED ClientSide /\ Delivered(f, {})
  <2>1. NetOK'
    BY <1>0, <1>1, DeliveredSubset, Parts, ClientNet DEF ClientOut, ServerSide
  <2> QED BY <1>0, <1>1, <2>1, Parts, SrvKept, CliKept, QuietStep DEF ServerSide, ClientSide
<1>2. CASE /\ Live /\ cl' = finishReset /\ Ends("failed") /\ UNCHANGED ce
           /\ Delivered(f, AbortFrame(cl))
  BY <1>0, <1>2, DeliveredSubset, AbortStep DEF finishReset
<1>3. CASE ~Live /\ cl' = clearTombAbort /\ UNCHANGED <<ce, outcome>> /\ Delivered(f, {})
  <2>1. CliOK'
    <3>1. CASE cl.phase = "idle"
      <4>1. cl = NoCall /\ cl' = cl
        BY <1>3, <3>1, Parts DEF CliOK, clearTombAbort, NoCall
      <4> QED BY <1>0, <1>3, <4>1, Parts, CliKept DEF ClientSide
    <3>2. CASE cl.phase # "idle"
      BY Zenon, <1>0, <1>3, <3>2, Parts DEF CliOK, clearTombAbort, Live, ClientCall
    <3> QED BY <3>1, <3>2
  <2>2. NetOK'
    BY <1>0, <1>3, DeliveredSubset, Parts, ClientNet DEF ClientOut, ServerSide
  <2> QED BY <1>0, <1>3, <2>1, <2>2, Parts, SrvKept, QuietStep DEF ServerSide
<1> QED BY <1>1, <1>2, <1>3 DEF OnReset

LEMMA OnProbeStep == ASSUME Inv, NEW f \in net, OnProbe(f) PROVE Step
<1>1. PICK out : out \in {{}, {RstFor(f)}} /\ Delivered(f, out)
  BY DEF OnProbe
<1>2. ClientOut(out)
  BY <1>1, RstForFrame DEF ClientOut
<1>3. NetOK'
  BY <1>1, <1>2, DeliveredSubset, Parts, ClientNet DEF OnProbe, ServerSide
<1> QED BY <1>3, Parts, SrvKept, CliKept, QuietStep DEF OnProbe, ServerSide, ClientSide

\* A frame of a call this incarnation does not have.
LEMMA StrayStep ==
  ASSUME Inv, NEW f \in net, UNCHANGED <<kind, asked, ClientSide, ServerSide>>,
         Delivered(f, {RstFor(f)})
  PROVE  Step
<1>1. NetOK'
  BY RstForFrame, DeliveredSubset, Parts, ClientNet DEF ServerSide
<1> QED BY <1>1, Parts, SrvKept, CliKept, QuietStep DEF ServerSide, ClientSide

LEMMA OnHeaderStep == ASSUME Inv, NEW f \in net, OnHeader(f) PROVE Step
<1>1. CASE UNCHANGED ClientSide /\ Delivered(f, {RstFor(f)})
  BY <1>1, StrayStep DEF OnHeader
<1>2. CASE /\ ~(Foreign(f) \/ cl.phase \in {"idle", "gone"})
           /\ cl' \in {cl, Accepts(f)} /\ UNCHANGED <<ce, outcome>> /\ Delivered(f, {})
  <2>1. CliOK'
    BY Zenon, <1>2, Parts DEF OnHeader, CliOK, Accepts, Live, ClientCall, NetOK, Frame
  <2>2. NetOK'
    BY <1>2, DeliveredSubset, Parts, ClientNet DEF OnHeader, ClientOut, ServerSide
  <2> QED BY <1>2, <2>1, <2>2, Parts, SrvKept, QuietStep DEF OnHeader, ServerSide
<1> QED BY <1>1, <1>2 DEF OnHeader

\* The step the argument is about: the verdict in the frame was reached.
LEMMA OnTerminalStep == ASSUME Inv, NEW f \in net, OnTerminal(f) PROVE Step
<1>0. UNCHANGED <<kind, asked, ServerSide>> /\ f.t = "T"
  BY DEF OnTerminal
<1>1. CASE UNCHANGED ClientSide /\ Delivered(f, {RstFor(f)})
  BY <1>0, <1>1, StrayStep
<1>2. CASE /\ cl.phase # "idle" /\ Delivered(f, {}) /\ UNCHANGED <<ce, outcome>>
           /\ cl' = cl \/ (~Live /\ cl' = clearTombAbort)
  <2>1. CliOK'
    BY Zenon, <1>0, <1>2, Parts DEF CliOK, clearTombAbort, Live, ClientCall
  <2>2. NetOK'
    BY <1>0, <1>2, DeliveredSubset, Parts, ClientNet DEF ClientOut, ServerSide
  <2> QED BY <1>0, <1>2, <2>1, <2>2, Parts, SrvKept, QuietStep DEF ServerSide
<1>3. CASE /\ Live /\ ~Foreign(f) /\ ~LockedOut(f) /\ Delivered(f, {})
           /\ cl' = Retired(Accepts(f)) /\ Ends(f.v) /\ UNCHANGED ce
  <2>1. /\ f.se \in Srv /\ Reached(f.se, ce, f.v) /\ f.v \in Exch!Verdict
        /\ ce \in Caller /\ outcome[ce] = "none"
        /\ outcome \in [Caller -> {"none"} \cup LocalEnd \cup Exch!Verdict]
    BY <1>0, <1>3, Parts DEF NetOK, CliOK, Frame, Foreign, Live
  <2>2. Accepts(f).abort \in BOOLEAN
    BY Parts DEF CliOK, Accepts, ClientCall
  <2>3. CliOK'
    BY <1>0, <1>3, <2>1, <2>2, Parts, RetiredCli
  <2>4. NetOK'
    BY <1>0, <1>3, DeliveredSubset, Parts, ClientNet DEF ClientOut, ServerSide
  <2>5. Inv'
    <3>1. kind' \in {"unary", "stream"} /\ SrvOK'
      BY <1>0, Parts, SrvKept
    <3>2. (kind \in {"unary", "stream"} /\ NetOK /\ CliOK /\ SrvOK)' => Inv'
      BY Parts, PTL
    <3> QED BY <2>3, <2>4, <3>1, <3>2
  <2>6. outcome' = [outcome EXCEPT ![ce] = f.v]
    BY <1>3, <2>1 DEF Ends
  <2>7. [Exch!Next]_(Exch!exchange)
    <3>1. PICK m \in Memory : fate[m][ce] = f.v
      BY <2>1 DEF Reached, Memory
    <3> QED BY Zenon, <1>0, <2>1, <2>6, <3>1 DEF Exch!Next, Exch!exchange, Exch!Report, ServerSide
  <2>8. LockStep
    BY <1>3, <2>1, <2>6 DEF LockStep, LockedOut
  <2> QED BY <2>5, <2>7, <2>8 DEF Step
<1> QED BY <1>1, <1>2, <1>3 DEF OnTerminal

-----------------------------------------------------------------------------
(***************************************************************************)
(* The server's steps.                                                     *)
(***************************************************************************)

\* What the server sends about call c: a terminal only with its fate.
ServerOut(c, out) ==
  \A f \in out : /\ f \in Frame /\ (f.t = "T") = (f.v # "none") /\ f.t # "OPEN"
                 /\ f.t = "T" => f.ce = c /\ f.se = se /\ f.v = fate'[Mem(c)][c]

\* An entry that tells the fate of its call.
Tells(e, v) ==
  /\ e \in Entry /\ (e.know = "tomb") = (e.term # "none")
  /\ (e.know = "unknown") = (v = "none")
  /\ (e.know = "live") = (v = "running")
  /\ e.know = "tomb" => v = e.term

\* The fate of one call moves on, or stays, and its entry with it.
LEMMA ServerStep ==
  ASSUME Inv, NEW c \in Caller, NEW e,
         NEW v \in {"none", "running", "dropped"} \cup Exch!Verdict, Tells(e, v),
         \/ v = fate[Mem(c)][c]
         \/ fate[Mem(c)][c] = "none" /\ c \in asked /\ v \in {"running", "rejected"}
         \/ fate[Mem(c)][c] = "running" /\ v \in {"ok", "error", "dropped"},
         sv' = [sv EXCEPT ![c] = e], fate' = [fate EXCEPT ![Mem(c)][c] = v],
         NEW out, net' \subseteq net \cup out, ServerOut(c, out),
         UNCHANGED <<kind, se, life, asked, ClientSide>>
  PROVE  Step
<1>0. /\ NetOK /\ SrvOK /\ CliOK /\ se \in Srv
      /\ fate \in [Memory -> [Caller -> {"none", "running", "dropped"} \cup Exch!Verdict]]
  BY Parts DEF SrvOK
<1>1. /\ fate' \in [Memory -> [Caller -> {"none", "running", "dropped"} \cup Exch!Verdict]]
      /\ \A m \in Memory, d \in Caller :
           fate'[m][d] = IF m = Mem(c) /\ d = c THEN v ELSE fate[m][d]
  BY <1>0, MemOf
<1>2. SrvOK'
  <2>1. sv' \in [Caller -> Entry] /\ \A d \in Caller : sv'[d] = IF d = c THEN e ELSE sv[d]
    BY <1>0 DEF SrvOK, Tells
  <2>2. se' = se /\ life' = life /\ \A d \in Caller : Mem(d)' = Mem(d) /\ Mem(d) \in Memory
    BY <1>0, MemKept, MemOf
  <2>3. ASSUME NEW d \in Caller, NEW s \in Srv, NEW l \in Life, s > se \/ (s = se /\ l > life[d])
        PROVE  fate'[<<s, l>>][d] = "none"
    <3>1. <<s, l>> \in Memory /\ fate[<<s, l>>][d] = "none"
      BY <1>0, <2>3 DEF SrvOK, Memory
    <3>2. d = c => <<s, l>> # Mem(c)
      BY <1>0, <2>3, MemOf DEF Mem, Srv, Life
    <3> QED BY <1>1, <3>1, <3>2
  <2>4. \A d \in Caller : fate'[Mem(d)][d] = IF d = c THEN v ELSE fate[Mem(d)][d]
    BY <1>1, <2>2
  <2> QED BY <1>0, <1>1, <2>1, <2>2, <2>3, <2>4 DEF SrvOK, Tells
<1>3. NetOK'
  <2> SUFFICES ASSUME NEW f \in net'
               PROVE  /\ f \in Frame /\ (f.t = "T") = (f.v # "none")
                      /\ f.t = "T" => f.se \in Srv /\ Reached(f.se, f.ce, f.v)'
                      /\ f.t = "OPEN" => f.ce \in asked'
    BY DEF NetOK
  <2>1. CASE f \in out
    BY <1>0, <2>1, MemOf DEF ServerOut, Reached, Mem
  <2>2. CASE f \in net
    <3>1. f \in Frame /\ (f.t = "T") = (f.v # "none") /\ (f.t = "OPEN" => f.ce \in asked')
      BY <1>0, <2>2 DEF NetOK
    <3>2. ASSUME f.t = "T" PROVE f.se \in Srv /\ Reached(f.se, f.ce, f.v)'
      <4>1. /\ f.se \in Srv /\ Reached(f.se, f.ce, f.v) /\ f.ce \in Caller
            /\ f.v \in Exch!Verdict
        BY <1>0, <2>2, <3>1, <3>2 DEF NetOK, Frame
      <4>2. PICK l \in Life : fate[<<f.se, l>>][f.ce] = f.v
        BY <4>1 DEF Reached
      <4>3. <<f.se, l>> \in Memory
        BY <4>1 DEF Memory
      <4>4. fate'[<<f.se, l>>][f.ce] = f.v
        BY <1>1, <4>1, <4>2, <4>3 DEF Exch!Verdict
      <4> QED BY <4>1, <4>4 DEF Reached
    <3> QED BY <3>1, <3>2
  <2> QED BY <2>1, <2>2
<1>4. CliOK'
  BY <1>0, CliKept
<1>5. Inv'
  <2>1. kind' \in {"unary", "stream"}
    BY Parts
  <2>2. (kind \in {"unary", "stream"} /\ NetOK /\ CliOK /\ SrvOK)' => Inv'
    BY Parts, PTL
  <2> QED BY <1>2, <1>3, <1>4, <2>1, <2>2
<1>6. [Exch!Next]_(Exch!exchange)
  <2>1. UNCHANGED <<asked, outcome>>
    BY DEF ClientSide
  <2>2. CASE v = fate[Mem(c)][c]
    <3>1. fate' = fate
      BY <1>0, <2>2, MemOf
    <3> QED BY <2>1, <3>1 DEF Exch!exchange
  <2>3. CASE fate[Mem(c)][c] = "none" /\ c \in asked /\ v \in {"running", "rejected"}
    BY Zenon, <1>0, <2>1, <2>3, MemOf DEF Exch!Next, Exch!Take
  <2>4. CASE fate[Mem(c)][c] = "running" /\ v \in {"ok", "error", "dropped"}
    BY Zenon, <1>0, <2>1, <2>4, MemOf DEF Exch!Next, Exch!Decide
  <2> QED BY <2>2, <2>3, <2>4
<1>7. LockStep
  BY <1>0 DEF LockStep, CliOK, Live, ClientSide, Exch!Verdict
<1> QED BY <1>5, <1>6, <1>7 DEF Step

LEMMA EntryTells == ASSUME Inv, NEW c \in Caller PROVE Tells(sv[c], fate[Mem(c)][c])
  BY Parts DEF SrvOK, Tells

\* The frames of the server that are no terminals, and the terminal replayed.
LEMMA PlainReplies ==
  ASSUME Inv, NEW c \in Caller,
         NEW out, out \subseteq {HFor(c), SrvRst(c), SrvPing(c)}
  PROVE  ServerOut(c, out)
<1>1. se \in Srv
  BY Parts DEF SrvOK
<1> QED BY <1>1 DEF ServerOut, HFor, SrvRst, SrvPing, F, Frame, ServerFrames

LEMMA TerminalReply ==
  ASSUME Inv, NEW c \in Caller, NEW v \in Exch!Verdict, fate'[Mem(c)][c] = v
  PROVE  ServerOut(c, {TFor(c, v)})
<1>1. se \in Srv
  BY Parts DEF SrvOK
<1> QED BY <1>1 DEF ServerOut, TFor, F, Frame, ServerFrames, Exch!Verdict

\* A step that changes the entry of c without changing its fate.
LEMMA SameFate ==
  ASSUME Inv, NEW c \in Caller, NEW e, Tells(e, fate[Mem(c)][c]),
         sv' = [sv EXCEPT ![c] = e], fate' = fate,
         NEW out, net' \subseteq net \cup out, ServerOut(c, out),
         UNCHANGED <<kind, se, life, asked, ClientSide>>
  PROVE  Step
<1>1. /\ fate \in [Memory -> [Caller -> {"none", "running", "dropped"} \cup Exch!Verdict]]
      /\ Mem(c) \in Memory
  BY Parts, MemOf DEF SrvOK
<1>2. /\ fate' = [fate EXCEPT ![Mem(c)][c] = fate[Mem(c)][c]]
      /\ fate[Mem(c)][c] \in {"none", "running", "dropped"} \cup Exch!Verdict
  BY <1>1
<1> QED BY Zenon, <1>2, ServerStep

\* A frame about call f.ce that leaves its fate: the entry e, the replies out.
LEMMA KeepsStep ==
  ASSUME Inv, NEW f \in net, NEW e, Tells(e, fate[Mem(f.ce)][f.ce]), NEW out,
         Keeps(f, e, out), ServerOut(f.ce, out)
  PROVE  Step
<1>1. f.ce \in Caller /\ Mem(f.ce) \in Memory
      /\ fate \in [Memory -> [Caller -> {"none", "running", "dropped"} \cup Exch!Verdict]]
  BY Parts, MemOf DEF NetOK, Frame, SrvOK
<1>2. fate[Mem(f.ce)][f.ce] \in {"none", "running", "dropped"} \cup Exch!Verdict
  BY <1>1
<1> QED BY Zenon, <1>1, <1>2, DeliveredSubset, ServerStep DEF Keeps, Settles

\* The stored terminal of a tombstone is its fate.
LEMMA ReplayReplies ==
  ASSUME Inv, NEW f \in net, fate'[Mem(f.ce)][f.ce] = fate[Mem(f.ce)][f.ce]
  PROVE  ServerOut(f.ce, Replay(f.ce))
<1>1. f.ce \in Caller
  BY Parts DEF NetOK, Frame
<1>2. CASE Known(f.ce) = "tomb"
  <2>1. sv[f.ce].term \in Exch!Verdict /\ fate[Mem(f.ce)][f.ce] = sv[f.ce].term
    BY <1>1, <1>2, EntryTells DEF Tells, Known, Entry
  <2> QED BY <1>1, <1>2, <2>1, TerminalReply DEF Replay
<1>3. CASE Known(f.ce) # "tomb"
  BY <1>3 DEF Replay, ServerOut
<1> QED BY <1>2, <1>3

LEMMA KeptFate ==
  ASSUME Inv, NEW f \in net, NEW e, NEW out, Keeps(f, e, out)
  PROVE  f.ce \in Caller /\ fate'[Mem(f.ce)][f.ce] = fate[Mem(f.ce)][f.ce]
<1>1. f.ce \in Caller /\ Mem(f.ce) \in Memory
      /\ fate \in [Memory -> [Caller -> {"none", "running", "dropped"} \cup Exch!Verdict]]
  BY Parts, MemOf DEF NetOK, Frame, SrvOK
<1> QED BY <1>1 DEF Keeps, Settles

\* A new call: taken, rejected, or refused while draining.
LEMMA openStep ==
  ASSUME Inv, NEW f \in net, f.t = "OPEN", Known(f.ce) = "unknown", open(f)
  PROVE  Step
<1> DEFINE e == [NoEntry EXCEPT !.know = "live", !.hdr = (kind = "stream")]
           r == [NoEntry EXCEPT !.know = "tomb", !.term = "rejected", !.held = sv[f.ce].held]
           hs == IF kind = "stream" THEN {HFor(f.ce)} ELSE {}
<1>1. /\ f.ce \in Caller /\ f.ce \in asked /\ Mem(f.ce) \in Memory /\ sv[f.ce] \in Entry
      /\ fate[Mem(f.ce)][f.ce] = "none"
      /\ fate \in [Memory -> [Caller -> {"none", "running", "dropped"} \cup Exch!Verdict]]
  BY Parts, MemOf DEF NetOK, Frame, SrvOK, Known
<1>2. CASE Settles(f, e, "running", hs)
  <2>1. Tells(e, "running")
    BY Zenon DEF Tells, NoEntry, Entry
  <2>2. ServerOut(f.ce, hs)
    BY <1>1, PlainReplies
  <2> QED BY Zenon, <1>1, <1>2, <2>1, <2>2, DeliveredSubset, ServerStep DEF Settles
<1>3. CASE Settles(f, r, "rejected", {TFor(f.ce, "rejected")})
  <2>1. Tells(r, "rejected")
    BY Zenon, <1>1 DEF Tells, NoEntry, Entry, Exch!Verdict
  <2>2. fate'[Mem(f.ce)][f.ce] = "rejected"
    BY <1>1, <1>3 DEF Settles
  <2>3. ServerOut(f.ce, {TFor(f.ce, "rejected")})
    BY Zenon, <1>1, <2>2, TerminalReply DEF Exch!Verdict
  <2> QED BY Zenon, <1>1, <1>3, <2>1, <2>3, DeliveredSubset, ServerStep DEF Settles, Exch!Verdict
<1>4. CASE Keeps(f, sv[f.ce], {SrvRst(f.ce)})
  BY <1>1, <1>4, EntryTells, PlainReplies, KeepsStep
<1> QED BY <1>2, <1>3, <1>4 DEF open

LEMMA OnOpenStep == ASSUME Inv, NEW f \in net, OnOpen(f) PROVE Step
<1>1. f.ce \in Caller
  BY Parts DEF NetOK, Frame
<1>2. CASE Known(f.ce) = "unknown" /\ open(f)
  BY <1>2, openStep DEF OnOpen
<1>3. ASSUME NEW out \in SUBSET {HFor(f.ce), SrvRst(f.ce)}, Keeps(f, sv[f.ce], out) PROVE Step
  BY <1>1, <1>3, EntryTells, PlainReplies, KeepsStep
<1>4. CASE Keeps(f, sv[f.ce], Replay(f.ce))
  BY <1>1, <1>4, EntryTells, KeptFate, ReplayReplies, KeepsStep
<1> QED BY <1>2, <1>3, <1>4 DEF OnOpen

LEMMA OnCloseStep == ASSUME Inv, NEW f \in net, OnClose(f) PROVE Step
<1>1. f.ce \in Caller /\ Tells(sv[f.ce], fate[Mem(f.ce)][f.ce])
  BY Parts, EntryTells DEF NetOK, Frame
<1>2. CASE Keeps(f, Received(sv[f.ce], f.t), {})
  <2>1. Tells(Received(sv[f.ce], f.t), fate[Mem(f.ce)][f.ce])
    BY Zenon, <1>1 DEF Tells, Received, Entry
  <2> QED BY <1>2, <2>1, KeepsStep DEF ServerOut
<1>3. CASE Keeps(f, sv[f.ce], Replay(f.ce))
  BY <1>1, <1>3, KeptFate, ReplayReplies, KeepsStep
<1>4. CASE Keeps(f, [sv[f.ce] EXCEPT !.held = TRUE], {})
  <2>1. Tells([sv[f.ce] EXCEPT !.held = TRUE], fate[Mem(f.ce)][f.ce])
    BY Zenon, <1>1 DEF Tells, Entry
  <2> QED BY <1>4, <2>1, KeepsStep DEF ServerOut
<1> QED BY <1>2, <1>3, <1>4 DEF OnClose

LEMMA OnPingStep == ASSUME Inv, NEW f \in net, OnPing(f) PROVE Step
<1>1. f.ce \in Caller /\ Tells(sv[f.ce], fate[Mem(f.ce)][f.ce])
  BY Parts, EntryTells DEF NetOK, Frame
<1>2. CASE Known(f.ce) = "tomb" /\ Keeps(f, sv[f.ce], Replay(f.ce))
  BY <1>1, <1>2, KeptFate, ReplayReplies, KeepsStep
<1>3. ASSUME NEW out \in SUBSET {SrvRst(f.ce)}, Keeps(f, sv[f.ce], out) PROVE Step
  BY <1>1, <1>3, PlainReplies, KeepsStep
<1>4. CASE Known(f.ce) = "live"
  BY <1>3, <1>4 DEF OnPing
<1>5. CASE Known(f.ce) \notin {"live", "tomb"}
  BY <1>3, <1>5 DEF OnPing
<1> QED BY <1>2, <1>4, <1>5 DEF OnPing

LEMMA resetByPeerSidStep == ASSUME Inv, NEW f \in net, resetByPeerSid(f) PROVE Step
<1>1. f.ce \in Caller /\ Tells(sv[f.ce], fate[Mem(f.ce)][f.ce])
  BY Parts, EntryTells DEF NetOK, Frame
<1>2. PICK e : /\ Keeps(f, e, {})
               /\ e \in {sv[f.ce], [sv[f.ce] EXCEPT !.suppress = TRUE, !.cancelled = TRUE]}
  BY DEF resetByPeerSid
<1>3. Tells(e, fate[Mem(f.ce)][f.ce])
  BY Zenon, <1>1, <1>2 DEF Tells, Entry
<1> QED BY <1>2, <1>3, KeepsStep DEF ServerOut

\* A step of the server's own that leaves the fate of c.
LEMMA SrvStepStep ==
  ASSUME Inv, NEW c \in Caller, NEW e, Tells(e, fate[Mem(c)][c]), NEW out,
         SrvStep(c, e, out), UNCHANGED fate, ServerOut(c, out)
  PROVE  Step
  BY Zenon, PutSubset, SameFate DEF SrvStep

LEMMA finishStep == ASSUME Inv, NEW c \in Caller, finish(c) PROVE Step
<1> DEFINE key == [NoEntry EXCEPT !.know = "keyonly", !.held = sv[c].held]
           tomb(v) == [NoEntry EXCEPT !.know = "tomb", !.term = v, !.held = sv[c].held]
<1>1. /\ Mem(c) \in Memory /\ sv[c] \in Entry /\ fate[Mem(c)][c] = "running"
      /\ fate \in [Memory -> [Caller -> {"none", "running", "dropped"} \cup Exch!Verdict]]
  BY Parts, MemOf DEF SrvOK, Known, finish
<1>2. PICK v, o, e, out :
        /\ v \in Verdicts(c)
        /\ o \in {v, "dropped"} /\ e \in {key, tomb(v)} /\ out \in {{}, {TFor(c, v)}}
        /\ fate' = [fate EXCEPT ![Mem(c)][c] = o] /\ SrvStep(c, e, out)
        /\ o = "dropped" => e = key /\ out = {}
  <2>1. PICK v \in Verdicts(c) :
          IF sv[c].suppress
          THEN fate' = [fate EXCEPT ![Mem(c)][c] = "dropped"] /\ SrvStep(c, key, {})
          ELSE /\ fate' = [fate EXCEPT ![Mem(c)][c] = v]
               /\ SrvStep(c, tomb(v), {TFor(c, v)}) \/ SrvStep(c, key, {TFor(c, v)})
    BY Zenon DEF finish
  <2>2. v # "dropped"
    BY DEF Verdicts
  <2> HIDE DEF key, tomb
  <2> QED BY <2>1, <2>2
<1>3. v \in {"ok", "error"} /\ v \in Exch!Verdict /\ o \in {"ok", "error", "dropped"}
  BY <1>2 DEF Verdicts, Exch!Verdict
<1>4. Tells(e, o)
  <2>1. Tells(key, o)
    BY Zenon, <1>1, <1>3 DEF Tells, NoEntry, Entry
  <2>2. Tells(tomb(v), v)
    BY Zenon, <1>1, <1>3 DEF Tells, NoEntry, Entry
  <2> HIDE DEF key, tomb
  <2> QED BY <1>2, <2>1, <2>2
<1>5. fate'[Mem(c)][c] = o
  BY <1>1, <1>2
<1>6. ServerOut(c, out)
  <2>1. CASE out = {}
    BY <2>1 DEF ServerOut
  <2>2. CASE o = v /\ out = {TFor(c, v)}
    BY <1>3, <1>5, <2>2, TerminalReply
  <2> QED BY <1>2, <2>1, <2>2
<1>7. o \in {"none", "running", "dropped"} \cup Exch!Verdict
  BY <1>3 DEF Exch!Verdict
<1> HIDE DEF key, tomb
<1> QED BY Zenon, <1>1, <1>2, <1>3, <1>4, <1>6, <1>7, PutSubset, ServerStep DEF SrvStep

LEMMA ServerTurnStep ==
  ASSUME Inv, NEW c \in Caller, ServerTurn(c) \/ SrvProbe(c), ~Collected(c) PROVE Step
<1>1. Tells(sv[c], fate[Mem(c)][c])
  BY EntryTells
<1>2. PICK e, out :
        /\ SrvStep(c, e, out) /\ UNCHANGED fate /\ out \subseteq {HFor(c), SrvRst(c), SrvPing(c)}
        /\ \/ e = sv[c]
           \/ e = [sv[c] EXCEPT !.hdr = TRUE]
           \/ e = [sv[c] EXCEPT !.cancelled = TRUE]
           \/ e = [sv[c] EXCEPT !.suppress = TRUE, !.cancelled = TRUE]
           \/ e = [sv[c] EXCEPT !.held = FALSE]
           \/ sv[c].know = "tomb" /\ e = [sv[c] EXCEPT !.know = "keyonly", !.term = "none"]
           \/ /\ sv[c].know \in {"tomb", "keyonly"}
              /\ e = [NoEntry EXCEPT !.know = "aged", !.held = sv[c].held]
  <2>1. CASE sendHeader(c)
    BY <2>1 DEF sendHeader
  <2>2. CASE CallTimeout(c)
    BY <2>2 DEF CallTimeout
  <2>3. CASE PeerLost(c)
    BY <2>3 DEF PeerLost, Known
  <2>4. CASE SrvTombExpires(c)
    BY <2>4 DEF SrvTombExpires, Known
  <2>5. CASE HeldReset(c)
    BY <2>5 DEF HeldReset
  <2>6. CASE SrvProbe(c)
    BY <2>6 DEF SrvProbe
  <2> QED BY <2>1, <2>2, <2>3, <2>4, <2>5, <2>6 DEF ServerTurn
<1>3. Tells(e, fate[Mem(c)][c])
  <2>1. CASE /\ sv[c].know \in {"tomb", "keyonly"}
             /\ e = [NoEntry EXCEPT !.know = "aged", !.held = sv[c].held]
    BY Zenon, <1>1, <2>1 DEF Tells, Entry, NoEntry, Exch!Verdict
  <2>2. CASE sv[c].know = "tomb" /\ e = [sv[c] EXCEPT !.know = "keyonly", !.term = "none"]
    BY Zenon, <1>1, <2>2 DEF Tells, Entry, Exch!Verdict
  <2> QED BY Zenon, <1>1, <1>2, <2>1, <2>2 DEF Tells, Entry
<1> QED BY <1>2, <1>3, PlainReplies, SrvStepStep

-----------------------------------------------------------------------------
(***************************************************************************)
(* The environment's steps.                                                *)
(***************************************************************************)
\* The container goes: the next life of it knows nothing and has run nothing.
LEMMA CollectedStep == ASSUME Inv, NEW c \in Caller, Collected(c) PROVE Step
<1> DEFINE e == [NoEntry EXCEPT !.held = sv[c].held]
<1>0. /\ NetOK /\ CliOK /\ SrvOK /\ UNCHANGED <<kind, net, asked, fate, ClientSide>>
      /\ se' = se /\ se \in Srv /\ sv[c] \in Entry /\ life \in [Caller -> Life]
  BY Parts DEF Collected, SrvOK
<1>1. e \in Entry /\ e.know = "unknown" /\ e.term = "none"
  BY Zenon, <1>0 DEF NoEntry, Entry
<1>2. life[c] + 1 \in Life /\ life' = [life EXCEPT ![c] = life[c] + 1] /\ life[c] \in Nat
  BY <1>0, CallAssumption DEF Collected, Life
<1>3. sv' = [sv EXCEPT ![c] = e]
  BY DEF Collected
<1> HIDE DEF e
<1>4. SrvOK'
  <2>1. sv' \in [Caller -> Entry] /\ life' \in [Caller -> Life]
    BY <1>0, <1>1, <1>2, <1>3 DEF SrvOK
  <2>2. \A d \in Caller : d # c => sv'[d] = sv[d] /\ Mem(d)' = Mem(d) /\ life'[d] = life[d]
    BY <1>0, <1>2, <1>3 DEF SrvOK, Mem
  <2>3. sv'[c] = e /\ life'[c] = life[c] + 1 /\ Mem(c)' = <<se, life[c] + 1>>
    BY <1>0, <1>2, <1>3 DEF SrvOK, Mem
  <2>4. fate[Mem(c)'][c] = "none"
    <3>1. life[c] + 1 > life[c]
      BY <1>2
    <3> QED BY <1>0, <1>2, <2>3, <3>1 DEF SrvOK
  <2>5. \A s \in Srv, l \in Life :
          s > se \/ (s = se /\ l > life[c] + 1) => fate[<<s, l>>][c] = "none"
    <3>1. \A l \in Life : l > life[c] + 1 => l > life[c]
      BY <1>2 DEF Life
    <3> QED BY <1>0, <3>1 DEF SrvOK
  <2> DEFINE Held(d) ==
        /\ (sv[d].know = "tomb") = (sv[d].term # "none")
        /\ (sv[d].know = "unknown") = (fate[Mem(d)][d] = "none")
        /\ (sv[d].know = "live") = (fate[Mem(d)][d] = "running")
        /\ sv[d].know = "tomb" => fate[Mem(d)][d] = sv[d].term
  <2>6. \A d \in Caller : d # c => Held(d)'
    BY <1>0, <2>2 DEF SrvOK
  <2>7. Held(c)'
    <3>1. e = sv'[c] /\ fate'[Mem(c)'][c] = "none"
      BY <1>0, <2>3, <2>4
    <3> QED BY <1>1, <3>1
  <2>8. \A d \in Caller, s \in Srv, l \in Life :
          s > se \/ (s = se /\ l > life'[d]) => fate[<<s, l>>][d] = "none"
    BY <1>0, <2>2, <2>3, <2>5 DEF SrvOK
  <2>9. \A d \in Caller : Held(d)'
    BY <2>6, <2>7
  <2> QED BY <1>0, <2>1, <2>8, <2>9 DEF SrvOK
<1>5. NetOK'
  BY <1>0, ReachedKept DEF NetOK
<1> QED BY <1>0, <1>4, <1>5, CliKept, QuietStep DEF ClientSide

LEMMA ServerRestartStep == ASSUME Inv, ServerRestart PROVE Step
<1>0. NetOK /\ CliOK /\ SrvOK /\ UNCHANGED <<kind, net, asked, fate, ClientSide>>
  BY Parts DEF ServerRestart
<1>1. se \in Nat /\ se' = se + 1 /\ se' \in Srv
  BY <1>0, CallAssumption DEF ServerRestart, SrvOK, Srv
<1>2. sv' = [c \in Caller |-> NoEntry] /\ NoEntry \in Entry
  BY DEF ServerRestart, NoEntry, Entry
<1>3. SrvOK'
  <2>1. life' \in [Caller -> Life]
    BY CallAssumption DEF ServerRestart, Life
  <2>2. \A c \in Caller, s \in Srv, l \in Life : s >= se' => fate[<<s, l>>][c] = "none"
    <3>1. \A s \in Srv : s >= se' => s > se
      BY <1>1 DEF Srv
    <3> QED BY <1>0, <3>1 DEF SrvOK
  <2>4. \A c \in Caller : fate[Mem(c)'][c] = "none"
    BY <1>1, <2>1, <2>2 DEF Mem
  <2>5. \A s \in Srv : (s > se' => s >= se') /\ (s = se' => s >= se')
    BY <1>1 DEF Srv
  <2>3. \A c \in Caller : sv'[c] = NoEntry /\ NoEntry.know = "unknown" /\ NoEntry.term = "none"
    BY <1>2 DEF NoEntry
  <2> QED BY <1>0, <1>1, <1>2, <2>1, <2>2, <2>3, <2>4, <2>5 DEF SrvOK
<1>4. NetOK'
  BY <1>0, ReachedKept DEF NetOK
<1> QED BY <1>0, <1>3, <1>4, CliKept, QuietStep DEF ClientSide

LEMMA ClientRestartStep == ASSUME Inv, ClientRestart PROVE Step
<1>0. NetOK /\ CliOK /\ SrvOK /\ UNCHANGED <<kind, net, asked, ServerSide>>
  BY Parts DEF ClientRestart
<1>1. ce \in Nat /\ ce' = ce + 1 /\ ce' \in Client /\ cl' = NoCall
  BY <1>0, CallAssumption DEF ClientRestart, CliOK, Client
<1>2. \A c \in Caller : c \in Nat /\ (c > ce' => c > ce) /\ (c = ce' => c > ce) /\ (c > ce => c # ce)
  BY <1>1, CallAssumption
<1>3. CliOK'
  <2>1. NoCall \in ClientCall /\ NoCall.phase = "idle" /\ ~NoCall.retxOpen
    BY DEF NoCall, ClientCall
  <2>2. /\ outcome' \in [Caller -> {"none"} \cup LocalEnd \cup Exch!Verdict]
        /\ \A c \in Caller : c > ce => outcome'[c] = "none"
    BY <1>0, <1>2 DEF ClientRestart, CliOK, LocalEnd
  <2> QED BY <1>0, <1>1, <1>2, <2>1, <2>2 DEF CliOK, Live
<1>4. NetOK'
  BY <1>0, ReachedKept DEF NetOK, ServerSide
<1>5. CASE Live
  BY <1>0, <1>3, <1>4, <1>5, SrvKept, FailedStep DEF ClientRestart, Ends, Live, ServerSide
<1>6. CASE ~Live
  BY <1>0, <1>3, <1>4, <1>6, SrvKept, QuietStep DEF ClientRestart, Live, ServerSide
<1> QED BY <1>5, <1>6

LEMMA LoseStep == ASSUME Inv, Lose PROVE Step
<1>1. NetOK'
  BY Parts, ReachedKept DEF Lose, NetOK, ServerSide
<1> QED BY <1>1, Parts, SrvKept, CliKept, QuietStep DEF Lose, ServerSide, ClientSide

LEMMA StutterStep == ASSUME Inv, UNCHANGED vars PROVE Step
<1>1. UNCHANGED <<kind, asked, ClientSide, ServerSide>> /\ net' = net
  BY DEF vars, ClientSide, ServerSide
<1>2. NetOK'
  BY <1>1, Parts, ReachedKept DEF NetOK, ServerSide
<1> QED BY <1>1, <1>2, Parts, SrvKept, CliKept, QuietStep DEF ServerSide, ClientSide

LEMMA NextStep == ASSUME Inv, [Next]_vars PROVE Step
<1>1. CASE \E f \in net : Handle(f)
  BY <1>1, OnResetStep, OnProbeStep, OnHeaderStep, OnTerminalStep, OnOpenStep, OnCloseStep,
     OnPingStep, resetByPeerSidStep DEF Handle
<1>2. CASE ClientTurn \/ sweepRetx \/ probeDue
  BY <1>2, createStreamStep, sendRawStep, OpenRefusedStep, closeSendStep, cancelStep,
     TombExpiresStep, sweepRetxStep, probeDueStep DEF ClientTurn
<1>3. CASE \E c \in Caller : ServerTurn(c) \/ finish(c) \/ SrvProbe(c)
  BY <1>3, ServerTurnStep, CollectedStep, finishStep
<1>4. CASE ServerRestart \/ ClientRestart \/ Lose
  BY <1>4, ServerRestartStep, ClientRestartStep, LoseStep
<1> QED BY <1>1, <1>2, <1>3, <1>4, StutterStep DEF Next

-----------------------------------------------------------------------------
(***************************************************************************)
(* The results.                                                            *)
(***************************************************************************)

\* Every reachable state is well typed. In particular the server stores a
\* terminal for exactly the calls it has finished, and exactly the terminals in
\* flight carry a verdict (open, finish, rejectOpen, PeerLost).
THEOREM CallTypeCorrect == Spec => []TypeOK
<1>1. Inv /\ [Next]_vars => Inv'
  BY NextStep DEF Step
<1> QED BY InitInv, <1>1, PTL DEF Spec, Inv

\* A terminal in flight says what its incarnation decided on its call, and one
\* stored in a tombstone what this life of the container decided, whatever is lost,
\* duplicated, delayed, restarted or collected (finish, rejectOpen, the replays of
\* handle, the container collection of sweep and the eviction of ensurePeer).
THEOREM TerminalsAgree == Spec => []Agreement
<1>1. Inv /\ [Next]_vars => Inv'
  BY NextStep DEF Step
<1> QED BY InitInv, <1>1, PTL DEF Spec, Inv

\* The protocol implements the exchange: a server incarnation takes a call at
\* most once in each life of its container (again only after sweep has collected
\* or ensurePeer evicted it), and the client reports nothing a server did not
\* decide on that very call.
THEOREM ImplementsExchange == Spec => Implements
<1>1. Inv /\ [Next]_vars => Inv' /\ [Exch!Next]_(Exch!exchange)
  BY NextStep DEF Step
<1> QED BY InitInv, <1>1, PTL DEF Spec, Implements, Exch!Spec

\* A call that has heard one server incarnation is never answered by another
\* (the epoch lock of handleRx).
THEOREM LockIsKept == Spec => LockHolds
<1>1. Inv /\ [Next]_vars => Inv' /\ [LockStep]_vars
  BY NextStep DEF Step
<1>2. [LockStep]_vars <=> [Live /\ cl.lock # 0 /\ outcome'[ce] \in Exch!Verdict
                             => Reached(cl.lock, ce, outcome'[ce])]_vars
  BY DEF LockStep
<1> QED BY InitInv, <1>1, <1>2, PTL DEF Spec, LockHolds
=============================================================================
